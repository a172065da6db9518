----------------------------- MODULE SyncArtifacts ------------------------------
(***************************************************************************)
(* The target sync-upstream of the Makefile and the script behind it,      *)
(* scripts/sync_upstream_artifacts.py: the artifacts of all families are   *)
(* generated from the upstream sources into a temporary directory,         *)
(* validated there, and then copied over the checked-in ones.              *)
(*                                                                         *)
(* The content of an artifact is the revision it was generated from.       *)
(***************************************************************************)
EXTENDS Naturals, Sequences, Functions

CONSTANTS
  Families,       \* FAMILY_SPECS, in order
  MaxRevisions,   \* bound: revisions of the upstream sources and the generators
  MaxTargets,     \* bound: targets started
  MayKill,        \* TRUE if a target may be interrupted
  Torn            \* the content of a half written file

ASSUME SyncConstants ==
  /\ Families # <<>> /\ Families \in Seq(Range(Families))
  /\ MaxRevisions \in Nat
  /\ MaxTargets \in Nat
  /\ MayKill \in BOOLEAN
  /\ Torn \notin Nat

VARIABLES
  upstream,    \* [revision, broken, tests]: families whose generation or validation
               \* fails, and whether the regression passes with what it generates
  artifacts,   \* suites/templates and suites/manifests
  job,         \* the target in progress
  last,        \* how the last target ended
  interrupted  \* history: a target was interrupted while it copied, none copied all since

vars == <<upstream, artifacts, job, last, interrupted>>

Parts == <<"template", "inventory", "manifest">>
Files == Range(Families) \X Range(Parts)

\* The order of apply_staged_artifacts.
Copies == [i \in 1..(Len(Families) * Len(Parts)) |->
            <<Families[1 + (i - 1) \div Len(Parts)], Parts[1 + ((i - 1) % Len(Parts))]>>]

Idle == [phase |-> "idle"]

Init ==
  /\ upstream = [revision |-> 0, broken |-> {}, tests |-> TRUE]
  /\ artifacts = [f \in Files |-> 0]
  /\ job = Idle
  /\ last = [number |-> 0]
  /\ interrupted = FALSE

\* The submodule or a generator changes.
Revise ==
  /\ job.phase = "idle"
  /\ upstream.revision < MaxRevisions
  /\ \E broken \in SUBSET Range(Families), tests \in BOOLEAN :
       upstream' = [revision |-> upstream.revision + 1, broken |-> broken, tests |-> tests]
  /\ UNCHANGED <<artifacts, job, last, interrupted>>

\* Both targets begin with a check-only run of the script.
Start(checkOnly) ==
  /\ job.phase = "idle"
  /\ last.number < MaxTargets
  /\ job' = [phase |-> "generate", number |-> last.number + 1, checkOnly |-> checkOnly,
             applies |-> FALSE, next |-> 1, failed |-> FALSE,
             regression |-> TRUE, before |-> artifacts]
  /\ UNCHANGED <<upstream, artifacts, last, interrupted>>

\* One family after another is generated into the staging directory.
Generate ==
  /\ job.phase = "generate"
  /\ job.next <= Len(Families)
  /\ Families[job.next] \notin upstream.broken
  /\ job' = [job EXCEPT !.next = @ + 1]
  /\ UNCHANGED <<upstream, artifacts, last, interrupted>>

\* Faulty variant: the script goes on where its first run stopped.
ScriptEndsOnce(ok) ==
  job' = [job EXCEPT !.failed = @ \/ ~ok, !.next = @ + 1, !.applies = ~job.checkOnly,
            !.phase = IF job.checkOnly THEN "exit"
                      ELSE IF job.applies THEN "unittest" ELSE "generate"]

\* The end of one run of the script, and what the recipe does next.
ScriptEnds(ok) ==
  job' = [job EXCEPT !.failed = @ \/ ~ok, !.next = 1,
            !.applies = ~job.checkOnly,
            !.phase = IF job.checkOnly THEN "exit"
                      ELSE IF job.applies THEN "unittest" ELSE "generate"]

\* Faulty variant: a family that fails is skipped.
GenerationSkips ==
  /\ job.phase = "generate"
  /\ job.next <= Len(Families)
  /\ Families[job.next] \in upstream.broken
  /\ job' = [job EXCEPT !.next = @ + 1, !.failed = TRUE]
  /\ UNCHANGED <<upstream, artifacts, last, interrupted>>

\* The generator, load_manifest or validate_summary raises: nothing was copied.
GenerationFails ==
  /\ job.phase = "generate"
  /\ job.next <= Len(Families)
  /\ Families[job.next] \in upstream.broken
  /\ ScriptEnds(FALSE)
  /\ UNCHANGED <<upstream, artifacts, last, interrupted>>

\* Faulty variant: nothing is copied if the first file is up to date already.
StagedShortcut ==
  /\ job.phase = "generate"
  /\ job.next > Len(Families)
  /\ IF job.applies
     THEN job' = [job EXCEPT !.phase = "copy",
                    !.next = IF artifacts[Copies[1]] = upstream.revision
                             THEN Len(Copies) + 1 ELSE 1]
     ELSE ScriptEnds(TRUE)
  /\ UNCHANGED <<upstream, artifacts, last, interrupted>>

\* Faulty variant: a check-only run copies too.
StagedAlways ==
  /\ job.phase = "generate"
  /\ job.next > Len(Families)
  /\ job' = [job EXCEPT !.phase = "copy", !.next = 1]
  /\ UNCHANGED <<upstream, artifacts, last, interrupted>>

Staged ==
  /\ job.phase = "generate"
  /\ job.next > Len(Families)
  /\ IF job.applies
     THEN job' = [job EXCEPT !.phase = "copy", !.next = 1]
     ELSE ScriptEnds(TRUE)
  /\ UNCHANGED <<upstream, artifacts, last, interrupted>>

\* shutil.copy2 of the next file.
Copy ==
  /\ job.phase = "copy"
  /\ IF job.next > Len(Copies)
     THEN ScriptEnds(TRUE) /\ interrupted' = FALSE /\ UNCHANGED artifacts
     ELSE /\ artifacts' = [artifacts EXCEPT ![Copies[job.next]] = upstream.revision]
          /\ job' = [job EXCEPT !.next = @ + 1]
          /\ UNCHANGED interrupted
  /\ UNCHANGED <<upstream, last>>

Regression ==
  /\ job.phase = "unittest"
  /\ \E passed \in {upstream.tests, FALSE} :
       job' = [job EXCEPT !.phase = "exit", !.regression = passed]
  /\ UNCHANGED <<upstream, artifacts, last, interrupted>>

End(status, killed) ==
  /\ last' = [number |-> job.number, status |-> status, killed |-> killed, failed |-> job.failed,
              checkOnly |-> job.checkOnly, regression |-> job.regression, before |-> job.before]
  /\ job' = Idle
  /\ UNCHANGED upstream

\* The commands of the recipe are joined with ";": its exit code is that of the
\* last one, the script with SYNC_CHECK_ONLY and git diff --check otherwise.
Exit ==
  /\ job.phase = "exit"
  /\ \E whitespace \in {0, 2} :
       End(IF job.checkOnly THEN IF job.failed THEN 1 ELSE 0 ELSE whitespace, FALSE)
  /\ UNCHANGED <<artifacts, interrupted>>

\* An interrupt, or a copy that fails: the file being copied may be half written.
Kill ==
  /\ MayKill
  /\ job.phase # "idle"
  /\ artifacts' \in {artifacts} \cup
       IF job.phase = "copy" /\ job.next <= Len(Copies)
       THEN {[artifacts EXCEPT ![Copies[job.next]] = Torn]} ELSE {}
  /\ interrupted' = (interrupted \/ job.phase = "copy")
  /\ End(130, TRUE)

Finished == job.phase = "idle" /\ last.number = MaxTargets /\ UNCHANGED vars

Next ==
  \/ Revise \/ (\E checkOnly \in BOOLEAN : Start(checkOnly))
  \/ Generate \/ GenerationFails \/ Staged \/ Copy
  \/ Regression \/ Exit \/ Kill \/ Finished

Spec == Init /\ [][Next]_vars

-----------------------------------------------------------------------------
TypeOK ==
  /\ job.phase \in {"idle", "generate", "copy", "unittest", "exit"}
  /\ job.phase = "generate" => job.next \in 1..(Len(Families) + 1)
  /\ job.phase = "copy" => job.next \in 1..(Len(Copies) + 1)
  /\ \A f \in Files : artifacts[f] = Torn \/ artifacts[f] \in 0..upstream.revision

Between == job.phase = "idle" /\ last.number > 0

\* README.md:174 of the script: if the generation or validation of any family
\* fails, the artifacts of all families are what they were before the target,
\* although other families were generated (sync_upstream_artifacts.py:214-217).
FailureLeavesArtifacts ==
  Between /\ last.failed /\ ~last.killed => artifacts = last.before

\* SYNC_CHECK_ONLY=1 never touches the working tree, also when it is
\* interrupted (Makefile:86-87, sync_upstream_artifacts.py:215).
CheckOnlyChangesNothing ==
  [][job.phase # "idle" /\ (job.checkOnly \/ ~job.applies) => artifacts' = artifacts]_vars

OneRevision ==
  \E revision \in 0..upstream.revision : \A f \in Files : artifacts[f] = revision

\* The artifacts of all families come from one revision and none is half written,
\* except between an interrupt while they are copied and the next target that
\* copies to its end: that one repairs whatever any number of interrupts left, also
\* if the sources are those of the interrupted target
\* (sync_upstream_artifacts.py:284-290).
CompleteCopyRepairs == job.phase # "copy" /\ ~interrupted => OneRevision

\* Makefile:21 of the target: "safely regenerate upstream-derived artifacts and
\* run regression": it succeeds only if both did.
SuccessMeansRegenerated ==
  Between /\ last.status = 0 => ~last.failed /\ last.regression
=============================================================================
