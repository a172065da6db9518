----------------------------- MODULE ReportCampaign -----------------------------
(***************************************************************************)
(* The reports of the targets rpc-all and rpc-subset of the Makefile: for  *)
(* each manifest, adapter.cli run writes a report, scripts/                *)
(* assert_report_success.py judges it, and at the end scripts/             *)
(* summarize_rpc_reports.py writes a summary.  All of them share one       *)
(* report directory, which keeps what earlier targets left there.          *)
(*                                                                         *)
(* A name stands for a manifest: the families of rpc-all, and what else    *)
(* rpc-subset is given.  Each manifest has one admitted case.              *)
(***************************************************************************)
EXTENDS Naturals, Sequences, FiniteSets, Functions

CONSTANTS
  Families,     \* UPSTREAM_FAMILIES, in order
  Subsets,      \* names rpc-subset is called with
  Durable,      \* names of DURABLE_EVIDENCE_MANIFESTS
  MayFail,      \* TRUE if a case may fail
  MayAbort,     \* TRUE if a run may end with an uncaught exception
  MayKill,      \* TRUE if a target may be interrupted
  MaxJobs       \* bound: targets started

Names == Range(Families) \cup Subsets

ASSUME CampaignConstants ==
  /\ Families # <<>> /\ Families \in Seq(Range(Families)) /\ IsInjective(Families)
  /\ IsFiniteSet(Subsets)
  /\ Durable \subseteq Names
  /\ {MayFail, MayAbort, MayKill} \subseteq BOOLEAN
  /\ MaxJobs \in Nat

VARIABLES
  files,     \* the report directory
  job,       \* the target in progress
  last       \* how the last target ended

vars == <<files, job, last>>

Report(name) == <<"report", name>>
Evidence(name) == <<"evidence", name>>
SubsetSummary(name) == <<"summary", name>>
Summary == <<"summary", "">>

Paths == {Report(n) : n \in Names} \cup {Evidence(n) : n \in Names}
         \cup {SubsetSummary(n) : n \in Subsets} \cup {Summary}

Absent == [kind |-> "absent"]
Torn == [kind |-> "torn"]

Idle == [phase |-> "idle"]

Init ==
  /\ files = [p \in Paths |-> Absent]
  /\ job = Idle
  /\ last = [number |-> 0]

\* job.todo: manifests still to run; job.writes: files to write, then the phase next.
Start(target, todo, summary) ==
  /\ job.phase = "idle"
  /\ last.number < MaxJobs
  /\ job' = [phase |-> "run", target |-> target, number |-> last.number + 1, names |-> todo,
             todo |-> todo, summary |-> summary, status |-> 0, clean |-> TRUE,
             writes |-> <<>>, content |-> Absent, next |-> "run"]
  /\ UNCHANGED <<files, last>>

StartAll == Start("rpc-all", Families, Summary)
StartSubset == \E n \in Subsets : Start("rpc-subset", <<n>>, SubsetSummary(n))

Name == Head(job.todo)
Fails(j) == [j EXCEPT !.status = 1]

\* Faulty variant: the exit code of the run is dropped.
RunAbortsUnseen ==
  /\ job.phase = "run"
  /\ MayAbort
  /\ job' = [job EXCEPT !.phase = "assert", !.clean = FALSE]
  /\ UNCHANGED <<files, last>>

\* An uncaught exception before write_report.
RunAborts ==
  /\ job.phase = "run"
  /\ MayAbort
  /\ job' = [Fails(job) EXCEPT !.phase = "assert", !.clean = FALSE]
  /\ UNCHANGED <<files, last>>

\* Faulty variant: a report that exists is kept as evidence.
OutputsOnce == <<Report(Name)>> \o
  IF Name \in Durable /\ files[Evidence(Name)] = Absent THEN <<Evidence(Name)>> ELSE <<>>

Outputs == <<Report(Name)>> \o IF Name \in Durable THEN <<Evidence(Name)>> ELSE <<>>

\* The run ends with 0 also when cases failed.  The selector may leave the case out.
RunEnds ==
  /\ job.phase = "run"
  /\ \E selected \in 0..1, failed \in 0..(IF MayFail THEN 1 ELSE 0) :
       /\ failed <= selected
       /\ job' = [job EXCEPT !.phase = "write", !.next = "assert",
                    !.writes = Outputs, !.clean = @ /\ failed = 0,
                    !.content = [kind |-> "report", by |-> job.number, name |-> Name,
                                 selected |-> selected, failed |-> failed]]
  /\ UNCHANGED <<files, last>>

\* write_text opens the file, which truncates it, and then fills it.
OpenFile ==
  /\ job.phase = "write"
  /\ files' = [files EXCEPT ![Head(job.writes)] = Torn]
  /\ job' = [job EXCEPT !.phase = "fill"]
  /\ UNCHANGED last

FillFile ==
  /\ job.phase = "fill"
  /\ files' = [files EXCEPT ![Head(job.writes)] = job.content]
  /\ job' = [job EXCEPT !.writes = Tail(@),
                        !.phase = IF Tail(job.writes) = <<>> THEN job.next ELSE "write"]
  /\ UNCHANGED last

\* assert_report_success.py: anything but a report whose results all succeeded fails.
Succeeds(content) == content.kind = "report" /\ content.failed = 0

\* Faulty variant: the loop over the manifests does not end.
AssertReportRunsOn ==
  /\ job.phase = "assert"
  /\ LET judged == IF Succeeds(files[Report(Name)]) THEN job ELSE Fails(job) IN
       job' = [judged EXCEPT !.todo = Tail(@), !.phase = "run"]
  /\ UNCHANGED <<files, last>>

AssertReport ==
  /\ job.phase = "assert"
  /\ LET judged == IF Succeeds(files[Report(Name)]) THEN job ELSE Fails(job) IN
       job' = [judged EXCEPT !.todo = Tail(@),
                 !.phase = IF Tail(job.todo) = <<>> THEN "summarize" ELSE "run"]
  /\ UNCHANGED <<files, last>>

\* Faulty variant: the evidence directory is searched too.
SummarizedDeep ==
  IF job.target = "rpc-all" THEN {p \in Paths \ {Summary} : files[p] # Absent}
  ELSE {Report(job.names[1])}

\* Faulty variant: the combined summary is taken for a report.
SummarizedItself ==
  IF job.target = "rpc-all" THEN {p \in Paths : p[1] # "evidence" /\ files[p] # Absent}
  ELSE {Report(job.names[1])}

\* rpc-all takes every JSON file of the directory but summary.json.
Summarized ==
  IF job.target = "rpc-all"
  THEN {p \in Paths \ {Summary} : p[1] # "evidence" /\ files[p] # Absent}
  ELSE {Report(job.names[1])}

\* Sums over the reports, which have one case each.
Selected == Cardinality({p \in Summarized : files[p].selected = 1})
Failed == Cardinality({p \in Summarized : files[p].failed = 1})

\* A file without results, a subset summary for one, ends the script before it
\* writes; so does a directory without reports.
CannotSummarize ==
  /\ job.phase = "summarize"
  /\ Summarized = {} \/ \E p \in Summarized : files[p].kind # "report"
  /\ job' = [Fails(job) EXCEPT !.phase = "exit"]
  /\ UNCHANGED <<files, last>>

Summarize ==
  /\ job.phase = "summarize"
  /\ Summarized # {}
  /\ \A p \in Summarized : files[p].kind = "report"
  /\ job' = [(IF Failed = 0 THEN job ELSE Fails(job)) EXCEPT
               !.phase = "write", !.next = "exit", !.writes = <<job.summary>>,
               !.content = [kind |-> "summary", by |-> job.number, failed |-> Failed,
                            aligned |-> Selected = Len(Families)]]
  /\ UNCHANGED <<files, last>>

End(status, killed) ==
  /\ last' = [number |-> job.number, target |-> job.target, names |-> job.names,
              summary |-> job.summary, status |-> status, killed |-> killed,
              clean |-> job.clean /\ ~killed]
  /\ job' = Idle
  /\ UNCHANGED files

Exit == job.phase = "exit" /\ End(job.status, FALSE)

\* An interrupt: the files stay as they are.
Kill == MayKill /\ job.phase # "idle" /\ End(130, TRUE)

Finished == job.phase = "idle" /\ last.number = MaxJobs /\ UNCHANGED vars

Next ==
  \/ StartAll \/ StartSubset
  \/ RunAborts \/ RunEnds \/ OpenFile \/ FillFile \/ AssertReport
  \/ CannotSummarize \/ Summarize \/ Exit \/ Kill \/ Finished

Spec == Init /\ [][Next]_vars

-----------------------------------------------------------------------------
Phases == {"idle", "run", "write", "fill", "assert", "summarize", "exit"}

TypeOK ==
  /\ job.phase \in Phases
  /\ job.phase \in {"run", "assert"} => job.todo # <<>>
  /\ job.phase \in {"write", "fill"} => job.writes # <<>> /\ Range(job.writes) \subseteq Paths
  /\ \A p \in Paths : files[p].kind \in {"absent", "torn", "report", "summary"}
  /\ \A n \in Names : files[Report(n)].kind = "report" => files[Report(n)].name = n

\* Between targets, the last one is known.
Between == job.phase = "idle" /\ last.number > 0
LastNames == Range(last.names)

\* Exit code 0 means that each manifest of this very target ran and all its
\* cases passed, and that its summary says so: never a report of an earlier
\* target, or one half written (Makefile:36-52, report.py:37).
CleanExitIsFresh ==
  Between /\ last.status = 0 =>
    /\ \A n \in LastNames : LET r == files[Report(n)] IN
         r.kind = "report" /\ r.by = last.number /\ r.failed = 0
    /\ LET s == files[last.summary] IN
         s.kind = "summary" /\ s.by = last.number /\ s.failed = 0

\* After exit code 0 the durable evidence is the report of this target
\* (report.py:39-44).
CleanExitHasEvidence ==
  Between /\ last.status = 0 =>
    \A n \in LastNames \cap Durable : files[Evidence(n)] = files[Report(n)]

\* Reports and summaries that rpc-subset left and rpc-all does not overwrite.
Strays == {p \in Paths \ {Report(Families[i]) : i \in DOMAIN Families} :
             p # Summary /\ p[1] # "evidence" /\ files[p] # Absent}

\* The directory recovers from everything: whatever interrupted or aborted
\* targets left there, the next one whose cases all pass exits with 0, rpc-all
\* unless rpc-subset has left files of its own (Makefile:32-83).
CleanJobSucceeds ==
  Between /\ last.clean /\ (last.target = "rpc-all" => Strays = {}) => last.status = 0

\* Families without a case that ran, and stray reports with one.
Missing == {i \in DOMAIN Families : files[Report(Families[i])].selected # 1}
MadeUp == {p \in Strays : files[p].selected = 1}

\* selected_equals_admitted compares two sums: a family that ran nothing can be
\* made up by another file.  After exit code 0 each gap has a stray report of its
\* own that does it, one that an interrupted rpc-subset left: no evidence, no
\* summary and no second copy of a report ever makes up for one, and without
\* stray reports every family ran (summarize_rpc_reports.py:42-45, 61).
AlignedGapsAreStrays ==
  Between /\ last.status = 0 /\ last.target = "rpc-all" /\ files[Summary].aligned =>
    Cardinality(Missing) = Cardinality(MadeUp)

\* README.md:128 of rpc-all: "This writes one report per family and a combined
\* summary at `reports/rpc/summary.json`".
CampaignWritesSummary ==
  Between /\ last.target = "rpc-all" /\ last.clean =>
    files[Summary].kind = "summary" /\ files[Summary].by = last.number
=============================================================================
