-------------------------- MODULE SyncArtifacts_proofs --------------------------
(* Proofs about the target sync-upstream, for any number of families,          *)
(* revisions and targets.                                                      *)
EXTENDS SyncArtifacts, SequenceTheorems, TLAPS

-----------------------------------------------------------------------------
(* The invariant. *)

Busy == job.phase # "idle"

JobFields == {"phase", "number", "checkOnly", "applies", "next", "failed", "regression", "before"}

JobTyped ==
  /\ job.phase \in {"idle", "generate", "copy", "unittest", "exit"}
  /\ Busy => /\ DOMAIN job = JobFields
             /\ {job.checkOnly, job.applies, job.failed} \subseteq BOOLEAN
  /\ job.phase = "generate" => job.next \in 1..(Len(Families) + 1)
  /\ job.phase = "copy" => job.next \in 1..(Len(Copies) + 1)

ArtifactsTyped ==
  /\ upstream.revision \in Nat
  /\ DOMAIN artifacts = Files
  /\ \A f \in Files : artifacts[f] = Torn \/ artifacts[f] \in 0..upstream.revision

\* Only a target that may apply copies.
AppliesToCopy ==
  Busy => /\ job.applies => ~job.checkOnly
          /\ job.phase = "copy" => job.applies

\* The sources do not change while a target runs: what fails once fails again,
\* so that nothing is copied after a failure.
FailsAgain ==
  Busy => /\ job.phase = "generate" =>
               \A i \in 1..(job.next - 1) : Families[i] \notin upstream.broken
          /\ job.failed => \E i \in 1..Len(Families) : Families[i] \in upstream.broken
          /\ job.phase = "copy" => ~job.failed

UntouchedSoFar ==
  Busy /\ (job.failed \/ job.phase = "generate") => artifacts = job.before

\* The copies go through all files.
CopiedSoFar ==
  /\ interrupted \in BOOLEAN
  /\ job.phase = "copy" =>
       \A i \in 1..(job.next - 1) : artifacts[Copies[i]] = upstream.revision
  /\ CompleteCopyRepairs

IInv == /\ JobTyped
        /\ ArtifactsTyped
        /\ AppliesToCopy
        /\ FailsAgain
        /\ UntouchedSoFar
        /\ CopiedSoFar
        /\ FailureLeavesArtifacts

-----------------------------------------------------------------------------
LEMMA FamiliesAre == Len(Families) \in Nat /\ DOMAIN Families = 1..Len(Families)
  BY SyncConstants, LenProperties

LEMMA PartsAre == Len(Parts) = 3 /\ DOMAIN Parts = 1..3
  BY DEF Parts

\* The copies are of all files and of nothing else.
LEMMA CopiesAreFiles ==
  /\ Len(Copies) \in Nat
  /\ \A i \in 1..Len(Copies) : Copies[i] \in Files
  /\ \A f \in Files : \E i \in 1..Len(Copies) : Copies[i] = f
<1> DEFINE N == Len(Families) * 3
           copy(i) == <<Families[1 + (i - 1) \div 3], Parts[1 + ((i - 1) % 3)]>>
<1>1. N \in Nat
  BY FamiliesAre
<1>2. Copies = [i \in 1..N |-> copy(i)]
  BY PartsAre DEF Copies
<1>3. \A i \in 1..N : /\ 1 + (i - 1) \div 3 \in 1..Len(Families)
                      /\ 1 + ((i - 1) % 3) \in 1..3
  BY FamiliesAre
<1>4. \A i \in 1..N : copy(i) \in Files
  <2> SUFFICES ASSUME NEW i \in 1..N PROVE copy(i) \in Files
    OBVIOUS
  <2>1. PICK k \in 1..Len(Families), p \in 1..3 : copy(i) = <<Families[k], Parts[p]>>
    BY <1>3
  <2>2. QED BY <2>1, FamiliesAre, PartsAre DEF Files, Range
<1>5. Copies \in Seq(Files) /\ Len(Copies) = N
  <2> HIDE DEF N, copy
  <2>1. \A i \in 1..N : copy(i) \in Files
    BY <1>4
  <2>2. Copies \in Seq(Files)
    BY <1>1, <1>2, <2>1, IsASeq
  <2>3. QED BY <1>1, <1>2, <2>2, LenProperties
<1>6. ASSUME NEW f \in Files PROVE \E i \in 1..N : Copies[i] = f
  <2>1. PICK k \in 1..Len(Families), p \in 1..3 : f = <<Families[k], Parts[p]>>
    BY FamiliesAre, PartsAre DEF Files, Range
  <2> DEFINE i == 3 * (k - 1) + p
  <2>2. i \in 1..N /\ 1 + (i - 1) \div 3 = k /\ 1 + ((i - 1) % 3) = p
    BY FamiliesAre
  <2>3. Copies[i] = f
    BY <1>2, <2>1, <2>2
  <2>4. QED BY <2>2, <2>3
<1>7. QED BY <1>1, <1>2, <1>4, <1>5, <1>6

LEMMA InitInv == Init => IInv
<1> SUFFICES ASSUME Init PROVE IInv
  OBVIOUS
<1>1. job.phase = "idle" /\ ~Busy
  BY DEF Init, Idle, Busy
<1>2. JobTyped /\ AppliesToCopy /\ FailsAgain /\ UntouchedSoFar
  BY <1>1 DEF JobTyped, AppliesToCopy, FailsAgain, UntouchedSoFar
<1>3. /\ upstream.revision = 0 /\ artifacts = [f \in Files |-> 0]
      /\ last.number = 0 /\ interrupted = FALSE
  BY DEF Init
<1>4. ArtifactsTyped
  BY <1>3 DEF ArtifactsTyped
<1>5. OneRevision
  <2>1. 0 \in 0..upstream.revision
    BY <1>3
  <2>2. \A f \in Files : artifacts[f] = 0
    BY <1>3
  <2>3. QED BY <2>1, <2>2 DEF OneRevision
<1>6. CopiedSoFar
  BY <1>1, <1>3, <1>5 DEF CopiedSoFar, CompleteCopyRepairs
<1>7. FailureLeavesArtifacts
  BY <1>1, <1>3 DEF FailureLeavesArtifacts, Between
<1>8. QED BY <1>2, <1>4, <1>6, <1>7 DEF IInv

LEMMA ReviseInv == ASSUME IInv, Revise PROVE IInv'
<1>1. /\ job.phase = "idle" /\ job' = job /\ artifacts' = artifacts
      /\ last' = last /\ interrupted' = interrupted
      /\ upstream'.revision = upstream.revision + 1
  BY DEF Revise
<1>2. JobTyped' /\ AppliesToCopy' /\ FailsAgain' /\ UntouchedSoFar'
  BY <1>1 DEF JobTyped, AppliesToCopy, FailsAgain, UntouchedSoFar, Busy
<1>3. ArtifactsTyped'
  BY <1>1 DEF IInv, ArtifactsTyped
<1>4. CopiedSoFar' /\ FailureLeavesArtifacts'
  BY <1>1 DEF IInv, ArtifactsTyped, CopiedSoFar, CompleteCopyRepairs, OneRevision,
     FailureLeavesArtifacts, Between
<1>5. QED BY <1>2, <1>3, <1>4 DEF IInv

LEMMA StartInv == ASSUME IInv, NEW checkOnly \in BOOLEAN, Start(checkOnly) PROVE IInv'
<1>1. /\ UNCHANGED <<upstream, artifacts, last, interrupted>> /\ job.phase = "idle"
      /\ job' = [phase |-> "generate", number |-> last.number + 1, checkOnly |-> checkOnly,
                 applies |-> FALSE, next |-> 1, failed |-> FALSE,
                 regression |-> TRUE, before |-> artifacts]
  BY DEF Start
<1>2. JobTyped'
  BY <1>1, FamiliesAre DEF JobTyped, JobFields, Busy
<1>3. AppliesToCopy' /\ FailsAgain' /\ UntouchedSoFar'
  BY <1>1 DEF AppliesToCopy, FailsAgain, UntouchedSoFar, Busy
<1>4. ArtifactsTyped' /\ CopiedSoFar' /\ FailureLeavesArtifacts'
  BY <1>1 DEF IInv, ArtifactsTyped, CopiedSoFar, CompleteCopyRepairs, OneRevision,
     FailureLeavesArtifacts, Between
<1>5. QED BY <1>2, <1>3, <1>4 DEF IInv

LEMMA GenerateInv == ASSUME IInv, Generate PROVE IInv'
<1>1. /\ UNCHANGED <<upstream, artifacts, last, interrupted>>
      /\ job.phase = "generate" /\ job.next <= Len(Families)
      /\ Families[job.next] \notin upstream.broken
      /\ job' = [job EXCEPT !.next = @ + 1]
  BY DEF Generate
<1>2. /\ DOMAIN job = JobFields /\ job.next \in 1..(Len(Families) + 1)
      /\ {job.checkOnly, job.applies, job.failed} \subseteq BOOLEAN
  BY <1>1 DEF IInv, JobTyped, Busy
<1>3. /\ DOMAIN job' = JobFields /\ job'.phase = "generate" /\ job'.next = job.next + 1
      /\ job'.checkOnly = job.checkOnly /\ job'.applies = job.applies
      /\ job'.failed = job.failed /\ job'.before = job.before
  BY <1>1, <1>2 DEF JobFields
<1>4. JobTyped'
  BY <1>1, <1>2, <1>3, FamiliesAre DEF JobTyped, Busy
<1>5. FailsAgain'
  <2>1. \A i \in 1..(job'.next - 1) : Families[i] \notin upstream.broken
    BY <1>1, <1>2, <1>3 DEF IInv, FailsAgain, Busy
  <2>2. QED BY <1>1, <1>3, <2>1 DEF IInv, FailsAgain, Busy
<1>6. AppliesToCopy' /\ UntouchedSoFar'
  BY <1>1, <1>3 DEF IInv, AppliesToCopy, UntouchedSoFar, Busy
<1>7. ArtifactsTyped' /\ CopiedSoFar' /\ FailureLeavesArtifacts'
  BY <1>1, <1>3 DEF IInv, ArtifactsTyped, CopiedSoFar, CompleteCopyRepairs,
     OneRevision, FailureLeavesArtifacts, Between
<1>8. QED BY <1>4, <1>5, <1>6, <1>7 DEF IInv

SomeBroken == \E i \in 1..Len(Families) : Families[i] \in upstream.broken
AllCopied == job.phase = "copy" /\ job.next > Len(Copies)

\* What the end of one run of the script leaves in the job.
ScriptEnded ==
  /\ DOMAIN job' = JobFields /\ job'.next = 1 /\ job'.failed \in BOOLEAN
  /\ job'.checkOnly = job.checkOnly /\ job'.applies = ~job.checkOnly
  /\ job'.before = job.before
  /\ job'.phase = IF job.checkOnly THEN "exit" ELSE IF job.applies THEN "unittest" ELSE "generate"

LEMMA ScriptEndedFacts ==
  ASSUME IInv, Busy, NEW ok \in BOOLEAN, ScriptEnds(ok)
  PROVE  ScriptEnded /\ job'.failed = (job.failed \/ ~ok)
<1>1. /\ DOMAIN job = JobFields
      /\ {job.checkOnly, job.applies, job.failed} \subseteq BOOLEAN
  BY DEF IInv, JobTyped
<1>2. QED BY <1>1 DEF ScriptEnds, ScriptEnded, JobFields

\* The end of one run of the script, with nothing half copied.
LEMMA ScriptEndsInv ==
  ASSUME IInv, ScriptEnded, UNCHANGED <<upstream, artifacts, last>>, Busy,
         job'.failed => job.failed \/ SomeBroken,
         \/ job.phase = "generate" /\ interrupted' = interrupted
         \/ AllCopied /\ ~job'.failed /\ interrupted' = FALSE
  PROVE  IInv'
<1>1. /\ DOMAIN job = JobFields
      /\ {job.checkOnly, job.applies, job.failed} \subseteq BOOLEAN
  BY DEF IInv, JobTyped
<1>2. /\ DOMAIN job' = JobFields /\ job'.next = 1 /\ job'.failed \in BOOLEAN
      /\ job'.checkOnly = job.checkOnly /\ job'.applies = ~job.checkOnly
      /\ job'.before = job.before
      /\ job'.phase = IF job.checkOnly THEN "exit" ELSE IF job.applies THEN "unittest" ELSE "generate"
  BY DEF ScriptEnded
<1>3. JobTyped'
  BY <1>1, <1>2, FamiliesAre DEF JobTyped, Busy
<1>4. AppliesToCopy'
  BY <1>1, <1>2 DEF AppliesToCopy, Busy
<1>5. FailsAgain'
  <2>1. job'.failed => \E i \in 1..Len(Families) : Families[i] \in upstream.broken
    BY DEF IInv, FailsAgain, SomeBroken
  <2>2. QED BY <1>2, <2>1 DEF FailsAgain, Busy
<1>6. UntouchedSoFar'
  <2>1. CASE job.phase = "generate"
    BY <1>2, <2>1 DEF IInv, UntouchedSoFar
  <2>2. CASE job.phase = "copy"
    <3>1. ~job'.failed /\ job.applies /\ ~job.checkOnly
      BY <2>2 DEF IInv, FailsAgain, AppliesToCopy, AllCopied
    <3>2. QED BY <1>2, <3>1 DEF UntouchedSoFar, Busy
  <2>3. QED BY <2>1, <2>2 DEF AllCopied
<1>7. CopiedSoFar'
  <2>1. job'.phase # "copy"
    BY <1>2
  <2>2. CASE job.phase = "generate" /\ interrupted' = interrupted
    BY <2>1, <2>2 DEF IInv, CopiedSoFar, CompleteCopyRepairs, OneRevision
  <2>3. CASE AllCopied /\ interrupted' = FALSE
    <3>1. job.next \in 1..(Len(Copies) + 1) /\ Len(Copies) \in Nat
      BY <2>3, CopiesAreFiles DEF IInv, JobTyped, AllCopied
    <3>2. \A i \in 1..Len(Copies) : artifacts[Copies[i]] = upstream.revision
      BY <2>3, <3>1 DEF IInv, CopiedSoFar, AllCopied
    <3>3. upstream.revision \in 0..upstream.revision
      BY DEF IInv, ArtifactsTyped
    <3>4. OneRevision'
      BY <3>2, <3>3, CopiesAreFiles DEF OneRevision
    <3>5. QED BY <2>1, <2>3, <3>4 DEF CopiedSoFar, CompleteCopyRepairs
  <2>4. QED BY <2>2, <2>3
<1>8. ArtifactsTyped' /\ FailureLeavesArtifacts'
  BY <1>2 DEF IInv, ArtifactsTyped, FailureLeavesArtifacts, Between
<1>9. QED BY <1>3, <1>4, <1>5, <1>6, <1>7, <1>8 DEF IInv

LEMMA GenerationFailsInv == ASSUME IInv, GenerationFails PROVE IInv'
<1>1. /\ UNCHANGED <<upstream, artifacts, last, interrupted>> /\ job.phase = "generate"
      /\ job.next <= Len(Families) /\ Families[job.next] \in upstream.broken
      /\ ScriptEnds(FALSE)
  BY DEF GenerationFails
<1>2. job.next \in 1..Len(Families) /\ Busy
  BY <1>1, FamiliesAre DEF IInv, JobTyped, Busy
<1>3. ScriptEnded /\ job'.failed
  BY <1>1, <1>2, ScriptEndedFacts
<1>4. SomeBroken
  BY <1>1, <1>2 DEF SomeBroken
<1>5. QED BY <1>1, <1>2, <1>3, <1>4, ScriptEndsInv

LEMMA StagedInv == ASSUME IInv, Staged PROVE IInv'
<1>1. /\ UNCHANGED <<upstream, artifacts, last, interrupted>> /\ job.phase = "generate"
      /\ job.next > Len(Families) /\ Busy
  BY DEF Staged, Busy
<1>2. CASE ~job.applies
  <2>1. ScriptEnded /\ job'.failed = job.failed
    <3>1. job.failed \in BOOLEAN /\ ScriptEnds(TRUE)
      BY <1>1, <1>2 DEF Staged, IInv, JobTyped
    <3>2. QED BY <1>1, <3>1, ScriptEndedFacts
  <2>2. QED BY <1>1, <1>2, <2>1, ScriptEndsInv
<1>3. CASE job.applies
  <2>1. DOMAIN job = JobFields /\ job' = [job EXCEPT !.phase = "copy", !.next = 1]
    BY <1>1, <1>3 DEF Staged, IInv, JobTyped
  <2>2. /\ DOMAIN job' = JobFields /\ job'.phase = "copy" /\ job'.next = 1
        /\ job'.checkOnly = job.checkOnly /\ job'.applies = job.applies
        /\ job'.failed = job.failed /\ job'.before = job.before
    BY <2>1 DEF JobFields
  <2>3. JobTyped'
    BY <1>1, <2>2, CopiesAreFiles DEF IInv, JobTyped, Busy
  <2>4. ~job.failed
    <3>1. job.next \in 1..(Len(Families) + 1)
      BY <1>1 DEF IInv, JobTyped
    <3>2. \A i \in 1..Len(Families) : Families[i] \notin upstream.broken
      BY <1>1, <3>1, FamiliesAre DEF IInv, FailsAgain
    <3>3. QED BY <1>1, <3>2 DEF IInv, FailsAgain
  <2>5. AppliesToCopy' /\ FailsAgain' /\ UntouchedSoFar'
    BY <1>1, <1>3, <2>2, <2>4 DEF IInv, AppliesToCopy, FailsAgain, UntouchedSoFar, Busy
  <2>6. ArtifactsTyped' /\ CopiedSoFar' /\ FailureLeavesArtifacts'
    BY <1>1, <2>2 DEF IInv, ArtifactsTyped, CopiedSoFar, CompleteCopyRepairs,
     OneRevision, FailureLeavesArtifacts, Between
  <2>7. QED BY <2>3, <2>5, <2>6 DEF IInv
<1>4. QED BY <1>2, <1>3

LEMMA CopyInv == ASSUME IInv, Copy PROVE IInv'
<1>1. job.phase = "copy" /\ UNCHANGED <<upstream, last>> /\ Busy
  BY DEF Copy, Busy
<1>2. CASE job.next > Len(Copies)
  <2>1. ScriptEnds(TRUE) /\ artifacts' = artifacts /\ interrupted' = FALSE
    BY <1>1, <1>2 DEF Copy
  <2>2. ~job.failed /\ job.failed \in BOOLEAN
    BY <1>1 DEF IInv, FailsAgain, JobTyped
  <2>3. ScriptEnded /\ ~job'.failed
    BY <1>1, <2>1, <2>2, ScriptEndedFacts
  <2>4. AllCopied
    BY <1>1, <1>2 DEF AllCopied
  <2>5. QED BY <1>1, <2>1, <2>3, <2>4, ScriptEndsInv
<1>3. CASE ~(job.next > Len(Copies))
  <2>1. /\ artifacts' = [artifacts EXCEPT ![Copies[job.next]] = upstream.revision]
        /\ job' = [job EXCEPT !.next = @ + 1] /\ interrupted' = interrupted
        /\ DOMAIN job = JobFields
    BY <1>1, <1>3 DEF Copy, IInv, JobTyped
  <2>2. /\ DOMAIN job' = JobFields /\ job'.phase = "copy" /\ job'.next = job.next + 1
        /\ job'.checkOnly = job.checkOnly /\ job'.applies = job.applies
        /\ job'.failed = job.failed /\ job'.before = job.before
    BY <1>1, <2>1 DEF JobFields
  <2>3. job.next \in 1..Len(Copies) /\ Copies[job.next] \in Files
    BY <1>1, <1>3, CopiesAreFiles DEF IInv, JobTyped
  <2>4. JobTyped'
    BY <1>1, <2>2, <2>3, CopiesAreFiles DEF IInv, JobTyped, Busy
  <2>5. AppliesToCopy' /\ FailsAgain' /\ UntouchedSoFar'
    BY <1>1, <2>2 DEF IInv, AppliesToCopy, FailsAgain, UntouchedSoFar, Busy
  <2>6. ArtifactsTyped'
    BY <1>1, <2>1, <2>3 DEF IInv, ArtifactsTyped
  <2>7. CopiedSoFar'
    <3> SUFFICES ASSUME NEW i \in 1..(job'.next - 1)
                 PROVE  artifacts'[Copies[i]] = upstream.revision
      BY <1>1, <2>1, <2>2 DEF CopiedSoFar, CompleteCopyRepairs, IInv
    <3>1. i \in 1..job.next /\ i \in 1..Len(Copies)
      BY <2>2, <2>3, CopiesAreFiles
    <3>2. Copies[i] \in Files /\ DOMAIN artifacts = Files
      BY <3>1, CopiesAreFiles DEF IInv, ArtifactsTyped
    <3>3. CASE i = job.next
      BY <2>1, <3>2, <3>3
    <3>4. CASE i \in 1..(job.next - 1)
      <4>1. artifacts[Copies[i]] = upstream.revision
        BY <1>1, <3>4 DEF IInv, CopiedSoFar
      <4>2. QED BY <2>1, <3>2, <4>1
    <3>5. QED BY <2>3, <3>1, <3>3, <3>4
  <2>8. FailureLeavesArtifacts'
    BY <2>2 DEF FailureLeavesArtifacts, Between
  <2>9. QED BY <2>4, <2>5, <2>6, <2>7, <2>8 DEF IInv
<1>4. QED BY <1>2, <1>3

LEMMA RegressionInv == ASSUME IInv, Regression PROVE IInv'
<1>1. PICK passed \in {upstream.tests, FALSE} :
        job' = [job EXCEPT !.phase = "exit", !.regression = passed]
  BY DEF Regression
<1>2. /\ UNCHANGED <<upstream, artifacts, last, interrupted>> /\ job.phase = "unittest" /\ Busy
      /\ DOMAIN job = JobFields
  BY DEF Regression, IInv, JobTyped, Busy
<1>3. /\ DOMAIN job' = JobFields /\ job'.phase = "exit"
      /\ job'.checkOnly = job.checkOnly /\ job'.applies = job.applies
      /\ job'.failed = job.failed /\ job'.before = job.before
  BY <1>1, <1>2 DEF JobFields
<1>4. JobTyped' /\ AppliesToCopy' /\ FailsAgain' /\ UntouchedSoFar'
  BY <1>2, <1>3 DEF IInv, JobTyped, AppliesToCopy, FailsAgain, UntouchedSoFar, Busy
<1>5. ArtifactsTyped' /\ CopiedSoFar' /\ FailureLeavesArtifacts'
  BY <1>2, <1>3 DEF IInv, ArtifactsTyped, CopiedSoFar, CompleteCopyRepairs,
     OneRevision, FailureLeavesArtifacts, Between
<1>6. QED BY <1>4, <1>5 DEF IInv

LEMMA ExitInv == ASSUME IInv, Exit PROVE IInv'
<1>1. /\ UNCHANGED <<upstream, artifacts, interrupted>> /\ job.phase = "exit" /\ job'.phase = "idle"
      /\ last'.failed = job.failed /\ last'.before = job.before
  BY DEF Exit, End, Idle
<1>2. JobTyped' /\ AppliesToCopy' /\ FailsAgain' /\ UntouchedSoFar'
  BY <1>1 DEF JobTyped, AppliesToCopy, FailsAgain, UntouchedSoFar, Busy
<1>3. FailureLeavesArtifacts'
  BY <1>1 DEF IInv, UntouchedSoFar, FailureLeavesArtifacts, Busy
<1>4. ArtifactsTyped' /\ CopiedSoFar'
  BY <1>1 DEF IInv, ArtifactsTyped, CopiedSoFar, CompleteCopyRepairs, OneRevision
<1>5. QED BY <1>2, <1>3, <1>4 DEF IInv

\* An interrupt leaves at most one torn file, and only while it copies.
LEMMA KillInv == ASSUME IInv, Kill PROVE IInv'
<1>1. /\ UNCHANGED upstream /\ Busy /\ job'.phase = "idle" /\ last'.killed
      /\ interrupted' = (interrupted \/ job.phase = "copy")
      /\ \/ artifacts' = artifacts
         \/ /\ job.phase = "copy" /\ job.next <= Len(Copies)
            /\ artifacts' = [artifacts EXCEPT ![Copies[job.next]] = Torn]
  BY DEF Kill, End, Idle, Busy
<1>2. JobTyped' /\ AppliesToCopy' /\ FailsAgain' /\ UntouchedSoFar'
  BY <1>1 DEF JobTyped, AppliesToCopy, FailsAgain, UntouchedSoFar, Busy
<1>3. ArtifactsTyped'
  BY <1>1 DEF IInv, ArtifactsTyped
<1>4. CopiedSoFar'
  BY <1>1 DEF IInv, CopiedSoFar, CompleteCopyRepairs, OneRevision
<1>5. FailureLeavesArtifacts'
  BY <1>1 DEF FailureLeavesArtifacts
<1>6. QED BY <1>2, <1>3, <1>4, <1>5 DEF IInv

LEMMA StepInv == IInv /\ [Next]_vars => IInv'
<1> SUFFICES ASSUME IInv, [Next]_vars PROVE IInv'
  OBVIOUS
<1>1. CASE UNCHANGED vars
  BY <1>1 DEF vars, IInv, JobTyped, ArtifactsTyped, AppliesToCopy, FailsAgain, UntouchedSoFar,
     CopiedSoFar, CompleteCopyRepairs, OneRevision, FailureLeavesArtifacts, Between, Busy
<1>2. CASE \E checkOnly \in BOOLEAN : Start(checkOnly)
  BY <1>2, StartInv
<1>3. CASE Revise \/ Generate \/ GenerationFails \/ Staged \/ Copy \/ Regression \/ Exit \/ Kill
  BY <1>3, ReviseInv, GenerateInv, GenerationFailsInv, StagedInv, CopyInv, RegressionInv, ExitInv,
     KillInv
<1>4. QED BY <1>1, <1>2, <1>3 DEF Next, Finished

LEMMA Invariance == Spec => []IInv
  BY InitInv, StepInv, PTL DEF Spec

-----------------------------------------------------------------------------
\* A file holds what some revision so far generated, or is half written
\* (sync_upstream_artifacts.py:284-290).
THEOREM ArtifactTypes == Spec => []TypeOK
<1>1. IInv => TypeOK
  BY DEF IInv, JobTyped, ArtifactsTyped, TypeOK
<1>2. QED BY <1>1, Invariance, PTL

\* If the generation or validation of any family fails, the artifacts of all
\* families stay as they were, although the recipe starts the script twice and
\* ignores how the first run ended (sync_upstream_artifacts.py:214-217).
THEOREM FailuresLeaveArtifacts == Spec => []FailureLeavesArtifacts
<1>1. IInv => FailureLeavesArtifacts
  BY DEF IInv
<1>2. QED BY <1>1, Invariance, PTL

\* A target that copies to its end leaves the artifacts of one revision, whatever
\* interrupted ones left, with any number of families; only between the two may
\* they be mixed (sync_upstream_artifacts.py:284-290).
THEOREM CompleteCopiesRepair == Spec => []CompleteCopyRepairs
<1>1. IInv => CompleteCopyRepairs
  BY DEF IInv, CopiedSoFar
<1>2. QED BY <1>1, Invariance, PTL

\* No step of a target that only checks changes an artifact, an interrupt
\* included (Makefile:86-87, sync_upstream_artifacts.py:215).
THEOREM ChecksChangeNothing == Spec => CheckOnlyChangesNothing
<1>1. ASSUME IInv, [Next]_vars, job.phase # "idle", job.checkOnly \/ ~job.applies
      PROVE  artifacts' = artifacts
  <2>1. job.phase # "copy"
    BY <1>1 DEF IInv, AppliesToCopy, Busy
  <2>2. QED BY <1>1, <2>1 DEF Next, Revise, Start, Generate, GenerationFails, Staged, Copy,
              Regression, Exit, Kill, Finished, vars
<1>2. IInv /\ [Next]_vars =>
        [job.phase # "idle" /\ (job.checkOnly \/ ~job.applies) => artifacts' = artifacts]_vars
  BY <1>1
<1>3. QED BY <1>2, Invariance, PTL DEF Spec, CheckOnlyChangesNothing
=============================================================================
