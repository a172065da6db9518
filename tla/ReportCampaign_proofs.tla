-------------------------- MODULE ReportCampaign_proofs -------------------------
(* Proofs about the targets rpc-all and rpc-subset, for any families, subsets   *)
(* and durable manifests, and whatever earlier targets left in the directory.   *)
EXTENDS ReportCampaign, SequenceTheorems, FiniteSetTheorems, TLAPS

-----------------------------------------------------------------------------
(* The invariant. *)

Busy == job.phase # "idle"
Writing == job.phase \in {"write", "fill"}
Running == job.phase \in {"run", "assert"} \/ (Writing /\ job.next = "assert")
Summing == Writing /\ job.next = "exit"

JobFields == {"phase", "target", "number", "names", "todo", "summary", "status", "clean",
              "writes", "content", "next"}

\* What a target is started with, which nothing changes.
TargetTyped ==
  /\ job.names \in Seq(Names) /\ job.names # <<>>
  /\ job.target = "rpc-all" => job.names = Families
  /\ job.summary = Summary \/ \E n \in Subsets : job.summary = SubsetSummary(n)
  /\ job.target = "rpc-all" => job.summary = Summary

JobTyped ==
  /\ job.phase \in Phases
  /\ Busy => /\ DOMAIN job = JobFields
             /\ TargetTyped
             /\ job.todo \in Seq(Names)
             /\ job.status \in {0, 1} /\ job.clean \in BOOLEAN
  /\ Running => job.todo # <<>>
  /\ Busy /\ ~Running => job.todo = <<>>
  /\ Writing => Running \/ Summing

FilesTyped ==
  /\ DOMAIN files = Paths
  /\ \A p \in Paths : files[p].kind \in {"absent", "torn", "report", "summary"}
  /\ \A n \in Names : files[Report(n)].kind = "report" => files[Report(n)].name = n

\* The file of a manifest is written first, its durable copy then.
WritesReport ==
  Writing /\ Running =>
    /\ \/ job.writes = <<Report(Name)>> /\ Name \notin Durable
       \/ job.writes = <<Report(Name), Evidence(Name)>> /\ Name \in Durable
       \/ job.writes = <<Evidence(Name)>> /\ Name \in Durable /\ files[Report(Name)] = job.content
    /\ job.content.kind = "report" /\ job.content.by = job.number /\ job.content.name = Name
    /\ job.clean => job.content.failed = 0

\* A report of this target, with its durable copy.
Fresh(n) ==
  /\ files[Report(n)].kind = "report" /\ files[Report(n)].by = job.number
  /\ n \in Durable => files[Evidence(n)] = files[Report(n)]

\* A run that aborts leaves the report of an earlier target, and the status 1.
RanFresh ==
  job.phase = "assert" /\ (job.status = 0 \/ job.clean) =>
    Fresh(Name) /\ (job.clean => files[Report(Name)].failed = 0)

\* What was judged so far.
AssertedFresh ==
  Busy /\ job.status = 0 =>
    \A n \in Range(job.names) : n \in Range(job.todo) \/ (Fresh(n) /\ files[Report(n)].failed = 0)

SummaryKnown ==
  Summing \/ (job.phase = "exit" /\ job.status = 0) =>
    /\ Summing => job.writes = <<job.summary>>
    /\ job.content.kind = "summary" /\ job.content.by = job.number
    /\ job.status = 0 => job.content.failed = 0
    /\ job.phase = "exit" => files[job.summary] = job.content

GapsMadeUp == Cardinality(Missing) = Cardinality(MadeUp)

\* The sums of the summary, whatever stray reports come into them.
SumsMean ==
  /\ (Summing \/ job.phase = "exit") /\ job.status = 0 /\ job.target = "rpc-all" =>
       (job.content.aligned => GapsMadeUp)
  /\ Busy /\ job.clean /\ (Running \/ job.phase = "summarize") => job.status = 0
  /\ (Summing \/ job.phase = "exit") /\ job.clean /\ (job.target = "rpc-all" => Strays = {}) =>
       job.status = 0

IInv == /\ JobTyped
        /\ FilesTyped
        /\ WritesReport
        /\ RanFresh
        /\ AssertedFresh
        /\ SummaryKnown
        /\ SumsMean
        /\ CleanExitIsFresh
        /\ CleanExitHasEvidence
        /\ AlignedGapsAreStrays
        /\ CleanJobSucceeds

-----------------------------------------------------------------------------
(* Names, paths and lists of names. *)

LEMMA FamiliesAre ==
  /\ Families \in Seq(Names) /\ DOMAIN Families = 1..Len(Families) /\ Len(Families) \in Nat \ {0}
  /\ \A i \in DOMAIN Families : Families[i] \in Names
<1>1. /\ Len(Families) \in Nat /\ DOMAIN Families = 1..Len(Families)
      /\ Families \in [1..Len(Families) -> Range(Families)]
  BY CampaignConstants, LenProperties
<1>2. Len(Families) # 0
  BY CampaignConstants, EmptySeq
<1>3. \A i \in DOMAIN Families : Families[i] \in Names
  BY <1>1 DEF Names
<1>4. Families \in Seq(Names)
  BY CampaignConstants, <1>1, <1>3
<1>5. QED BY <1>1, <1>2, <1>3, <1>4

LEMMA PathsAre ==
  ASSUME NEW n \in Names, NEW m \in Names
  PROVE  /\ Report(n) \in Paths /\ Evidence(n) \in Paths
         /\ Report(n) # Evidence(m)
         /\ Report(n) = Report(m) => n = m
         /\ Evidence(n) = Evidence(m) => n = m
  BY DEF Report, Evidence, Paths

LEMMA SummariesAre ==
  ASSUME NEW s, s = Summary \/ \E k \in Subsets : s = SubsetSummary(k), NEW n \in Names
  PROVE  s \in Paths /\ s # Report(n) /\ s # Evidence(n)
<1>1. CASE s = Summary
  <2>1. s \in Paths
    BY <1>1 DEF Paths
  <2>2. QED BY <1>1, <2>1 DEF Report, Evidence, Summary
<1>2. ASSUME NEW k \in Subsets, s = SubsetSummary(k)
      PROVE  s \in Paths /\ s # Report(n) /\ s # Evidence(n)
  <2>1. s \in Paths
    BY <1>2 DEF Paths
  <2>2. QED BY <1>2, <2>1 DEF Report, Evidence, SubsetSummary
<1>3. QED BY <1>1, <1>2

LEMMA HeadAndTail ==
  ASSUME NEW todo \in Seq(Names), todo # <<>>
  PROVE  /\ Head(todo) \in Names /\ Head(todo) \in Range(todo)
         /\ Tail(todo) \in Seq(Names)
         /\ \A n \in Range(todo) : n = Head(todo) \/ n \in Range(Tail(todo))
<1>1. /\ Len(todo) \in Nat \ {0} /\ DOMAIN todo = 1..Len(todo)
      /\ \A i \in 1..Len(todo) : todo[i] \in Names
  BY EmptySeq, LenProperties
<1>2. Head(todo) = todo[1] /\ Tail(todo) \in Seq(Names)
  BY HeadTailProperties
<1>3. Len(Tail(todo)) = Len(todo) - 1 /\ \A i \in 1..(Len(todo) - 1) : Tail(todo)[i] = todo[i + 1]
  BY HeadTailProperties
<1>4. DOMAIN Tail(todo) = 1..(Len(todo) - 1)
  BY <1>2, <1>3, LenProperties
<1>5. ASSUME NEW n \in Range(todo), n # Head(todo) PROVE n \in Range(Tail(todo))
  <2>1. PICK i \in 1..Len(todo) : n = todo[i]
    BY <1>1, <1>5 DEF Range
  <2>2. i - 1 \in 1..(Len(todo) - 1) /\ i = (i - 1) + 1
    BY <1>1, <1>2, <1>5, <2>1
  <2>3. Tail(todo)[i - 1] = n
    BY <1>3, <2>1, <2>2
  <2>4. QED BY <1>4, <2>2, <2>3 DEF Range
<1>6. Head(todo) \in Names /\ Head(todo) \in Range(todo)
  BY <1>1, <1>2 DEF Range
<1>7. QED BY <1>2, <1>5, <1>6

\* The phases of one run and those of the summary exclude each other.
LEMMA PhasesDiffer ==
  /\ Running \/ Summing => Busy
  /\ ~(Running /\ Summing)
  /\ Summing => job.phase # "exit"
  /\ Running => job.phase # "exit" /\ job.phase # "summarize"
  BY DEF Running, Summing, Writing, Busy

\* What is said of a target that ended says nothing of one in progress.
Judgements ==
  CleanExitIsFresh /\ CleanExitHasEvidence /\ AlignedGapsAreStrays /\ CleanJobSucceeds

LEMMA BusyJudgesNothing == ASSUME job'.phase # "idle" PROVE Judgements'
  BY DEF Judgements, CleanExitIsFresh, CleanExitHasEvidence, AlignedGapsAreStrays,
         CleanJobSucceeds, Between

LEMMA IInvParts ==
  IInv <=> /\ JobTyped /\ FilesTyped /\ WritesReport /\ RanFresh /\ AssertedFresh
           /\ SummaryKnown /\ SumsMean /\ Judgements
  BY DEF IInv, Judgements

\* The parameters of the target in progress.
SameTarget ==
  /\ DOMAIN job' = JobFields
  /\ job'.target = job.target /\ job'.number = job.number
  /\ job'.names = job.names /\ job'.summary = job.summary

LEMMA TargetStays == ASSUME TargetTyped, SameTarget PROVE TargetTyped'
  BY DEF TargetTyped, SameTarget

LEMMA BusyFields ==
  ASSUME IInv, Busy
  PROVE  /\ DOMAIN job = JobFields /\ TargetTyped /\ job.todo \in Seq(Names)
         /\ job.status \in {0, 1} /\ job.clean \in BOOLEAN
  BY DEF IInv, JobTyped

-----------------------------------------------------------------------------
LEMMA InitInv == Init => IInv
<1> SUFFICES ASSUME Init PROVE IInv
  OBVIOUS
<1>1. job.phase = "idle" /\ ~Busy /\ ~Running /\ ~Summing /\ ~Writing /\ last.number = 0
  BY DEF Init, Idle, Busy, Running, Summing, Writing
<1>2. JobTyped /\ WritesReport /\ RanFresh /\ AssertedFresh /\ SummaryKnown /\ SumsMean
  BY <1>1 DEF JobTyped, Phases, WritesReport, RanFresh, AssertedFresh, SummaryKnown, SumsMean
<1>3. FilesTyped
  BY PathsAre DEF Init, FilesTyped, Absent
<1>4. Judgements
  BY <1>1 DEF Judgements, CleanExitIsFresh, CleanExitHasEvidence, AlignedGapsAreStrays,
              CleanJobSucceeds, Between
<1>5. QED BY <1>2, <1>3, <1>4, IInvParts

LEMMA StartInv ==
  ASSUME IInv, NEW target, NEW todo \in Seq(Names), NEW summary, Start(target, todo, summary),
         todo # <<>>,
         target = "rpc-all" => todo = Families /\ summary = Summary,
         summary = Summary \/ \E n \in Subsets : summary = SubsetSummary(n)
  PROVE  IInv'
<1>1. /\ UNCHANGED <<files, last>>
      /\ DOMAIN job' = JobFields /\ job'.phase = "run" /\ job'.target = target
      /\ job'.names = todo /\ job'.todo = todo /\ job'.summary = summary
      /\ job'.status = 0 /\ job'.clean = TRUE
  BY DEF Start, JobFields
<1>2. Busy' /\ Running' /\ ~Writing' /\ ~Summing'
  BY <1>1 DEF Busy, Running, Writing, Summing
<1>3. TargetTyped'
  BY <1>1 DEF TargetTyped
<1>4. JobTyped'
  BY <1>1, <1>2, <1>3 DEF JobTyped, Phases
<1>5. WritesReport' /\ RanFresh' /\ SummaryKnown' /\ SumsMean'
  BY <1>1, <1>2 DEF WritesReport, RanFresh, SummaryKnown, SumsMean
<1>6. AssertedFresh'
  BY <1>1 DEF AssertedFresh
<1>7. FilesTyped'
  BY <1>1 DEF IInv, FilesTyped
<1>8. Judgements'
  BY <1>1, BusyJudgesNothing
<1>9. QED BY <1>4, <1>5, <1>6, <1>7, <1>8, IInvParts DEF IInv, Judgements

LEMMA StartAllInv == ASSUME IInv, StartAll PROVE IInv'
<1>1. Start("rpc-all", Families, Summary)
  BY DEF StartAll
<1>2. QED BY <1>1, StartInv, FamiliesAre, CampaignConstants

LEMMA StartSubsetInv == ASSUME IInv, StartSubset PROVE IInv'
<1>1. PICK n \in Subsets : Start("rpc-subset", <<n>>, SubsetSummary(n))
  BY DEF StartSubset
<1>2. <<n>> \in Seq(Names) /\ <<n>> # <<>>
  BY DEF Names
<1>3. QED BY <1>1, <1>2, StartInv

-----------------------------------------------------------------------------
(* The run of one manifest. *)

LEMMA RunAbortsInv == ASSUME IInv, RunAborts PROVE IInv'
<1>1. job.phase = "run" /\ Busy /\ Running /\ UNCHANGED <<files, last>>
  BY DEF RunAborts, Busy, Running
<1>2. /\ SameTarget /\ job'.phase = "assert" /\ job'.todo = job.todo /\ job'.status = 1
      /\ job'.clean = FALSE
  BY <1>1, BusyFields DEF RunAborts, Fails, SameTarget, JobFields
<1>3. Busy' /\ Running' /\ ~Writing' /\ ~Summing'
  BY <1>2 DEF Busy, Running, Writing, Summing
<1>4. JobTyped'
  <2>1. TargetTyped' /\ job.todo \in Seq(Names) /\ job.todo # <<>>
    BY <1>1, <1>2, BusyFields, TargetStays DEF IInv, JobTyped
  <2>2. QED BY <1>2, <1>3, <2>1 DEF JobTyped, Phases, SameTarget
<1>5. WritesReport' /\ RanFresh' /\ AssertedFresh' /\ SummaryKnown' /\ SumsMean'
  BY <1>2, <1>3 DEF WritesReport, RanFresh, AssertedFresh, SummaryKnown, SumsMean
<1>6. FilesTyped' /\ Judgements'
  BY <1>1, <1>2, BusyJudgesNothing DEF IInv, FilesTyped
<1>7. QED BY <1>4, <1>5, <1>6, IInvParts DEF IInv, Judgements

LEMMA Pair == ASSUME NEW a, NEW b PROVE <<a>> \o <<b>> = <<a, b>>
<1> DEFINE S == {a, b}
<1>1. <<a>> \in Seq(S) /\ <<a, b>> \in Seq(S) /\ Len(<<a>>) = 1 /\ <<a>>[1] = a
  OBVIOUS
<1>2. Append(<<a>>, b) = <<a>> \o <<b>>
  BY <1>1, AppendIsConcat
<1>3. /\ Append(<<a>>, b) \in Seq(S) /\ Len(Append(<<a>>, b)) = 2
      /\ Append(<<a>>, b)[1] = a /\ Append(<<a>>, b)[2] = b
  BY <1>1, AppendProperties
<1>4. Len(<<a, b>>) = 2 /\ <<a, b>>[1] = a /\ <<a, b>>[2] = b
  OBVIOUS
<1>5. Append(<<a>>, b) = <<a, b>>
  <2> DEFINE s == Append(<<a>>, b)
             t == <<a, b>>
  <2> HIDE DEF S, s, t
  <2>1. s \in Seq(S) /\ t \in Seq(S) /\ Len(s) = Len(t)
    BY <1>1, <1>3, <1>4 DEF s, t
  <2>2. \A i \in 1..Len(s) : s[i] = t[i]
    <3>1. Len(s) = 2 /\ s[1] = t[1] /\ s[2] = t[2]
      BY <1>3, <1>4 DEF s, t
    <3>2. QED BY <3>1
  <2>3. s = t
    BY <2>1, <2>2, SeqEqual
  <2>4. QED BY <2>3 DEF s, t
<1>6. QED BY <1>2, <1>5

LEMMA OutputsAre ==
  \/ Outputs = <<Report(Name)>> /\ Name \notin Durable
  \/ Outputs = <<Report(Name), Evidence(Name)>> /\ Name \in Durable
<1>1. <<Report(Name)>> \o <<>> = <<Report(Name)>>
  OBVIOUS
<1>2. QED BY <1>1, Pair DEF Outputs

LEMMA RunEndsInv == ASSUME IInv, RunEnds PROVE IInv'
<1>1. PICK selected, failed :
        job' = [job EXCEPT !.phase = "write", !.next = "assert",
                  !.writes = Outputs, !.clean = @ /\ failed = 0,
                  !.content = [kind |-> "report", by |-> job.number, name |-> Name,
                               selected |-> selected, failed |-> failed]]
  BY DEF RunEnds
<1>2. job.phase = "run" /\ Busy /\ Running /\ UNCHANGED <<files, last>>
  BY DEF RunEnds, Busy, Running
<1>3. /\ SameTarget /\ job'.phase = "write" /\ job'.next = "assert" /\ job'.todo = job.todo
      /\ job'.status = job.status /\ job'.clean = (job.clean /\ failed = 0)
      /\ job'.writes = Outputs
      /\ job'.content = [kind |-> "report", by |-> job.number, name |-> Name,
                         selected |-> selected, failed |-> failed]
  BY <1>1, <1>2, BusyFields DEF SameTarget, JobFields
<1>4. Busy' /\ Running' /\ Writing' /\ ~Summing' /\ Name' = Name
  BY <1>3 DEF Busy, Running, Writing, Summing, Name
<1>5. JobTyped'
  <2>1. /\ TargetTyped' /\ job.todo \in Seq(Names) /\ job.todo # <<>>
        /\ job.status \in {0, 1} /\ job.clean \in BOOLEAN
    BY <1>2, <1>3, BusyFields, TargetStays DEF IInv, JobTyped
  <2>2. job'.clean \in BOOLEAN
    BY <1>3, <2>1
  <2>3. QED BY <1>3, <1>4, <2>1, <2>2 DEF JobTyped, Phases, SameTarget
<1>6. WritesReport'
  <2>1. job'.clean => failed = 0
    BY <1>3
  <2>2. /\ job'.content.kind = "report" /\ job'.content.by = job.number
        /\ job'.content.name = Name /\ job'.content.failed = failed
    BY <1>3
  <2>3. \/ job'.writes = <<Report(Name)>> /\ Name \notin Durable
        \/ job'.writes = <<Report(Name), Evidence(Name)>> /\ Name \in Durable
    BY <1>3, OutputsAre
  <2>4. QED BY <1>3, <1>4, <2>1, <2>2, <2>3 DEF WritesReport, SameTarget
<1>7. RanFresh' /\ SummaryKnown'
  BY <1>3, <1>4 DEF RanFresh, SummaryKnown
<1>8. AssertedFresh'
  BY <1>2, <1>3 DEF IInv, AssertedFresh, Fresh, SameTarget
<1>9. SumsMean'
  <2>1. job.clean => job.status = 0
    BY <1>2 DEF IInv, SumsMean
  <2>2. job'.clean => job.clean
    BY <1>3
  <2>3. QED BY <1>3, <1>4, <2>1, <2>2 DEF SumsMean
<1>10. FilesTyped' /\ Judgements'
  BY <1>2, <1>3, BusyJudgesNothing DEF IInv, FilesTyped
<1>11. QED BY <1>5, <1>6, <1>7, <1>8, <1>9, <1>10, IInvParts DEF IInv, Judgements

-----------------------------------------------------------------------------
(* Writing. *)

\* A file of the manifest being run, written or truncated.
LEMMA ReportWritten ==
  ASSUME IInv, Running, SameTarget, job'.todo = job.todo, job'.status = job.status,
         NEW p, p = Report(Name) \/ p = Evidence(Name),
         NEW c, files' = [files EXCEPT ![p] = c],
         c.kind = "torn" \/ (c.kind = "report" /\ c.name = Name)
  PROVE  FilesTyped' /\ AssertedFresh' /\ Name \in Names /\ p \in Paths
<1>1. Busy /\ job.todo \in Seq(Names) /\ job.todo # <<>> /\ TargetTyped
  BY PhasesDiffer, BusyFields DEF IInv, JobTyped
<1>2. Name \in Names /\ Name \in Range(job.todo)
  BY <1>1, HeadAndTail DEF Name
<1>3. p \in Paths
  BY <1>2, PathsAre
<1>4. ASSUME NEW n \in Names, n # Name
      PROVE  files'[Report(n)] = files[Report(n)] /\ files'[Evidence(n)] = files[Evidence(n)]
  <2>1. /\ Report(n) \in Paths /\ Evidence(n) \in Paths
        /\ Report(n) # p /\ Evidence(n) # p
    BY <1>2, <1>4, PathsAre
  <2>2. QED BY <2>1 DEF IInv, FilesTyped
<1>5. FilesTyped'
  <2>1. DOMAIN files = Paths /\ DOMAIN files' = Paths
    BY DEF IInv, FilesTyped
  <2>2. \A q \in Paths : files'[q].kind \in {"absent", "torn", "report", "summary"}
    BY <2>1 DEF IInv, FilesTyped
  <2>3. ASSUME NEW n \in Names, files'[Report(n)].kind = "report"
        PROVE  files'[Report(n)].name = n
    <3>1. CASE n # Name
      BY <1>4, <2>3, <3>1 DEF IInv, FilesTyped
    <3>2. CASE n = Name
      <4>1. CASE p = Report(Name)
        <5>1. files'[Report(n)] = c
          BY <1>3, <2>1, <3>2, <4>1
        <5>2. QED BY <2>3, <3>2, <5>1
      <4>2. CASE p = Evidence(Name)
        <5>1. files'[Report(n)] = files[Report(n)]
          BY <1>2, <2>1, <3>2, <4>2, PathsAre
        <5>2. QED BY <2>3, <5>1 DEF IInv, FilesTyped
      <4>3. QED BY <4>1, <4>2
    <3>3. QED BY <3>1, <3>2
  <2>4. QED BY <2>1, <2>2, <2>3 DEF FilesTyped
<1>6. AssertedFresh'
  <2> SUFFICES ASSUME job.status = 0, NEW n \in Range(job.names), n \notin Range(job.todo)
               PROVE  Fresh(n)' /\ files'[Report(n)].failed = 0
    BY DEF AssertedFresh, SameTarget
  <2>1. n \in Names /\ n # Name
    <3>1. DOMAIN job.names = 1..Len(job.names) /\ \A i \in DOMAIN job.names : job.names[i] \in Names
      BY <1>1, LenProperties DEF TargetTyped
    <3>2. QED BY <1>2, <3>1 DEF Range
  <2>2. Fresh(n) /\ files[Report(n)].failed = 0
    BY <1>1 DEF IInv, AssertedFresh
  <2>3. QED BY <1>4, <2>1, <2>2 DEF Fresh, SameTarget
<1>7. QED BY <1>2, <1>3, <1>5, <1>6

\* The summary, written or truncated: no report changes.
LEMMA SummaryWritten ==
  ASSUME IInv, Summing, SameTarget, job'.todo = job.todo, job'.status = job.status,
         NEW c, files' = [files EXCEPT ![job.summary] = c], c.kind \in {"torn", "summary"}
  PROVE  /\ FilesTyped' /\ AssertedFresh'
         /\ job.target = "rpc-all" => Strays' = Strays /\ GapsMadeUp' = GapsMadeUp
         /\ files'[job.summary] = c
<1>1. Busy /\ TargetTyped
  BY PhasesDiffer, BusyFields
<1>2. /\ job.summary = Summary \/ \E k \in Subsets : job.summary = SubsetSummary(k)
      /\ job.target = "rpc-all" => job.summary = Summary
  BY <1>1 DEF TargetTyped
<1>3. job.summary \in Paths
  BY <1>2 DEF Paths
<1>4. DOMAIN files = Paths /\ DOMAIN files' = Paths /\ files'[job.summary] = c
      /\ \A q \in Paths : q # job.summary => files'[q] = files[q]
  BY <1>3 DEF IInv, FilesTyped
<1>5. \A n \in Names : /\ files'[Report(n)] = files[Report(n)]
                       /\ files'[Evidence(n)] = files[Evidence(n)]
  BY <1>2, <1>4, SummariesAre, PathsAre
<1>6. FilesTyped'
  <2>1. \A q \in Paths : files'[q].kind \in {"absent", "torn", "report", "summary"}
    BY <1>4 DEF IInv, FilesTyped
  <2>2. \A n \in Names : files'[Report(n)].kind = "report" => files'[Report(n)].name = n
    BY <1>5 DEF IInv, FilesTyped
  <2>3. QED BY <1>4, <2>1, <2>2 DEF FilesTyped
<1>7. AssertedFresh'
  <2> SUFFICES ASSUME job.status = 0, NEW n \in Range(job.names), n \notin Range(job.todo)
               PROVE  Fresh(n)' /\ files'[Report(n)].failed = 0
    BY DEF AssertedFresh, SameTarget
  <2>1. n \in Names
    <3>1. DOMAIN job.names = 1..Len(job.names) /\ \A i \in DOMAIN job.names : job.names[i] \in Names
      BY <1>1, LenProperties DEF TargetTyped
    <3>2. QED BY <3>1 DEF Range
  <2>2. Fresh(n) /\ files[Report(n)].failed = 0
    BY <1>1 DEF IInv, AssertedFresh
  <2>3. QED BY <1>5, <2>1, <2>2 DEF Fresh, SameTarget
<1>8. Missing' = Missing
  BY <1>5, FamiliesAre DEF Missing
<1>9. job.target = "rpc-all" => Strays' = Strays /\ GapsMadeUp' = GapsMadeUp
  <2> SUFFICES ASSUME job.summary = Summary PROVE Strays' = Strays /\ GapsMadeUp' = GapsMadeUp
    BY <1>2
  <2>1. Strays' = Strays
    BY <1>4 DEF Strays
  <2>2. \A p \in Strays : files'[p] = files[p]
    BY <1>4 DEF Strays
  <2>3. MadeUp' = MadeUp
    BY <2>1, <2>2 DEF MadeUp
  <2>4. QED BY <1>8, <2>1, <2>3 DEF GapsMadeUp
<1>10. QED BY <1>4, <1>6, <1>7, <1>8, <1>9

LEMMA ShortLists ==
  ASSUME NEW a, NEW b
  PROVE  /\ Head(<<a>>) = a /\ Tail(<<a>>) = <<>>
         /\ Head(<<a, b>>) = a /\ Tail(<<a, b>>) = <<b>> /\ <<b>> # <<>>
  OBVIOUS

LEMMA ShortRanges ==
  ASSUME NEW a, NEW b
  PROVE  Range(<<a>>) = {a} /\ Range(<<a, b>>) = {a, b}
<1>1. DOMAIN <<a>> = 1..1 /\ DOMAIN <<a, b>> = 1..2
  OBVIOUS
<1>2. Range(<<a>>) = {a}
  BY <1>1 DEF Range
<1>3. \A i \in 1..2 : i = 1 \/ i = 2
  OBVIOUS
<1>4. <<a, b>>[1] = a /\ <<a, b>>[2] = b /\ 1 \in 1..2 /\ 2 \in 1..2
  OBVIOUS
<1>5. Range(<<a, b>>) = {a, b}
  BY <1>1, <1>3, <1>4 DEF Range
<1>6. QED BY <1>2, <1>5

LEMMA OpenFileInv == ASSUME IInv, OpenFile PROVE IInv'
<1>1. /\ job.phase = "write" /\ last' = last /\ files' = [files EXCEPT ![Head(job.writes)] = Torn]
      /\ Busy /\ Writing
  BY DEF OpenFile, Busy, Writing
<1>2. /\ SameTarget /\ job'.phase = "fill" /\ job'.todo = job.todo /\ job'.status = job.status
      /\ job'.clean = job.clean /\ job'.writes = job.writes /\ job'.content = job.content
      /\ job'.next = job.next
  BY <1>1, BusyFields DEF OpenFile, SameTarget, JobFields
<1>3. /\ Busy' /\ Writing' /\ Running' = Running /\ Summing' = Summing /\ Name' = Name
  BY <1>1, <1>2 DEF Busy, Running, Writing, Summing, Name
<1>4. JobTyped'
  <2>1. /\ TargetTyped' /\ job.todo \in Seq(Names) /\ job.status \in {0, 1}
        /\ job.clean \in BOOLEAN
    BY <1>1, <1>2, BusyFields, TargetStays
  <2>2. QED BY <1>1, <1>2, <1>3, <2>1 DEF IInv, JobTyped, Phases, SameTarget
<1>5. Judgements'
  BY <1>2, BusyJudgesNothing
<1>6. RanFresh'
  BY <1>2 DEF RanFresh
<1>7. CASE Running
  <2>1. /\ \/ job.writes = <<Report(Name)>> /\ Name \notin Durable
           \/ job.writes = <<Report(Name), Evidence(Name)>> /\ Name \in Durable
           \/ /\ job.writes = <<Evidence(Name)>> /\ Name \in Durable
              /\ files[Report(Name)] = job.content
        /\ job.content.kind = "report" /\ job.content.by = job.number
        /\ job.content.name = Name /\ (job.clean => job.content.failed = 0)
    BY <1>1, <1>7 DEF IInv, WritesReport
  <2>2. Head(job.writes) = Report(Name) \/ Head(job.writes) = Evidence(Name)
    BY <2>1, ShortLists
  <2>3. Torn.kind = "torn"
    BY DEF Torn
  <2>4. FilesTyped' /\ AssertedFresh' /\ Name \in Names /\ Head(job.writes) \in Paths
    BY <1>1, <1>2, <1>7, <2>2, <2>3, ReportWritten
  <2>5. WritesReport'
    <3>1. job.writes = <<Evidence(Name)>> => files'[Report(Name)] = files[Report(Name)]
      <4> SUFFICES ASSUME job.writes = <<Evidence(Name)>>
                   PROVE  files'[Report(Name)] = files[Report(Name)]
        OBVIOUS
      <4>1. Head(job.writes) # Report(Name) /\ Report(Name) \in Paths
        BY <2>4, PathsAre, ShortLists
      <4>2. QED BY <1>1, <4>1 DEF IInv, FilesTyped
    <3>2. QED BY <1>2, <1>3, <2>1, <3>1 DEF WritesReport, SameTarget
  <2>6. SummaryKnown' /\ SumsMean'
    <3>1. ~Summing' /\ job'.phase # "exit" /\ Running'
      BY <1>2, <1>3, <1>7, PhasesDiffer
    <3>2. job.clean => job.status = 0
      BY <1>1, <1>7 DEF IInv, SumsMean
    <3>3. QED BY <1>2, <3>1, <3>2 DEF SummaryKnown, SumsMean
  <2>7. QED BY <1>4, <1>5, <1>6, <2>4, <2>5, <2>6, IInvParts DEF IInv, Judgements
<1>8. CASE Summing
  <2>1. /\ ~Running /\ ~Running' /\ job.writes = <<job.summary>>
        /\ job.content.kind = "summary" /\ job.content.by = job.number
        /\ job.status = 0 => job.content.failed = 0
    BY <1>3, <1>8, PhasesDiffer DEF IInv, SummaryKnown
  <2>2. Head(job.writes) = job.summary /\ Torn.kind = "torn"
    BY <2>1, ShortLists DEF Torn
  <2>3. files' = [files EXCEPT ![job.summary] = Torn]
    BY <1>1, <2>2
  <2>4. /\ FilesTyped' /\ AssertedFresh'
        /\ job.target = "rpc-all" => Strays' = Strays /\ GapsMadeUp' = GapsMadeUp
    BY <1>2, <1>8, <2>2, <2>3, SummaryWritten
  <2>5. WritesReport'
    BY <2>1 DEF WritesReport
  <2>6. SummaryKnown'
    BY <1>2, <2>1 DEF SummaryKnown, SameTarget
  <2>7. SumsMean'
    <3>1. job'.phase # "exit" /\ job'.phase # "summarize" /\ Summing'
      BY <1>2, <1>3, <1>8
    <3>2. /\ job.status = 0 /\ job.target = "rpc-all" =>
               (job.content.aligned => GapsMadeUp)
          /\ job.clean /\ (job.target = "rpc-all" => Strays = {}) => job.status = 0
      BY <1>8 DEF IInv, SumsMean
    <3>3. QED BY <1>2, <2>1, <2>4, <3>1, <3>2 DEF SumsMean, SameTarget
  <2>8. QED BY <1>4, <1>5, <1>6, <2>4, <2>5, <2>6, <2>7, IInvParts DEF IInv, Judgements
<1>9. QED BY <1>1, <1>7, <1>8 DEF IInv, JobTyped

\* A file of the manifest is complete: the next one, or the assertion.
LEMMA FillReportInv == ASSUME IInv, FillFile, Running PROVE IInv'
<1>1. /\ job.phase = "fill" /\ last' = last
      /\ files' = [files EXCEPT ![Head(job.writes)] = job.content]
      /\ Busy /\ Writing /\ job.next = "assert"
  BY PhasesDiffer DEF FillFile, Writing, Running
<1>2. /\ SameTarget /\ job'.todo = job.todo /\ job'.status = job.status
      /\ job'.clean = job.clean /\ job'.content = job.content /\ job'.next = job.next
      /\ job'.writes = Tail(job.writes)
      /\ job'.phase = IF Tail(job.writes) = <<>> THEN "assert" ELSE "write"
  BY <1>1, BusyFields DEF FillFile, SameTarget, JobFields
<1>3. /\ Busy' /\ Running' /\ ~Summing' /\ Name' = Name /\ job'.phase \in {"assert", "write"}
      /\ Writing' = (job'.phase = "write")
  BY <1>1, <1>2 DEF Busy, Running, Writing, Summing, Name
<1>4. /\ \/ job.writes = <<Report(Name)>> /\ Name \notin Durable
         \/ job.writes = <<Report(Name), Evidence(Name)>> /\ Name \in Durable
         \/ /\ job.writes = <<Evidence(Name)>> /\ Name \in Durable
            /\ files[Report(Name)] = job.content
      /\ job.content.kind = "report" /\ job.content.by = job.number
      /\ job.content.name = Name /\ (job.clean => job.content.failed = 0)
  BY <1>1 DEF IInv, WritesReport
<1>5. Head(job.writes) = Report(Name) \/ Head(job.writes) = Evidence(Name)
  BY <1>4, ShortLists
<1>6. FilesTyped' /\ AssertedFresh' /\ Name \in Names /\ Head(job.writes) \in Paths
  BY <1>1, <1>2, <1>4, <1>5, ReportWritten
<1>7. /\ DOMAIN files = Paths /\ Report(Name) \in Paths /\ Evidence(Name) \in Paths
      /\ Report(Name) # Evidence(Name)
  BY <1>6, PathsAre DEF IInv, FilesTyped
<1>8. JobTyped'
  <2>1. /\ TargetTyped' /\ job.todo \in Seq(Names) /\ job.status \in {0, 1}
        /\ job.clean \in BOOLEAN /\ job.todo # <<>>
    BY <1>1, <1>2, BusyFields, TargetStays DEF IInv, JobTyped
  <2>2. QED BY <1>2, <1>3, <2>1 DEF JobTyped, Phases, SameTarget
<1>9. SummaryKnown' /\ SumsMean' /\ Judgements'
  <2>1. job.clean => job.status = 0
    BY <1>1 DEF IInv, SumsMean
  <2>2. job'.phase # "exit"
    BY <1>3
  <2>3. QED BY <1>2, <1>3, <2>1, <2>2, BusyJudgesNothing DEF SummaryKnown, SumsMean
<1>10. WritesReport' /\ RanFresh'
  <2>1. CASE job.writes = <<Report(Name)>> /\ Name \notin Durable
    <3>1. files'[Report(Name)] = job.content /\ job'.phase = "assert" /\ ~Writing'
      BY <1>1, <1>2, <1>3, <1>7, <2>1, ShortLists
    <3>2. QED BY <1>2, <1>3, <1>4, <2>1, <3>1 DEF WritesReport, RanFresh, Fresh, SameTarget
  <2>2. CASE job.writes = <<Report(Name), Evidence(Name)>> /\ Name \in Durable
    <3>1. /\ files'[Report(Name)] = job.content /\ job'.phase = "write"
          /\ job'.writes = <<Evidence(Name)>>
      BY <1>1, <1>2, <1>7, <2>2, ShortLists
    <3>2. QED BY <1>2, <1>3, <1>4, <2>2, <3>1 DEF WritesReport, RanFresh, SameTarget
  <2>3. CASE /\ job.writes = <<Evidence(Name)>> /\ Name \in Durable
             /\ files[Report(Name)] = job.content
    <3>1. /\ files'[Evidence(Name)] = job.content /\ files'[Report(Name)] = job.content
          /\ job'.phase = "assert" /\ ~Writing'
      BY <1>1, <1>2, <1>3, <1>7, <2>3, ShortLists
    <3>2. QED BY <1>2, <1>3, <1>4, <2>3, <3>1 DEF WritesReport, RanFresh, Fresh, SameTarget
  <2>4. QED BY <1>4, <2>1, <2>2, <2>3
<1>11. QED BY <1>6, <1>8, <1>9, <1>10, IInvParts DEF IInv, Judgements

\* The summary is complete.
LEMMA FillSummaryInv == ASSUME IInv, FillFile, Summing PROVE IInv'
<1>1. /\ job.phase = "fill" /\ last' = last
      /\ files' = [files EXCEPT ![Head(job.writes)] = job.content]
      /\ Busy /\ ~Running /\ job.next = "exit"
  BY PhasesDiffer DEF FillFile, Writing, Summing
<1>2. /\ job.writes = <<job.summary>>
      /\ job.content.kind = "summary" /\ job.content.by = job.number
      /\ job.status = 0 => job.content.failed = 0
  BY <1>1 DEF IInv, SummaryKnown
<1>3. Head(job.writes) = job.summary /\ Tail(job.writes) = <<>>
  BY <1>2, ShortLists
<1>4. /\ SameTarget /\ job'.todo = job.todo /\ job'.status = job.status
      /\ job'.clean = job.clean /\ job'.content = job.content /\ job'.phase = "exit"
  BY <1>1, <1>3, BusyFields DEF FillFile, SameTarget, JobFields
<1>5. Busy' /\ ~Running' /\ ~Summing' /\ ~Writing'
  BY <1>4 DEF Busy, Running, Writing, Summing
<1>6. files' = [files EXCEPT ![job.summary] = job.content]
  BY <1>1, <1>3
<1>7. /\ FilesTyped' /\ AssertedFresh'
      /\ job.target = "rpc-all" => Strays' = Strays /\ GapsMadeUp' = GapsMadeUp
      /\ files'[job.summary] = job.content
  BY <1>2, <1>4, <1>6, SummaryWritten
<1>8. JobTyped'
  <2>1. /\ TargetTyped' /\ job.todo \in Seq(Names) /\ job.status \in {0, 1}
        /\ job.clean \in BOOLEAN /\ job.todo = <<>>
    BY <1>1, <1>4, BusyFields, TargetStays DEF IInv, JobTyped
  <2>2. QED BY <1>4, <1>5, <2>1 DEF JobTyped, Phases, SameTarget
<1>9. WritesReport' /\ RanFresh' /\ Judgements'
  BY <1>4, <1>5, BusyJudgesNothing DEF WritesReport, RanFresh
<1>10. SummaryKnown'
  BY <1>2, <1>4, <1>5, <1>7 DEF SummaryKnown, SameTarget
<1>11. SumsMean'
  <2>1. /\ job.status = 0 /\ job.target = "rpc-all" =>
             (job.content.aligned => GapsMadeUp)
        /\ job.clean /\ (job.target = "rpc-all" => Strays = {}) => job.status = 0
    BY DEF IInv, SumsMean
  <2>2. QED BY <1>4, <1>5, <1>7, <2>1 DEF SumsMean, SameTarget
<1>12. QED BY <1>7, <1>8, <1>9, <1>10, <1>11, IInvParts DEF IInv, Judgements

-----------------------------------------------------------------------------
(* Judging. *)

LEMMA AssertReportInv == ASSUME IInv, AssertReport PROVE IInv'
<1>1. job.phase = "assert" /\ Busy /\ Running /\ UNCHANGED <<files, last>>
  BY DEF AssertReport, Busy, Running
<1>2. /\ DOMAIN job = JobFields /\ TargetTyped /\ job.todo \in Seq(Names) /\ job.todo # <<>>
      /\ job.status \in {0, 1} /\ job.clean \in BOOLEAN
  BY <1>1, BusyFields DEF IInv, JobTyped
<1>3. /\ SameTarget /\ job'.todo = Tail(job.todo) /\ job'.clean = job.clean
      /\ job'.phase = IF Tail(job.todo) = <<>> THEN "summarize" ELSE "run"
      /\ job'.status = IF Succeeds(files[Report(Name)]) THEN job.status ELSE 1
  BY <1>2 DEF AssertReport, Fails, SameTarget, JobFields
<1>4. /\ Busy' /\ ~Writing' /\ ~Summing' /\ job'.phase \in {"summarize", "run"}
      /\ Running' = (Tail(job.todo) # <<>>)
  BY <1>3 DEF Busy, Running, Writing, Summing
<1>5. /\ Name \in Names /\ Name \in Range(job.todo) /\ Tail(job.todo) \in Seq(Names)
      /\ \A n \in Range(job.todo) : n = Name \/ n \in Range(Tail(job.todo))
  BY <1>2, HeadAndTail DEF Name
<1>6. JobTyped'
  <2>1. TargetTyped' /\ job'.status \in {0, 1}
    BY <1>2, <1>3, TargetStays
  <2>2. QED BY <1>2, <1>3, <1>4, <1>5, <2>1 DEF JobTyped, Phases, SameTarget
<1>7. AssertedFresh'
  <2> SUFFICES ASSUME job'.status = 0, NEW n \in Range(job.names), n \notin Range(Tail(job.todo))
               PROVE  Fresh(n)' /\ files'[Report(n)].failed = 0
    BY <1>3 DEF AssertedFresh, SameTarget
  <2>1. job.status = 0 /\ Succeeds(files[Report(Name)])
    BY <1>3
  <2>2. Fresh(n) /\ files[Report(n)].failed = 0
    <3>1. CASE n \in Range(job.todo)
      <4>1. n = Name
        BY <1>5, <3>1
      <4>2. Fresh(Name)
        BY <1>1, <2>1 DEF IInv, RanFresh
      <4>3. QED BY <2>1, <4>1, <4>2 DEF Succeeds
    <3>2. CASE n \notin Range(job.todo)
      BY <1>1, <2>1, <3>2 DEF IInv, AssertedFresh
    <3>3. QED BY <3>1, <3>2
  <2>3. QED BY <1>1, <1>3, <2>2 DEF Fresh, SameTarget
<1>8. SumsMean'
  <2>1. job.clean => job.status = 0 /\ Succeeds(files[Report(Name)])
    BY <1>1 DEF IInv, SumsMean, RanFresh, Fresh, Succeeds
  <2>2. job'.clean => job'.status = 0
    BY <1>3, <2>1
  <2>3. job'.phase # "exit"
    BY <1>4
  <2>4. QED BY <1>4, <2>2, <2>3 DEF SumsMean
<1>9. WritesReport' /\ RanFresh' /\ SummaryKnown' /\ Judgements'
  BY <1>4, BusyJudgesNothing DEF WritesReport, RanFresh, SummaryKnown
<1>10. FilesTyped'
  BY <1>1 DEF IInv, FilesTyped
<1>11. QED BY <1>6, <1>7, <1>8, <1>9, <1>10, IInvParts DEF IInv, Judgements

-----------------------------------------------------------------------------
(* The summary. *)

\* What a target whose manifests all passed sums up.
LEMMA PassedSums ==
  ASSUME IInv, job.phase = "summarize", job.clean, job.target = "rpc-all" => Strays = {}
  PROVE  /\ Summarized # {}
         /\ \A p \in Summarized : files[p].kind = "report" /\ files[p].failed = 0
<1>1. Busy /\ ~Running
  BY DEF Busy, Running, Writing
<1>2. TargetTyped /\ job.status = 0 /\ job.todo = <<>>
  BY <1>1, BusyFields DEF IInv, JobTyped, SumsMean
<1>3. \A n \in Range(job.names) : files[Report(n)].kind = "report" /\ files[Report(n)].failed = 0
  BY <1>1, <1>2 DEF IInv, AssertedFresh, Fresh, Range
<1>4. DOMAIN job.names = 1..Len(job.names) /\ Len(job.names) \in Nat \ {0}
  BY <1>2, LenProperties, EmptySeq DEF TargetTyped
<1>5. CASE job.target = "rpc-all"
  <2>1. job.names = Families
    BY <1>2, <1>5 DEF TargetTyped
  <2>2. \A i \in DOMAIN Families : /\ files[Report(Families[i])].kind = "report"
                                   /\ files[Report(Families[i])].failed = 0
    BY <1>3, <2>1 DEF Range
  <2>3. \A p \in Summarized : \E i \in DOMAIN Families : p = Report(Families[i])
    BY <1>5 DEF Summarized, Strays
  <2>4. Report(Families[1]) \in Summarized
    <3>1. 1 \in DOMAIN Families /\ Families[1] \in Names
      BY FamiliesAre
    <3>2. Report(Families[1]) \in Paths /\ Report(Families[1]) # Summary
      BY <3>1, PathsAre, SummariesAre
    <3>3. Report(Families[1])[1] = "report"
      BY DEF Report
    <3>4. files[Report(Families[1])] # Absent
      BY <2>2, <3>1 DEF Absent
    <3>5. QED BY <1>5, <3>2, <3>3, <3>4 DEF Summarized
  <2>5. QED BY <2>2, <2>3, <2>4
<1>6. CASE job.target # "rpc-all"
  <2>1. Summarized = {Report(job.names[1])}
    BY <1>6 DEF Summarized
  <2>2. job.names[1] \in Range(job.names)
    BY <1>4 DEF Range
  <2>3. QED BY <1>3, <2>1, <2>2
<1>7. QED BY <1>5, <1>6

\* The names of families and their numbers correspond: as many of them have a
\* report with a case as there are numbers of such families.
LEMMA ReportsCounted ==
  ASSUME NEW I \in SUBSET DOMAIN Families
  PROVE  LET R == {Report(Families[i]) : i \in I} IN
           /\ IsFiniteSet(I) /\ IsFiniteSet(R)
           /\ Cardinality(R) = Cardinality(I) /\ Cardinality(I) \in Nat
<1> DEFINE R == {Report(Families[i]) : i \in I}
           f == [i \in I |-> Report(Families[i])]
<1>1. IsFiniteSet(I)
  <2> DEFINE N == Len(Families)
  <2>1. N \in Nat /\ DOMAIN Families = 1..N
    BY FamiliesAre
  <2> HIDE DEF N
  <2>2. IsFiniteSet(1..N)
    BY <2>1, FS_Interval
  <2>3. QED BY <2>1, <2>2, FS_Subset
<1>2. f \in Bijection(I, R)
  <2>1. f \in Surjection(I, R)
    BY DEF Surjection
  <2>2. \A i, j \in I : f[i] = f[j] => i = j
    BY FamiliesAre, PathsAre, CampaignConstants DEF IsInjective
  <2>3. f \in [I -> R] /\ DOMAIN f = I
    OBVIOUS
  <2> HIDE DEF f, R
  <2>4. f \in Injection(I, R)
    BY <2>2, <2>3 DEF Injection, IsInjective
  <2>5. QED BY <2>1, <2>4 DEF Bijection
<1> HIDE DEF f
<1>3. IsFiniteSet(R) /\ Cardinality(I) = Cardinality(R)
  <2> HIDE DEF R
  <2>1. ExistsBijection(I, R)
    BY <1>2 DEF ExistsBijection
  <2>2. QED BY <1>1, <2>1, FS_Bijection
<1>4. QED BY <1>1, <1>3, FS_CardinalityType

LEMMA StraysAreFinite == IsFiniteSet(Strays)
<1> DEFINE ps == {Report(n) : n \in Names} es == {Evidence(n) : n \in Names}
           ss == {SubsetSummary(n) : n \in Subsets}
<1>1. IsFiniteSet(Range(Families))
  <2> DEFINE N == Len(Families)
  <2>1. N \in Nat /\ DOMAIN Families = 1..N
    BY FamiliesAre
  <2>2. Families \in Surjection(1..N, Range(Families))
    BY <2>1, CampaignConstants DEF Surjection, Range
  <2> HIDE DEF N
  <2>3. IsFiniteSet(1..N)
    BY <2>1, FS_Interval
  <2>4. QED BY <2>2, <2>3, FS_Surjection
<1>2. IsFiniteSet(Names)
  BY <1>1, CampaignConstants, FS_Union DEF Names
<1>3. IsFiniteSet(ps) /\ IsFiniteSet(es)
  <2>1. [n \in Names |-> Report(n)] \in Surjection(Names, ps)
    BY DEF Surjection
  <2>2. [n \in Names |-> Evidence(n)] \in Surjection(Names, es)
    BY DEF Surjection
  <2> HIDE DEF ps, es
  <2>3. QED BY <1>2, <2>1, <2>2, FS_Surjection
<1>4. IsFiniteSet(ss)
  <2>1. [n \in Subsets |-> SubsetSummary(n)] \in Surjection(Subsets, ss)
    BY DEF Surjection
  <2> HIDE DEF ss
  <2>2. QED BY <2>1, CampaignConstants, FS_Surjection
<1>5. Paths = (ps \cup es) \cup (ss \cup {Summary})
  BY DEF Paths
<1>6. IsFiniteSet(Paths)
  <2> HIDE DEF ps, es, ss
  <2>1. IsFiniteSet({Summary})
    BY FS_Singleton
  <2>2. QED BY <1>3, <1>4, <1>5, <2>1, FS_Union
<1>7. Strays \subseteq Paths
  BY DEF Strays
<1>8. QED BY <1>6, <1>7, FS_Subset

\* If the sums agree, the families without a case are as many as the stray cases.
LEMMA AlignedSums ==
  ASSUME FilesTyped, job.target = "rpc-all", Selected = Len(Families),
         \A i \in DOMAIN Families : files[Report(Families[i])].kind = "report"
  PROVE  GapsMadeUp
<1> DEFINE D == DOMAIN Families
           I == {i \in D : files[Report(Families[i])].selected = 1}
           R == {Report(Families[i]) : i \in I}
           S == {p \in Summarized : files[p].selected = 1}
<1>1. S = R \cup MadeUp /\ R \cap MadeUp = {}
  <2>1. \A i \in D : /\ Report(Families[i]) \in Paths \ {Summary}
                      /\ Report(Families[i])[1] # "evidence"
                      /\ files[Report(Families[i])] # Absent
    <3> SUFFICES ASSUME NEW i \in D
                 PROVE  /\ Report(Families[i]) \in Paths \ {Summary}
                        /\ Report(Families[i])[1] # "evidence"
                        /\ files[Report(Families[i])] # Absent
      OBVIOUS
    <3>1. Families[i] \in Names
      BY FamiliesAre
    <3>2. Report(Families[i]) \in Paths /\ Report(Families[i]) # Summary
      BY <3>1, PathsAre, SummariesAre
    <3>3. Report(Families[i])[1] = "report"
      BY DEF Report
    <3>4. files[Report(Families[i])] # Absent
      BY DEF Absent
    <3>5. QED BY <3>2, <3>3, <3>4
  <2>2. Summarized = {Report(Families[i]) : i \in D} \cup Strays
    BY <2>1 DEF Summarized, Strays
  <2>3. {Report(Families[i]) : i \in D} \cap Strays = {}
    BY DEF Strays
  <2>4. QED BY <2>2, <2>3 DEF MadeUp
<1>2. MadeUp \subseteq Strays /\ I \subseteq D /\ Missing \subseteq D
  BY DEF MadeUp, Missing
<1>3. D = I \cup Missing /\ I \cap Missing = {}
  BY DEF Missing
<1>4. Cardinality(S) = Len(Families)
  BY DEF Selected
<1>5. Cardinality(D) = Len(Families) /\ Len(Families) \in Nat
  <2> DEFINE N == Len(Families)
  <2>1. N \in Nat /\ D = 1..N
    BY FamiliesAre
  <2> HIDE DEF N
  <2>2. Cardinality(1..N) = IF 1 > N THEN 0 ELSE N - 1 + 1
    BY <2>1, FS_Interval
  <2>3. Cardinality(1..N) = N
    BY <2>1, <2>2
  <2>4. QED BY <2>1, <2>3 DEF N
<1>6. /\ IsFiniteSet(I) /\ IsFiniteSet(R)
      /\ Cardinality(R) = Cardinality(I) /\ Cardinality(I) \in Nat
  BY <1>2, ReportsCounted
<1>7. IsFiniteSet(Missing) /\ Cardinality(Missing) \in Nat
  BY <1>2, ReportsCounted
<1>8. IsFiniteSet(MadeUp) /\ Cardinality(MadeUp) \in Nat
  <2>1. IsFiniteSet(MadeUp)
    BY <1>2, StraysAreFinite, FS_Subset
  <2>2. QED BY <2>1, FS_CardinalityType
<1> HIDE DEF D, I, R, S
<1>9. Cardinality(S) = Cardinality(R) + Cardinality(MadeUp)
  <2>1. Cardinality(R \cup MadeUp) =
          Cardinality(R) + Cardinality(MadeUp) - Cardinality(R \cap MadeUp)
    BY <1>6, <1>8, FS_Union
  <2>2. Cardinality(R \cap MadeUp) = 0
    BY <1>1, FS_EmptySet
  <2>3. QED BY <1>1, <1>6, <1>8, <2>1, <2>2
<1>10. Cardinality(D) = Cardinality(I) + Cardinality(Missing)
  <2>1. Cardinality(I \cup Missing) =
          Cardinality(I) + Cardinality(Missing) - Cardinality(I \cap Missing)
    BY <1>6, <1>7, FS_Union
  <2>2. Cardinality(I \cap Missing) = 0
    BY <1>3, FS_EmptySet
  <2>3. QED BY <1>3, <1>6, <1>7, <2>1, <2>2
<1>11. Cardinality(Missing) = Cardinality(MadeUp)
  BY <1>4, <1>5, <1>6, <1>7, <1>8, <1>9, <1>10
<1>12. QED BY <1>11 DEF GapsMadeUp

LEMMA CannotSummarizeInv == ASSUME IInv, CannotSummarize PROVE IInv'
<1>1. job.phase = "summarize" /\ Busy /\ ~Running /\ UNCHANGED <<files, last>>
  BY DEF CannotSummarize, Busy, Running, Writing
<1>2. /\ DOMAIN job = JobFields /\ TargetTyped /\ job.todo = <<>> /\ job.clean \in BOOLEAN
  BY <1>1, BusyFields DEF IInv, JobTyped
<1>3. /\ SameTarget /\ job'.todo = job.todo /\ job'.clean = job.clean
      /\ job'.phase = "exit" /\ job'.status = 1
  BY <1>2 DEF CannotSummarize, Fails, SameTarget, JobFields
<1>4. Busy' /\ ~Writing' /\ ~Summing' /\ ~Running'
  BY <1>3 DEF Busy, Running, Writing, Summing
<1>5. JobTyped'
  <2>1. TargetTyped' /\ <<>> \in Seq(Names)
    BY <1>2, <1>3, TargetStays
  <2>2. QED BY <1>2, <1>3, <1>4, <2>1 DEF JobTyped, Phases, SameTarget
<1>6. AssertedFresh' /\ WritesReport' /\ RanFresh' /\ SummaryKnown' /\ Judgements'
  BY <1>3, <1>4, BusyJudgesNothing DEF AssertedFresh, WritesReport, RanFresh, SummaryKnown
<1>7. SumsMean'
  <2>1. ~(job.clean /\ (job.target = "rpc-all" => Strays = {}))
    BY <1>1, PassedSums DEF CannotSummarize
  <2>2. Strays' = Strays
    BY <1>1 DEF Strays
  <2>3. QED BY <1>3, <1>4, <2>1, <2>2 DEF SumsMean, SameTarget
<1>8. FilesTyped'
  BY <1>1 DEF IInv, FilesTyped
<1>9. QED BY <1>5, <1>6, <1>7, <1>8, IInvParts DEF IInv, Judgements

LEMMA SummarizeInv == ASSUME IInv, Summarize PROVE IInv'
<1>1. job.phase = "summarize" /\ Busy /\ ~Running /\ UNCHANGED <<files, last>>
  BY DEF Summarize, Busy, Running, Writing
<1>2. /\ DOMAIN job = JobFields /\ TargetTyped /\ job.todo = <<>> /\ job.clean \in BOOLEAN
      /\ job.status \in {0, 1}
  BY <1>1, BusyFields DEF IInv, JobTyped
<1>3. /\ SameTarget /\ job'.todo = job.todo /\ job'.clean = job.clean
      /\ job'.phase = "write" /\ job'.next = "exit" /\ job'.writes = <<job.summary>>
      /\ job'.status = IF Failed = 0 THEN job.status ELSE 1
      /\ job'.content = [kind |-> "summary", by |-> job.number, failed |-> Failed,
                         aligned |-> Selected = Len(Families)]
  BY <1>2 DEF Summarize, Fails, SameTarget, JobFields
<1>4. Busy' /\ Writing' /\ Summing' /\ ~Running'
  BY <1>3 DEF Busy, Running, Writing, Summing
<1>5. JobTyped'
  <2>1. TargetTyped' /\ <<>> \in Seq(Names) /\ job'.status \in {0, 1}
    BY <1>2, <1>3, TargetStays
  <2>2. QED BY <1>2, <1>3, <1>4, <2>1 DEF JobTyped, Phases, SameTarget
<1>6. AssertedFresh'
  <2>1. job'.status = 0 => job.status = 0
    BY <1>3
  <2>2. QED BY <1>1, <1>3, <2>1 DEF IInv, AssertedFresh, Fresh, SameTarget
<1>7. WritesReport' /\ RanFresh' /\ Judgements'
  BY <1>3, <1>4, BusyJudgesNothing DEF WritesReport, RanFresh
<1>8. SummaryKnown'
  <2>1. job'.status = 0 => Failed = 0
    BY <1>3
  <2>2. job'.content.kind = "summary" /\ job'.content.by = job.number /\ job'.content.failed = Failed
    BY <1>3
  <2>3. QED BY <1>3, <2>1, <2>2 DEF SummaryKnown, SameTarget
<1>9. SumsMean'
  <2>1. Strays' = Strays /\ GapsMadeUp' = GapsMadeUp
    BY <1>1 DEF Strays, GapsMadeUp, Missing, MadeUp
  <2>2. job'.content.aligned = (Selected = Len(Families))
    BY <1>3
  <2>3. ASSUME job'.status = 0, job.target = "rpc-all", job'.content.aligned PROVE GapsMadeUp
    <3>1. job.status = 0 /\ job.names = Families
      BY <1>2, <1>3, <2>3 DEF TargetTyped
    <3>2. \A i \in DOMAIN Families : files[Report(Families[i])].kind = "report"
      BY <1>1, <1>2, <3>1 DEF IInv, AssertedFresh, Fresh, Range
    <3>3. QED BY <2>2, <2>3, <3>2, AlignedSums DEF IInv
  <2>4. ASSUME job.clean, job.target = "rpc-all" => Strays = {} PROVE job'.status = 0
    <3>1. job.status = 0
      BY <1>1, <2>4 DEF IInv, SumsMean
    <3>2. {p \in Summarized : files[p].failed = 1} = {}
      BY <1>1, <2>4, PassedSums
    <3>3. Failed = 0
      BY <3>2, FS_EmptySet DEF Failed
    <3>4. QED BY <1>3, <3>1, <3>3
  <2>5. QED BY <1>3, <1>4, <2>1, <2>3, <2>4 DEF SumsMean, SameTarget
<1>10. FilesTyped'
  BY <1>1 DEF IInv, FilesTyped
<1>11. QED BY <1>5, <1>6, <1>7, <1>8, <1>9, <1>10, IInvParts DEF IInv, Judgements

-----------------------------------------------------------------------------
(* The end of a target. *)

LEMMA EndInv ==
  ASSUME IInv, Busy, UNCHANGED files, job'.phase = "idle", Judgements'
  PROVE  IInv'
<1>1. ~Busy' /\ ~Writing' /\ ~Summing' /\ ~Running'
  BY DEF Busy, Running, Writing, Summing
<1>2. JobTyped' /\ WritesReport' /\ RanFresh' /\ AssertedFresh' /\ SummaryKnown' /\ SumsMean'
  BY <1>1 DEF JobTyped, Phases, WritesReport, RanFresh, AssertedFresh, SummaryKnown, SumsMean, Busy
<1>3. FilesTyped'
  BY DEF IInv, FilesTyped
<1>4. QED BY <1>2, <1>3, IInvParts DEF IInv, Judgements

LEMMA ExitInv == ASSUME IInv, Exit PROVE IInv'
<1>1. /\ job.phase = "exit" /\ UNCHANGED files /\ job'.phase = "idle" /\ Busy
      /\ last'.number = job.number /\ last'.target = job.target /\ last'.names = job.names
      /\ last'.summary = job.summary /\ last'.status = job.status
      /\ last'.clean = (job.clean /\ TRUE)
  BY DEF Exit, End, Idle, Busy
<1>2. ~Running /\ ~Summing
  BY <1>1 DEF Running, Summing, Writing
<1>3. TargetTyped /\ job.todo = <<>>
  BY <1>1, <1>2, BusyFields DEF IInv, JobTyped
<1>4. job.status = 0 => \A n \in Range(job.names) : Fresh(n) /\ files[Report(n)].failed = 0
  BY <1>1, <1>3 DEF IInv, AssertedFresh, Range
<1>5. job.status = 0 => /\ files[job.summary] = job.content /\ job.content.kind = "summary"
                        /\ job.content.by = job.number /\ job.content.failed = 0
  BY <1>1 DEF IInv, SummaryKnown
<1>6. CleanExitIsFresh'
  BY <1>1, <1>4, <1>5 DEF CleanExitIsFresh, LastNames, Fresh
<1>7. CleanExitHasEvidence'
  BY <1>1, <1>4 DEF CleanExitHasEvidence, LastNames, Fresh
<1>8. Strays' = Strays /\ Missing' = Missing /\ MadeUp' = MadeUp
  BY <1>1 DEF Strays, Missing, MadeUp
<1>9. AlignedGapsAreStrays'
  <2> SUFFICES ASSUME job.status = 0, job.target = "rpc-all", files[Summary].aligned
               PROVE  GapsMadeUp
    BY <1>1, <1>8 DEF AlignedGapsAreStrays, GapsMadeUp
  <2>1. job.content.aligned
    BY <1>3, <1>5 DEF TargetTyped
  <2>2. QED BY <1>1, <2>1 DEF IInv, SumsMean
<1>10. CleanJobSucceeds'
  <2>1. last'.clean => job.clean
    BY <1>1
  <2>2. job.clean /\ (job.target = "rpc-all" => Strays = {}) => job.status = 0
    BY <1>1 DEF IInv, SumsMean
  <2>3. QED BY <1>1, <1>8, <2>1, <2>2 DEF CleanJobSucceeds
<1>11. QED BY <1>1, <1>6, <1>7, <1>9, <1>10, EndInv DEF Judgements

LEMMA KillInv == ASSUME IInv, Kill PROVE IInv'
<1>1. /\ UNCHANGED files /\ job'.phase = "idle" /\ Busy /\ last'.status = 130
      /\ last'.clean = (job.clean /\ FALSE)
  BY DEF Kill, End, Idle, Busy
<1>2. last'.status # 0 /\ ~last'.clean
  <2>1. ~(job.clean /\ FALSE)
    OBVIOUS
  <2>2. ~last'.clean
    BY <1>1, <2>1, Zenon
  <2>3. QED BY <1>1, <2>2
<1>3. Judgements'
  BY <1>2 DEF Judgements, CleanExitIsFresh, CleanExitHasEvidence, AlignedGapsAreStrays,
              CleanJobSucceeds
<1>4. QED BY <1>1, <1>3, EndInv

LEMMA StepInv == IInv /\ [Next]_vars => IInv'
<1> SUFFICES ASSUME IInv, [Next]_vars PROVE IInv'
  OBVIOUS
<1>1. CASE UNCHANGED vars
  BY <1>1 DEF vars, IInv, JobTyped, TargetTyped, FilesTyped, WritesReport, RanFresh, AssertedFresh,
     SummaryKnown, SumsMean, GapsMadeUp, Missing, MadeUp, Strays, Fresh, Busy, Writing, Running, Summing, Name,
     CleanExitIsFresh, CleanExitHasEvidence, AlignedGapsAreStrays, CleanJobSucceeds, Between, LastNames
<1>2. CASE FillFile
  <2>1. Running \/ Summing
    BY <1>2 DEF FillFile, IInv, JobTyped, Writing
  <2>2. QED BY <1>2, <2>1, FillReportInv, FillSummaryInv
<1>3. CASE StartAll \/ StartSubset \/ RunAborts \/ RunEnds \/ OpenFile \/ AssertReport
           \/ CannotSummarize \/ Summarize \/ Exit \/ Kill
  BY <1>3, StartAllInv, StartSubsetInv, RunAbortsInv, RunEndsInv, OpenFileInv, AssertReportInv,
     CannotSummarizeInv, SummarizeInv, ExitInv, KillInv
<1>4. QED BY <1>1, <1>2, <1>3 DEF Next, Finished

LEMMA Invariance == Spec => []IInv
  BY InitInv, StepInv, PTL DEF Spec

-----------------------------------------------------------------------------
\* A report is only ever found under the name of its manifest, whatever was
\* interrupted before (report.py:37, Makefile:36-52).
THEOREM CampaignTypes == Spec => []TypeOK
<1>1. IInv => TypeOK
  <2> SUFFICES ASSUME IInv PROVE TypeOK
    OBVIOUS
  <2>1. job.phase \in {"run", "assert"} => job.todo # <<>>
    BY DEF IInv, JobTyped, Running
  <2>2. ASSUME job.phase \in {"write", "fill"}
        PROVE  job.writes # <<>> /\ Range(job.writes) \subseteq Paths
    <3>1. Writing /\ Busy /\ (Running \/ Summing)
      BY <2>2 DEF IInv, JobTyped, Writing, Busy
    <3>2. CASE Running
      <4>1. Name \in Names
        BY <3>1, <3>2, BusyFields, HeadAndTail DEF IInv, JobTyped, Name
      <4>2. Report(Name) \in Paths /\ Evidence(Name) \in Paths
        BY <4>1, PathsAre
      <4>3. \/ job.writes = <<Report(Name)>>
            \/ job.writes = <<Report(Name), Evidence(Name)>>
            \/ job.writes = <<Evidence(Name)>>
        BY <3>1, <3>2 DEF IInv, WritesReport
      <4>4. \A q \in Range(job.writes) : q = Report(Name) \/ q = Evidence(Name)
        <5> DEFINE r == Report(Name)
                   e == Evidence(Name)
        <5>1. Range(<<r>>) = {r} /\ Range(<<e>>) = {e} /\ Range(<<r, e>>) = {r, e}
          BY ShortRanges
        <5>2. QED BY <4>3, <5>1
      <4>5. job.writes # <<>>
        BY <4>3
      <4>6. QED BY <4>2, <4>4, <4>5
    <3>3. CASE Summing
      <4>1. job.writes = <<job.summary>> /\ job.summary \in Paths
        BY <3>1, <3>3, BusyFields DEF IInv, SummaryKnown, TargetTyped, Paths
      <4>2. QED BY <4>1 DEF Range
    <3>4. QED BY <3>1, <3>2, <3>3
  <2>3. QED BY <2>1, <2>2 DEF IInv, JobTyped, FilesTyped, TypeOK
<1>2. QED BY <1>1, Invariance, PTL

\* Exit code 0 is never owed to a report that an earlier target left, or to one
\* that was half written when it was interrupted (Makefile:36-52, report.py:37).
THEOREM CleanExitsAreFresh == Spec => []CleanExitIsFresh
<1>1. IInv => CleanExitIsFresh
  BY DEF IInv
<1>2. QED BY <1>1, Invariance, PTL

\* After exit code 0 the durable copies are the reports of this very target
\* (report.py:39-44).
THEOREM CleanExitsHaveEvidence == Spec => []CleanExitHasEvidence
<1>1. IInv => CleanExitHasEvidence
  BY DEF IInv
<1>2. QED BY <1>1, Invariance, PTL

\* The directory recovers from whatever was left in it, with any number of
\* families and of earlier targets (Makefile:32-83).
THEOREM CleanJobsSucceed == Spec => []CleanJobSucceeds
<1>1. IInv => CleanJobSucceeds
  BY DEF IInv
<1>2. QED BY <1>1, Invariance, PTL

\* selected_equals_admitted compares two sums: with any families and whatever was
\* left in the directory, a family that ran nothing takes a stray report to make up
\* for it, one for one (summarize_rpc_reports.py:42-45, 61).
THEOREM AlignedGapsCounted == Spec => []AlignedGapsAreStrays
<1>1. IInv => AlignedGapsAreStrays
  BY DEF IInv
<1>2. QED BY <1>1, Invariance, PTL
=============================================================================
