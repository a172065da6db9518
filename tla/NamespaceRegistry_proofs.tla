------------------------ MODULE NamespaceRegistry_proofs ------------------------
(* Proofs of what the registry promises, for any number of runs and profiles   *)
(* and every list of cases.                                                    *)
EXTENDS NamespaceRegistry, SequenceTheorems, TLAPS

-----------------------------------------------------------------------------
(* The invariant.  While nothing was disturbed, one run at a time is writing,  *)
(* and what it read is still what the file holds when it does.                 *)

Phases == {"new", "load", "open", "fill", "done", "aborted", "killed"}

RunsTyped ==
  /\ DOMAIN run = Runs
  /\ \A r \in Runs : /\ DOMAIN run[r] = {"phase", "next", "copy"}
                     /\ run[r].phase \in Phases
                     /\ run[r].phase = "new" \/ Active(r) => run[r].next \in DOMAIN Wanted

FileTyped == DOMAIN file = {"state", "registry"}
             /\ file.state \in {"absent", "open", "written", "garbled"}

\* Every record is that of its key, in the file and in what the runs have read.
Keyed(registry) == \A k \in DOMAIN registry : registry[k].key = k
KeysMatch == Keyed(file.registry) /\ \A r \in Runs : Keyed(run[r].copy)

OneWriting == \A r, s \in Runs : Writing(r) /\ Writing(s) => r = s

\* The file is open only for the run that fills it, and complete otherwise.
FileWhole ==
  /\ file.state # "garbled"
  /\ file.state = "open" <=> \E r \in Runs : run[r].phase = "fill"

CopyFresh == \A r \in Runs : Writing(r) =>
               run[r].copy = file.registry /\ Key(r) \notin DOMAIN file.registry

HandedKept == \A h \in handed : h[2].key \in DOMAIN file.registry
                                /\ file.registry[h[2].key] = h[2]

Undisturbed == OneWriting /\ FileWhole /\ CopyFresh /\ HandedKept

IInv == /\ disturbed \in BOOLEAN
        /\ RunsTyped
        /\ FileTyped
        /\ KeysMatch
        /\ disturbed \/ Undisturbed

-----------------------------------------------------------------------------
\* What a run asks for after the last but one namespace is still in the list.
LEMMA WantedIsSequence ==
  /\ Len(Wanted) \in Nat /\ DOMAIN Wanted = 1..Len(Wanted) /\ Len(Wanted) >= 1
<1> DEFINE first == [id |-> Global, seed |-> Global]
           T == Range(Cases) \cup {first}
<1>1. <<first>> \in Seq(T) /\ Len(<<first>>) = 1
  OBVIOUS
<1>2. Cases \in Seq(T)
  BY RegistryConstants, SeqMonotonic
<1> HIDE DEF first, T
<1>3. Wanted = <<first>> \o Cases
  BY DEF Wanted, first
<1>4. Wanted \in Seq(T) /\ Len(Wanted) = 1 + Len(Cases)
  BY <1>1, <1>2, <1>3, ConcatProperties
<1>5. QED BY <1>2, <1>4, LenProperties

LEMMA InitInv == Init => IInv
<1> SUFFICES ASSUME Init PROVE IInv
  OBVIOUS
<1>1. RunsTyped
  BY WantedIsSequence DEF Init, RunsTyped, Phases
<1>2. FileTyped /\ KeysMatch
  BY EmptySeq DEF Init, FileTyped, KeysMatch, Keyed, Empty
<1>3. Undisturbed
  BY DEF Init, Undisturbed, OneWriting, FileWhole, CopyFresh, HandedKept, Writing
<1>4. QED BY <1>1, <1>2, <1>3 DEF IInv, Init

\* The run whose step it is: the others stay as they are.
Others(r) == /\ DOMAIN run' = DOMAIN run
             /\ \A s \in Runs \ {r} : run'[s] = run[s]

\* A step of a run that does not write before or after it, and leaves the file.
LEMMA IdleInv ==
  ASSUME Undisturbed, NEW r \in Runs, Others(r), UNCHANGED <<file, handed>>,
         run[r].phase # "fill", ~Writing(r)'
  PROVE  Undisturbed'
<1>1. OneWriting'
  BY DEF Undisturbed, OneWriting, Others, Writing
<1>2. FileWhole'
  BY DEF Undisturbed, FileWhole, Others, Writing
<1>3. CopyFresh'
  BY DEF Undisturbed, CopyFresh, Others, Key, Wanted, Writing
<1>4. HandedKept'
  BY DEF Undisturbed, HandedKept
<1>5. QED BY <1>1, <1>2, <1>3, <1>4 DEF Undisturbed

LEMMA StartInv == ASSUME IInv, NEW r \in Runs, Start(r) PROVE IInv'
<1>1. /\ run' = [run EXCEPT ![r].phase = "load"]
      /\ UNCHANGED <<file, handed, disturbed>> /\ run[r].phase = "new"
  BY DEF Start
<1>2. Others(r) /\ run'[r].phase = "load" /\ run'[r].next = run[r].next
      /\ run'[r].copy = run[r].copy /\ DOMAIN run'[r] = DOMAIN run[r]
  BY <1>1 DEF Others, IInv, RunsTyped
<1>3. RunsTyped'
  BY <1>1, <1>2 DEF Others, IInv, RunsTyped, Active, Phases, Wanted
<1>4. FileTyped' /\ KeysMatch'
  BY <1>1, <1>2 DEF Others, IInv, FileTyped, KeysMatch, Keyed
<1>5. Undisturbed => Undisturbed'
  BY <1>1, <1>2, IdleInv DEF Writing
<1>6. QED BY <1>1, <1>3, <1>4, <1>5 DEF IInv

LEMMA LoadFailsInv == ASSUME IInv, NEW r \in Runs, LoadFails(r) PROVE IInv'
<1>1. /\ run' = [run EXCEPT ![r].phase = "aborted"]
      /\ UNCHANGED <<file, handed, disturbed>> /\ run[r].phase = "load"
  BY DEF LoadFails
<1>2. Others(r) /\ run'[r].phase = "aborted" /\ run'[r].copy = run[r].copy
      /\ DOMAIN run'[r] = DOMAIN run[r]
  BY <1>1 DEF Others, IInv, RunsTyped
<1>3. RunsTyped'
  BY <1>2 DEF Others, IInv, RunsTyped, Active, Phases, Wanted
<1>4. FileTyped' /\ KeysMatch'
  BY <1>1, <1>2 DEF Others, IInv, FileTyped, KeysMatch, Keyed
<1>5. Undisturbed => Undisturbed'
  BY <1>1, <1>2, IdleInv DEF Writing
<1>6. QED BY <1>1, <1>3, <1>4, <1>5 DEF IInv

\* The file is open, or left so, only because a run is filling it, or was.
LEMMA FailsForCause ==
  ASSUME IInv, NEW r \in Runs, LoadFails(r)
  PROVE  disturbed \/ \E s \in Runs \ {r} : run[s].phase = "fill"
<1>1. run[r].phase = "load" /\ file.state \in {"open", "garbled"}
  BY DEF LoadFails
<1>2. QED BY <1>1 DEF IInv, Undisturbed, FileWhole

\* Back to the loop, with a record the file holds.
LEMMA HandInv ==
  ASSUME IInv, NEW r \in Runs, Active(r), NEW record, Hand(r, record),
         disturbed' = disturbed, FileTyped', Keyed(file.registry)',
         ~disturbed => /\ file'.state \notin {"open", "garbled"}
                       /\ \A s \in Runs \ {r} : run[s].phase # "fill"
                       /\ file' = file \/ \A s \in Runs \ {r} : ~Writing(s)
                       /\ record.key \in DOMAIN file'.registry
                       /\ file'.registry[record.key] = record
                       /\ \A h \in handed : /\ h[2].key \in DOMAIN file'.registry
                                            /\ file'.registry[h[2].key] = h[2]
  PROVE  IInv'
<1>1. /\ handed' = handed \cup {<<r, record>>}
      /\ run' = [run EXCEPT ![r].next = @ + 1, ![r].copy = Empty,
                   ![r].phase = IF run[r].next = Len(Wanted) THEN "done" ELSE "load"]
  BY DEF Hand
<1>2. /\ Others(r) /\ DOMAIN run'[r] = {"phase", "next", "copy"}
      /\ run'[r].next = run[r].next + 1 /\ run'[r].copy = Empty
      /\ run'[r].phase = IF run[r].next = Len(Wanted) THEN "done" ELSE "load"
  BY <1>1 DEF Others, IInv, RunsTyped
<1>3. RunsTyped'
  <2>1. run[r].next \in 1..Len(Wanted) /\ Len(Wanted) \in Nat
    BY WantedIsSequence DEF IInv, RunsTyped
  <2>2. Active(r)' => run'[r].next \in 1..Len(Wanted)
    BY <1>2, <2>1 DEF Active
  <2>3. Wanted' = Wanted
    BY DEF Wanted
  <2>4. QED BY <1>2, <2>2, <2>3, WantedIsSequence DEF Others, IInv, RunsTyped, Active, Phases
<1>4. KeysMatch'
  BY <1>2, EmptySeq DEF IInv, KeysMatch, Keyed, Others, Empty
<1>5. ~disturbed => Undisturbed'
  <2> SUFFICES ASSUME ~disturbed PROVE Undisturbed'
    OBVIOUS
  <2>1. Undisturbed
    BY DEF IInv
  <2>2. ~Writing(r)'
    BY <1>2 DEF Writing
  <2>3. OneWriting'
    BY <1>2, <2>1, <2>2 DEF Undisturbed, OneWriting, Others, Writing
  <2>4. FileWhole'
    BY <1>2, <2>2 DEF FileWhole, Others, Writing
  <2>5. CopyFresh'
    BY <1>2, <2>1, <2>2 DEF Undisturbed, CopyFresh, Others, Key, Wanted, Writing
  <2>6. HandedKept'
    BY <1>1 DEF HandedKept
  <2>7. QED BY <2>3, <2>4, <2>5, <2>6 DEF Undisturbed
<1>6. QED BY <1>3, <1>4, <1>5 DEF IInv

LEMMA LoadInv == ASSUME IInv, NEW r \in Runs, Load(r) PROVE IInv'
<1>1. /\ file' = file /\ run[r].phase = "load" /\ file.state \in {"absent", "written"}
  BY DEF Load
<1>2. CASE Key(r) \in DOMAIN file.registry
  <2>1. Hand(r, file.registry[Key(r)]) /\ disturbed' = disturbed
    BY <1>2 DEF Load
  <2>2. file.registry[Key(r)].key = Key(r)
    BY <1>2 DEF IInv, KeysMatch, Keyed
  <2>3. Active(r)
    BY <1>1 DEF Active
  <2>4. ~disturbed => HandedKept /\ \A s \in Runs \ {r} : run[s].phase # "fill"
    BY <1>1 DEF IInv, Undisturbed, FileWhole
  <2>5. FileTyped' /\ Keyed(file.registry)'
    BY <1>1 DEF IInv, FileTyped, KeysMatch, Keyed
  <2>6. QED BY <1>1, <1>2, <2>1, <2>2, <2>3, <2>4, <2>5, HandInv DEF HandedKept
<1>3. CASE Key(r) \notin DOMAIN file.registry
  <2>1. /\ run' = [run EXCEPT ![r].phase = "open", ![r].copy = file.registry]
        /\ disturbed' = (disturbed \/ \E s \in Runs \ {r} : Writing(s))
        /\ handed' = handed
    BY <1>3 DEF Load
  <2>2. /\ Others(r) /\ DOMAIN run'[r] = DOMAIN run[r] /\ run'[r].phase = "open"
        /\ run'[r].next = run[r].next /\ run'[r].copy = file.registry
    BY <2>1 DEF Others, IInv, RunsTyped
  <2>3. RunsTyped'
    BY <1>1, <2>2 DEF Others, IInv, RunsTyped, Active, Phases, Wanted
  <2>4. FileTyped' /\ KeysMatch'
    BY <1>1, <2>2 DEF Others, IInv, FileTyped, KeysMatch, Keyed
  <2>5. ~disturbed' => Undisturbed'
    <3> SUFFICES ASSUME ~disturbed' PROVE Undisturbed'
      OBVIOUS
    <3>1. Undisturbed /\ \A s \in Runs \ {r} : ~Writing(s)
      BY <2>1 DEF IInv
    <3>2. OneWriting'
      BY <2>2, <3>1 DEF OneWriting, Others, Writing
    <3>3. FileWhole'
      BY <1>1, <2>2, <3>1 DEF Undisturbed, FileWhole, Others
    <3>4. CopyFresh'
      BY <1>1, <1>3, <2>2, <3>1 DEF CopyFresh, Others, Key, Wanted, Writing
    <3>5. HandedKept'
      BY <1>1, <2>1, <3>1 DEF Undisturbed, HandedKept
    <3>6. QED BY <3>2, <3>3, <3>4, <3>5 DEF Undisturbed
  <2>6. disturbed' \in BOOLEAN
    BY <2>1 DEF IInv
  <2>7. QED BY <2>3, <2>4, <2>5, <2>6 DEF IInv
<1>4. QED BY <1>2, <1>3

LEMMA OpenInv == ASSUME IInv, NEW r \in Runs, OpenRegistry(r) PROVE IInv'
<1>1. /\ file' = [file EXCEPT !.state = "open"]
      /\ run' = [run EXCEPT ![r].phase = "fill"]
      /\ UNCHANGED <<handed, disturbed>> /\ run[r].phase = "open"
  BY DEF OpenRegistry
<1>2. /\ Others(r) /\ DOMAIN run'[r] = DOMAIN run[r] /\ run'[r].phase = "fill"
      /\ run'[r].next = run[r].next /\ run'[r].copy = run[r].copy
      /\ file'.state = "open" /\ file'.registry = file.registry
  BY <1>1 DEF Others, IInv, RunsTyped, FileTyped
<1>3. RunsTyped'
  BY <1>1, <1>2 DEF Others, IInv, RunsTyped, Active, Phases, Wanted
<1>4. FileTyped' /\ KeysMatch'
  BY <1>1, <1>2 DEF Others, IInv, FileTyped, KeysMatch, Keyed
<1>5. Undisturbed => Undisturbed'
  <2> SUFFICES ASSUME Undisturbed PROVE Undisturbed'
    OBVIOUS
  <2>1. OneWriting'
    BY <1>1, <1>2 DEF Undisturbed, OneWriting, Others, Writing
  <2>2. FileWhole'
    BY <1>2 DEF FileWhole
  <2>3. CopyFresh'
    <3>1. \A s \in Runs : /\ run'[s].next = run[s].next /\ run'[s].copy = run[s].copy
                          /\ Writing(s)' => Writing(s)
      BY <1>1, <1>2 DEF Others, Writing
    <3>2. \A s \in Runs : Key(s)' = Key(s)
      BY <3>1 DEF Key, Wanted
    <3>3. QED BY <1>2, <3>1, <3>2 DEF Undisturbed, CopyFresh
  <2>4. HandedKept'
    BY <1>1, <1>2 DEF Undisturbed, HandedKept
  <2>5. QED BY <2>1, <2>2, <2>3, <2>4 DEF Undisturbed
<1>6. QED BY <1>1, <1>3, <1>4, <1>5 DEF IInv

\* Adding the record keeps those that were there, if nobody wrote in between.
LEMMA FillInv == ASSUME IInv, NEW r \in Runs, FillRegistry(r) PROVE IInv'
<1>1. PICK state \in IF file.state = "open" THEN {"written"} ELSE {"written", "garbled"} :
        file' = [state |-> state, registry |-> Extended(r)]
  BY DEF FillRegistry
<1>2. run[r].phase = "fill" /\ Hand(r, Record(r)) /\ disturbed' = disturbed
  BY DEF FillRegistry
<1>3. /\ file'.state = state /\ file'.registry = Extended(r) /\ FileTyped'
  BY <1>1 DEF FileTyped
<1>4. /\ DOMAIN Extended(r) = DOMAIN run[r].copy \cup {Key(r)}
      /\ Extended(r)[Key(r)] = Record(r) /\ Record(r).key = Key(r)
      /\ \A k \in DOMAIN run[r].copy : k # Key(r) => Extended(r)[k] = run[r].copy[k]
  BY DEF Extended, Record
<1>5. Keyed(file.registry)'
  BY <1>3, <1>4 DEF IInv, KeysMatch, Keyed
<1>6. Active(r)
  BY <1>2 DEF Active
<1>7. ASSUME ~disturbed
      PROVE  /\ file'.state \notin {"open", "garbled"}
             /\ \A s \in Runs \ {r} : ~Writing(s)
             /\ \A h \in handed : /\ h[2].key \in DOMAIN file'.registry
                                  /\ file'.registry[h[2].key] = h[2]
  <2>1. Undisturbed
    BY <1>7 DEF IInv
  <2>2. file.state = "open" /\ state = "written"
    BY <1>1, <1>2, <2>1 DEF Undisturbed, FileWhole
  <2>3. run[r].copy = file.registry /\ Key(r) \notin DOMAIN file.registry
    BY <1>2, <2>1 DEF Undisturbed, CopyFresh, Writing
  <2>4. \A s \in Runs \ {r} : ~Writing(s)
    BY <1>2, <2>1 DEF Undisturbed, OneWriting, Writing
  <2>5. QED BY <1>3, <1>4, <2>1, <2>2, <2>3, <2>4 DEF Undisturbed, HandedKept
<1>8. QED BY <1>2, <1>3, <1>4, <1>5, <1>6, <1>7, HandInv DEF Writing

LEMMA KillInv == ASSUME IInv, NEW r \in Runs, Kill(r) PROVE IInv'
<1>1. /\ run' = [run EXCEPT ![r].phase = "killed"] /\ UNCHANGED <<file, handed>>
      /\ disturbed' = (disturbed \/ run[r].phase = "fill")
  BY DEF Kill
<1>2. Others(r) /\ run'[r].phase = "killed" /\ run'[r].copy = run[r].copy
      /\ DOMAIN run'[r] = DOMAIN run[r]
  BY <1>1 DEF Others, IInv, RunsTyped
<1>3. RunsTyped'
  BY <1>2 DEF Others, IInv, RunsTyped, Active, Phases, Wanted
<1>4. FileTyped' /\ KeysMatch'
  BY <1>1, <1>2 DEF Others, IInv, FileTyped, KeysMatch, Keyed
<1>5. ~disturbed' => Undisturbed'
  BY <1>1, <1>2, IdleInv DEF IInv, Writing
<1>6. QED BY <1>1, <1>3, <1>4, <1>5 DEF IInv

LEMMA StepInv == IInv /\ [Next]_vars => IInv'
<1> SUFFICES ASSUME IInv, [Next]_vars PROVE IInv'
  OBVIOUS
<1>1. CASE UNCHANGED vars
  BY <1>1 DEF vars, IInv, RunsTyped, FileTyped, KeysMatch, Keyed, Undisturbed, OneWriting, FileWhole,
     CopyFresh, HandedKept, Active, Writing, Key, Wanted
<1>2. ASSUME NEW r \in Runs, Start(r) \/ LoadFails(r) \/ Load(r)
      PROVE  IInv'
  BY <1>2, StartInv, LoadFailsInv, LoadInv
<1>3. ASSUME NEW r \in Runs, OpenRegistry(r) \/ FillRegistry(r) \/ Kill(r)
      PROVE  IInv'
  BY <1>3, OpenInv, FillInv, KillInv
<1>4. QED BY <1>1, <1>2, <1>3 DEF Next, Finished

LEMMA Invariance == Spec => []IInv
  BY InitInv, StepInv, PTL DEF Spec

-----------------------------------------------------------------------------
\* A run asks for namespaces of its list only, and a record is filed under the
\* seed it was made for (bootstrap.py:31-48).
THEOREM RegistryTypes == Spec => []TypeOK
<1>1. IInv => TypeOK
  BY DEF IInv, RunsTyped, FileTyped, KeysMatch, Keyed, TypeOK
<1>2. QED BY <1>1, Invariance, PTL

\* A run fails on the registry only while another is filling it, or after two
\* runs wrote at once or one was killed at it, however many runs of however many
\* profiles overlap or were interrupted elsewhere (bootstrap.py:58-64).
THEOREM AbortsHaveCause == Spec => AbortHasCause
<1>1. ASSUME IInv, [Next]_vars,
             NEW r \in Runs, run[r].phase # "aborted", run'[r].phase = "aborted"
      PROVE  disturbed \/ \E s \in Runs \ {r} : run[s].phase = "fill"
  <2>1. PICK s \in Runs : \/ Start(s) \/ LoadFails(s) \/ Load(s)
                          \/ OpenRegistry(s) \/ FillRegistry(s) \/ Kill(s)
    BY <1>1 DEF Next, Finished, vars
  <2>2. LoadFails(s)
    BY <1>1, <2>1 DEF IInv, RunsTyped, Start, Load, Hand, OpenRegistry, FillRegistry, Kill
  <2>3. s = r
    BY <1>1, <2>2 DEF IInv, RunsTyped, LoadFails
  <2>4. QED BY <1>1, <2>2, <2>3, FailsForCause
<1>2. IInv /\ [Next]_vars => [\A r \in Runs : run[r].phase # "aborted" /\ run'[r].phase = "aborted" =>
                                disturbed \/ \E s \in Runs \ {r} : run[s].phase = "fill"]_vars
  BY <1>1
<1>3. QED BY <1>2, Invariance, PTL DEF Spec, AbortHasCause

\* Runs that overlap lose no record as long as no two write at once and none is
\* killed at it: what a run was given is what later runs of any profile find
\* (bootstrap.py:31-48).
THEOREM RecordsAreKept == Spec => []RecordsKept
<1>1. IInv => RecordsKept
  BY DEF IInv, Undisturbed, HandedKept, RecordsKept
<1>2. QED BY <1>1, Invariance, PTL
=============================================================================
