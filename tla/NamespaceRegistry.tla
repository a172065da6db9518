--------------------------- MODULE NamespaceRegistry ----------------------------
(***************************************************************************)
(* StateBootstrapper of src/adapter/bootstrap.py: the registry of          *)
(* namespaces in a state directory, which every run of adapter.cli reads,  *)
(* extends and writes back without a lock, once for _global and once for   *)
(* each case.  Runs may overlap and may be interrupted.                    *)
(***************************************************************************)
EXTENDS Naturals, Sequences, FiniteSets, Functions

CONSTANTS
  Runs,       \* the runs that use the state directory
  ProfileOf,  \* their chain profiles: [name, prefix, always_new]
  Cases       \* the selected cases, in order: [id, seed]; cases may share a seed

ASSUME RegistryConstants ==
  /\ DOMAIN ProfileOf = Runs
  /\ Cases # <<>> /\ Cases \in Seq(Range(Cases))

Global == "_global"
Empty == <<>>     \* no record

VARIABLES
  file,       \* namespaces.json: its state and the registry last written
  run,        \* the local state of each run
  handed,     \* history: the records the runs were given
  disturbed   \* history: two runs were writing at once, or one was killed at it

vars == <<file, run, handed, disturbed>>

Active(r) == run[r].phase \notin {"new", "done", "aborted", "killed"}

\* A run writes from the moment it has read a registry that lacks its record.
Writing(r) == run[r].phase \in {"open", "fill"}

\* The hash of the seed behind the profile's prefix, and of the profile's name
\* if its namespaces are always new.
NamespaceForSeed(profile, seed) ==
  IF profile.always_new THEN <<profile.prefix, seed, profile.name>>
  ELSE <<profile.prefix, seed>>

\* What a run asks for, in order, and the key it looks for.
Wanted == <<[id |-> Global, seed |-> Global]>> \o Cases
Key(r) == IF run[r].next = 1 THEN <<Global>>
          ELSE NamespaceForSeed(ProfileOf[r], Wanted[run[r].next].seed)
Record(r) == [key |-> Key(r), creator |-> ProfileOf[r].name, case |-> Wanted[run[r].next].id]

Init ==
  /\ file = [state |-> "absent", registry |-> Empty]
  /\ run = [r \in Runs |-> [phase |-> "new", next |-> 1, copy |-> Empty]]
  /\ handed = {}
  /\ disturbed = FALSE

Start(r) ==
  /\ run[r].phase = "new"
  /\ run' = [run EXCEPT ![r].phase = "load"]
  /\ UNCHANGED <<file, handed, disturbed>>

\* Faulty variant: the loop over the cases does not end.
HandOnwards(r, record) ==
  /\ handed' = handed \cup {<<r, record>>}
  /\ run' = [run EXCEPT ![r].next = @ + 1, ![r].copy = Empty, ![r].phase = "load"]

\* Back to the loop over the cases with the record for the current key.
Hand(r, record) ==
  /\ handed' = handed \cup {<<r, record>>}
  /\ run' = [run EXCEPT ![r].next = @ + 1, ![r].copy = Empty,
               ![r].phase = IF run[r].next = Len(Wanted) THEN "done" ELSE "load"]

\* json.loads of a file that is open for writing, or was left so, fails.
LoadFails(r) ==
  /\ run[r].phase = "load"
  /\ file.state \in {"open", "garbled"}
  /\ run' = [run EXCEPT ![r].phase = "aborted"]
  /\ UNCHANGED <<file, handed, disturbed>>

\* Faulty variant: the registry is opened for writing before it is read.
LoadOpened(r) ==
  /\ run[r].phase = "load"
  /\ file.state \in {"absent", "written"}
  /\ Key(r) \notin DOMAIN file.registry
  /\ run' = [run EXCEPT ![r].phase = "open", ![r].copy = file.registry]
  /\ file' = [file EXCEPT !.state = "open"]
  /\ disturbed' = (disturbed \/ \E s \in Runs \ {r} : Writing(s))
  /\ UNCHANGED handed

\* The record exists, whoever created it, or has to be added.
Load(r) ==
  /\ run[r].phase = "load"
  /\ file.state \in {"absent", "written"}
  /\ IF Key(r) \in DOMAIN file.registry
     THEN Hand(r, file.registry[Key(r)]) /\ UNCHANGED disturbed
     ELSE /\ run' = [run EXCEPT ![r].phase = "open", ![r].copy = file.registry]
          /\ disturbed' = (disturbed \/ \E s \in Runs \ {r} : Writing(s))
          /\ UNCHANGED handed
  /\ UNCHANGED file

\* write_text truncates the file when it opens it.
OpenRegistry(r) ==
  /\ run[r].phase = "open"
  /\ file' = [file EXCEPT !.state = "open"]
  /\ run' = [run EXCEPT ![r].phase = "fill"]
  /\ UNCHANGED <<handed, disturbed>>

Extended(r) == [k \in DOMAIN run[r].copy \cup {Key(r)} |->
                 IF k = Key(r) THEN Record(r) ELSE run[r].copy[k]]

\* Faulty variant: only the new record is written.
FillWithRecord(r) ==
  /\ run[r].phase = "fill"
  /\ file' = [state |-> "written", registry |-> [k \in {Key(r)} |-> Record(r)]]
  /\ Hand(r, Record(r))
  /\ UNCHANGED disturbed

\* What another run wrote since the file was opened is overwritten from the
\* start: its end remains where it was longer.
FillRegistry(r) ==
  /\ run[r].phase = "fill"
  /\ \E state \in IF file.state = "open" THEN {"written"} ELSE {"written", "garbled"} :
       file' = [state |-> state, registry |-> Extended(r)]
  /\ Hand(r, Record(r))
  /\ UNCHANGED disturbed

Kill(r) ==
  /\ Active(r)
  /\ run' = [run EXCEPT ![r].phase = "killed"]
  /\ disturbed' = (disturbed \/ run[r].phase = "fill")
  /\ UNCHANGED <<file, handed>>

Finished == (\A r \in Runs : run[r].phase # "new" /\ ~Active(r)) /\ UNCHANGED vars

Next ==
  \/ \E r \in Runs : \/ Start(r) \/ LoadFails(r) \/ Load(r)
                     \/ OpenRegistry(r) \/ FillRegistry(r) \/ Kill(r)
  \/ Finished

Spec == Init /\ [][Next]_vars

-----------------------------------------------------------------------------
TypeOK ==
  /\ file.state \in {"absent", "open", "written", "garbled"}
  /\ \A r \in Runs : Active(r) => run[r].next \in DOMAIN Wanted
  /\ \A k \in DOMAIN file.registry : file.registry[k].key = k

\* A run fails on the registry only while another is filling it, or after two
\* runs wrote at once or one was killed at it.  Runs that overlap otherwise, and
\* interrupts anywhere else, leave nothing that a later run fails on
\* (bootstrap.py:58-64; the call at cli.py:341 is outside the try block, so that
\* a failure aborts the run).
AbortHasCause ==
  [][\A r \in Runs : run[r].phase # "aborted" /\ run'[r].phase = "aborted" =>
        disturbed \/ \E s \in Runs \ {r} : run[s].phase = "fill"]_vars

\* Runs that overlap, or are interrupted, lose nothing as long as no two write at
\* once and none is killed at it: every record a run was given is in the registry,
\* as it was given, when the file can be read, although runs of the same and of
\* other profiles ask for the same namespaces meanwhile (bootstrap.py:31-48).
RecordsKept ==
  ~disturbed /\ file.state = "written" =>
    \A h \in handed : h[2].key \in DOMAIN file.registry /\ file.registry[h[2].key] = h[2]
=============================================================================
