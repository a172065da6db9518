---------------------------- MODULE ResultOracle ----------------------------
(***************************************************************************)
(* ResultOracle.compare: what a case expects, resolved with the words of   *)
(* the runner's context and derived again from what was observed, against  *)
(* the observation: storage by slot, code, logs of the last receipt, and   *)
(* the slots of the system witness.                                        *)
(***************************************************************************)
EXTENDS MemoryPrograms, DigestPrograms, LogPrograms, SystemWitness

(* A placeholder is the name of a word in the context. *)
Resolve(expected, context) ==
    IF expected.kind = "literal" THEN expected.word ELSE context[expected.kind]

(* The slot of a dynamic offset, which the runner observes too. *)
DynamicOffsetSlots(case) ==
    IF "dynamic_offset_slot" \in DOMAIN case.probe THEN {case.probe.dynamic_offset_slot} ELSE {}

(* The offset a dynamic program stored, if the runner observed its slot. *)
ObservedOr(observed, slot, default) ==
    IF slot \in DOMAIN observed.storage THEN observed.storage[slot] ELSE default

CanonicalStorage(case, observed) ==
    CASE case.probe.mode = "mcopy" /\ ~case.probe.fixed_src_dst ->
            DeriveMemoryExpectation(case.probe, ObservedOr(observed, 3, DefaultOffset(FALSE)),
                                    ObservedOr(observed, 4, DefaultOffset(FALSE)))
      [] case.probe.mode = "codecopy" ->
            DeriveCodecopyExpectation(case.probe, observed.code,
                                      observed.storage[case.probe.dynamic_offset_slot])
      [] case.probe.key = "block_context_probe" /\ case.probe.mode = "prevrandao" ->
            [case.expectedStorage EXCEPT ![0] = Literal(observed.storage[0])]
      [] OTHER -> case.expectedStorage

(* The log derived again from the probe; the declared one must be the      *)
(* same, or the comparison itself fails.                                   *)
DerivedLogs(case, observed) ==
    IF case.probe.mode # "log" THEN case.expectedLogs
    ELSE <<ExpectedReceiptLog(case.probe.template,
                              IF DynamicOffsetSlots(case) = {} THEN 0
                              ELSE observed.storage[case.probe.dynamic_offset_slot])>>

LogMatches(expected, log) ==
    /\ log.topics = expected.topics
    /\ Len(log.data) = expected.length
    /\ expected.content = IF expected.witness = "exact" THEN log.data ELSE <<Keccak(log.data)>>

(* No differences, and nothing raised on the way. *)
Compare(case, observed, context) ==
    /\ LET expected == CanonicalStorage(case, observed)
       IN  \A s \in DOMAIN expected : Resolve(expected[s], context) = observed.storage[s]
    /\ case.expectedLogs # <<>> =>
          LET derived == DerivedLogs(case, observed)
          IN  /\ case.expectedLogs = derived
              /\ Len(observed.logs) = Len(derived)
              /\ \A i \in DOMAIN derived : LogMatches(derived[i], observed.logs[i])
    /\ case.expectedWitness # <<>> =>
          WitnessObserved(case.probe, case.expectedWitness, observed.witness_slots)
=============================================================================
