----------------------------- MODULE Selection -----------------------------
(***************************************************************************)
(* The selector: which generated cases a chain profile is asked to run.  A *)
(* case that needs a feature is blocked unless the profile's feature_flags *)
(* name it; what a case needs is read from its observe section.            *)
(***************************************************************************)
EXTENDS GeneratedCase

(* block_context_probe: the modes a chain may lack. *)
BlockContextModeRequiredFeatures == [basefee |-> "base_fee", prevrandao |-> "prevrandao"]

NeededByBlockContext(probe) ==
    {BlockContextModeRequiredFeatures[mode] :
        mode \in {probe.mode} \intersect DOMAIN BlockContextModeRequiredFeatures}
NeededByLog(probe) ==
    IF probe.template.log_size >= Mebibyte \/ probe.template.memory_seed_size >= Mebibyte
    THEN {"large_log_payload"} ELSE {}
NeededByBitwise(probe) == IF probe.opcode = "CLZ" THEN {"clz"} ELSE {}

(* The payload of a return is known to the selector only by the case's id. *)
NeededBySystem(probe, case_id_names_large_non_zero) ==
    CASE probe.shape = "create_child_code" ->
            IF probe.initcode_size >= MaxCodeSize THEN {"max_create_child_code"} ELSE {}
      [] probe.shape = "create_collision" -> {"create_collision"}
      [] probe.shape = "return_revert_self_call" ->
            IF case_id_names_large_non_zero THEN {"large_nonzero_returndata"} ELSE {}
      [] probe.shape = "selfdestruct_single" ->
            IF probe.scenario = "created" THEN {"selfdestruct_created_clears_code"} ELSE {}
      [] OTHER -> {}

(* "1mib_of_non_zero_data" in case_id: the id a system template is given   *)
(* names its parameters.                                                   *)
NamesLargeNonZeroData(case_id) ==
    /\ case_id[1] = "test_return_revert"
    /\ case_id[2][2] = Mebibyte /\ case_id[2][3]

(* What a case needs; at most one feature, since it has at most one probe. *)
RequiredFeatures(case) ==
    CASE case.probe.key = "block_context_probe" -> NeededByBlockContext(case.probe)
      [] case.probe.key = "log_probe" -> NeededByLog(case.probe)
      [] case.probe.key = "bitwise_probe" -> NeededByBitwise(case.probe)
      [] case.probe.key \in {"precompile_probe", "tx_admission_probe", "eip7702_probe"} ->
            {case.probe.required_feature}
      [] case.probe.key = "system_witness" ->
            NeededBySystem(case.probe, NamesLargeNonZeroData(case.name))
      [] OTHER -> {}

(* decide: a generated case has no filter that blocks it and no step only  *)
(* the mock backend has.                                                   *)
Selected(case, feature_flags) == RequiredFeatures(case) \subseteq feature_flags
=============================================================================
