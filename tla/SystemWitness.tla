--------------------------- MODULE SystemWitness ---------------------------
(***************************************************************************)
(* The witness of a system case: what its contract leaves in its storage   *)
(* about a call or a creation it made, declared by the generator, read     *)
(* slot by slot by the runner, and compared field by field by the oracle.  *)
(***************************************************************************)
EXTENDS GeneratedCase
LOCAL INSTANCE TLC

CONSTANT CreateSalt      \* 42
ProxyCallGas == 100000

(* observe.system_witness *)
Declaration(shape, fields) == [key |-> "system_witness", mode |-> "none", shape |-> shape] @@ fields

ValidDeclaration(config) ==
    CASE config.shape = "return_revert_self_call" -> TRUE
      [] config.shape = "create_empty_child" ->
            /\ config.opcode \in {"CREATE", "CREATE2"}
            /\ config.value \in {0, 1}
            /\ config.initcode_size = 0
            /\ config.salt = IF config.opcode = "CREATE2" THEN <<CreateSalt>> ELSE <<>>
      [] config.shape = "create_child_code" ->
            /\ config.opcode \in {"CREATE", "CREATE2"}
            /\ config.value = 0
            /\ config.initcode_size > 0
            /\ config.data_kind \in {"zero", "non_zero"}
            /\ config.salt = IF config.opcode = "CREATE2" THEN <<CreateSalt>> ELSE <<>>
      [] config.shape = "create_collision" ->
            /\ config.opcode = "CREATE2"
            /\ config.value = 0 /\ config.initcode_size = 0 /\ config.salt = <<0>>
            /\ config.proxy_call_gas > 0
      [] config.shape = "selfdestruct_single" ->
            /\ config.scenario \in {"created", "existing"}
            /\ config.value \in {0, 1}
            /\ config.hardfork_semantics = "cancun"
      [] OTHER -> FALSE

-----------------------------------------------------------------------------
(* expected.system_witness, one builder per shape. *)

ReturnRevertWitness(opcode, payload) ==
    [shape |-> "return_revert_self_call", success |-> opcode = "RETURN",
     returndata_size |-> Len(payload), returndata_digest |-> Keccak(payload)]

CreateEmptyChildWitness(value) ==
    [shape |-> "create_empty_child", success |-> TRUE, created_address_nonzero |-> TRUE,
     created_code_size |-> 0]
      @@ (IF value > 0 THEN [created_balance |-> value] ELSE <<>>)

(* A child of index bytes behind its own initcode, which deploys itself:   *)
(* CODECOPY of the whole, RETURN of the whole.                             *)
ChildPrefix(size) == PushInt(size) \o <<128, 95, 95, 57, 95, 243>>
CreateChildCodePayload(initcode_size, data_kind) ==
    IF data_kind = "zero" THEN Zeros(initcode_size)
    ELSE ChildPrefix(initcode_size)
           \o [i \in 1 .. initcode_size - Len(ChildPrefix(initcode_size)) |-> (i - 1) % 256]
CreateChildCodeWitness(initcode_size, data_kind) ==
    [shape |-> "create_child_code", success |-> TRUE, created_address_nonzero |-> TRUE,
     created_code_size |-> initcode_size,
     created_code_hash |-> Keccak(CreateChildCodePayload(initcode_size, data_kind))]

CreateCollisionWitness ==
    [shape |-> "create_collision", proxy_deploy_success |-> TRUE,
     first_create_call_success |-> TRUE, first_created_address_nonzero |-> TRUE,
     first_created_code_size |-> 0, collision_call_success |-> FALSE,
     collision_returndata_size |-> 0]

(* Cancun: only a contract of the same transaction loses its code. *)
SelfdestructSingleWitness(scenario, value) ==
    [shape |-> "selfdestruct_single", scenario |-> scenario, child_address_nonzero |-> TRUE,
     selfdestruct_call_success |-> TRUE,
     child_code_size_after |-> IF scenario = "created" THEN 0 ELSE 2]
      @@ (IF scenario = "existing"
          THEN [setup_create_success |-> TRUE, child_code_size_before |-> 2]
          ELSE [create_success |-> TRUE])
      @@ (IF value > 0 THEN [beneficiary_balance_after |-> value] ELSE <<>>)

-----------------------------------------------------------------------------
(* Reading it back: the slots a declaration names, and the witness they    *)
(* hold.  A success word that is neither 0 nor 1 is no witness at all.     *)

SystemWitnessStorageSlots(config) ==
    CASE config.shape = "create_empty_child" -> IF config.value > 0 THEN 0 .. 3 ELSE 0 .. 2
      [] config.shape = "create_child_code" -> 0 .. 3
      [] config.shape = "create_collision" -> 0 .. 5
      [] config.shape = "selfdestruct_single" /\ config.scenario = "existing" ->
            IF config.value > 0 THEN 0 .. 5 ELSE 0 .. 4
      [] config.shape = "selfdestruct_single" -> IF config.value > 0 THEN 0 .. 4 ELSE 0 .. 3
      [] OTHER -> 0 .. 2

SuccessSlots(config) ==                  \* those _word_to_bool reads
    CASE config.shape = "create_collision" -> {0, 1, 4}
      [] config.shape = "selfdestruct_single" ->
            IF config.scenario = "existing" THEN {0, 3} ELSE {0, 2}
      [] OTHER -> {0}

Collected(config, slot) ==
    CASE config.shape = "return_revert_self_call" ->
            [success |-> slot[0] = 1, returndata_size |-> slot[1], returndata_digest |-> slot[2]]
      [] config.shape = "create_empty_child" ->
            [success |-> slot[0] = 1, created_address_nonzero |-> slot[1] # 0,
             created_code_size |-> slot[2]]
              @@ (IF config.value > 0 THEN [created_balance |-> slot[3]] ELSE <<>>)
      [] config.shape = "create_child_code" ->
            [success |-> slot[0] = 1, created_address_nonzero |-> slot[1] # 0,
             created_code_size |-> slot[2], created_code_hash |-> slot[3]]
      [] config.shape = "create_collision" ->
            [proxy_deploy_success |-> slot[0] = 1, first_create_call_success |-> slot[1] = 1,
             first_created_address_nonzero |-> slot[2] # 0, first_created_code_size |-> slot[3],
             collision_call_success |-> slot[4] = 1, collision_returndata_size |-> slot[5]]
      [] config.shape = "selfdestruct_single" /\ config.scenario = "existing" ->
            [scenario |-> "existing", child_address_nonzero |-> slot[1] # 0,
             setup_create_success |-> slot[0] = 1, child_code_size_before |-> slot[2],
             selfdestruct_call_success |-> slot[3] = 1, child_code_size_after |-> slot[4]]
              @@ (IF config.value > 0 THEN [beneficiary_balance_after |-> slot[5]] ELSE <<>>)
      [] config.shape = "selfdestruct_single" /\ config.scenario = "created" ->
            [scenario |-> "created", child_address_nonzero |-> slot[1] # 0,
             create_success |-> slot[0] = 1, selfdestruct_call_success |-> slot[2] = 1,
             child_code_size_after |-> slot[3]]
              @@ (IF config.value > 0 THEN [beneficiary_balance_after |-> slot[4]] ELSE <<>>)

(* The witness the runner reads from a contract's slots is the expected one. *)
WitnessObserved(config, expected, slot) ==
    /\ ValidDeclaration(config)
    /\ \A s \in SuccessSlots(config) : slot[s] \in {0, 1}
    /\ expected = [shape |-> config.shape] @@ Collected(config, slot)
=============================================================================
