----------------------------- MODULE MockBackend -----------------------------
(***************************************************************************)
(* MockBackend: the runner without a chain.  It does not execute byte code *)
(* but computes what the program of a case would store: for a case with a  *)
(* probe from the probe, after building the program of that probe again    *)
(* and comparing it with the code deployed; for a return or revert of a    *)
(* system case from the byte code, taken apart; for any other case from    *)
(* the few programs it knows.                                              *)
(*                                                                         *)
(* A backend is [admin_account, chain_id, block, gas_price, balances]: its *)
(* configuration, the price it puts into receipts and the balances of the  *)
(* case's namespace.  A contract is [code, storage, balance, logs, raised].*)
(***************************************************************************)
EXTENDS WordPrograms, ControlFlowPrograms, StoragePrograms, SystemPrograms, ContextPrograms,
        PrecompilePrograms, ResultOracle
LOCAL INSTANCE FiniteSetsExt
LOCAL INSTANCE TLC

CONSTANTS MockContract, MockChild      \* 0xcc...cc, 0xdd...dd

StoredWord(contract, slot) ==
    IF slot \in DOMAIN contract.storage THEN contract.storage[slot] ELSE 0
BalanceOfAccount(backend, a) == IF a \in DOMAIN backend.balances THEN backend.balances[a] ELSE 0
Slots(list) == [s \in 0 .. Len(list) - 1 |-> list[s + 1]]

-----------------------------------------------------------------------------
(* The program a probe stands for. *)

PrecompileInput(probe, code) == SubSeq(code, Len(code) - probe.input_size + 1, Len(code))
ExpectedRuntime(probe, code) ==
    CASE probe.mode = "mcopy" -> McopyRuntime(probe.mem_size, probe.copy_size, probe.fixed_src_dst)
      [] probe.key \in {"memory_probe", "arithmetic_probe"} /\ probe.mode # "mcopy" -> code   \* not looked at
      [] probe.mode = "codecopy_fixed" -> CodecopyFixedRuntime(probe.copy_size)
      [] probe.mode = "codecopy" -> CodecopyDynamicRuntime(probe.copy_size)
      [] probe.mode = "test_shifts" -> ShiftWitnessRuntime(probe.opcode)
      [] probe.mode = "test_clz_diff" -> ClzWitnessRuntime
      [] probe.key \in {"bitwise_probe", "comparison_probe"} /\ probe.mode = "word" ->
            WordRuntime(probe.opcode, probe.args)
      [] probe.key = "stack_probe" -> StackRuntime(probe.opcode[1], probe.opcode[2])
      [] probe.key = "control_flow_probe" -> ControlFlowRuntime(probe.mode)
      [] probe.key = "block_context_probe" -> BlockContextRuntime[probe.mode]
      [] probe.mode = "keccak" -> BasicKeccakRuntime(probe.offset, probe.mem_update)
      [] probe.mode = "diff_mem_msg_sizes" -> DiffSizesRuntime(probe.mem_size, probe.msg_size)
      [] probe.mode = "max_permutations" -> MaxPermutationsRuntime(probe.witness_input_length)
      [] probe.key = "log_probe" -> LogRuntime(probe.template)
      [] probe.key = "precompile_probe" ->
            PrecompileRuntime(probe.address, PrecompileInput(probe, code), probe.inner_gas)
      [] probe.key = "system_witness" ->
            CASE probe.shape = "create_empty_child" -> CreateEmptyChildRuntime(probe)
              [] probe.shape = "create_child_code" -> CreateChildCodeRuntime(probe)
              [] probe.shape = "create_collision" -> CreateCollisionRuntime(probe)
              [] probe.shape = "selfdestruct_single" ->
                    IF probe.scenario = "created" THEN SelfdestructCreatedRuntime(probe.value)
                    ELSE SelfdestructExistingRuntime(probe.value)

(* The words it stores; the offsets of a dynamic program are 0. *)
SimulateBlockContext(mode, backend) ==
    CASE mode = "blockhash_current" -> 0
      [] mode = "chainid" -> backend.chain_id
      [] OTHER -> backend.block[mode]

WithBalance(value, words) == IF value > 0 THEN Append(words, value) ELSE words
SimulateSystemProbe(probe, data) ==
    CASE probe.shape = "create_empty_child" ->
            Slots(WithBalance(probe.value, <<1, MockChild, 0>>))
      [] probe.shape = "create_child_code" ->
            Slots(<<1, MockChild, probe.initcode_size,
                    Keccak(CreateChildCodePayload(probe.initcode_size, probe.data_kind))>>)
      [] probe.shape = "create_collision" -> Slots(<<1, 1, MockChild, 0, 0, 0>>)
      [] probe.shape = "selfdestruct_single" /\ probe.scenario = "created" ->
            Slots(WithBalance(probe.value, <<1, MockChild, 1, 0>>))
      [] probe.shape = "selfdestruct_single" /\ probe.scenario = "existing" ->
            IF FromBytes(data) = 0 THEN Slots(<<1, MockChild, 2>>)
            ELSE (3 :> 1) @@ (4 :> 2) @@ (IF probe.value > 0 THEN 5 :> probe.value ELSE <<>>)

SimulateProbe(probe, contract, data, backend) ==
    CASE probe.mode = "msize" -> Slots(<<SimulateMsize(probe.mem_size)>>)
      [] probe.mode = "mcopy" ->
            LET offset == DefaultOffset(probe.fixed_src_dst)
            IN  Slots(SimulateMcopy(probe.mem_size, probe.copy_size, offset, offset))
                  @@ (IF probe.fixed_src_dst THEN <<>> ELSE [s \in {3, 4} |-> 0])
      [] probe.mode = "memory_access" ->
            Slots(SimulateMemoryAccess(probe.opcode, probe.offset, probe.offset_initialized,
                                       probe.mem_size))
      [] probe.key \in {"arithmetic_probe", "comparison_probe", "bitwise_probe", "stack_probe"} ->
            Slots(<<probe.expected_result>>)
      [] probe.mode \in {"codecopy_fixed", "codecopy"} ->
            Slots(<<probe.copy_size, CodecopyDigest(contract.code, 0, probe.copy_size)>>)
              @@ (IF probe.mode = "codecopy" THEN probe.dynamic_offset_slot :> 0 ELSE <<>>)
      [] probe.key = "control_flow_probe" ->
            Slots(<<IF probe.mode = "jumpi_fallthrough" THEN 0 ELSE 1>>)
      [] probe.key = "block_context_probe" -> Slots(<<SimulateBlockContext(probe.mode, backend)>>)
      [] probe.mode = "keccak" ->
            Slots(SimulateBasicKeccak(data, probe.offset, probe.mem_update))
      [] probe.mode = "diff_mem_msg_sizes" ->
            Slots(SimulateDiffSizes(probe.mem_size, probe.msg_size))
      [] probe.mode = "max_permutations" ->
            Slots(<<Keccak(Zeros(probe.witness_input_length)), probe.witness_input_length,
                    RoundUp(probe.witness_input_length)>>)
      [] probe.key = "log_probe" ->
            IF probe.template.dynamic THEN probe.dynamic_offset_slot :> 0 ELSE <<>>
      [] probe.key = "precompile_probe" ->
            Slots(<<IF probe.expected_success THEN 1 ELSE 0, probe.output_size>>
                    \o (IF probe.output_size > 0 THEN <<probe.expected_output_digest>> ELSE <<>>))
      [] probe.key = "system_witness" -> SimulateSystemProbe(probe, data)

(* The log of a log case is that of offset 0. *)
SimulateLog(template) ==
    [topics |-> [i \in 1 .. template.topic_count |-> template.topic_word],
     data |-> PayloadBytes(template, 0)]

-----------------------------------------------------------------------------
(***************************************************************************)
(* The wrapper of a return or revert, taken apart: behind the jump of its  *)
(* header the child, a fill or nothing, a push of the size, PUSH0 and the  *)
(* RETURN or REVERT; then the wrapper's own code.  The push of the size is *)
(* found from its end: the first byte, up to 32 before, that as a push has *)
(* its literal end there.                                                  *)
(***************************************************************************)
SystemRuntimeHeader == <<54, 95, 20>>
SystemSelfCallWrapperSuffix ==
    <<91, 95, 95, 96, 1, 95, 95, 48, 90, 241, 95, 85, 61, 128, 96, 1, 85, 128, 95, 95, 62,
      95, 32, 96, 2, 85, 0>>
HasWrapper(code) ==
    LET n == Len(SystemSelfCallWrapperSuffix)
    IN  /\ Len(code) >= Len(SystemRuntimeHeader) + n
        /\ SubSeq(code, 1, Len(SystemRuntimeHeader)) = SystemRuntimeHeader
        /\ SubSeq(code, Len(code) - n + 1, Len(code)) = SystemSelfCallWrapperSuffix
ChildOf(code) ==                       \* behind the PUSH2 of the wrapper's label, and JUMPI
    SubSeq(code, Len(SystemRuntimeHeader) + 5, Len(code) - Len(SystemSelfCallWrapperSuffix))

SizePushStart(bytes) ==
    LET ends == Len(bytes)
    IN  Min({at \in Max({1, ends - 32}) .. ends :
               bytes[at] \in PUSH0 .. 127 /\ at + bytes[at] - PUSH0 = ends})
SelfCall(code) ==
    LET child == ChildOf(code)
        sized == SubSeq(child, 1, Len(child) - 2)        \* up to the push of the size
        at == SizePushStart(sized)
        size == FromBytes(SubSeq(sized, at + 1, Len(sized)))
    IN  [success |-> child[Len(child)] = 243, size |-> size, filled |-> at > 1,
         malformed |-> \/ child[Len(child)] \notin {243, 253}
                       \/ child[Len(child) - 1] # PUSH0
                       \/ size > Mebibyte
                       \/ (size = 0 /\ at > 1)]
FillNever(witness) == 0                \* faulty variant: what fills the memory is not looked at
FillOf(witness) == IF witness.filled THEN 255 ELSE 0
SimulateSelfCall(code) ==
    LET witness == SelfCall(code)
    IN  Slots(<<IF witness.success THEN 1 ELSE 0, witness.size,
                Keccak([i \in 1 .. witness.size |-> FillOf(witness)])>>)

-----------------------------------------------------------------------------
(* The programs known by their bytes. *)
KnownRuntimes ==
    {WriteRuntime, WriteRuntimeRevert, WarmSameRuntime, ReadRuntime, WarmNewRuntime,
     OriginRuntime, GaspriceRuntime, SelfbalanceRuntime, CodesizeRuntime, BalanceRuntime}
      \union {CallContextRuntime[mode] : mode \in DOMAIN CallContextRuntime}
SimulateKnown(contract, tx, backend) ==
    LET code == contract.code
    IN  CASE code \in {WriteRuntime, WriteRuntimeRevert} -> 0 :> FromBytes(tx.data)
          [] code = WarmSameRuntime -> 0 :> StoredWord(contract, 0)
          [] code = ReadRuntime -> 1 :> StoredWord(contract, 0)
          [] code = WarmNewRuntime -> 0 :> 43
          [] code = CallContextRuntime.callvalue -> 0 :> tx.value
          [] code = CallContextRuntime.address -> 0 :> MockContract
          [] code \in {CallContextRuntime.caller, OriginRuntime} -> 0 :> backend.admin_account
          [] code = CallContextRuntime.calldatasize -> 0 :> Len(tx.data)
          [] code = CallContextRuntime.calldataload -> 0 :> LoadWord(tx.data, 0)
          [] code = GaspriceRuntime -> 0 :> backend.gas_price
          [] code = SelfbalanceRuntime -> 0 :> contract.balance
          [] code = CodesizeRuntime -> 0 :> 5
          [] code = BalanceRuntime -> 0 :> BalanceOfAccount(backend, FromBytes(tx.data))

-----------------------------------------------------------------------------
(* One invocation, and the whole case.  What fails in the case fails here, *)
(* and leaves nothing; an unknown or unexpected program raises.            *)
HasSelfCall(probe) == probe.key = "system_witness" /\ probe.shape = "return_revert_self_call"
DestroysExisting(probe) ==
    probe.key = "system_witness" /\ probe.shape = "selfdestruct_single" /\ probe.scenario = "existing"
Supports(case, contract, tx) ==
    IF HasSelfCall(case.probe) THEN HasWrapper(contract.code) /\ ~SelfCall(contract.code).malformed
    ELSE IF case.probe = NoProbe THEN contract.code \in KnownRuntimes
    ELSE /\ contract.code = ExpectedRuntime(case.probe, contract.code)
         /\ DestroysExisting(case.probe) =>
               /\ FromBytes(tx.data) \in {0, 1}
               /\ FromBytes(tx.data) = 1 => StoredWord(contract, 1) # 0
InvokedAlways(case, contract, tx, backend) ==    \* faulty variant: the status is not looked at
    IF ~Supports(case, contract, tx) THEN [contract EXCEPT !.raised = TRUE]
    ELSE [contract EXCEPT
            !.storage = (IF HasSelfCall(case.probe) THEN SimulateSelfCall(contract.code)
                         ELSE IF case.probe = NoProbe THEN SimulateKnown(contract, tx, backend)
                         ELSE SimulateProbe(case.probe, contract, tx.data, backend)) @@ @,
            !.logs = IF case.probe.key = "log_probe" THEN <<SimulateLog(case.probe.template)>>
                     ELSE <<>>]
Invoked(case, contract, tx, backend) ==
    IF tx.status = "failed" THEN [contract EXCEPT !.logs = <<>>]
    ELSE InvokedAlways(case, contract, tx, backend)

Transferred(case, balances) ==
    LET after[n \in 0 .. Len(case.transfers)] ==
            IF n = 0 THEN balances
            ELSE LET t == case.transfers[n]
                     held == IF t.to \in DOMAIN after[n - 1] THEN after[n - 1][t.to] ELSE 0
                 IN  (t.to :> held + t.value) @@ after[n - 1]
    IN  after[Len(case.transfers)]
MockExecute(case, backend) ==
    LET paid == [backend EXCEPT !.balances = Transferred(case, @)]
        contract[n \in 0 .. Len(case.invokes)] ==
            IF n = 0 THEN [code |-> case.runtime, storage |-> case.initialStorage,
                           balance |-> case.deployValue, logs |-> <<>>, raised |-> FALSE]
            ELSE Invoked(case, contract[n - 1], case.invokes[n], paid)
    IN  contract[Len(case.invokes)]

(* What it observes, the context it resolves placeholders with, and its    *)
(* verdict on a case.                                                      *)
MockObserved(case, contract) ==
    [storage |-> [s \in DOMAIN case.expectedStorage \union DynamicOffsetSlots(case) |->
                    IF case.storageAddress = "$last_contract" THEN StoredWord(contract, s) ELSE 0],
     code |-> contract.code, logs |-> contract.logs,
     witness_slots |-> [s \in IF case.expectedWitness = <<>> THEN {}
                              ELSE SystemWitnessStorageSlots(case.probe) |-> StoredWord(contract, s)]]
MockContext(case, backend) ==
    ("$last_contract_word" :> MockContract) @@ ("$admin_account_word" :> backend.admin_account)
      @@ ("$chain_id_word" :> backend.chain_id) @@ ("$gas_price_word" :> backend.gas_price)
      @@ ("$block_coinbase_word" :> backend.block.coinbase)
      @@ ("$block_timestamp_word" :> backend.block.timestamp)
      @@ ("$block_number_word" :> backend.block.number)
      @@ ("$block_prevrandao_word" :> backend.block.prevrandao)
      @@ ("$block_gaslimit_word" :> backend.block.gaslimit)
      @@ ("$block_basefee_word" :> backend.block.basefee)
      @@ ("$present_target_balance_after_word" :>
            BalanceOfAccount(backend, PresentTarget) + PresentTargetFunding)
MockPasses(case, backend) ==
    LET contract == MockExecute(case, backend)
    IN  /\ ~contract.raised
        /\ Compare(case, MockObserved(case, contract), MockContext(case, backend))
=============================================================================
