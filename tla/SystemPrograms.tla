--------------------------- MODULE SystemPrograms ---------------------------
(***************************************************************************)
(* The system generator: the inventory of upstream's calls, creations and  *)
(* self-destructions, the cases it admits, and for each of them a wrapper  *)
(* contract that makes the call or the creation in a transaction of its    *)
(* own and stores what came of it.  The child, where there is one, is code *)
(* behind the wrapper's, copied from there.                                *)
(***************************************************************************)
EXTENDS SystemWitness
LOCAL INSTANCE FiniteSetsExt
LOCAL INSTANCE TLC

CONSTANT LargeRuntime    \* 20000: bytes from which a deployment is given a block's gas

-----------------------------------------------------------------------------
(* The inventory: one entry per combination of upstream's parameters.      *)

Entry(source, name, fields) ==
    [source |-> source, name |-> name, admitted |-> TRUE] @@ fields
Blocked(source, name) == [source |-> source, name |-> name, admitted |-> FALSE]

ScanContractCallingManyAddresses ==
    {Blocked("test_contract_calling_many_addresses", <<opcode, amount, access_warm>>) :
        amount \in {0, 1}, opcode \in {"CALL", "CALLCODE"}, access_warm \in BOOLEAN}

(* test_create: zero bytes with and without value, and four ratios of the  *)
(* largest code, of zeros or not.                                          *)
SizeForLabel(quarters) == quarters * (MaxCodeSize \div 4)
SaltOf(opcode) == IF opcode = "CREATE2" THEN <<CreateSalt>> ELSE <<>>
ScanCreate ==
    {Entry("test_create", <<opcode, value>>,
           [mode |-> "create_empty_child", opcode |-> opcode, value |-> value,
            initcode_size |-> 0, salt |-> SaltOf(opcode)]) :
        opcode \in {"CREATE", "CREATE2"}, value \in {0, 1}}
      \union
    {Entry("test_create", <<opcode, quarters, data_kind>>,
           [mode |-> "create_child_code", opcode |-> opcode, value |-> 0,
            initcode_size |-> SizeForLabel(quarters), data_kind |-> data_kind,
            salt |-> SaltOf(opcode)]) :
        opcode \in {"CREATE", "CREATE2"}, quarters \in 1 .. 4, data_kind \in {"zero", "non_zero"}}

ScanCreatesCollisions ==
    {Blocked("test_creates_collisions", <<"CREATE", 0>>),
     Entry("test_creates_collisions", <<"CREATE2", 0>>,
           [mode |-> "create_collision", opcode |-> "CREATE2", value |-> 0, initcode_size |-> 0,
            salt |-> <<0>>, proxy_call_gas |-> ProxyCallGas])}

ScanReturnRevert ==
    {Entry("test_return_revert", <<opcode, size, non_zero>>,
           [mode |-> "return_revert_self_call", opcode |-> opcode, value |-> 0,
            return_size |-> size, return_non_zero_data |-> non_zero]) :
        opcode \in {"RETURN", "REVERT"}, size \in {Kibibyte, Mebibyte}, non_zero \in BOOLEAN}
      \union
    {Entry("test_return_revert", <<opcode, 0>>,
           [mode |-> "return_revert_self_call", opcode |-> opcode, value |-> 0,
            return_size |-> 0, return_non_zero_data |-> FALSE]) :
        opcode \in {"RETURN", "REVERT"}}

ScanSelfdestruct(scenario) ==
    {Entry("test_selfdestruct", <<scenario, value>>,
           [mode |-> "selfdestruct_single", opcode |-> "SELFDESTRUCT", value |-> value,
            scenario |-> scenario, hardfork_semantics |-> "cancun"]) : value \in {0, 1}}
ScanSelfdestructInitcode ==
    {Blocked("test_selfdestruct_initcode", <<"SELFDESTRUCT", value>>) : value \in {0, 1}}

ScanSystemCases ==
    ScanContractCallingManyAddresses \union ScanCreate \union ScanCreatesCollisions
      \union ScanReturnRevert \union ScanSelfdestruct("existing") \union ScanSelfdestruct("created")
      \union ScanSelfdestructInitcode

(* A template keeps the fields of its mode. *)
SystemTemplates == {entry \in ScanSystemCases : entry.admitted}

-----------------------------------------------------------------------------
(* Pieces of the wrappers. *)

Ints(values) == Concat([i \in DOMAIN values |-> PushInt(values[i])])
ToSlot(s) == PushInt(s) \o <<85>>
KeepSuccess(s) == <<21, 21>> \o ToSlot(s)                  \* ISZERO, ISZERO
KeepCopy(s) == <<128>> \o ToSlot(s)                        \* DUP1
KeepOf(instruction, s) == <<128, instruction>> \o ToSlot(s)
CodeSizeOf == 59
BalanceOf == 49
CodeHashOf == 63

(* CODECOPY of the code behind the wrapper, and the wrapper with it.       *)
CopyBehind(bytes) ==
    <<Code(PushInt(Len(bytes))), PushLabel("behind"), Code(PushInt(0) \o <<57>>)>>
WrapperRaw(items, bytes) ==
    Finish(items \o <<[kind |-> "mark", label |-> "behind", bytes |-> <<>>],
                      Code(bytes)>>)

CreateFrom(opcode, value, size, salt) ==
    IF opcode = "CREATE" THEN Ints(<<size, 0, value>>) \o <<240>>
    ELSE Ints(<<salt, size, 0, value>>) \o <<245>>

(* CALL with no value, no input and no output, the address below it on the *)
(* stack: above it are the five zeros of the call.                         *)
CallBelow(gas) == Ints(<<0, 0, 0, 0, 0>>) \o <<133>> \o gas \o <<241>>          \* DUP6
CallTooShallow(gas) == Ints(<<0, 0, 0, 0, 0>>) \o <<132>> \o gas \o <<241>>     \* DUP5
GasLeft == <<90>>

-----------------------------------------------------------------------------
(* The wrappers. *)

(* Called with no input it calls itself with one byte; called with input   *)
(* it returns, or reverts with, the payload.                               *)
ReturnRevertWrapperRuntime(t) ==
    Finish(<<Code(<<54>> \o PushInt(0) \o <<20>>), PushLabel("wrapper"), Code(<<87>>),
             Code((IF t.return_non_zero_data /\ t.return_size > 0
                   THEN FillFfPrefix(t.return_size) ELSE <<>>)
                  \o Ints(<<t.return_size, 0>>)
                  \o <<IF t.opcode = "RETURN" THEN 243 ELSE 253>>),
             Mark("wrapper"),
             Code(Ints(<<0, 0, 1, 0, 0>>) \o <<48, 90, 241>> \o ToSlot(0)
                  \o <<61>> \o KeepCopy(1)
                  \o <<128>> \o Ints(<<0, 0>>) \o <<62>>
                  \o PushInt(0) \o <<32>> \o ToSlot(2) \o <<0>>)>>)

CreateEmptyChildRuntime(t) ==
    CreateFrom(t.opcode, t.value, 0, CreateSalt)
      \o KeepCopy(1) \o KeepOf(CodeSizeOf, 2)
      \o (IF t.value > 0 THEN KeepOf(BalanceOf, 3) ELSE <<>>)
      \o KeepSuccess(0) \o <<0>>

ChildInitcode(t) ==
    IF t.data_kind = "zero" THEN Ints(<<t.initcode_size, 0>>) \o <<243>>
    ELSE CreateChildCodePayload(t.initcode_size, t.data_kind)
CreateChildCodeRuntime(t) ==
    WrapperRaw(CopyBehind(ChildInitcode(t))
                 \o <<Code(CreateFrom(t.opcode, 0, Len(ChildInitcode(t)), CreateSalt)
                           \o KeepCopy(1) \o KeepOf(CodeSizeOf, 2) \o KeepOf(CodeHashOf, 3)
                           \o KeepSuccess(0) \o <<0>>)>>,
               ChildInitcode(t))

(* A proxy creates an empty contract with salt 0 and returns its address,  *)
(* or reverts if it cannot; the wrapper calls it, and then, with one DUP   *)
(* too shallow, the address 0.                                             *)
ProxyRuntime ==
    Finish(<<Code(Ints(<<0, 0, 0, 0>>) \o <<245, 128>>), PushLabel("success"), Code(<<87>>),
             Code(Ints(<<0, 0>>) \o <<253>>),
             Mark("success"),
             Code(PushInt(0) \o <<82>> \o Ints(<<WordBytes, 0>>) \o <<243>>)>>)
CreateCollisionRuntime(t) ==
    WrapperRaw(CopyBehind(InitCode(ProxyRuntime))
                 \o <<Code(Ints(<<Len(InitCode(ProxyRuntime)), 0, 0>>) \o <<240>>
                           \o <<128>> \o KeepSuccess(0)
                           \o <<128>> \o CallBelow(PushInt(t.proxy_call_gas)) \o ToSlot(1)
                           \o Ints(<<WordBytes, 0, 0>>) \o <<62>>
                           \o PushInt(0) \o <<81>> \o KeepCopy(2) \o KeepOf(CodeSizeOf, 3) \o <<80>>
                           \o CallTooShallow(PushInt(t.proxy_call_gas)) \o ToSlot(4)
                           \o <<61>> \o ToSlot(5) \o <<80, 0>>)>>,
               InitCode(ProxyRuntime))

(* The child destroys itself in favour of its caller. *)
DestructibleChild == InitCode(<<51, 255>>)
KeepOwnBalance(value, s) == IF value > 0 THEN <<48, 49>> \o ToSlot(s) ELSE <<>>

SelfdestructCreatedRuntime(value) ==
    WrapperRaw(CopyBehind(DestructibleChild)
                 \o <<Code(Ints(<<Len(DestructibleChild), 0, value>>) \o <<240>>
                           \o <<128>> \o KeepSuccess(0) \o KeepCopy(1)
                           \o CallBelow(GasLeft) \o ToSlot(2)
                           \o KeepOf(CodeSizeOf, 3) \o KeepOwnBalance(value, 4) \o <<80, 0>>)>>,
               DestructibleChild)

(* Invoked with 0 it creates the child, invoked with 1 it calls it. *)
SelfdestructExistingRuntime(value) ==
    WrapperRaw(<<Code(PushInt(0) \o <<53>>), PushLabel("execute"), Code(<<87>>)>>
                 \o CopyBehind(DestructibleChild)
                 \o <<Code(Ints(<<CreateSalt, Len(DestructibleChild), 0, value>>) \o <<245>>
                           \o <<128>> \o KeepSuccess(0) \o KeepCopy(1) \o KeepOf(CodeSizeOf, 2)
                           \o <<80, 0>>),
                      Mark("execute"),
                      Code(PushInt(1) \o <<84>> \o CallBelow(GasLeft) \o ToSlot(3)
                           \o KeepOf(CodeSizeOf, 4) \o KeepOwnBalance(value, 5) \o <<80, 0>>)>>,
               DestructibleChild)

SystemRuntime(t) ==
    CASE t.mode = "return_revert_self_call" -> ReturnRevertWrapperRuntime(t)
      [] t.mode = "create_empty_child" -> CreateEmptyChildRuntime(t)
      [] t.mode = "create_child_code" -> CreateChildCodeRuntime(t)
      [] t.mode = "create_collision" -> CreateCollisionRuntime(t)
      [] t.mode = "selfdestruct_single" /\ t.scenario = "created" -> SelfdestructCreatedRuntime(t.value)
      [] t.mode = "selfdestruct_single" /\ t.scenario = "existing" -> SelfdestructExistingRuntime(t.value)

-----------------------------------------------------------------------------
(* Rendering. *)

SystemInvokeGas == 2000000             \* "0x1e8480"

(* _deploy_gas_for_runtime: what the bytes cost to send, copy and keep,    *)
(* with a margin.                                                          *)
DeployGasForRuntime(runtime) ==
    IF Len(runtime) >= LargeRuntime THEN BlockGas
    ELSE Max({DeployGas100000,
              32000 + 200 * Len(runtime) + 20 * Len(InitCode(runtime)) + 50000})

InvokeGasOfSize(return_size) ==        \* _invoke_gas
    IF return_size >= Mebibyte THEN BlockGas
    ELSE IF return_size >= Kibibyte THEN 2097152 ELSE SystemInvokeGas

Payload(t) == [i \in 1 .. t.return_size |-> IF t.return_non_zero_data THEN 255 ELSE 0]

ObserveAndExpect(t) ==
    CASE t.mode = "return_revert_self_call" ->
            [observe |-> Declaration(t.mode, <<>>),
             expected |-> ReturnRevertWitness(t.opcode, Payload(t))]
      [] t.mode = "create_empty_child" ->
            [observe |-> Declaration(t.mode, [opcode |-> t.opcode, value |-> t.value,
                                              initcode_size |-> t.initcode_size, salt |-> t.salt]),
             expected |-> CreateEmptyChildWitness(t.value)]
      [] t.mode = "create_child_code" ->
            [observe |-> Declaration(t.mode, [opcode |-> t.opcode, value |-> t.value,
                                              initcode_size |-> t.initcode_size,
                                              data_kind |-> t.data_kind, salt |-> t.salt]),
             expected |-> CreateChildCodeWitness(t.initcode_size, t.data_kind)]
      [] t.mode = "create_collision" ->
            [observe |-> Declaration(t.mode, [opcode |-> t.opcode, value |-> t.value,
                                              initcode_size |-> t.initcode_size, salt |-> t.salt,
                                              proxy_call_gas |-> t.proxy_call_gas]),
             expected |-> CreateCollisionWitness]
      [] t.mode = "selfdestruct_single" ->
            [observe |-> Declaration(t.mode, [scenario |-> t.scenario, value |-> t.value,
                                              hardfork_semantics |-> t.hardfork_semantics]),
             expected |-> SelfdestructSingleWitness(t.scenario, t.value)]

SystemDeployGas(t, runtime) ==
    IF t.mode = "create_empty_child" THEN DeployGas100000 ELSE DeployGasForRuntime(runtime)

SystemInvokes(t) ==
    CASE t.mode = "selfdestruct_single" /\ t.scenario = "existing" ->
            [i \in 1 .. 2 |-> InvokeContract(ToBytes(i - 1, WordBytes), SystemInvokeGas, 0, "success")]
      [] t.mode = "create_child_code" -> <<InvokeContract(<<>>, BlockGas, 0, "success")>>
      [] t.mode = "return_revert_self_call" ->
            <<InvokeContract(<<>>, InvokeGasOfSize(t.return_size), 0, "success")>>
      [] OTHER -> <<InvokeContract(<<>>, SystemInvokeGas, 0, "success")>>

(* _render_system_case_payload: the wrapper is deployed with the value its *)
(* child will be given.                                                    *)
RenderSystemCase(t) ==
    LET runtime == SystemRuntime(t)
    IN  [BuildCase(<<t.source, t.name>>,
                   DeployContract(InitCode(runtime), runtime, SystemDeployGas(t, runtime), Nothing),
                   SystemInvokes(t), <<>>, ObserveAndExpect(t).observe)
         EXCEPT !.deployValue = t.value,
                !.expectedWitness = ObserveAndExpect(t).expected]
=============================================================================
