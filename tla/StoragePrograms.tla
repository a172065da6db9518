--------------------------- MODULE StoragePrograms ---------------------------
(***************************************************************************)
(* The storage and call-context generators.  Their programs are literals   *)
(* of the source; a storage program takes its word from the calldata, and  *)
(* its init code may write slot 0 first.                                   *)
(***************************************************************************)
EXTENDS GeneratedCase
LOCAL INSTANCE TLC

CONSTANT LongCalldata     \* 1024: to send it costs more than the gas its case declares

FF == Base - 1
OogInvokeGas == 22000                  \* OOG_INVOKE_GAS

(* CALLDATALOAD 0, SSTORE 0 and STOP or REVERT; SLOAD 0, SSTORE 1; ... *)
WriteRuntime == <<96, 0, 53, 96, 0, 85, 0>>
WriteRuntimeRevert == <<96, 0, 53, 96, 0, 85, 96, 0, 96, 0, 253>>
ReadRuntime == <<96, 0, 84, 96, 1, 85, 0>>
WarmSameRuntime == <<96, 0, 84, 96, 0, 85, 0>>
WarmNewRuntime == <<96, 43, 96, 0, 85, 0>>

(* Init code: the runtime, of a literal length, at its literal offset; the *)
(* second form writes a word to slot 0 before.                             *)
InitLiteral(length, runtime) == <<96, length, 96, 12, 96, 0, 57, 96, length, 96, 0, 243>> \o runtime
InitWithSlot0(word, length, runtime) ==
    <<96, word, 96, 0, 85, 96, length, 96, 17, 96, 0, 57, 96, length, 96, 0, 243>> \o runtime

Slot0Is(word) == (0 :> word)
Storage(mode, deploy, invokes, expected) ==
    BuildCase(<<"storage", mode>>, deploy, invokes, expected, NoProbe)
Fresh(runtime) == DeployContract(InitLiteral(Len(runtime), runtime), runtime, DeployGas100000, Nothing)
PresentForgotten(word, length, runtime) ==   \* faulty variant: the constructor's write is left out
    DeployContract(InitLiteral(length, runtime), runtime, DeployGas100000, Slot0Is(word))
Present(word, length, runtime) ==
    DeployContract(InitWithSlot0(word, length, runtime), runtime, DeployGas100000, Slot0Is(word))

Invocation(word, gas, status) == InvokeContract(ToBytes(word, WordBytes), gas, 0, status)
Once(word) == <<Invocation(word, InvokeGas50000, "success")>>
Reverting(word) == <<Invocation(word, InvokeGas50000, "failed")>>
Starving(word) == <<Invocation(word, OogInvokeGas, "failed")>>
NoInput == <<InvokeContract(<<>>, InvokeGas50000, 0, "success")>>

Expect(word) == (0 :> Literal(word))

(* A write to an absent slot, and to one that holds 1: committed, reverted *)
(* and out of gas.                                                         *)
WriteCases(word, name) ==
    {Storage(<<name, "absent">>, Fresh(WriteRuntime), Once(word), Expect(word)),
     Storage(<<name, "absent_revert">>, Fresh(WriteRuntimeRevert), Reverting(word), Expect(0)),
     Storage(<<name, "absent_oog">>, Fresh(WriteRuntime), Starving(word), Expect(0))}
PresentCases(word, name) ==
    {Storage(<<name, "present_revert">>, Present(1, 11, WriteRuntimeRevert), Reverting(word),
             Expect(1)),
     Storage(<<name, "present_oog">>, Present(1, 7, WriteRuntime), Starving(word), Expect(1))}

RenderStorageCases ==
    WriteCases(42, "new") \union WriteCases(1, "same")
      \union PresentCases(1, "same") \union PresentCases(FF, "new")
      \union
    {Storage(<<"write_same_value_present">>, Fresh(WriteRuntime), Once(42) \o Once(42), Expect(42)),
     Storage(<<"write_new_value_present">>, Present(1, 7, WriteRuntime), Once(FF), Expect(FF)),
     Storage(<<"read_present">>, Present(42, 7, ReadRuntime), NoInput,
             [s \in {0, 1} |-> Literal(42)]),
     Storage(<<"read_absent">>, Fresh(ReadRuntime), NoInput, (1 :> Literal(0))),
     Storage(<<"warm_write_same">>, Present(42, 7, WarmSameRuntime), NoInput, Expect(42)),
     Storage(<<"warm_write_new">>, Present(42, 7, WarmNewRuntime), NoInput, Expect(43))}

-----------------------------------------------------------------------------
(* Call context: one environment word stored in slot 0. *)

CallContextRuntime ==
    [address |-> <<48, 96, 0, 85, 0>>, caller |-> <<51, 96, 0, 85, 0>>,
     callvalue |-> <<52, 96, 0, 85, 0>>, calldatasize |-> <<54, 96, 0, 85, 0>>,
     calldataload |-> <<95, 53, 96, 0, 85, 0>>]

CallContextCase(mode, expected, data, value) ==
    BuildCase(<<mode, data, value>>,
              DeployContract(InitCode(CallContextRuntime[mode]), CallContextRuntime[mode],
                             300000, Nothing),
              <<InvokeContract(data, InvokeGas50000, value, "success")>>, (0 :> expected), NoProbe)

(* Calldata of 0, 1, 8 and 32 words, of zeros or counting up modulo 256. *)
CalldataSizes == {0, WordBytes, 8 * WordBytes, LongCalldata}
Pattern(size, nonzero) == [i \in 1 .. size |-> IF nonzero THEN (i - 1) % 256 ELSE 0]
PatternWord(size, nonzero) ==
    IF nonzero /\ size > 0 THEN FromBytes(Pattern(WordBytes, TRUE)) ELSE 0

(* The inventory: opcodes without parameter, of which two are admitted,    *)
(* the value of the transaction, and calldata of the sizes above.          *)
ScanZeroParamCases(opcodes) ==
    {[mode |-> op, size |-> 0, nonzero |-> FALSE, value |-> 0, admitted |-> op \in {"address", "caller"}]
        : op \in opcodes}
ScanCallvalueOriginCases ==
    {[mode |-> "callvalue", size |-> 0, nonzero |-> FALSE, value |-> v, admitted |-> TRUE]
        : v \in {0, 1}}
ScanCalldataCases(mode, sizes) ==
    {[mode |-> mode, size |-> size, nonzero |-> nonzero, value |-> 0,
      admitted |-> size \in CalldataSizes] : size \in sizes, nonzero \in BOOLEAN}
ScanCallContextCases(opcodes, sizes) ==
    ScanZeroParamCases(opcodes) \union ScanCallvalueOriginCases
      \union ScanCalldataCases("calldatasize", sizes)
      \union ScanCalldataCases("calldataload", sizes)

ExpectedContext(entry) ==
    CASE entry.mode = "address" -> LastContractWord
      [] entry.mode = "caller" -> AdminAccountWord
      [] entry.mode = "callvalue" -> Literal(entry.value)
      [] entry.mode = "calldatasize" -> Literal(entry.size)
      [] entry.mode = "calldataload" -> Literal(PatternWord(entry.size, entry.nonzero))

(* One opcode and two sizes more than the generator admits. *)
RenderCallContextCases ==
    {CallContextCase(e.mode, ExpectedContext(e), Pattern(e.size, e.nonzero), e.value) :
        e \in {x \in ScanCallContextCases({"address", "caller", "origin"},
                                          CalldataSizes \union {1, WordBytes + 1}) : x.admitted}}
=============================================================================
