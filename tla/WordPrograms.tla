---------------------------- MODULE WordPrograms ----------------------------
(***************************************************************************)
(* The arithmetic, comparison, bitwise and stack generators: programs that *)
(* push arguments, execute one instruction (or a schedule of them) and     *)
(* store the result in slot 0.                                             *)
(***************************************************************************)
EXTENDS GeneratedCase, WordSimulation
LOCAL INSTANCE SequencesExt
LOCAL INSTANCE TLC

CONSTANTS ShiftRolls,     \* the indices random.Random(1).randint yields, in order
          ShiftAmounts,   \* SHIFT_AMOUNTS
          ShiftRounds,    \* shift pairs that fit the upstream code size
          ClzRounds       \* CLZ inputs that fit it

(* OPCODES of the three generators. *)
ArithmeticOpcode ==
    [ADD |-> 1, MUL |-> 2, SUB |-> 3, DIV |-> 4, SDIV |-> 5, MOD |-> 6, SMOD |-> 7,
     ADDMOD |-> 8, MULMOD |-> 9, EXP |-> 10, SIGNEXTEND |-> 11]
ComparisonOpcode == [LT |-> 16, GT |-> 17, SLT |-> 18, SGT |-> 19, EQ |-> 20, ISZERO |-> 21]
BitwiseOpcode == [AND |-> 22, OR |-> 23, XOR |-> 24, NOT |-> 25, BYTE |-> 26, SHL |-> 27,
                  SHR |-> 28, SAR |-> 29, CLZ |-> 30]
OpcodeOf == ArithmeticOpcode @@ ComparisonOpcode @@ BitwiseOpcode

StoreSlot0AndStop == PushInt(0) \o <<85, 0>>

(* The last argument is pushed first: the first ends on top. *)
WordRuntime(op, args) ==
    Concat(Reverse([i \in DOMAIN args |-> PushInt(args[i])]))
        \o <<OpcodeOf[op]>> \o StoreSlot0AndStop

Slot0(word) == (0 :> Literal(word))

ProbeKey(op) ==
    IF op \in DOMAIN ArithmeticOpcode THEN "arithmetic_probe"
    ELSE IF op \in DOMAIN ComparisonOpcode THEN "comparison_probe" ELSE "bitwise_probe"
WordProbe(op, args, mode, result) ==
    [key |-> ProbeKey(op), mode |-> mode, opcode |-> op, args |-> args, expected_result |-> result]
RenderWordCase(op, args) ==
    DeployAndInvoke(<<"word", op, args>>, WordRuntime(op, args), <<>>, InvokeGas50000,
                    Slot0(Simulate(op, args)), WordProbe(op, args, "word", Simulate(op, args)))

-----------------------------------------------------------------------------
(* Stack programs: 42 must be what the instruction leaves on top. *)
Magic == 42
StackRuntime(kind, n) ==
    CASE kind = "PUSH" -> <<PUSH0 + n>> \o ToBytes(Magic, n) \o StoreSlot0AndStop
      [] kind = "DUP" -> PushInt(Magic) \o Concat([i \in 1 .. n - 1 |-> PushInt(0)])
                            \o <<127 + n>> \o StoreSlot0AndStop
      [] kind = "SWAP" -> PushInt(Magic) \o Concat([i \in 1 .. n |-> PushInt(0)])
                            \o <<143 + n>> \o StoreSlot0AndStop
StackExpected(kind, n) == IF kind = "PUSH" /\ n = 0 THEN 0 ELSE Magic
RenderStackCase(kind, n) ==
    DeployAndInvoke(<<"stack", kind, n>>, StackRuntime(kind, n), <<>>, InvokeGas50000,
                    Slot0(StackExpected(kind, n)),
                    [key |-> "stack_probe", mode |-> "stack", opcode |-> <<kind, n>>,
                     expected_result |-> StackExpected(kind, n)])

-----------------------------------------------------------------------------
(* The shift witness: the schedule of shifts upstream's benchmark would    *)
(* draw.  An amount is drawn again until the value does not vanish.        *)

ShiftRight(op, value, shift) ==
    IF op = "SHR" THEN value \div 2^shift ELSE FromSigned(ToSigned(value) \div 2^shift)

SelectShiftAmount(drawn, shifted(_)) ==
    CHOOSE k \in drawn + 1 .. Len(ShiftRolls) :
        /\ shifted(ShiftAmounts[ShiftRolls[k]]) % Base # 0
        /\ \A j \in drawn + 1 .. k - 1 : shifted(ShiftAmounts[ShiftRolls[j]]) % Base = 0

ShiftWitness(op) ==
    LET round(acc) ==
            LET left == SelectShiftAmount(acc.drawn, LAMBDA s: ShiftLeftMod(acc.value, s))
                value == ShiftLeftMod(acc.value, ShiftAmounts[ShiftRolls[left]])
                right == SelectShiftAmount(left, LAMBDA s: ShiftRight(op, value, s))
            IN  [drawn |-> right,
                 value |-> ShiftRight(op, value, ShiftAmounts[ShiftRolls[right]]),
                 schedule |-> Append(acc.schedule, <<ShiftRolls[left], ShiftRolls[right]>>)]
    IN  FoldLeft(LAMBDA acc, i: round(acc),
                 [drawn |-> 0, value |-> Base - 1, schedule |-> <<>>],
                 [i \in 1 .. ShiftRounds |-> i])

(* The amounts stay on the stack below the value: the DUP of index i (from *)
(* 0) reaches under it.                                                    *)
DupOpcodeForShiftIndex(index) == 128 + (Len(ShiftAmounts) - (index - 1))
ShiftWitnessRuntime(op) ==
    LET witness == ShiftWitness(op)
    IN  Concat([i \in DOMAIN ShiftAmounts |-> PushInt(ShiftAmounts[i])])
          \o PushInt(0) \o <<53>>                              \* CALLDATALOAD
          \o Concat([i \in DOMAIN witness.schedule |->
                       <<DupOpcodeForShiftIndex(witness.schedule[i][1]), OpcodeOf["SHL"],
                         DupOpcodeForShiftIndex(witness.schedule[i][2]), OpcodeOf[op]>>])
          \o StoreSlot0AndStop

(* The CLZ witness: the sum of the leading zeros of a schedule of inputs. *)
ClzInput(i) == (Base - 1) \div 2^(i % Bits)
ClzAccumulator ==
    FoldLeft(LAMBDA acc, i: (acc + SimulateBitwise("CLZ", <<ClzInput(i - 1)>>)) % Base,
             0, [i \in 1 .. ClzRounds |-> i])
ClzWitnessRuntime ==
    PushInt(0)
      \o Concat([i \in 1 .. ClzRounds |->
                   PushInt(ClzInput(i - 1)) \o <<OpcodeOf["CLZ"], OpcodeOf["ADD"]>>])
      \o StoreSlot0AndStop

WitnessDeployGas == 10000000           \* SHIFT_WITNESS_DEPLOY_GAS, CLZ_DIFF_DEPLOY_GAS
WitnessInvokeGas == 1000000

WitnessCase(op, mode, runtime, data, word) ==
    BuildCase(<<"schedule", op>>, DeployContract(LargeInitCode(runtime), runtime, WitnessDeployGas, Nothing),
              <<InvokeContract(data, WitnessInvokeGas, 0, "success")>>, Slot0(word),
              WordProbe(op, <<>>, mode, word))
RenderShiftCase(op) ==
    WitnessCase(op, "test_shifts", ShiftWitnessRuntime(op), ToBytes(Base - 1, WordBytes),
                ShiftWitness(op).value)
RenderClzCase == WitnessCase("CLZ", "test_clz_diff", ClzWitnessRuntime, <<>>, ClzAccumulator)
=============================================================================
