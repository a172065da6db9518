--------------------------- MODULE GeneratedCase ---------------------------
(***************************************************************************)
(* A case as the generators write it into a manifest: a deployment, the    *)
(* invocations of the contract deployed, what the runner is told to        *)
(* observe and the result it must find.  A word of the expected storage is *)
(* a literal or a placeholder the oracle resolves.                         *)
(***************************************************************************)
EXTENDS Assembler

CONSTANTS GasModulus,     \* 7: the dynamic offsets are to be GAS % 7
          UnrollLimit,    \* 4096: memory up to this size is filled without a loop
          Kibibyte, Mebibyte,  \* 1024 and 1024 * 1024, the sizes upstream's cases name
          MaxCodeSize,    \* 24576: the largest code upstream's cases create
          MemorySteps     \* 1024, 10240, 100000, 1000000: sizes that get more gas

(* The literal 7, like the 32 of a word, is scaled: it is less than a word. *)
ASSUME GeneratedCaseAssumption == GasModulus \in 2 .. WordBytes - 1

(* Scaled, the sizes keep their order. *)
ASSUME SizesAssumption ==
    /\ Kibibyte < UnrollLimit /\ UnrollLimit < Mebibyte /\ Mebibyte < MaxCodeSize
    /\ DOMAIN MemorySteps = 1 .. 4 /\ MemorySteps[1] = Kibibyte /\ MemorySteps[4] <= Mebibyte
    /\ \A i \in 1 .. 3 : MemorySteps[i] < MemorySteps[i + 1]

Literal(word) == [kind |-> "literal", word |-> word]
LastContractWord == [kind |-> "$last_contract_word"]
AdminAccountWord == [kind |-> "$admin_account_word"]
Placeholder(name) == [kind |-> name]

DeployContract(init, runtime, gas, initialStorage) ==
    [init |-> init, runtime |-> runtime, gas |-> gas, initialStorage |-> initialStorage]
InvokeContract(data, gas, value, expectedStatus) ==
    [data |-> data, gas |-> gas, value |-> value, status |-> expectedStatus]

(* What a family adds to observe, by the key it has there: what the        *)
(* selector reads to block a case, and what the oracle needs to derive the *)
(* expectation again from observed storage.                                *)
NoProbe == [key |-> "none", mode |-> "none"]

(* build_case: storage is read from the contract ($last_contract).  *)
BuildCase(name, deploy, invokes, expectedStorage, probe) ==
    [name |-> name,
     init |-> deploy.init, runtime |-> deploy.runtime, deployGas |-> deploy.gas,
     initialStorage |-> deploy.initialStorage,
     invokes |-> invokes,
     storageAddress |-> "$last_contract",
     expectedStorage |-> expectedStorage,
     expectedLogs |-> <<>>,
     probe |-> probe,
     deployValue |-> 0,
     transfers |-> <<>>,
     expectedWitness |-> <<>>]

(* GAS, PUSH 7, MOD, DUP1, PUSH slot, SSTORE: an offset, kept in a slot. *)
GasOffset(slot) == <<90>> \o PushInt(GasModulus) \o <<6, 128>> \o PushInt(slot) \o <<85>>

(* The bytes of a literal, and of a word of memory filled with ff. *)
FullWord == Base - 1
FillTail(from, size) ==                  \* MSTORE8 of ff, byte by byte
    Concat([i \in 1 .. size - from |-> PushInt(255) \o PushInt(from + i - 1) \o <<83>>])
FillUnrolled(full) ==
    Concat([i \in 1 .. full \div WordBytes |->
              PushInt(FullWord) \o PushInt((i - 1) * WordBytes) \o <<82>>])

(* A loop from the end down: the counter stays on the stack. *)
FillLoop(full) ==
    Finish(<<Code(PushInt(full)),
             Mark("fill_words_loop"),
             Code(<<128>> \o PushInt(0) \o <<20>>), PushLabel("fill_words_done"), Code(<<87>>),
             Code(PushInt(FullWord) \o <<129>> \o PushInt(WordBytes) \o <<144, 3, 82>>),
             Code(PushInt(WordBytes) \o <<144, 3>>), PushLabel("fill_words_loop"), Code(<<86>>),
             Mark("fill_words_done"),
             Code(<<80>>)>>)

(* _build_fill_ff_prefix: the labels are positions in the prefix alone.    *)
FillFfPrefix(size) ==
    LET full == (size \div WordBytes) * WordBytes
        words == IF size <= UnrollLimit THEN FillUnrolled(full)
                 ELSE IF full > 0 THEN FillLoop(full) ELSE <<>>
    IN  words \o FillTail(full, size)

Nothing == <<>>                        \* no initial storage
InvokeGas50000 == 50000                \* "0xc350", the default
DeployGas100000 == 100000              \* "0x186a0", the default
BlockGas == 16711680                   \* "0xff0000", just below a transaction's cap

(* _memory_gas_hex: one limit more than there are steps, the size reaches  *)
(* the step before a limit.                                                *)
GasForSize(limits, size_hint) ==
    limits[1 + Cardinality({i \in DOMAIN MemorySteps : size_hint >= MemorySteps[i]})]

(* The shape most families share: deploy the runtime behind its init code, *)
(* invoke it once.                                                         *)
DeployAndInvoke(name, runtime, data, gas, expectedStorage, probe) ==
    BuildCase(name, DeployContract(InitCode(runtime), runtime, DeployGas100000, Nothing),
              <<InvokeContract(data, gas, 0, "success")>>, expectedStorage, probe)
=============================================================================
