-------------------------------- MODULE Evm --------------------------------
(***************************************************************************)
(* The chain's side of one generated case: the transactions the runner     *)
(* sends for it, executed byte by byte.  Code outside src/: it is the      *)
(* machine the byte code of the generators is written for, with the        *)
(* instructions that code uses, their gas (Cancun schedule), the accounts  *)
(* they read and change, calls and creations nested in one another, and    *)
(* their failures.                                                         *)
(*                                                                         *)
(* A case runs alone: every case deploys a contract of its own.  A later   *)
(* transaction is sent only after a receipt with the status the case       *)
(* expects, which is what JsonRpcExecution shows of the backend.           *)
(***************************************************************************)
EXTENDS GeneratedCase, GasFloor, TransactionSigning
LOCAL INSTANCE SequencesExt
LOCAL INSTANCE FiniteSetsExt
LOCAL INSTANCE TLC

CONSTANTS
  Tests,          \* the generated cases, see GeneratedCase
  FeatureSets,    \* what the chains of a run support: sets of feature flags
  AdminAccount,   \* the sender of every transaction, as a word
  PrivateKey,     \* its key, from admin_key_source
  Genesis,        \* the accounts before the case starts, the sender's among them
  LastContract,   \* the address of the contract deployed, as a word
  Block,          \* the fields of the block before the case starts
  ChainId, GasPrice,
  MemoryLimit     \* bound: a program reaching beyond this many bytes runs out of gas

ASSUME EvmAssumption ==
  /\ ByteBits = 8
  /\ \A w \in {AdminAccount, LastContract, ChainId, GasPrice} : w \in Word
  /\ \A f \in DOMAIN Block : Block[f] \in Word
  /\ AdminAccount \in DOMAIN Genesis /\ LastContract \notin DOMAIN Genesis
  /\ MemoryLimit \in Nat
  /\ PrivateKey \in 1 .. CurveN - 1
  /\ PrivateKeyToAddress(PrivateKey) = AdminAccount    \* or else the backend raises

VARIABLES
  test,       \* the case
  features,   \* what its chain supports
  turn,       \* n while the n-th of its transactions runs, 0 before the first
  status,     \* of that transaction: running, success, failed or refused
  accounts,   \* the accounts by address
  origin,     \* the accounts before the current transaction
  warm,       \* addresses <<a>> and slots <<a, s>> the transaction has accessed
  created,    \* contracts it has created
  destroyed,  \* contracts it deletes when it ends
  logs,       \* entries it has logged
  frame,      \* the call that executes
  callers,    \* the calls that wait for it, innermost first
  returndata, \* what the last finished call returned
  pc, stack, mem, gas

vars == <<test, features, turn, status, accounts, origin, warm, created, destroyed, logs,
          frame, callers, returndata, pc, stack, mem, gas>>
whole == <<test, features, turn, origin>>
ledger == <<accounts, warm, created, destroyed, logs>>
calling == <<frame, callers, returndata>>

code == frame.code
input == frame.input

NonZero(bytes) == Cardinality({i \in DOMAIN bytes : bytes[i] # 0})
Overlay(bytes, from, new) ==
    [i \in DOMAIN bytes |-> IF i - from \in DOMAIN new THEN new[i - from] ELSE bytes[i]]

(* Accounts; one that is not there is empty. *)
NoAccount == [code |-> <<>>, storage |-> <<>>, balance |-> 0, nonce |-> 0]
AccountIn(world, a) == IF a \in DOMAIN world THEN world[a] ELSE NoAccount
Account(a) == AccountIn(accounts, a)
Empty(a) == Account(a).code = <<>> /\ Account(a).balance = 0 /\ Account(a).nonce = 0
Move(world, from, to, value) ==
    IF value = 0 THEN world
    ELSE LET debited == [world EXCEPT ![from].balance = @ - value]
         IN  (to :> [AccountIn(debited, to) EXCEPT !.balance = @ + value]) @@ debited

StoredIn(world, a, s) ==
    IF s \in DOMAIN AccountIn(world, a).storage THEN AccountIn(world, a).storage[s] ELSE 0
Slot(s) == StoredIn(accounts, frame.self, s)
Before(s) == StoredIn(origin, frame.self, s)

(* The address of a contract: any function whose values differ on the few  *)
(* inputs of a run, and are no address a program names.                    *)
CreateAddress(creator, nonce) == 100000 + Keccak(ToBytes(creator, WordBytes) \o <<nonce>>)
Create2Address(creator, salt, init) ==
    200000 + Keccak(ToBytes(creator, WordBytes) \o ToBytes(salt, WordBytes) \o init)

(* The n-th transaction is in a block of its own.  A chain without        *)
(* PREVRANDAO answers something else for it.                               *)
BlockOf(n) == [Block EXCEPT !.number = @ + n, !.timestamp = @ + 2 * n, !.basefee = @ + n,
                            !.prevrandao = @ + n]
BlockHash(number) ==
    LET current == BlockOf(turn).number
    IN  IF number >= current \/ number + 256 < current THEN 0 ELSE 300000 + number
BlockField(read) ==
    CASE read = "COINBASE" -> BlockOf(turn).coinbase
      [] read = "TIMESTAMP" -> BlockOf(turn).timestamp
      [] read = "NUMBER" -> BlockOf(turn).number
      [] read = "GASLIMIT" -> BlockOf(turn).gaslimit
      [] read = "BASEFEE" -> BlockOf(turn).basefee
      [] read = "PREVRANDAO" -> IF "prevrandao" \in features THEN BlockOf(turn).prevrandao
                                ELSE 400000 + turn

-----------------------------------------------------------------------------
(* Instructions. *)

opcode == IF pc < Len(code) THEN code[pc + 1] ELSE 0
WordInstructions ==
    [b \in 1 .. 11 |-> <<"ADD", "MUL", "SUB", "DIV", "SDIV", "MOD", "SMOD", "ADDMOD",
                         "MULMOD", "EXP", "SIGNEXTEND">>[b]]
      @@ [b \in 16 .. 30 |-> <<"LT", "GT", "SLT", "SGT", "EQ", "ISZERO", "AND", "OR", "XOR",
                               "NOT", "BYTE", "SHL", "SHR", "SAR", "CLZ">>[b - 15]]
Instructions ==
    (0 :> "STOP") @@ (32 :> "SHA3") @@ (94 :> "MCOPY") @@ (63 :> "EXTCODEHASH")
      @@ [b \in 48 .. 59 |-> <<"ADDRESS", "BALANCE", "ORIGIN", "CALLER", "CALLVALUE",
                               "CALLDATALOAD", "CALLDATASIZE", "CALLDATACOPY", "CODESIZE",
                               "CODECOPY", "GASPRICE", "EXTCODESIZE">>[b - 47]]
      @@ (61 :> "RETURNDATASIZE") @@ (62 :> "RETURNDATACOPY")
      @@ [b \in 64 .. 72 |-> <<"BLOCKHASH", "COINBASE", "TIMESTAMP", "NUMBER", "PREVRANDAO",
                               "GASLIMIT", "CHAINID", "SELFBALANCE", "BASEFEE">>[b - 63]]
      @@ [b \in 80 .. 91 |-> <<"POP", "MLOAD", "MSTORE", "MSTORE8", "SLOAD", "SSTORE", "JUMP",
                               "JUMPI", "PC", "MSIZE", "GAS", "JUMPDEST">>[b - 79]]
      @@ [b \in 95 .. 95 + WordBytes |-> "PUSH"]
      @@ [b \in 128 .. 143 |-> "DUP"]
      @@ [b \in 144 .. 159 |-> "SWAP"]
      @@ [b \in 160 .. 164 |-> "LOG"]
      @@ (240 :> "CREATE") @@ (241 :> "CALL") @@ (243 :> "RETURN") @@ (245 :> "CREATE2")
      @@ (253 :> "REVERT") @@ (255 :> "SELFDESTRUCT")
      @@ [b \in DOMAIN WordInstructions |-> "WORD"]

(* An instruction of a later fork is there if the chain says so. *)
OfFeature == (30 :> "clz") @@ (72 :> "base_fee")
instruction ==
    IF opcode \notin DOMAIN Instructions
         \/ (opcode \in DOMAIN OfFeature /\ OfFeature[opcode] \notin features)
    THEN "INVALID" ELSE Instructions[opcode]
operation == WordInstructions[opcode]            \* of a WORD instruction
BlockReads == {"COINBASE", "TIMESTAMP", "NUMBER", "PREVRANDAO", "GASLIMIT", "BASEFEE"}
EnvironmentReads ==
    {"ADDRESS", "ORIGIN", "CALLER", "CALLVALUE", "CALLDATASIZE", "CODESIZE", "GASPRICE",
     "RETURNDATASIZE", "CHAINID", "SELFBALANCE", "PC", "MSIZE", "GAS"} \union BlockReads
AccountReads == {"BALANCE", "EXTCODESIZE", "EXTCODEHASH"}
Creations == {"CREATE", "CREATE2"}

(* The words an instruction takes from the stack. *)
Pops ==
    CASE instruction = "WORD" -> Arity(operation)
      [] instruction = "DUP" -> opcode - 127
      [] instruction = "SWAP" -> opcode - 142
      [] instruction = "LOG" -> opcode - 158
      [] instruction \in {"POP", "MLOAD", "SLOAD", "JUMP", "CALLDATALOAD", "BLOCKHASH",
                          "SELFDESTRUCT"} \union AccountReads -> 1
      [] instruction \in {"MSTORE", "MSTORE8", "SSTORE", "JUMPI", "SHA3", "RETURN", "REVERT"} -> 2
      [] instruction \in {"MCOPY", "CODECOPY", "CALLDATACOPY", "RETURNDATACOPY", "CREATE"} -> 3
      [] instruction = "CREATE2" -> 4
      [] instruction = "CALL" -> 7
      [] OTHER -> 0

(* The memory an instruction reaches: a set of windows <<offset, length>>. *)
Windows ==
    CASE instruction = "MLOAD" -> {<<stack[1], WordBytes>>}
      [] instruction = "MSTORE" -> {<<stack[1], WordBytes>>}
      [] instruction = "MSTORE8" -> {<<stack[1], 1>>}
      [] instruction \in {"SHA3", "RETURN", "REVERT", "LOG"} -> {<<stack[1], stack[2]>>}
      [] instruction \in {"CODECOPY", "CALLDATACOPY", "RETURNDATACOPY"} -> {<<stack[1], stack[3]>>}
      [] instruction = "MCOPY" -> {<<stack[1], stack[3]>>, <<stack[2], stack[3]>>}
      [] instruction \in Creations -> {<<stack[2], stack[3]>>}
      [] instruction = "CALL" -> {<<stack[4], stack[5]>>, <<stack[6], stack[7]>>}
      [] OTHER -> {}
Reached == Max({Len(mem)} \union {w[1] + w[2] : w \in {v \in Windows : v[2] > 0}})
MemorySize == WordCount(Reached) * WordBytes
MemoryCost(size) == LET w == size \div WordBytes IN 3 * w + (w * w) \div 512
Expansion == MemoryCost(MemorySize) - MemoryCost(Len(mem))
Expanded == Slice(mem, 0, MemorySize)

StoreCost(slot, new) ==
    (IF <<frame.self, slot>> \in warm THEN 0 ELSE 2100)
      + (IF Slot(slot) = new \/ Slot(slot) # Before(slot) THEN 100
         ELSE IF Before(slot) = 0 THEN 20000 ELSE 2900)
AccessCost(a) == IF <<a>> \in warm THEN 100 ELSE 2600
CallCost(a, value) ==
    AccessCost(a) + (IF value = 0 THEN 0 ELSE 9000 + IF Empty(a) THEN 25000 ELSE 0)
DestroyCost(a) ==
    5000 + (IF <<a>> \in warm THEN 0 ELSE 2600)
         + (IF Empty(a) /\ Account(frame.self).balance > 0 THEN 25000 ELSE 0)

BaseCost ==
    CASE instruction = "WORD" ->
            IF operation \in {"ADDMOD", "MULMOD"} THEN 8
            ELSE IF operation = "EXP" THEN 10 + 50 * ByteLength(stack[2])
            ELSE IF operation \in {"MUL", "DIV", "SDIV", "MOD", "SMOD", "SIGNEXTEND", "CLZ"} THEN 5
            ELSE 3
      [] instruction = "SELFBALANCE" -> 5
      [] instruction \in EnvironmentReads \union {"POP"} -> 2
      [] instruction = "PUSH" -> IF opcode = PUSH0 THEN 2 ELSE 3
      [] instruction \in {"DUP", "SWAP", "MLOAD", "MSTORE", "MSTORE8", "CALLDATALOAD"} -> 3
      [] instruction \in {"MCOPY", "CODECOPY", "CALLDATACOPY", "RETURNDATACOPY"} ->
            3 + 3 * WordCount(stack[3])
      [] instruction = "SHA3" -> 30 + 6 * WordCount(stack[2])
      [] instruction = "SLOAD" -> IF <<frame.self, stack[1]>> \in warm THEN 100 ELSE 2100
      [] instruction = "SSTORE" -> StoreCost(stack[1], stack[2])
      [] instruction = "JUMP" -> 8
      [] instruction = "JUMPI" -> 10
      [] instruction = "JUMPDEST" -> 1
      [] instruction = "LOG" -> 375 * (opcode - 159) + 8 * stack[2]
      [] instruction = "RETURN" -> IF frame.creates THEN 200 * stack[2] ELSE 0
      [] instruction = "BLOCKHASH" -> 20
      [] instruction \in AccountReads -> AccessCost(stack[1])
      [] instruction = "CALL" -> CallCost(stack[2], stack[3])
      [] instruction = "CREATE" -> 32000 + 2 * WordCount(stack[3])
      [] instruction = "CREATE2" -> 32000 + 8 * WordCount(stack[3])
      [] instruction = "SELFDESTRUCT" -> DestroyCost(stack[1])
      [] OTHER -> 0
Cost == BaseCost + Expansion

(* A jump may land on a JUMPDEST that is no part of a push's literal:      *)
(* literal[i] is the number of literal bytes still due after i bytes.      *)
IsJumpDest(position) ==
    LET literal[i \in 0 .. Len(code)] ==
            IF i = 0 THEN 0
            ELSE LET due == literal[i - 1]
                 IN  IF due > 0 THEN due - 1
                     ELSE IF code[i] \in 96 .. 127 THEN code[i] - PUSH0 ELSE 0
    IN  position < Len(code) /\ code[position + 1] = 91 /\ literal[position] = 0
Jumps == instruction = "JUMP" \/ (instruction = "JUMPI" /\ stack[2] # 0)

(* What a chain without a feature cannot do: log (or fill memory to log),  *)
(* return or deploy the largest payloads of the benchmark.                 *)
WithinFeatures ==
    /\ instruction = "LOG" /\ Reached >= Mebibyte => "large_log_payload" \in features
    /\ instruction \in {"RETURN", "REVERT"} /\ ~frame.creates /\ stack[2] >= Mebibyte =>
          \/ "large_nonzero_returndata" \in features
          \/ NonZero(Slice(mem, stack[1], stack[2])) = 0
    /\ instruction = "RETURN" /\ frame.creates =>
          \/ stack[2] < MaxCodeSize
          \/ stack[2] = MaxCodeSize /\ "max_create_child_code" \in features

CanExecute ==
    /\ instruction # "INVALID"
    /\ Len(stack) >= Pops
    /\ Reached <= MemoryLimit
    /\ gas >= Cost
    /\ instruction = "SSTORE" => gas > 2300
    /\ instruction = "RETURNDATACOPY" => stack[2] + stack[3] <= Len(returndata)
    /\ Jumps => IsJumpDest(stack[1])
    /\ WithinFeatures

Executes(instructions) == status = "running" /\ instruction \in instructions /\ CanExecute
Charge == gas' = gas - Cost
Results(words) == stack' = words \o SubSeq(stack, Pops + 1, Len(stack))
Advance == pc' = pc + 1

-----------------------------------------------------------------------------
(* Calls and creations: the ledger they may have to undo, the call that    *)
(* waits, and how the innermost one ends.                                  *)

Ledger == [accounts |-> accounts, warm |-> warm, created |-> created,
           destroyed |-> destroyed, logs |-> logs]
Becomes(world) ==
    /\ accounts' = world.accounts /\ warm' = world.warm /\ logs' = world.logs
    /\ created' = world.created /\ destroyed' = world.destroyed

Frame(self, caller, value, data, bytes, creates) ==
    [self |-> self, caller |-> caller, value |-> value, input |-> data, code |-> bytes,
     creates |-> creates]

(* The instruction starts a call: its memory window takes the output, its  *)
(* ledger is what a failure of the call returns to.                        *)
Enter(callee, window, forwarded, stipend, before, within) ==
    /\ callers' = <<[frame |-> frame, pc |-> pc + 1, stack |-> SubSeq(stack, Pops + 1, Len(stack)),
                     mem |-> Expanded, gas |-> gas - Cost - forwarded, window |-> window,
                     before |-> before]>> \o callers
    /\ frame' = callee
    /\ returndata' = <<>>
    /\ pc' = 0 /\ stack' = <<>> /\ mem' = <<>> /\ gas' = forwarded + stipend
    /\ Becomes(within)
    /\ UNCHANGED status

(* The instruction is answered at once, without a call. *)
Answer(result, output, window, left, world) ==
    /\ Results(<<result>>)
    /\ mem' = Overlay(Expanded, window[1], SubSeq(output, 1, window[2]))
    /\ returndata' = output
    /\ gas' = left
    /\ Advance
    /\ Becomes(world)
    /\ UNCHANGED <<status, frame, callers>>

(* The transaction ends. *)
End(outcome, left, world) ==
    /\ status' = outcome
    /\ gas' = left
    /\ Becomes(world)
    /\ UNCHANGED <<calling, pc, stack, mem>>

(* The innermost call ends, and its caller goes on. *)
Resume(result, output, left, world) ==
    LET caller == Head(callers)
    IN  /\ frame' = caller.frame
        /\ callers' = Tail(callers)
        /\ returndata' = output
        /\ pc' = caller.pc
        /\ stack' = <<result>> \o caller.stack
        /\ mem' = Overlay(caller.mem, caller.window[1], SubSeq(output, 1, caller.window[2]))
        /\ gas' = caller.gas + left
        /\ Becomes(world)
        /\ UNCHANGED status

Succeed(output, left, world) ==
    IF callers = <<>>
    THEN End("success", left,
             [world EXCEPT !.accounts = [a \in DOMAIN @ \ world.destroyed |-> @[a]]])
    ELSE IF frame.creates THEN Resume(frame.self, <<>>, left, world)
    ELSE Resume(1, output, left, world)

(* What it wrote, moved, created and logged is undone. *)
Undone(output, left) ==
    IF callers = <<>>
    THEN End("failed", left, [Ledger EXCEPT !.accounts = origin, !.logs = <<>>])
    ELSE Resume(0, output, left, Head(callers).before)

Offered(left) == left - left \div 64

(* The precompiled contracts the generators call, code outside src/ of     *)
(* which only this matters: where they are, what they cost, and that their *)
(* output is a function of their input (none for a bad signature).         *)
BlsOf(data) == ToBytes(Keccak(data), 4)
SignatureOf(data) == IF Len(data) > 0 /\ data[1] = 1 THEN ToBytes(1, WordBytes) ELSE <<>>
Precompiles ==
    (5 :> [cost |-> IF "modexp_eip7883" \in features THEN 20976 ELSE 223, outcome |-> "modexp"])
      @@ (IF "bls12_381_precompiles" \notin features THEN <<>>
          ELSE (11 :> [cost |-> 375, outcome |-> "bls"]) @@ (12 :> [cost |-> 12000, outcome |-> "bls"]))
      @@ (IF "p256verify_precompile" \notin features THEN <<>>
          ELSE 256 :> [cost |-> 6900, outcome |-> "signature"])
Precompiled(a, data) ==
    CASE Precompiles[a].outcome = "modexp" -> <<1>>
      [] Precompiles[a].outcome = "bls" -> BlsOf(data)
      [] Precompiles[a].outcome = "signature" -> SignatureOf(data)

-----------------------------------------------------------------------------
(***************************************************************************)
(* Transactions.  A node takes one only if its gas covers what its bytes   *)
(* cost (EIP-2028, 3860) and their floor (EIP-7623), and the sender has    *)
(* its value; gas itself is not charged to the sender's balance.           *)
(***************************************************************************)
Transactions ==
    test.transfers
      \o (IF test.init = <<>> THEN <<>>
          ELSE <<[kind |-> "deploy", to |-> LastContract, data |-> test.init,
                  value |-> test.deployValue, gas |-> test.deployGas, status |-> "success"]>>)
      \o [n \in DOMAIN test.invokes |->
            test.invokes[n] @@ [kind |-> "invoke", to |-> LastContract]]
Deployment == Len(test.transfers) + 1

(* The runner's side: the authorizations a step asks to be signed, by the  *)
(* keys it names and with the nonces of their accounts; the transaction    *)
(* with its gas (kept as declared in an eth_sendRawTransaction step), the  *)
(* sender's nonce and the fees of the profile; signed, in every way it can *)
(* come out.                                                               *)
SignedRequest(request) ==
    SignAuthorization(request.private_key, request.chain_id, LastContract,
                      Account(PrivateKeyToAddress(request.private_key)).nonce)
Authorizations(tx) ==
    IF "authorizations_to_sign" \notin DOMAIN tx THEN {<<>>}
    ELSE {list \in [DOMAIN tx.authorizations_to_sign ->
                      UNION {SignedRequest(tx.authorizations_to_sign[i]) :
                               i \in DOMAIN tx.authorizations_to_sign}] :
            \A i \in DOMAIN list : list[i] \in SignedRequest(tx.authorizations_to_sign[i])}
Prepared(tx, authorizations) ==
    [nonce |-> turn, gas |-> IF tx.kind = "raw" THEN tx.gas
                             ELSE PreparedGas(tx.gas, tx.data, tx.kind = "deploy"),
     maxPriorityFeePerGas |-> GasPrice, maxFeePerGas |-> GasPrice,
     to |-> IF tx.kind = "deploy" THEN <<>> ELSE ToBytes(tx.to, WordBytes),
     value |-> tx.value, data |-> tx.data, authorizations |-> authorizations]
SendRawTransaction(tx) ==
    UNION {SignTransaction(PrivateKey, ChainId, Prepared(tx, list)) : list \in Authorizations(tx)}

(* The node's side, of a decoded transaction. *)
Intrinsic(tx) ==
    21000 + 4 * Len(tx.data) + 12 * NonZero(tx.data) + 25000 * Len(tx.authorizations)
      + IF tx.to = <<>> THEN 32000 + 2 * WordCount(Len(tx.data)) ELSE 0
DataFloor(tx) ==
    IF "calldata_floor_eip7623" \notin features THEN 0
    ELSE 21000 + 10 * (Len(tx.data) + 3 * NonZero(tx.data))
Acceptable(tx) ==
    /\ tx.wellFormed
    /\ tx.type = 4 => "eip7702" \in features /\ tx.to # <<>>
    /\ tx.chain_id = ChainId /\ tx.nonce = turn
    /\ tx.signers = {AdminAccount}
    /\ tx.gas >= Intrinsic(tx) /\ tx.gas >= DataFloor(tx)
    /\ Account(AdminAccount).balance >= tx.value

(* An authorization that is valid makes its signer's code the designation  *)
(* of the address it names (EIP-7702).                                     *)
Designation(address) == <<239, 1, 0>> \o ToBytes(address, WordBytes)
Designates(bytes) == Len(bytes) = 3 + WordBytes /\ SubSeq(bytes, 1, 3) = <<239, 1, 0>>
Delegate(world, authorization) ==
    LET valid(a) ==
            /\ authorization.chain_id \in {0, ChainId}
            /\ AccountIn(world, a).nonce = authorization.nonce
            /\ AccountIn(world, a).code = <<>> \/ Designates(AccountIn(world, a).code)
    IN  [a \in DOMAIN world \union authorization.signers |->
           IF a \in authorization.signers /\ valid(a)
           THEN [AccountIn(world, a) EXCEPT !.code = Designation(authorization.address),
                                            !.nonce = @ + 1]
           ELSE AccountIn(world, a)]
CodeOf(world, a) ==
    LET bytes == AccountIn(world, a).code
    IN  IF Designates(bytes) THEN AccountIn(world, FromBytes(SubSeq(bytes, 4, Len(bytes)))).code
        ELSE bytes

Init ==
    /\ test \in Tests
    /\ features \in FeatureSets
    /\ turn = 0
    /\ status = "success"
    /\ accounts = Genesis
    /\ origin = accounts
    /\ warm = {} /\ created = {} /\ destroyed = {} /\ logs = <<>>
    /\ frame = Frame(AdminAccount, AdminAccount, 0, <<>>, <<>>, FALSE)
    /\ callers = <<>> /\ returndata = <<>>
    /\ pc = 0 /\ stack = <<>> /\ mem = <<>> /\ gas = 0

ExpectedStatus == IF turn = 0 THEN "success" ELSE Transactions[turn].status
Finished == status # "running" /\ (status # ExpectedStatus \/ turn = Len(Transactions))
MoreToSend == status = ExpectedStatus /\ turn < Len(Transactions)

(* The next transaction of the case: the node takes it, or refuses it. *)
Start(tx) ==
    LET creates == tx.to = <<>>
        to == IF creates THEN LastContract ELSE FromBytes(tx.to)
        world == FoldLeft(Delegate, accounts, tx.authorizations)
        paid == Move(world, AdminAccount, to, tx.value)
    IN  /\ status' = "running"
        /\ origin' = world
        /\ accounts' = IF creates THEN (to :> [AccountIn(paid, to) EXCEPT !.nonce = 1]) @@ paid
                       ELSE paid
        /\ warm' = {<<AdminAccount>>, <<to>>, <<Block.coinbase>>}
                     \union {<<a>> : a \in DOMAIN Precompiles}
        /\ created' = IF creates THEN {to} ELSE {}
        /\ destroyed' = {} /\ logs' = <<>>
        /\ frame' = Frame(to, AdminAccount, tx.value, IF creates THEN <<>> ELSE tx.data,
                          IF creates THEN tx.data ELSE CodeOf(world, to), creates)
        /\ callers' = <<>> /\ returndata' = <<>>
        /\ pc' = 0 /\ stack' = <<>> /\ mem' = <<>>
        /\ gas' = tx.gas - Intrinsic(tx)
Refuse ==
    /\ status' = "refused"
    /\ UNCHANGED <<origin, ledger, calling, pc, stack, mem, gas>>

Submit ==
    /\ MoreToSend
    /\ turn' = turn + 1
    /\ \E raw \in SendRawTransaction(Transactions[turn + 1]) :
          LET tx == DecodeTransaction(raw)
          IN  IF Acceptable(tx) THEN Start(tx) ELSE Refuse
    /\ UNCHANGED <<test, features>>

(* STOP or RETURN: the bytes a creation returns become its code. *)
Halt ==
    /\ Executes({"STOP", "RETURN"})
    /\ LET output == IF instruction = "STOP" THEN <<>> ELSE Slice(Expanded, stack[1], stack[2])
       IN  Succeed(output, gas - Cost,
                   IF ~frame.creates THEN Ledger
                   ELSE [Ledger EXCEPT !.accounts[frame.self].code = output])
    /\ UNCHANGED whole

(* The account is gone when the transaction ends, but only if it also      *)
(* created it (EIP-6780); its balance moves at once.  Some chains clear    *)
(* the code at once, too.                                                  *)
SelfDestruct ==
    /\ Executes({"SELFDESTRUCT"})
    /\ LET moved == Move(accounts, frame.self, stack[1], Account(frame.self).balance)
           young == frame.self \in created
           cleared == young /\ "selfdestruct_created_clears_code" \in features
       IN  Succeed(<<>>, gas - Cost,
                   [Ledger EXCEPT
                      !.accounts = IF cleared THEN [moved EXCEPT ![frame.self].code = <<>>] ELSE moved,
                      !.destroyed = IF young THEN @ \union {frame.self} ELSE @])
    /\ UNCHANGED whole

Revert ==
    /\ Executes({"REVERT"})
    /\ Undone(Slice(Expanded, stack[1], stack[2]), gas - Cost)
    /\ UNCHANGED whole
Fault ==
    /\ status = "running" /\ ~CanExecute
    /\ Undone(<<>>, 0)
    /\ UNCHANGED whole

Touched == [Ledger EXCEPT !.warm = @ \union {<<stack[2]>>}]
Call ==
    /\ Executes({"CALL"})
    /\ LET to == stack[2]
           value == stack[3]
           data == Slice(Expanded, stack[4], stack[5])
           window == <<stack[6], stack[7]>>
           left == gas - Cost
           forwarded == Min({stack[1], Offered(left)})
           stipend == IF value = 0 THEN 0 ELSE 2300
       IN  IF value > Account(frame.self).balance
           THEN Answer(0, <<>>, window, left + stipend, Touched)
           ELSE IF to \notin DOMAIN Precompiles
           THEN Enter(Frame(to, frame.self, value, data, CodeOf(accounts, to), FALSE),
                      window, forwarded, stipend, Touched,
                      [Touched EXCEPT !.accounts = Move(@, frame.self, to, value)])
           ELSE IF Precompiles[to].cost > forwarded
           THEN Answer(0, <<>>, window, left - forwarded, Touched)
           ELSE Answer(1, Precompiled(to, data), window, left - Precompiles[to].cost, Touched)
    /\ UNCHANGED whole

Create ==
    /\ Executes(Creations)
    /\ LET value == stack[1]
           bytes == Slice(Expanded, stack[2], stack[3])
           address == IF instruction = "CREATE"
                      THEN CreateAddress(frame.self, Account(frame.self).nonce)
                      ELSE Create2Address(frame.self, stack[4], bytes)
           left == gas - Cost
           counted == [Ledger EXCEPT !.accounts[frame.self].nonce = @ + 1,
                                     !.warm = @ \union {<<address>>}]
           paid == Move(counted.accounts, frame.self, address, value)
       IN  IF value > Account(frame.self).balance
           THEN Answer(0, <<>>, <<0, 0>>, left, Ledger)
           ELSE IF Account(address).code # <<>> \/ Account(address).nonce # 0
           THEN Answer(0, <<>>, <<0, 0>>, left - Offered(left), counted)
           ELSE Enter(Frame(address, frame.self, value, <<>>, bytes, TRUE),
                      <<0, 0>>, Offered(left), 0, counted,
                      [counted EXCEPT
                         !.accounts = (address :> [AccountIn(paid, address) EXCEPT !.nonce = 1]) @@ paid,
                         !.created = @ \union {address}])
    /\ UNCHANGED whole

-----------------------------------------------------------------------------
Push ==
    /\ Executes({"PUSH"})
    /\ Results(<<FromBytes(Slice(code, pc + 1, opcode - PUSH0))>>)
    /\ pc' = pc + 1 + (opcode - PUSH0)
    /\ Charge
    /\ UNCHANGED <<whole, status, ledger, calling, mem>>

Dup ==
    /\ Executes({"DUP"})
    /\ stack' = <<stack[opcode - 127]>> \o stack
    /\ Charge /\ Advance
    /\ UNCHANGED <<whole, status, ledger, calling, mem>>

Swap ==
    /\ Executes({"SWAP"})
    /\ stack' = [stack EXCEPT ![1] = stack[opcode - 142], ![opcode - 142] = stack[1]]
    /\ Charge /\ Advance
    /\ UNCHANGED <<whole, status, ledger, calling, mem>>

Compute ==
    /\ Executes({"WORD"})
    /\ Results(<<Evm(operation, stack)>>)
    /\ Charge /\ Advance
    /\ UNCHANGED <<whole, status, ledger, calling, mem>>

ReadEnvironment ==
    /\ Executes(EnvironmentReads)
    /\ Results(<<CASE instruction = "ADDRESS" -> frame.self
                   [] instruction = "ORIGIN" -> AdminAccount
                   [] instruction = "CALLER" -> frame.caller
                   [] instruction = "CALLVALUE" -> frame.value
                   [] instruction = "CALLDATASIZE" -> Len(input)
                   [] instruction = "CODESIZE" -> Len(code)
                   [] instruction = "GASPRICE" -> GasPrice
                   [] instruction = "RETURNDATASIZE" -> Len(returndata)
                   [] instruction = "CHAINID" -> ChainId
                   [] instruction = "SELFBALANCE" -> Account(frame.self).balance
                   [] instruction \in BlockReads -> BlockField(instruction)
                   [] instruction = "PC" -> pc
                   [] instruction = "MSIZE" -> Len(mem)
                   [] instruction = "GAS" -> gas - Cost>>)
    /\ Charge /\ Advance
    /\ UNCHANGED <<whole, status, ledger, calling, mem>>

ReadBlockHash ==
    /\ Executes({"BLOCKHASH"})
    /\ Results(<<BlockHash(stack[1])>>)
    /\ Charge /\ Advance
    /\ UNCHANGED <<whole, status, ledger, calling, mem>>

ReadAccount ==
    /\ Executes(AccountReads)
    /\ Results(<<CASE instruction = "BALANCE" -> Account(stack[1]).balance
                   [] instruction = "EXTCODESIZE" -> Len(Account(stack[1]).code)
                   [] instruction = "EXTCODEHASH" ->
                        IF Empty(stack[1]) THEN 0 ELSE Keccak(Account(stack[1]).code)>>)
    /\ warm' = warm \union {<<stack[1]>>}
    /\ Charge /\ Advance
    /\ UNCHANGED <<whole, status, accounts, created, destroyed, logs, calling, mem>>

LoadInput ==
    /\ Executes({"CALLDATALOAD"})
    /\ Results(<<LoadWord(input, stack[1])>>)
    /\ Charge /\ Advance
    /\ UNCHANGED <<whole, status, ledger, calling, mem>>

Discard ==                                       \* POP and JUMPDEST
    /\ Executes({"POP", "JUMPDEST"})
    /\ Results(<<>>)
    /\ Charge /\ Advance
    /\ UNCHANGED <<whole, status, ledger, calling, mem>>

Jump ==
    /\ Executes({"JUMP", "JUMPI"})
    /\ pc' = IF Jumps THEN stack[1] ELSE pc + 1
    /\ Results(<<>>)
    /\ Charge
    /\ UNCHANGED <<whole, status, ledger, calling, mem>>

ReadMemory ==
    /\ Executes({"MLOAD", "SHA3"})
    /\ mem' = Expanded
    /\ Results(<<IF instruction = "MLOAD" THEN LoadWord(Expanded, stack[1])
                 ELSE Keccak(Slice(Expanded, stack[1], stack[2]))>>)
    /\ Charge /\ Advance
    /\ UNCHANGED <<whole, status, ledger, calling>>

(* What a memory write puts at its destination stack[1]. *)
Written ==
    CASE instruction = "MSTORE" -> ToBytes(stack[2], WordBytes)
      [] instruction = "MSTORE8" -> <<stack[2] % 256>>
      [] instruction = "CODECOPY" -> Slice(code, stack[2], stack[3])
      [] instruction = "CALLDATACOPY" -> Slice(input, stack[2], stack[3])
      [] instruction = "RETURNDATACOPY" -> Slice(returndata, stack[2], stack[3])
      [] instruction = "MCOPY" -> Slice(Expanded, stack[2], stack[3])
WriteMemory ==
    /\ Executes({"MSTORE", "MSTORE8", "CODECOPY", "CALLDATACOPY", "RETURNDATACOPY", "MCOPY"})
    /\ mem' = Overlay(Expanded, stack[1], Written)
    /\ Results(<<>>)
    /\ Charge /\ Advance
    /\ UNCHANGED <<whole, status, ledger, calling>>

LoadStorage ==
    /\ Executes({"SLOAD"})
    /\ Results(<<Slot(stack[1])>>)
    /\ warm' = warm \union {<<frame.self, stack[1]>>}
    /\ Charge /\ Advance
    /\ UNCHANGED <<whole, status, accounts, created, destroyed, logs, calling, mem>>

WriteStorage ==
    /\ Executes({"SSTORE"})
    /\ accounts' = [accounts EXCEPT ![frame.self].storage = (stack[1] :> stack[2]) @@ @]
    /\ warm' = warm \union {<<frame.self, stack[1]>>}
    /\ Results(<<>>)
    /\ Charge /\ Advance
    /\ UNCHANGED <<whole, status, created, destroyed, logs, calling, mem>>

Log ==
    /\ Executes({"LOG"})
    /\ mem' = Expanded
    /\ logs' = Append(logs, [topics |-> SubSeq(stack, 3, opcode - 158),
                             data |-> Slice(Expanded, stack[1], stack[2])])
    /\ Results(<<>>)
    /\ Charge /\ Advance
    /\ UNCHANGED <<whole, status, accounts, warm, created, destroyed, calling>>

Next ==
    \/ Submit
    \/ Push \/ Dup \/ Swap \/ Compute
    \/ ReadEnvironment \/ ReadBlockHash \/ ReadAccount \/ LoadInput \/ Discard \/ Jump
    \/ ReadMemory \/ WriteMemory
    \/ LoadStorage \/ WriteStorage \/ Log
    \/ Call \/ Create \/ SelfDestruct
    \/ Halt \/ Revert \/ Fault
    \/ Finished /\ UNCHANGED vars          \* a finished case; a running one always has a step

Spec == Init /\ [][Next]_vars

-----------------------------------------------------------------------------
(* The machine's state: a case's code is bytes, memory is whole words, gas *)
(* is never overdrawn, a call that waits has somewhere to put its answer.  *)
TypeOK ==
    /\ \A i \in DOMAIN test.init : test.init[i] \in Byte
    /\ turn \in 0 .. Len(Transactions)
    /\ status \in {"running", "success", "failed", "refused"}
    /\ \A world \in {accounts, origin} : \A a \in DOMAIN world :
          /\ a \in Word /\ world[a].balance \in Word /\ world[a].nonce \in Nat
          /\ \A i \in DOMAIN world[a].code : world[a].code[i] \in Byte
          /\ \A s \in DOMAIN world[a].storage : s \in Word /\ world[a].storage[s] \in Word
    /\ created \union destroyed \union {a[1] : a \in warm} \subseteq Word
    /\ \A i \in DOMAIN logs : \A j \in DOMAIN logs[i].data : logs[i].data[j] \in Byte
    /\ \A i \in DOMAIN returndata : returndata[i] \in Byte
    /\ \A i \in DOMAIN callers : callers[i].window[2] > 0 =>
          callers[i].window[1] + callers[i].window[2] <= Len(callers[i].mem)
    /\ pc \in Nat
    /\ \A i \in DOMAIN stack : stack[i] \in Word
    /\ Len(mem) % WordBytes = 0 /\ \A i \in DOMAIN mem : mem[i] \in Byte
    /\ gas \in Nat
=============================================================================
