---------------------------- MODULE JsonRpcExecution ----------------------------
(***************************************************************************)
(* JsonRpcBackend.execute_case of src/adapter/executor.py with everything  *)
(* it calls, for the cases of one run in order (the loop of src/adapter/   *)
(* cli.py), on top of the transport of RpcTransport and the node of        *)
(* ChainNode.                                                              *)
(*                                                                         *)
(* The locals of execute_case are the record frame; frame.stage says where *)
(* the code is: between two steps, inside the _rpc call of that name, or   *)
(* after the last case.  Each action runs the code from one _rpc call to   *)
(* the next, the node acts in between.                                     *)
(***************************************************************************)
EXTENDS ChainNode

CONSTANTS
  Cases,        \* the selected cases, in order: [steps, storage, balance, context]
  KeySource,    \* "rpc_unlocked" or "private_key" (env:VAR and file:/path)
  MaxPolls,     \* bound: receipt polls before the deadline passes
  None,         \* absent
  MaxOthers,    \* bound: transactions another client of the admin account sends
  MaxFaults, FaultKinds   \* bounds of RpcTransport

VARIABLES rpc, wire, handled, reply, faults, frame, results

RawTx == "eth_sendRawTransaction"
Submissions == {RawTx, "eth_sendTransaction"}
Reads == {"eth_getTransactionCount", "eth_getTransactionReceipt", "eth_getStorageAt",
          "eth_getBalance", "eth_getBlockByNumber", "rpc_call"}

StorageAttempts == 5

Rpc == INSTANCE RpcTransport WITH
  Methods <- Submissions \cup Reads,
  NoAnswer <- None,
  Effectful <- Submissions,
  Args <- {}, Answers <- {}, MaxCalls <- 0   \* read only by Rpc!Next, not used here

\* What the node answers when it refuses a call.
RpcErrors == {"nonce too low", "already known", "underpriced", "forbidden",
              "invalid params", "header not found"}

ASSUME ExecutionConstants ==
  /\ KeySource \in {"rpc_unlocked", "private_key"}
  /\ MaxPolls \in Nat \ {0}
  /\ MaxOthers \in Nat
  /\ None \notin Nat \cup RpcErrors

IsSequence(s) == s \in Seq({s[i] : i \in DOMAIN s})

\* What loading a manifest enforces (models.py:43-54): only a raw transaction may
\* be expected to be refused, and a deployment cannot be expected to fail.
ASSUME CaseConstants ==
  /\ IsSequence(Cases)
  /\ \A k \in DOMAIN Cases :
       /\ IsSequence(Cases[k].steps)
       /\ \A pc \in DOMAIN Cases[k].steps : LET step == Cases[k].steps[pc] IN
            /\ step.action = "deploy_contract" => step.status
            /\ step.expectError # None => step.action = "eth_sendRawTransaction"

rpcVars == <<rpc, wire, handled, reply, faults>>
vars == <<rpcVars, chainVars, frame, results>>

-----------------------------------------------------------------------------
Frame(case) ==
  [case |-> case, pc |-> 1, stage |-> "step", hashes |-> <<>>, receipt |-> None,
   contract |-> None, error |-> None, before |-> None, after |-> None, context |-> None,
   balance |-> None, polls |-> 0, tries |-> 0]

Case == Cases[frame.case]
Step == Case.steps[frame.pc]
LastHash == frame.hashes[Len(frame.hashes)]

SubmitActions == {"deploy_contract", "invoke_contract", "transfer_native",
                  "eth_sendTransaction", "eth_sendRawTransaction"}

\* Key sources with a private key sign here and send raw transactions.
SubmitMethod ==
  IF KeySource = "private_key" \/ Step.action = "eth_sendRawTransaction"
  THEN RawTx ELSE "eth_sendTransaction"

KindOf(action) == CASE action = "deploy_contract" -> "create"
                    [] action = "transfer_native" -> "transfer"
                    [] OTHER -> "call"

\* The transaction of the current step, as _prepare_transaction completes it.
Prepared(nonce) ==
  [step |-> <<frame.case, frame.pc>>, nonce |-> nonce, kind |-> KindOf(Step.action),
   to |-> IF Step.to = "$last_contract" THEN frame.contract ELSE None,
   legal |-> Step.legal]

\* Faulty variant: the node is left to choose the nonce.
AsksNonceNever == FALSE

\* A nonce given by the step is kept, otherwise the pool's next one is asked for.
AsksNonce == Step.nonce = NoNonce

Resolvable == Step.to = "$last_contract" => frame.contract # None

Verdicts == {"passed", "failed", "proof_error", "execution_error"}

\* The result of the case is recorded and the loop goes on with the next case.
Record(verdict, storage) ==
  /\ results' = Append(results,
       [case |-> frame.case, verdict |-> verdict, hashes |-> frame.hashes,
        receipt |-> frame.receipt, contract |-> frame.contract, error |-> frame.error,
        storage |-> storage])
  /\ frame' = Frame(frame.case + 1)
  /\ UNCHANGED <<chainVars>>

\* An exception ends the case: ValueError is a proof error, RuntimeError and
\* TimeoutError an execution error.
Raise(verdict) == Record(verdict, None)

\* f is the frame in which method is called.
Call(f, method, arg) ==
  /\ Rpc!Invoke(<<frame.case, frame.pc>>, method, arg)
  /\ frame' = f
  /\ UNCHANGED <<chainVars, results>>

Continue(f) ==
  /\ frame' = f
  /\ UNCHANGED <<rpcVars, chainVars, results>>

At(stage) == frame.case <= Len(Cases) /\ frame.stage = stage
AtStep == At("step") /\ frame.pc <= Len(Case.steps)
NextStep == [frame EXCEPT !.stage = "step", !.pc = @ + 1]

\* The call of this stage is over, with a result, an RPC error or an exception.
Back(stage) == At(stage) /\ rpc.phase = "returned"
Result(stage) == Back(stage) /\ rpc.outcome.kind = "answer" /\ rpc.outcome.value.ok
RpcError == rpc.outcome.kind = "answer" /\ ~rpc.outcome.value.ok
Value == rpc.outcome.value.value
Error == rpc.outcome.value.error

-----------------------------------------------------------------------------
(* Steps that send a transaction. *)

Submit(f) ==
  IF AsksNonce
  THEN Call([f EXCEPT !.stage = "nonce"], "eth_getTransactionCount", None)
  ELSE Call([f EXCEPT !.stage = "send"], SubmitMethod, Prepared(Step.nonce))

BeginSubmit ==
  /\ AtStep
  /\ Step.action \in SubmitActions
  /\ IF ~Resolvable
     THEN Raise("proof_error") /\ UNCHANGED rpcVars
     ELSE IF Step.action = "eth_sendRawTransaction" /\ ~Step.presigned /\ KeySource # "private_key"
     THEN Raise("execution_error") /\ UNCHANGED rpcVars
     ELSE IF Step.action = "transfer_native" /\ Case.balance
     THEN Call([frame EXCEPT !.stage = "before"], "eth_getBalance", None)
     ELSE Submit(frame)

\* Faulty variant: the value of the transfer is forgotten.
GotBalanceBeforeOnly ==
  /\ Result("before")
  /\ Submit([frame EXCEPT !.before = Value, !.after = Value])

\* capture_balance_before: the balance expected after a transfer is computed here.
GotBalanceBefore ==
  /\ Result("before")
  /\ Submit([frame EXCEPT !.before = Value, !.after = Value + 1])

GotNonce ==
  /\ Result("nonce")
  /\ Call([frame EXCEPT !.stage = "send"], SubmitMethod, Prepared(Value))

\* Faulty variant: $last_contract is set when the deployment is submitted.
GotHashSetsContract ==
  /\ Result("send")
  /\ Step.expectError = None
  /\ Continue([NextStep EXCEPT !.hashes = Append(@, Value),
                !.contract = IF Value.kind = "create" THEN Value.nonce ELSE @])

GotHash ==
  /\ Result("send")
  /\ IF Step.expectError # None
     THEN Raise("execution_error") /\ UNCHANGED rpcVars
     ELSE Continue([NextStep EXCEPT !.hashes = Append(@, Value)])

\* Only an answer of the node that matches expect_error counts as the rejection.
GotRejection ==
  /\ Back("send")
  /\ RpcError
  /\ Step.expectError = Error
  /\ Continue([NextStep EXCEPT !.error = Error])

-----------------------------------------------------------------------------
(* wait_receipt. *)

BeginWait ==
  /\ AtStep
  /\ Step.action = "wait_receipt"
  /\ IF frame.hashes = <<>>
     THEN Raise("proof_error") /\ UNCHANGED rpcVars
     ELSE Continue([frame EXCEPT !.stage = "wait", !.polls = 0])

Poll ==
  /\ At("wait")
  /\ frame.polls < MaxPolls
  /\ Call([frame EXCEPT !.stage = "poll", !.polls = @ + 1], "eth_getTransactionReceipt", LastHash)

\* The deadline passes between two polls.
DeadlinePasses ==
  /\ At("wait")
  /\ frame.polls > 0
  /\ Raise("execution_error")
  /\ UNCHANGED rpcVars

\* Faulty variant: every poll sets a new deadline.
NoReceiptRestartsClock ==
  /\ Result("poll")
  /\ Value = None
  /\ Continue([frame EXCEPT !.stage = "wait", !.polls = 0])

NoReceipt ==
  /\ Result("poll")
  /\ Value = None
  /\ Continue([frame EXCEPT !.stage = "wait"])

ExpectedStatus(hash) == Case.steps[hash.step[2]].status

\* The contract's address becomes $last_contract only with the receipt.
WithReceipt(receipt) ==
  [frame EXCEPT !.receipt = receipt,
                !.contract = IF receipt.address # NoNonce THEN receipt.address ELSE @]

\* Faulty variant: the status of the receipt is not looked at.
GotAnyReceipt ==
  /\ Result("poll")
  /\ Value # None
  /\ Continue([WithReceipt(Value) EXCEPT !.stage = "step", !.pc = @ + 1])

GotReceipt ==
  /\ Result("poll")
  /\ Value # None
  /\ IF Value.status # ExpectedStatus(LastHash)
     THEN Raise("execution_error") /\ UNCHANGED rpcVars
     ELSE IF Case.context
     THEN Call([WithReceipt(Value) EXCEPT !.stage = "block"], "eth_getBlockByNumber", Value.block)
     ELSE Continue([WithReceipt(Value) EXCEPT !.stage = "step", !.pc = @ + 1])

\* Faulty variant: a block that is not there leaves the context as it is.
GotBlockIfAny ==
  /\ Result("block")
  /\ Continue([NextStep EXCEPT !.context = IF Value = None THEN @ ELSE Value])

\* _load_block_context: a replica without the block answers null, a ValueError.
GotBlock ==
  /\ Result("block")
  /\ IF Value = None
     THEN Raise("proof_error") /\ UNCHANGED rpcVars
     ELSE Continue([NextStep EXCEPT !.context = Value])

-----------------------------------------------------------------------------
(* rpc_call: the result is dropped. *)

BeginRpcCall ==
  /\ AtStep
  /\ Step.action = "rpc_call"
  /\ Call([frame EXCEPT !.stage = "call"], "rpc_call", None)

GotRpcCall == Result("call") /\ Continue(NextStep)

-----------------------------------------------------------------------------
(* _observe, then the oracle's comparison. *)

\* Faulty variant: storage is read at the newest block.
StorageBlockLatest == None

\* Storage is read at the block of the last receipt, whatever came after it.
StorageBlock == IF frame.receipt = None THEN None ELSE frame.receipt.block

ReadStorage(f) ==
  Call([f EXCEPT !.stage = "storage", !.tries = @ + 1], "eth_getStorageAt",
       [address |-> f.contract, block |-> StorageBlock])

\* ResultOracle.compare of what the case expects with what was observed.
Compare(storage, balance) ==
  IF /\ Case.storage # None => storage = Case.storage
     /\ Case.balance => balance = frame.after
     /\ Case.error # None => frame.error = Case.error
  THEN Record("passed", storage) ELSE Record("failed", storage)

ObserveRest(f) ==
  IF Case.storage # None
  THEN ReadStorage(f)
  ELSE Compare(None, f.balance) /\ UNCHANGED rpcVars

Observe ==
  /\ At("step")
  /\ frame.pc > Len(Case.steps)
  /\ IF Case.balance
     THEN Call([frame EXCEPT !.stage = "balance"], "eth_getBalance", None)
     ELSE ObserveRest(frame)

GotBalance == Result("balance") /\ ObserveRest([frame EXCEPT !.balance = Value])

GotStorage ==
  /\ Result("storage")
  /\ Compare(Value, frame.balance)
  /\ UNCHANGED rpcVars

\* Faulty variant: the read is repeated without end.
HeaderLagsForever ==
  /\ Back("storage")
  /\ RpcError
  /\ Error = "header not found"
  /\ ReadStorage(frame)

\* A replica without the receipt's block yet: the read is repeated.
HeaderLags ==
  /\ Back("storage")
  /\ RpcError
  /\ Error = "header not found"
  /\ frame.tries < StorageAttempts
  /\ ReadStorage(frame)

-----------------------------------------------------------------------------
\* Any other way a call can end: TimeoutError or RuntimeError ends the case.
Tolerated ==
  RpcError /\ \/ frame.stage = "send" /\ Step.expectError = Error
              \/ /\ frame.stage = "storage" /\ Error = "header not found"
                 /\ frame.tries < StorageAttempts

CallStages == {"before", "nonce", "send", "poll", "block", "call", "balance", "storage"}

CallFails ==
  /\ \E stage \in CallStages : Back(stage)
  /\ RpcError \/ rpc.outcome.kind \in {"timeout", "transport"}
  /\ ~Tolerated
  /\ Raise("execution_error")
  /\ UNCHANGED rpcVars

\* An exception nothing catches ends the run: no report is written.
RunAborts ==
  /\ \E stage \in CallStages : Back(stage)
  /\ rpc.outcome.kind = "uncaught"
  /\ Continue([frame EXCEPT !.stage = "aborted"])

-----------------------------------------------------------------------------
(* The node answers. *)

Good(value) == [ok |-> TRUE, value |-> value, error |-> None]
Bad(error) == [ok |-> FALSE, value |-> None, error |-> error]

\* What a replica at height view answers to a read.
ReadAnswers(r, view) ==
  CASE r.method = "eth_getTransactionCount" -> {Good(NonceAt(view))}
    [] r.method = "eth_getTransactionReceipt" ->
         IF ReceiptsAt(r.arg, view) = {} THEN {Good(None)}
         ELSE {Good(receipt) : receipt \in ReceiptsAt(r.arg, view)}
    [] r.method = "eth_getBalance" -> {Good(BalanceAt(view))}
    [] r.method = "eth_getBlockByNumber" -> {Good(IF r.arg <= view THEN r.arg ELSE None)}
    [] r.method = "eth_getStorageAt" ->
         {IF r.arg.address = None THEN Bad("invalid params")
          ELSE IF r.arg.block = None THEN Good(StorageAt(r.arg.address, view))
          ELSE IF r.arg.block > view THEN Bad("header not found")
          ELSE Good(StorageAt(r.arg.address, r.arg.block))}
    [] OTHER -> {Good(None)}

ServeRead ==
  \E r \in {s \in wire : s.method \in Reads}, view \in Views :
    \E answer \in ReadAnswers(r, view) :
      /\ Rpc!Handle(r, answer)
      /\ UNCHANGED <<chainVars, frame, results>>

\* A transaction without a nonce gets the next one from a node that signs it.
Signed(tx) == IF tx.nonce = NoNonce THEN [tx EXCEPT !.nonce = PendingNonce] ELSE tx

ServeSubmission ==
  \E r \in {s \in wire : s.method \in Submissions} :
    LET tx == Signed(r.arg) IN
      /\ IF Refusal(tx) = "none"
         THEN Accept(tx) /\ Rpc!Handle(r, Good(tx))
         ELSE Rpc!Handle(r, Bad(Refusal(tx))) /\ UNCHANGED chainVars
      /\ UNCHANGED <<frame, results>>

MineBlock == Mine /\ UNCHANGED <<rpcVars, frame, results>>
DropTransaction == Drop /\ UNCHANGED <<rpcVars, frame, results>>

\* A second run against the same chain uses the same admin account.
Foreign(nonce) == [step |-> <<0, nonce>>, nonce |-> nonce, kind |-> "transfer",
                   to |-> None, legal |-> TRUE]
Others == {tx \in pool \cup {chain[i].tx : i \in DOMAIN chain} : tx.step[1] = 0}

OtherClient ==
  /\ Cardinality(Others) < MaxOthers
  /\ Accept(Foreign(PendingNonce))
  /\ UNCHANGED <<rpcVars, frame, results>>

-----------------------------------------------------------------------------
Init ==
  /\ rpc = [phase |-> "idle", call |-> <<0, 0>>, attempt |-> 0, method |-> "rpc_call",
            arg |-> None, outcome |-> Rpc!Raised("none")]
  /\ wire = {} /\ handled = {} /\ reply = {} /\ faults = 0
  /\ ChainInit
  /\ frame = Frame(1)
  /\ results = <<>>

Transport == Rpc!ClientStep /\ UNCHANGED <<chainVars, frame, results>>

Interpret ==
  \/ BeginSubmit \/ GotBalanceBefore \/ GotNonce \/ GotHash \/ GotRejection
  \/ BeginWait \/ Poll \/ DeadlinePasses \/ NoReceipt \/ GotReceipt \/ GotBlock
  \/ BeginRpcCall \/ GotRpcCall
  \/ (frame.case <= Len(Cases) /\ Observe) \/ GotBalance \/ GotStorage \/ HeaderLags
  \/ CallFails \/ RunAborts

Harness == Transport \/ Interpret

Node == ServeRead \/ ServeSubmission \/ MineBlock \/ DropTransaction \/ OtherClient

Ended == frame.stage = "aborted" \/ frame.case > Len(Cases)

\* The run is over: nothing more happens.
Terminated == Ended /\ UNCHANGED vars

Next == Harness \/ Node \/ Terminated

Spec == Init /\ [][Next]_vars

\* The harness is a running process, its waits have timeouts: it takes its next
\* step.  Nothing is assumed of the node.
LiveSpec == Spec /\ WF_vars(Harness)

-----------------------------------------------------------------------------
(* Properties. *)

Ran(tx) == {i \in DOMAIN chain : chain[i].tx = tx}
OfStep(step) == {i \in DOMAIN chain : chain[i].tx.step = step}

TypeOK ==
  /\ rpc.phase \in {"idle", "sending", "waiting", "returned"}
  /\ rpc.method \in Submissions \cup Reads
  /\ rpc.attempt \in 0..Rpc!Attempts
  /\ \A r \in wire : r.method \in Submissions => r.call = r.arg.step
  /\ \A h \in handled : h.request.method \in Submissions
  /\ Cardinality(reply) <= 1
  /\ frame.case \in 1..(Len(Cases) + 1)
  /\ frame.stage \in {"step", "wait", "aborted"} \cup CallStages
  /\ frame.polls \in 0..MaxPolls
  /\ frame.tries \in 0..StorageAttempts
  /\ Len(results) = frame.case - 1
  /\ \A k \in DOMAIN results : results[k].verdict \in Verdicts /\ results[k].case = k
  /\ \A i \in DOMAIN chain : chain[i].ok \in BOOLEAN /\ chain[i].block \in 1..head

\* No step takes effect twice on the chain, although a transaction the node
\* signs is submitted again after a response timeout: the nonce fetched before
\* the first attempt pins it (executor.py:1413-1414, 1301, 1496-1499).
NoDoubleExecution ==
  \A i, j \in DOMAIN chain :
    chain[i].tx.step = chain[j].tx.step => i = j

\* Why NoDoubleExecution holds.  A transaction that is known anywhere is the only
\* one of its step: a step that has not reached its submission is unknown, and
\* while it is submitted, every copy is the one prepared; and the chain executes
\* each nonce once.
Submitted == {r.arg : r \in {s \in wire : s.method \in Submissions}}
Known == Submitted \cup pool \cup {chain[i].tx : i \in DOMAIN chain}

InProgress == rpc.phase \in {"sending", "waiting"}

ChainNonces == \A i \in DOMAIN chain : chain[i].tx.nonce = i - 1

OneTransactionPerStep == \A t, u \in Known : t.step = u.step => t = u

ForeignByNonce == \A t \in Known : t.step[1] = 0 => t = Foreign(t.step[2])

KnownStepsReached ==
  \A t \in Known : /\ t.step \in Nat \X Nat
                   /\ t.step[1] <= frame.case
                   /\ t.step[1] = frame.case => t.step[2] <= frame.pc

UnsentStepUnknown ==
  frame.stage \notin {"send", "aborted"} => \A t \in Known : t.step # <<frame.case, frame.pc>>

SubmissionIsPrepared ==
  frame.stage = "send" =>
    /\ rpc.arg.step = <<frame.case, frame.pc>>
    /\ rpc.arg.nonce # NoNonce
    /\ \A t \in Known : t.step = <<frame.case, frame.pc>> => t = rpc.arg

OnlySendSubmits == InProgress /\ rpc.method \in Submissions => frame.stage = "send"

NoncesGiven == \A t \in Submitted : t.nonce # NoNonce

NonceAnswers ==
  /\ rpc.phase # "waiting" => reply = {}
  /\ frame.stage = "nonce" => rpc.method = "eth_getTransactionCount"
  /\ rpc.method = "eth_getTransactionCount" =>
       /\ \A a \in reply : a.value # NoNonce
       /\ rpc.outcome.kind = "answer" => rpc.outcome.value.value # NoNonce

SubmissionInv ==
  /\ ChainNonces
  /\ OneTransactionPerStep
  /\ ForeignByNonce
  /\ KnownStepsReached
  /\ UnsentStepUnknown
  /\ SubmissionIsPrepared
  /\ OnlySendSubmits
  /\ NoncesGiven
  /\ NonceAnswers

\* A passed case is true: each transaction it waited for is on the chain, with
\* the status its step expects (executor.py:1113-1129).
PassedCasesRan ==
  \A k \in DOMAIN results : results[k].verdict = "passed" =>
    \A i \in DOMAIN results[k].hashes :
      LET hash == results[k].hashes[i]
          steps == Cases[k].steps
          pc == hash.step[2] IN
        pc < Len(steps) /\ steps[pc + 1].action = "wait_receipt" =>
          \E j \in Ran(hash) : chain[j].ok = steps[pc].status

\* The storage a case reports is its contract's at the block of its last
\* receipt, for replicas that lag and for transactions that land later
\* (executor.py:1169-1183, 1235-1249).
StorageIsOfReceiptBlock ==
  \A k \in DOMAIN results :
    results[k].storage # None /\ results[k].receipt # None =>
      results[k].storage = StorageAt(results[k].contract, results[k].receipt.block)

\* The block context that expected values are resolved with is that of the block
\* of the last receipt: neither that of an earlier receipt of the case nor none,
\* although the replica that is asked may lag behind the one that gave the receipt
\* and answer null (executor.py:1130-1131, 1259-1267).
ContextIsOfReceiptBlock ==
  /\ frame.case <= Len(Cases)
  /\ frame.stage \notin {"block", "aborted"}
  /\ Case.context /\ frame.receipt # None
  => frame.context = frame.receipt.block

\* $last_contract is never an address of another case, nor one whose creation
\* failed or is not known yet: what is called was created by the same case
\* (executor.py:1104-1105, 1132-1133, 1251-1257).
CallsOwnContract ==
  \A j \in DOMAIN chain :
    chain[j].tx.kind = "call" /\ chain[j].tx.to # None =>
      \E i \in 1..(j - 1) :
        /\ chain[i].tx.kind = "create"
        /\ chain[i].tx.nonce = chain[j].tx.to
        /\ chain[i].tx.step[1] = chain[j].tx.step[1]
        /\ chain[i].ok

\* A case that passes because the node refused a transaction is true: the
\* transaction is in no pool, in no block, and no copy of it is on its way.
\* A resubmission after a lost response would break this: the node refuses the
\* second copy of what it accepted (executor.py:1034-1064, 1496-1502).
RejectionIsReal ==
  \A k \in DOMAIN results :
    results[k].verdict = "passed" /\ results[k].error # None =>
      \A pc \in DOMAIN Cases[k].steps : Cases[k].steps[pc].expectError # None =>
        /\ OfStep(<<k, pc>>) = {}
        /\ \A tx \in pool : tx.step # <<k, pc>>
        /\ \A r \in wire : r.method \in Submissions => r.arg.step # <<k, pc>>

\* What a case may expect of an honest chain.  Each transaction the node is to
\* take is waited for; then storage counts the calls of the contract that are to
\* succeed, there being one, the error is that of the refused steps, and the
\* balance that of the one transfer.
Expecting(case, actions) == {pc \in DOMAIN case.steps : case.steps[pc].action \in actions}
Deployments(case) == Expecting(case, {"deploy_contract"})
Transfers(case) == Expecting(case, {"transfer_native"})

ContractCalls(case) ==
  {pc \in Expecting(case, SubmitActions \ {"deploy_contract", "transfer_native"}) :
     /\ case.steps[pc].to = "$last_contract"
     /\ case.steps[pc].status
     /\ case.steps[pc].expectError = None}

\* Step pc is a transaction that is waited for next.
Awaited(case, pc) ==
  /\ pc + 1 \in DOMAIN case.steps
  /\ case.steps[pc].action \in SubmitActions
  /\ case.steps[pc].expectError = None
  /\ case.steps[pc + 1].action = "wait_receipt"

WaitsForAll(case) ==
  \A pc \in Expecting(case, SubmitActions) :
    case.steps[pc].expectError = None => Awaited(case, pc)

RightStorage(case) ==
  /\ WaitsForAll(case)
  /\ \E pc \in DOMAIN case.steps : Deployments(case) = {pc}
  /\ case.storage = Cardinality(ContractCalls(case))

RightBalance(case) ==
  /\ WaitsForAll(case)
  /\ \E pc \in DOMAIN case.steps : Transfers(case) = {pc} /\ case.steps[pc].status

RightError(case) ==
  /\ \E pc \in DOMAIN case.steps : case.steps[pc].expectError # None
  /\ \A pc \in DOMAIN case.steps : case.steps[pc].expectError \in {None, case.error}

RightCase(case) ==
  /\ case.storage # None => RightStorage(case)
  /\ case.balance => RightBalance(case)
  /\ case.error # None => RightError(case)

\* No failure of the network, no lag, no transaction that fails or is forgotten
\* turns into a wrong value: a case whose expectation is right is never reported
\* as a mismatch, only as an execution error, unless it expects a balance
\* (executor.py:1113-1129, 1169-1183, 1235-1249).
NoFalseMismatch ==
  \A k \in DOMAIN results :
    RightCase(Cases[k]) /\ ~Cases[k].balance => results[k].verdict # "failed"

\* The transfers that took effect before the transaction at place i.
TransfersBefore(i) ==
  Cardinality({j \in 1..(i - 1) : chain[j].ok /\ chain[j].tx.kind = "transfer"})

\* A balance mismatch on an honest chain without lag has one cause: a transfer
\* that is not the case's own took effect after the balance was captured
\* (executor.py:1075-1081, 1159-1161).
MismatchOnlyFromForeignTransfer ==
  [][\A k \in DOMAIN results' \ DOMAIN results :
       RightCase(Cases[k]) /\ results'[k].verdict = "failed" =>
         \E i \in DOMAIN chain :
           /\ chain[i].ok /\ chain[i].tx.kind = "transfer" /\ chain[i].tx.step[1] # k
           /\ frame.before <= TransfersBefore(i)]_vars

\* Every run ends, whatever the node and the network do.
RunEnds == <>Ended
=============================================================================
