------------------------- MODULE JsonRpcResults_proofs --------------------------
(* Proofs of what a passed case claims: PassedCasesRan, CallsOwnContract,      *)
(* StorageIsOfReceiptBlock, ContextIsOfReceiptBlock and RejectionIsReal, for   *)
(* every list of cases that loading a manifest accepts, every node and every   *)
(* number of failures, and for both kinds of keys.                             *)
EXTENDS JsonRpcExecution_proofs

-----------------------------------------------------------------------------
(* The invariant, in layers.  First, the locals of execute_case and what the   *)
(* call in progress was made with.                                             *)

Cur == <<frame.case, frame.pc>>

Locals == DOMAIN Frame(1)

FrameTyped ==
  /\ DOMAIN frame = Locals
  /\ frame.case \in 1..(Len(Cases) + 1)
  /\ frame.pc \in Nat \ {0}
  /\ IsSequence(frame.hashes)

ResultsTyped ==
  /\ IsSequence(results)
  /\ Len(results) = frame.case - 1
  /\ \A k \in DOMAIN results : results[k].case = k

BlocksTyped ==
  /\ head \in Nat
  /\ \A i \in DOMAIN chain : chain[i].block \in 1..head /\ chain[i].ok \in BOOLEAN

\* Inside an _rpc call, the call is the one the code made.
CallMatches ==
  /\ frame.stage = "send" =>
       /\ rpc.call = Cur
       /\ rpc.method = SubmitMethod
       /\ rpc.arg = Prepared(rpc.arg.nonce)
       /\ Step.action \in SubmitActions /\ Resolvable
  /\ frame.stage = "poll" => rpc.method = "eth_getTransactionReceipt" /\ rpc.arg = LastHash
  /\ frame.stage = "storage" =>
       /\ rpc.method = "eth_getStorageAt"
       /\ rpc.arg = [address |-> frame.contract, block |-> StorageBlock]

\* Where the code is: only submissions have the stages of a submission, only
\* wait_receipt waits, and only after the last step the case is observed.
StageMatches ==
  /\ frame.stage \in {"before", "nonce"} => Step.action \in SubmitActions /\ Resolvable
  /\ frame.stage \in {"wait", "poll", "block"} =>
       frame.hashes # <<>> /\ Step.action = "wait_receipt"
  /\ frame.stage = "call" => Step.action = "rpc_call"
  /\ frame.stage \in {"before", "nonce", "send", "wait", "poll", "block", "call"} =>
       frame.pc <= Len(Case.steps)
  /\ frame.stage \in {"balance", "storage"} => frame.pc > Len(Case.steps)

\* What the node may answer, for as long as the chain grows.
TrueAnswer(method, arg, a) ==
  a.ok =>
    /\ method \in Submissions => a.value = arg
    /\ method = "eth_getTransactionReceipt" /\ a.value # None =>
         \E i \in Lookup(arg) :
           a.value = [status |-> chain[i].ok, block |-> chain[i].block, hash |-> arg,
                      address |-> IF arg.kind = "create" THEN arg.nonce ELSE NoNonce]
    /\ method = "eth_getStorageAt" /\ arg.block # None =>
         a.value = StorageAt(arg.address, arg.block)
    /\ method = "eth_getBlockByNumber" /\ a.value # None => a.value = arg

AnswersTrue ==
  /\ \A a \in reply : TrueAnswer(rpc.method, rpc.arg, a)
  /\ rpc.outcome.kind = "answer" => TrueAnswer(rpc.method, rpc.arg, rpc.outcome.value)

\* A block that is asked for exists.
BlocksExist ==
  /\ frame.receipt # None => frame.receipt.block \in 0..head
  /\ rpc.method = "eth_getStorageAt" /\ rpc.arg.block # None => rpc.arg.block \in 0..head
  /\ \A k \in DOMAIN results : results[k].receipt # None => results[k].receipt.block \in 0..head

LocalInv ==
  /\ FrameTyped
  /\ ResultsTyped
  /\ BlocksTyped
  /\ BlocksExist
  /\ CallMatches
  /\ StageMatches
  /\ AnswersTrue

-----------------------------------------------------------------------------
(* Then what the locals say of the chain. *)

\* A receipt with the status its step expects was given.
Confirmed(hash) == \E j \in Lookup(hash) : chain[j].ok = ExpectedStatus(hash)

HashesTrue ==
  \A i \in DOMAIN frame.hashes : LET hash == frame.hashes[i] IN
    /\ hash.step[1] = frame.case
    /\ hash.step[2] \in 1..(frame.pc - 1)
    /\ hash.step[2] <= Len(Case.steps)
    /\ hash.step[2] + 1 = frame.pc => i = Len(frame.hashes)
    /\ hash.kind = KindOf(Case.steps[hash.step[2]].action)
    /\ hash.step[2] + 1 < frame.pc /\ Case.steps[hash.step[2] + 1].action = "wait_receipt"
         => Confirmed(hash)

BlockStageConfirmed == frame.stage = "block" => Confirmed(LastHash)

Created(address, case, i) ==
  /\ chain[i].tx.kind = "create"
  /\ chain[i].tx.nonce = address
  /\ chain[i].tx.step[1] = case
  /\ chain[i].ok

ContractCreated ==
  frame.contract # None => \E i \in DOMAIN chain : Created(frame.contract, frame.case, i)

\* Calls that are not on the chain yet.
CallsWaiting ==
  \A t \in Submitted \cup pool :
    t.kind = "call" /\ t.to # None => \E i \in DOMAIN chain : Created(t.to, t.step[1], i)

ChainInv ==
  /\ HashesTrue
  /\ BlockStageConfirmed
  /\ ContractCreated
  /\ CallsWaiting
  /\ PassedCasesRan
  /\ CallsOwnContract
  /\ StorageIsOfReceiptBlock

-----------------------------------------------------------------------------
(* Last, what is known of a raw transaction that was refused. *)

Unknown(step) == \A t \in Known : t.step # step

\* A raw transaction is nowhere before it is sent, sent once, and either with
\* the node or on its way.
RawPending ==
  frame.stage = "send" /\ rpc.method = RawTx =>
    /\ rpc.phase = "sending" => Unknown(Cur)
    /\ rpc.phase = "waiting" =>
         /\ \A r \in wire : r.method \in Submissions /\ r.arg.step = Cur => r = Rpc!Request
         /\ (\E r \in wire : r.method \in Submissions /\ r.arg.step = Cur) =>
              /\ \A t \in pool \cup {chain[i].tx : i \in DOMAIN chain} : t.step # Cur
              /\ reply = {}
         /\ \A a \in reply : ~a.ok => Unknown(Cur)
    /\ rpc.phase = "returned" /\ rpc.outcome.kind = "answer" /\ ~rpc.outcome.value.ok
         => Unknown(Cur)

\* Steps of this case that were refused, as expected.
RefusedUnknown ==
  \A pc \in 1..(frame.pc - 1) :
    frame.case <= Len(Cases) /\ pc <= Len(Case.steps) /\ Case.steps[pc].expectError # None
      => Unknown(<<frame.case, pc>>)

\* And those of the cases that passed.
RejectedUnknown ==
  \A k \in DOMAIN results : results[k].verdict = "passed" /\ results[k].error # None =>
    \A pc \in DOMAIN Cases[k].steps :
      Cases[k].steps[pc].expectError # None => Unknown(<<k, pc>>)

RefusalInv == RawPending /\ RefusedUnknown /\ RejectedUnknown

-----------------------------------------------------------------------------
(* What each action of the interpreter does to the locals. *)

Fields == {"case", "pc", "stage", "hashes", "receipt", "contract", "error"}

\* f differs from the frame in stage and in what the invariant does not read.
SameStep(f) ==
  /\ DOMAIN f = Locals
  /\ f.case = frame.case /\ f.pc = frame.pc
  /\ f.hashes = frame.hashes /\ f.receipt = frame.receipt
  /\ f.contract = frame.contract /\ f.error = frame.error /\ f.context = frame.context

NodeIdle == UNCHANGED <<wire, reply, chainVars>>

\* The code goes on within the step.
Within ==
  /\ NodeIdle /\ results' = results
  /\ SameStep(frame')
  /\ rpc' = rpc \/ (rpc'.phase = "sending" /\ rpc'.outcome.kind = "none")
  /\ rpc' # rpc /\ rpc'.method = "eth_getStorageAt" => rpc'.arg.block = StorageBlock
  /\ frame'.stage # "block"
  /\ frame'.stage = "send" =>
       frame.stage \notin {"send", "aborted"} /\ rpc'.phase = "sending" /\ rpc'.outcome.kind = "none"
  /\ CallMatches' /\ StageMatches'

\* A step that is not a submission, or a refused one, is over.
Passes ==
  /\ NodeIdle /\ UNCHANGED <<rpc, results>>
  /\ DOMAIN frame' = Locals
  /\ frame'.case = frame.case /\ frame'.pc = frame.pc + 1 /\ frame'.stage = "step"
  /\ frame'.hashes = frame.hashes /\ frame'.receipt = frame.receipt
  /\ frame'.contract = frame.contract
  /\ frame.stage \in {"send", "block", "call"} /\ frame.case <= Len(Cases)
  /\ frame.stage = "send" =>
       /\ rpc.phase = "returned" /\ rpc.outcome.kind = "answer" /\ ~rpc.outcome.value.ok
       /\ Step.expectError = Error /\ frame'.error = Error
  /\ frame.stage # "send" => frame'.error = frame.error
  /\ frame.stage # "block" => frame'.context = frame.context
  /\ frame.stage = "block" =>
       /\ rpc.outcome.kind = "answer" /\ rpc.outcome.value.ok
       /\ frame'.context = rpc.outcome.value.value /\ frame'.context # None
  /\ Step.action = "wait_receipt" => frame.stage = "block"

\* A submission is over.
Sends ==
  /\ NodeIdle /\ UNCHANGED <<rpc, results>>
  /\ DOMAIN frame' = Locals
  /\ frame.stage = "send" /\ Step.expectError = None /\ frame.case <= Len(Cases)
  /\ frame'.case = frame.case /\ frame'.pc = frame.pc + 1 /\ frame'.stage = "step"
  /\ frame'.hashes = Append(frame.hashes, rpc.arg) /\ frame'.receipt = frame.receipt
  /\ frame'.contract = frame.contract /\ frame'.error = frame.error
  /\ frame'.context = frame.context

\* The receipt of the last transaction has come.
Receives ==
  /\ NodeIdle /\ results' = results
  /\ DOMAIN frame' = Locals
  /\ frame.stage = "poll" /\ frame.case <= Len(Cases)
  /\ frame'.case = frame.case /\ frame'.hashes = frame.hashes
  /\ frame'.receipt # None /\ frame'.error = frame.error
  /\ \E i \in Lookup(LastHash) :
       /\ chain[i].ok = ExpectedStatus(LastHash)
       /\ frame'.receipt.block = chain[i].block
       /\ frame'.contract = IF LastHash.kind = "create" /\ LastHash.nonce # NoNonce
                            THEN LastHash.nonce ELSE frame.contract
  /\ \/ /\ frame'.stage = "block" /\ frame'.pc = frame.pc
        /\ rpc'.method = "eth_getBlockByNumber" /\ rpc'.arg = frame'.receipt.block
        /\ rpc'.phase = "sending" /\ rpc'.outcome.kind = "none"
     \/ frame'.stage = "step" /\ frame'.pc = frame.pc + 1 /\ rpc' = rpc /\ ~Case.context

\* The case is over.
Records ==
  /\ NodeIdle /\ rpc' = rpc
  /\ frame.case <= Len(Cases) /\ frame.stage # "aborted"
  /\ frame' = Frame(frame.case + 1)
  /\ \E verdict, storage :
       /\ results' = Append(results,
            [case |-> frame.case, verdict |-> verdict, hashes |-> frame.hashes,
             receipt |-> frame.receipt, contract |-> frame.contract, error |-> frame.error,
             storage |-> storage])
       /\ verdict = "passed" => frame.pc > Len(Case.steps)
       /\ storage # None =>
            /\ frame.stage = "storage" /\ rpc.outcome.kind = "answer"
            /\ rpc.outcome.value.ok /\ storage = rpc.outcome.value.value

LEMMA CallFacts ==
  ASSUME NEW f, NEW m, NEW arg, Call(f, m, arg)
  PROVE  /\ frame' = f /\ results' = results /\ NodeIdle
         /\ rpc'.phase = "sending" /\ rpc'.outcome.kind = "none"
         /\ rpc'.call = Cur /\ rpc'.method = m /\ rpc'.arg = arg
  BY DEF Call, Rpc!Invoke, Rpc!Raised, NodeIdle, Cur

LEMMA ContinueFacts ==
  ASSUME NEW f, Continue(f)
  PROVE  frame' = f /\ NodeIdle /\ UNCHANGED <<rpc, results>>
  BY DEF Continue, NodeIdle, rpcVars

\* An _rpc call of the current step.
LEMMA CallIsWithin ==
  ASSUME LocalInv, NEW f, NEW m, NEW arg, Call(f, m, arg), SameStep(f),
         f.stage \in CallStages \ {"block"},
         f.stage \in {"before", "nonce", "send"} => Step.action \in SubmitActions /\ Resolvable,
         f.stage = "send" => /\ m = SubmitMethod /\ arg = Prepared(arg.nonce)
                             /\ frame.stage \notin {"send", "aborted"},
         f.stage = "poll" => /\ frame.hashes # <<>> /\ Step.action = "wait_receipt"
                             /\ m = "eth_getTransactionReceipt" /\ arg = LastHash,
         f.stage = "call" => Step.action = "rpc_call",
         f.stage \in {"before", "nonce", "send", "poll", "call"} => frame.pc <= Len(Case.steps),
         f.stage \in {"balance", "storage"} => frame.pc > Len(Case.steps),
         f.stage = "storage" <=> m = "eth_getStorageAt",
         f.stage = "storage" => arg = [address |-> frame.contract, block |-> StorageBlock]
  PROVE  Within
<1>1. /\ frame' = f /\ results' = results /\ NodeIdle
      /\ rpc'.phase = "sending" /\ rpc'.outcome.kind = "none"
      /\ rpc'.call = Cur /\ rpc'.method = m /\ rpc'.arg = arg
  BY CallFacts
<1>2. /\ frame'.case = frame.case /\ frame'.pc = frame.pc /\ frame'.hashes = frame.hashes
      /\ frame'.receipt = frame.receipt /\ frame'.contract = frame.contract
  BY <1>1 DEF SameStep
<1>3. /\ Case' = Case /\ Step' = Step /\ Cur' = Cur /\ SubmitMethod' = SubmitMethod
      /\ LastHash' = LastHash /\ StorageBlock' = StorageBlock /\ Resolvable' = Resolvable
  BY <1>2 DEF Case, Step, Cur, SubmitMethod, LastHash, StorageBlock, Resolvable
<1>4. ASSUME f.stage = "send" PROVE (rpc.arg = Prepared(rpc.arg.nonce))'
  BY <1>1, <1>2, <1>3, <1>4 DEF Prepared
<1>5. CallMatches'
  BY <1>1, <1>2, <1>3, <1>4 DEF CallMatches
<1>6. StageMatches'
  BY <1>1, <1>2, <1>3 DEF StageMatches, CallStages
<1>7. QED BY <1>1, <1>5, <1>6 DEF Within, CallStages

LEMMA LocalsAre ==
  Locals = {"case", "pc", "stage", "hashes", "receipt", "contract", "error", "before", "after",
            "context", "balance", "polls", "tries"}
  BY DEF Locals, Frame

\* The transaction of a step keeps the nonce it is prepared with.
LEMMA PreparedNonce == ASSUME NEW n PROVE Prepared(n) = Prepared(Prepared(n).nonce)
<1>1. Prepared(n).nonce = n
  BY DEF Prepared
<1>2. QED BY <1>1

LEMMA SubmitIsWithin ==
  ASSUME LocalInv, NEW f, Submit(f), SameStep(f), Step.action \in SubmitActions, Resolvable,
         frame.stage \notin {"send", "aborted"}, frame.pc <= Len(Case.steps)
  PROVE  Within
<1>1. CASE AsksNonce
  <2> DEFINE g == [f EXCEPT !.stage = "nonce"]
  <2>1. SameStep(g) /\ g.stage = "nonce"
    BY LocalsAre DEF SameStep
  <2>2. Call(g, "eth_getTransactionCount", None)
    BY <1>1 DEF Submit
  <2> HIDE DEF g
  <2>3. QED BY <2>1, <2>2, CallIsWithin DEF CallStages
<1>2. CASE ~AsksNonce
  <2> DEFINE g == [f EXCEPT !.stage = "send"]
             arg == Prepared(Step.nonce)
  <2>1. SameStep(g) /\ g.stage = "send"
    BY LocalsAre DEF SameStep
  <2>2. Call(g, SubmitMethod, arg)
    BY <1>2 DEF Submit
  <2>3. arg = Prepared(arg.nonce)
    BY PreparedNonce
  <2>4. SubmitMethod # "eth_getStorageAt"
    BY DEF SubmitMethod, RawTx
  <2> HIDE DEF g, arg
  <2>5. QED BY <2>1, <2>2, <2>3, <2>4, CallIsWithin DEF CallStages
<1>3. QED BY <1>1, <1>2

LEMMA RecordFacts ==
  ASSUME LocalInv, NEW verdict, NEW storage, Record(verdict, storage), UNCHANGED rpcVars,
         frame.case <= Len(Cases), frame.stage # "aborted",
         verdict = "passed" => frame.pc > Len(Case.steps),
         storage # None =>
            /\ frame.stage = "storage" /\ rpc.outcome.kind = "answer"
            /\ rpc.outcome.value.ok /\ storage = rpc.outcome.value.value
  PROVE  Records
  BY DEF Record, Records, NodeIdle, rpcVars

LEMMA RaiseRecords ==
  ASSUME LocalInv, NEW verdict \in {"proof_error", "execution_error"}, Raise(verdict),
         UNCHANGED rpcVars, frame.case <= Len(Cases), frame.stage # "aborted"
  PROVE  Records
  BY RecordFacts DEF Raise

\* The steps that send a transaction.
LEMMA SubmissionEffect ==
  ASSUME LocalInv, NonceAnswers, BeginSubmit \/ GotBalanceBefore \/ GotNonce \/ GotHash \/ GotRejection
  PROVE  Within \/ Passes \/ Sends \/ Records
<1> USE DEF LocalInv, FrameTyped
<1>1. CASE BeginSubmit
  <2>1. /\ frame.stage = "step" /\ frame.case <= Len(Cases) /\ Step.action \in SubmitActions
        /\ frame.pc <= Len(Case.steps)
    BY <1>1 DEF BeginSubmit, AtStep, At
  <2>2. CASE \E verdict \in {"proof_error", "execution_error"} : Raise(verdict) /\ UNCHANGED rpcVars
    BY <2>1, <2>2, RaiseRecords
  <2>3. CASE Submit(frame) /\ Resolvable
    <3>1. SameStep(frame)
      BY DEF SameStep
    <3>2. QED BY <2>1, <2>3, <3>1, SubmitIsWithin
  <2>4. CASE Call([frame EXCEPT !.stage = "before"], "eth_getBalance", None) /\ Resolvable
    <3> DEFINE f == [frame EXCEPT !.stage = "before"]
    <3>1. SameStep(f) /\ f.stage = "before" /\ Call(f, "eth_getBalance", None)
      BY <2>4, LocalsAre DEF SameStep
    <3> HIDE DEF f
    <3>2. QED BY <2>1, <2>4, <3>1, CallIsWithin DEF CallStages
  <2>5. QED BY <1>1, <2>2, <2>3, <2>4 DEF BeginSubmit
<1>2. CASE GotBalanceBefore
  <2> DEFINE f == [frame EXCEPT !.before = Value, !.after = Value + 1]
  <2>1. SameStep(f)
    BY LocalsAre DEF SameStep
  <2>2. frame.stage = "before" /\ Submit(f)
    BY <1>2 DEF GotBalanceBefore, Result, Back, At
  <2>3. Step.action \in SubmitActions /\ Resolvable /\ frame.pc <= Len(Case.steps)
    BY <2>2 DEF StageMatches
  <2>4. QED BY <2>1, <2>2, <2>3, SubmitIsWithin
<1>3. CASE GotNonce
  <2> DEFINE f == [frame EXCEPT !.stage = "send"]
             arg == Prepared(Value)
  <2>1. SameStep(f) /\ f.stage = "send"
    BY LocalsAre DEF SameStep
  <2>2. frame.stage = "nonce" /\ Call(f, SubmitMethod, arg)
    BY <1>3 DEF GotNonce, Result, Back, At
  <2>3. Step.action \in SubmitActions /\ Resolvable /\ frame.pc <= Len(Case.steps)
    BY <2>2 DEF StageMatches
  <2>4. arg = Prepared(arg.nonce)
    BY PreparedNonce
  <2>5. SubmitMethod # "eth_getStorageAt"
    BY DEF SubmitMethod, RawTx
  <2> HIDE DEF f, arg
  <2>6. QED BY <2>1, <2>2, <2>3, <2>4, <2>5, CallIsWithin DEF CallStages
<1>4. CASE GotHash
  <2>1. /\ frame.stage = "send" /\ frame.case <= Len(Cases)
        /\ rpc.outcome.kind = "answer" /\ rpc.outcome.value.ok
    BY <1>4 DEF GotHash, Result, Back, At
  <2>2. CASE Raise("execution_error") /\ UNCHANGED rpcVars
    BY <2>1, <2>2, RaiseRecords
  <2>3. CASE Step.expectError = None /\ Continue([NextStep EXCEPT !.hashes = Append(@, Value)])
    <3> DEFINE f == [NextStep EXCEPT !.hashes = Append(@, Value)]
    <3>1. /\ DOMAIN f = Locals /\ f.case = frame.case /\ f.pc = frame.pc + 1 /\ f.stage = "step"
          /\ f.hashes = Append(frame.hashes, Value)
          /\ f.receipt = frame.receipt /\ f.contract = frame.contract /\ f.error = frame.error
          /\ f.context = frame.context
      BY LocalsAre DEF NextStep
    <3>2. rpc.method \in Submissions
      BY <2>1 DEF CallMatches, SubmitMethod, Submissions
    <3>3. Value = rpc.arg
      BY <2>1, <3>2 DEF AnswersTrue, TrueAnswer, Value
    <3>4. frame' = f /\ NodeIdle /\ UNCHANGED <<rpc, results>>
      BY <2>3, ContinueFacts
    <3> HIDE DEF f
    <3>5. QED BY <2>1, <2>3, <3>1, <3>3, <3>4 DEF Sends
  <2>4. QED BY <1>4, <2>2, <2>3 DEF GotHash
<1>5. CASE GotRejection
  <2> DEFINE f == [NextStep EXCEPT !.error = Error]
  <2>1. /\ frame.stage = "send" /\ Continue(f) /\ frame.case <= Len(Cases)
        /\ rpc.phase = "returned" /\ rpc.outcome.kind = "answer" /\ ~rpc.outcome.value.ok
        /\ Step.expectError = Error
    BY <1>5 DEF GotRejection, Back, At, RpcError
  <2>2. /\ DOMAIN f = Locals /\ f.case = frame.case /\ f.pc = frame.pc + 1 /\ f.stage = "step"
        /\ f.hashes = frame.hashes /\ f.receipt = frame.receipt /\ f.contract = frame.contract
        /\ f.error = Error /\ f.context = frame.context
    BY LocalsAre DEF NextStep
  <2>3. Step.action # "wait_receipt"
    BY <2>1 DEF CallMatches, SubmitActions
  <2>4. frame' = f /\ NodeIdle /\ UNCHANGED <<rpc, results>>
    BY <2>1, ContinueFacts
  <2> HIDE DEF f
  <2>5. QED BY <2>1, <2>2, <2>3, <2>4 DEF Passes
<1>6. QED BY <1>1, <1>2, <1>3, <1>4, <1>5

\* The receipt of a transaction and the block it is in.
LEMMA ReceiptEffect ==
  ASSUME LocalInv, GotReceipt
  PROVE  Receives \/ Records
<1> USE DEF LocalInv, FrameTyped
<1>1. /\ frame.stage = "poll" /\ frame.case <= Len(Cases) /\ Value # None
      /\ rpc.outcome.kind = "answer" /\ rpc.outcome.value.ok
  BY DEF GotReceipt, Result, Back, At
<1>2. CASE Raise("execution_error") /\ UNCHANGED rpcVars
  BY <1>1, <1>2, RaiseRecords
<1>3. CASE ~(Raise("execution_error") /\ UNCHANGED rpcVars)
  <2>1. rpc.method = "eth_getTransactionReceipt" /\ rpc.arg = LastHash
    BY <1>1 DEF CallMatches
  <2>2. PICK i \in Lookup(LastHash) :
          Value = [status |-> chain[i].ok, block |-> chain[i].block, hash |-> LastHash,
                   address |-> IF LastHash.kind = "create" THEN LastHash.nonce ELSE NoNonce]
    BY <1>1, <2>1 DEF AnswersTrue, TrueAnswer, Value
  <2> DEFINE w == WithReceipt(Value)
  <2>3. /\ DOMAIN w = Locals /\ w.case = frame.case /\ w.pc = frame.pc
        /\ w.hashes = frame.hashes /\ w.receipt = Value /\ w.error = frame.error
        /\ w.contract = IF Value.address # NoNonce THEN Value.address ELSE frame.contract
    BY LocalsAre DEF WithReceipt
  <2>4. /\ chain[i].ok = ExpectedStatus(LastHash) /\ w.receipt.block = chain[i].block
        /\ w.contract = IF LastHash.kind = "create" /\ LastHash.nonce # NoNonce
                        THEN LastHash.nonce ELSE frame.contract
    BY <1>3, <2>2, <2>3 DEF GotReceipt
  <2> HIDE DEF w
  <2>5. CASE Call([w EXCEPT !.stage = "block"], "eth_getBlockByNumber", Value.block)
    <3> DEFINE f == [w EXCEPT !.stage = "block"]
    <3>1. /\ DOMAIN f = Locals /\ f.case = frame.case /\ f.pc = frame.pc
          /\ f.hashes = frame.hashes /\ f.receipt = w.receipt /\ f.contract = w.contract
          /\ f.stage = "block" /\ f.error = frame.error
      BY <2>3, LocalsAre
    <3>2. /\ frame' = f /\ results' = results /\ NodeIdle
          /\ rpc'.method = "eth_getBlockByNumber" /\ rpc'.arg = Value.block
          /\ rpc'.phase = "sending" /\ rpc'.outcome.kind = "none"
      BY <2>5, CallFacts
    <3> HIDE DEF f
    <3>3. rpc'.arg = frame'.receipt.block
      BY <2>3, <3>1, <3>2
    <3>4. QED BY <1>1, <2>3, <2>4, <3>1, <3>2, <3>3 DEF Receives
  <2>6. CASE ~Case.context /\ Continue([w EXCEPT !.stage = "step", !.pc = @ + 1])
    <3> DEFINE f == [w EXCEPT !.stage = "step", !.pc = @ + 1]
    <3>1. /\ DOMAIN f = Locals /\ f.case = frame.case /\ f.pc = frame.pc + 1
          /\ f.hashes = frame.hashes /\ f.receipt = w.receipt /\ f.contract = w.contract
          /\ f.stage = "step" /\ f.error = frame.error
      BY <2>3, LocalsAre
    <3>2. frame' = f /\ NodeIdle /\ UNCHANGED <<rpc, results>>
      BY <2>6, ContinueFacts
    <3> HIDE DEF f
    <3>3. QED BY <1>1, <2>3, <2>4, <2>6, <3>1, <3>2 DEF Receives
  <2>7. QED BY <1>3, <2>5, <2>6 DEF GotReceipt, w
<1>4. QED BY <1>2, <1>3

\* Waiting for a receipt, and calls whose result is dropped.
LEMMA WaitEffect ==
  ASSUME LocalInv,
         \/ BeginWait \/ Poll \/ DeadlinePasses \/ NoReceipt \/ GotReceipt \/ GotBlock
         \/ BeginRpcCall \/ GotRpcCall
  PROVE  Within \/ Passes \/ Receives \/ Records
<1> USE DEF LocalInv, FrameTyped
<1>1. CASE BeginWait
  <2> DEFINE f == [frame EXCEPT !.stage = "wait", !.polls = 0]
  <2>1. /\ frame.stage = "step" /\ frame.case <= Len(Cases) /\ Step.action = "wait_receipt"
        /\ frame.pc <= Len(Case.steps)
    BY <1>1 DEF BeginWait, AtStep, At
  <2>2. CASE Raise("proof_error") /\ UNCHANGED rpcVars
    BY <2>1, <2>2, RaiseRecords
  <2>3. CASE frame.hashes # <<>> /\ Continue(f)
    <3>1. SameStep(f) /\ f.stage = "wait"
      BY LocalsAre DEF SameStep
    <3>2. frame' = f /\ NodeIdle /\ UNCHANGED <<rpc, results>>
      BY <2>3, ContinueFacts
    <3> HIDE DEF f
    <3>3. /\ Step' = Step /\ Case' = Case /\ frame'.pc = frame.pc
          /\ frame'.hashes = frame.hashes /\ frame'.stage = "wait"
      BY <3>1, <3>2 DEF SameStep, Step, Case
    <3>4. CallMatches' /\ StageMatches'
      BY <2>1, <2>3, <3>3 DEF CallMatches, StageMatches
    <3>5. QED BY <3>1, <3>2, <3>3, <3>4 DEF Within
  <2>4. QED BY <1>1, <2>2, <2>3 DEF BeginWait
<1>2. CASE Poll
  <2> DEFINE f == [frame EXCEPT !.stage = "poll", !.polls = @ + 1]
  <2>1. SameStep(f) /\ f.stage = "poll"
    BY LocalsAre DEF SameStep
  <2>2. frame.stage = "wait" /\ Call(f, "eth_getTransactionReceipt", LastHash)
    BY <1>2 DEF Poll, At
  <2>3. frame.hashes # <<>> /\ Step.action = "wait_receipt" /\ frame.pc <= Len(Case.steps)
    BY <2>2 DEF StageMatches
  <2> HIDE DEF f
  <2>4. QED BY <2>1, <2>2, <2>3, CallIsWithin DEF CallStages
<1>3. CASE DeadlinePasses
  BY <1>3, RaiseRecords DEF DeadlinePasses, At
<1>4. CASE NoReceipt
  <2> DEFINE f == [frame EXCEPT !.stage = "wait"]
  <2>1. SameStep(f) /\ f.stage = "wait"
    BY LocalsAre DEF SameStep
  <2>2. frame.stage = "poll" /\ frame' = f /\ NodeIdle /\ UNCHANGED <<rpc, results>>
    BY <1>4, ContinueFacts DEF NoReceipt, Result, Back, At
  <2> HIDE DEF f
  <2>3. /\ Step' = Step /\ Case' = Case /\ frame'.pc = frame.pc
        /\ frame'.hashes = frame.hashes /\ frame'.stage = "wait"
    BY <2>1, <2>2 DEF SameStep, Step, Case
  <2>4. CallMatches' /\ StageMatches'
    BY <2>2, <2>3 DEF CallMatches, StageMatches
  <2>5. QED BY <2>1, <2>2, <2>3, <2>4 DEF Within
<1>5. CASE GotReceipt
  BY <1>5, ReceiptEffect
<1>6. CASE GotBlock
  <2> DEFINE f == [NextStep EXCEPT !.context = Value]
  <2>1. frame.stage = "block" /\ frame.case <= Len(Cases)
    BY <1>6 DEF GotBlock, Result, Back, At
  <2>2. CASE Raise("proof_error") /\ UNCHANGED rpcVars
    BY <2>1, <2>2, RaiseRecords
  <2>3. CASE Continue(f) /\ Value # None
    <3>1. /\ DOMAIN f = Locals /\ f.case = frame.case /\ f.pc = frame.pc + 1 /\ f.stage = "step"
          /\ f.hashes = frame.hashes /\ f.receipt = frame.receipt /\ f.contract = frame.contract
          /\ f.error = frame.error /\ f.context = Value
      BY LocalsAre DEF NextStep
    <3>2. frame' = f /\ NodeIdle /\ UNCHANGED <<rpc, results>>
      BY <2>3, ContinueFacts
    <3>3. rpc.outcome.kind = "answer" /\ rpc.outcome.value.ok /\ Value # None
      BY <1>6, <2>3 DEF GotBlock, Result
    <3> HIDE DEF f
    <3>4. QED BY <2>1, <3>1, <3>2, <3>3 DEF Passes, Value
  <2>4. QED BY <1>6, <2>2, <2>3 DEF GotBlock
<1>7. CASE BeginRpcCall
  <2> DEFINE f == [frame EXCEPT !.stage = "call"]
  <2>1. SameStep(f) /\ f.stage = "call"
    BY LocalsAre DEF SameStep
  <2>2. /\ Step.action = "rpc_call" /\ frame.pc <= Len(Case.steps)
        /\ Call(f, "rpc_call", None)
    BY <1>7 DEF BeginRpcCall, AtStep
  <2> HIDE DEF f
  <2>3. QED BY <2>1, <2>2, CallIsWithin DEF CallStages
<1>8. CASE GotRpcCall
  <2>1. frame.stage = "call" /\ frame.case <= Len(Cases)
    BY <1>8 DEF GotRpcCall, Result, Back, At
  <2>2. /\ DOMAIN NextStep = Locals /\ NextStep.case = frame.case /\ NextStep.pc = frame.pc + 1
        /\ NextStep.stage = "step" /\ NextStep.hashes = frame.hashes
        /\ NextStep.receipt = frame.receipt /\ NextStep.contract = frame.contract
        /\ NextStep.error = frame.error /\ NextStep.context = frame.context
    BY LocalsAre DEF NextStep
  <2>3. frame' = NextStep /\ NodeIdle /\ UNCHANGED <<rpc, results>>
    BY <1>8, ContinueFacts DEF GotRpcCall
  <2>4. Step.action # "wait_receipt"
    BY <2>1 DEF StageMatches
  <2>5. QED BY <2>1, <2>2, <2>3, <2>4 DEF Passes
<1>9. QED BY <1>1, <1>2, <1>3, <1>4, <1>5, <1>6, <1>7, <1>8

LEMMA ReadStorageIsWithin ==
  ASSUME LocalInv, NEW f, ReadStorage(f), SameStep(f), frame.pc > Len(Case.steps)
  PROVE  Within
<1> DEFINE g == [f EXCEPT !.stage = "storage", !.tries = @ + 1]
           arg == [address |-> f.contract, block |-> StorageBlock]
<1>1. SameStep(g) /\ g.stage = "storage"
  BY LocalsAre DEF SameStep
<1>2. Call(g, "eth_getStorageAt", arg)
  BY DEF ReadStorage
<1>3. arg = [address |-> frame.contract, block |-> StorageBlock]
  BY DEF SameStep
<1> HIDE DEF g, arg
<1>4. QED BY <1>1, <1>2, <1>3, CallIsWithin DEF CallStages

LEMMA CompareRecords ==
  ASSUME LocalInv, NEW storage, NEW balance, Compare(storage, balance), UNCHANGED rpcVars,
         frame.case <= Len(Cases), frame.stage # "aborted", frame.pc > Len(Case.steps),
         storage # None =>
            /\ frame.stage = "storage" /\ rpc.outcome.kind = "answer"
            /\ rpc.outcome.value.ok /\ storage = rpc.outcome.value.value
  PROVE  Records
<1>1. PICK verdict : Record(verdict, storage)
  BY DEF Compare
<1>2. QED BY <1>1, RecordFacts

LEMMA ObserveRestEffect ==
  ASSUME LocalInv, NEW f, ObserveRest(f), SameStep(f), frame.case <= Len(Cases),
         frame.stage # "aborted", frame.pc > Len(Case.steps)
  PROVE  Within \/ Records
<1>1. CASE ReadStorage(f)
  BY <1>1, ReadStorageIsWithin
<1>2. CASE Compare(None, f.balance) /\ UNCHANGED rpcVars
  BY <1>2, CompareRecords
<1>3. QED BY <1>1, <1>2 DEF ObserveRest

\* Observing the result.
LEMMA ObserveEffect ==
  ASSUME LocalInv,
         (frame.case <= Len(Cases) /\ Observe) \/ GotBalance \/ GotStorage \/ HeaderLags
  PROVE  Within \/ Records
<1> USE DEF LocalInv, FrameTyped
<1>1. SameStep(frame)
  BY DEF SameStep
<1>2. CASE Observe
  <2>1. frame.stage = "step" /\ frame.case <= Len(Cases) /\ frame.pc > Len(Case.steps)
    BY <1>2 DEF Observe, At
  <2>2. CASE Call([frame EXCEPT !.stage = "balance"], "eth_getBalance", None)
    <3> DEFINE f == [frame EXCEPT !.stage = "balance"]
    <3>1. SameStep(f) /\ f.stage = "balance" /\ Call(f, "eth_getBalance", None)
      BY <2>2, LocalsAre DEF SameStep
    <3> HIDE DEF f
    <3>2. QED BY <2>1, <3>1, CallIsWithin DEF CallStages
  <2>3. CASE ObserveRest(frame)
    BY <1>1, <2>1, <2>3, ObserveRestEffect
  <2>4. QED BY <1>2, <2>2, <2>3 DEF Observe
<1>3. CASE GotBalance
  <2> DEFINE f == [frame EXCEPT !.balance = Value]
  <2>1. SameStep(f)
    BY LocalsAre DEF SameStep
  <2>2. frame.stage = "balance" /\ frame.case <= Len(Cases) /\ ObserveRest(f)
    BY <1>3 DEF GotBalance, Result, Back, At
  <2>3. frame.pc > Len(Case.steps)
    BY <2>2 DEF StageMatches
  <2> HIDE DEF f
  <2>4. QED BY <2>1, <2>2, <2>3, ObserveRestEffect
<1>4. CASE GotStorage
  <2>1. /\ frame.stage = "storage" /\ frame.case <= Len(Cases)
        /\ rpc.outcome.kind = "answer" /\ rpc.outcome.value.ok
        /\ Compare(Value, frame.balance) /\ UNCHANGED rpcVars
    BY <1>4 DEF GotStorage, Result, Back, At
  <2>2. frame.pc > Len(Case.steps)
    BY <2>1 DEF StageMatches
  <2>3. QED BY <2>1, <2>2, CompareRecords DEF Value
<1>5. CASE HeaderLags
  <2>1. frame.stage = "storage" /\ ReadStorage(frame)
    BY <1>5 DEF HeaderLags, Back, At
  <2>2. frame.pc > Len(Case.steps)
    BY <2>1 DEF StageMatches
  <2>3. QED BY <1>1, <2>1, <2>2, ReadStorageIsWithin
<1>6. QED BY <1>2, <1>3, <1>4, <1>5

\* A call that fails ends the case or the run.
LEMMA FailureEffect ==
  ASSUME LocalInv, CallFails \/ RunAborts
  PROVE  Within \/ Records
<1> USE DEF LocalInv, FrameTyped
<1>1. frame.stage # "aborted" /\ frame.case <= Len(Cases)
  BY DEF CallFails, RunAborts, Back, At, CallStages
<1>2. CASE CallFails
  BY <1>1, <1>2, RaiseRecords DEF CallFails
<1>3. CASE RunAborts
  <2> DEFINE f == [frame EXCEPT !.stage = "aborted"]
  <2>1. SameStep(f) /\ f.stage = "aborted"
    BY LocalsAre DEF SameStep
  <2>2. frame' = f /\ NodeIdle /\ UNCHANGED <<rpc, results>>
    BY <1>3, ContinueFacts DEF RunAborts
  <2> HIDE DEF f
  <2>3. CallMatches' /\ StageMatches'
    BY <2>1, <2>2 DEF CallMatches, StageMatches
  <2>4. QED BY <2>1, <2>2, <2>3 DEF Within
<1>4. QED BY <1>2, <1>3

\* The interpreter does nothing else.
LEMMA InterpretEffect ==
  ASSUME LocalInv, NonceAnswers, Interpret
  PROVE  Within \/ Passes \/ Sends \/ Receives \/ Records
  BY SubmissionEffect, WaitEffect, ObserveEffect, FailureEffect DEF Interpret

-----------------------------------------------------------------------------
(* Sequences, and the chain as the node extends it. *)

LEMMA SequenceFacts ==
  ASSUME NEW s, IsSequence(s)
  PROVE  Len(s) \in Nat /\ DOMAIN s = 1..Len(s)
  BY LenProperties DEF IsSequence

LEMMA AppendFacts ==
  ASSUME NEW s, IsSequence(s), NEW x
  PROVE  /\ IsSequence(Append(s, x))
         /\ Len(Append(s, x)) = Len(s) + 1
         /\ DOMAIN Append(s, x) = 1..(Len(s) + 1)
         /\ \A i \in DOMAIN s : Append(s, x)[i] = s[i]
         /\ Append(s, x)[Len(s) + 1] = x
<1> DEFINE S == {s[i] : i \in DOMAIN s} \cup {x}
           t == Append(s, x)
<1>1. s \in Seq(S) /\ x \in S
  BY SeqMonotonic DEF IsSequence
<1> HIDE DEF S
<1>2. /\ t \in Seq(S) /\ Len(t) = Len(s) + 1
      /\ \A i \in 1..Len(s) : t[i] = s[i]
      /\ t[Len(s) + 1] = x
  BY <1>1, AppendProperties
<1> HIDE DEF t
<1>3. Len(s) \in Nat /\ DOMAIN s = 1..Len(s) /\ DOMAIN t = 1..(Len(s) + 1)
  BY <1>1, <1>2, LenProperties
<1>4. t \in Seq({t[i] : i \in DOMAIN t})
  <2>1. t \in [1..Len(t) -> {t[i] : i \in DOMAIN t}] /\ Len(t) \in Nat
    BY <1>1, <1>2, <1>3, LenProperties
  <2>2. QED BY <2>1, FunctionIsSequence
<1>5. QED BY <1>2, <1>3, <1>4 DEF IsSequence, t

ChainGrows ==
  /\ head' = head + 1 /\ pool' \subseteq pool
  /\ \A i \in DOMAIN chain : i \in DOMAIN chain' /\ chain'[i] = chain[i]
  /\ \A i \in DOMAIN chain' \ DOMAIN chain :
       /\ i \in Nat /\ \A j \in DOMAIN chain : j \in Nat /\ j < i
       /\ chain'[i].tx \in pool
       /\ chain'[i].block = head + 1 /\ chain'[i].ok \in BOOLEAN

LEMMA MineGrows ==
  ASSUME IInv, MineBlock
  PROVE  ChainGrows /\ UNCHANGED <<rpcVars, frame, results>>
<1>1. PICK k \in 1..MaxPerBlock, ok \in [1..MaxPerBlock -> IF MayFail THEN BOOLEAN ELSE {TRUE}] :
        LET next(i) == CHOOSE tx \in pool : tx.nonce = Len(chain) + i - 1
            mined == {next(i) : i \in 1..k} IN
          /\ \A i \in 1..k : \E tx \in pool : tx.nonce = Len(chain) + i - 1
          /\ chain' = chain \o [i \in 1..k |-> [tx |-> next(i), block |-> head + 1, ok |-> ok[i]]]
          /\ head' = head + 1
          /\ pool' = pool \ mined
          /\ UNCHANGED drops
  BY DEF MineBlock, Mine
<1> DEFINE next(i) == CHOOSE tx \in pool : tx.nonce = Len(chain) + i - 1
           entry(i) == [tx |-> next(i), block |-> head + 1, ok |-> ok[i]]
           block == [i \in 1..k |-> entry(i)]
<1>2. \A i \in 1..k : next(i) \in pool
  BY <1>1
<1>3. chain' = chain \o block /\ pool' \subseteq pool /\ head' = head + 1
  BY <1>1
<1>4. PICK S : chain \in Seq(S)
  BY DEF IInv, ChainOK
<1> DEFINE T == S \cup {entry(i) : i \in 1..k}
<1>5. k \in Nat
  BY ChainConstants
<1>6. chain \in Seq(T)
  BY <1>4, SeqMonotonic
<1>7. block \in Seq(T) /\ Len(block) = k
  <2>1. block \in [1..k -> T]
    OBVIOUS
  <2>2. QED BY <2>1, <1>5, FunctionIsSequence
<1>8. \A i \in 1..k : /\ block[i].tx \in pool
                      /\ block[i].block = head + 1 /\ block[i].ok \in BOOLEAN
  <2>1. \A i \in 1..k : i \in 1..MaxPerBlock
    BY ChainConstants
  <2>2. \A i \in 1..k : ok[i] \in BOOLEAN
    BY <2>1
  <2>3. QED BY <1>2, <2>2
<1> HIDE DEF T, block, next, entry
<1>9. /\ chain \o block \in Seq(T)
      /\ Len(chain \o block) = Len(chain) + Len(block)
      /\ \A i \in 1..(Len(chain) + Len(block)) :
           (chain \o block)[i] = IF i <= Len(chain) THEN chain[i] ELSE block[i - Len(chain)]
  BY <1>6, <1>7, ConcatProperties
<1>10. /\ Len(chain) \in Nat /\ DOMAIN chain = 1..Len(chain)
       /\ DOMAIN chain' = 1..(Len(chain) + k)
  BY <1>3, <1>5, <1>6, <1>7, <1>9, LenProperties
<1>11. \A i \in DOMAIN chain : i \in DOMAIN chain' /\ chain'[i] = chain[i]
  BY <1>3, <1>5, <1>7, <1>9, <1>10
<1>12. \A i \in DOMAIN chain' \ DOMAIN chain :
         i \in Nat /\ i > Len(chain) /\ i - Len(chain) \in 1..k /\ chain'[i] = block[i - Len(chain)]
  BY <1>3, <1>5, <1>7, <1>9, <1>10
<1>13. QED BY <1>3, <1>8, <1>10, <1>11, <1>12 DEF ChainGrows, MineBlock

\* What a block holds never changes again.
StorageOf(c, address, block) ==
  Cardinality({i \in {j \in DOMAIN c : c[j].block <= block} :
    /\ c[i].ok
    /\ c[i].tx.kind = "call"
    /\ c[i].tx.to = address
    /\ \E j \in 1..(i - 1) : /\ c[j].tx.kind = "create"
                             /\ c[j].tx.nonce = address
                             /\ c[j].ok})

LEMMA StorageOfBlock ==
  ASSUME IInv, BlocksTyped, ChainGrows, NEW address, NEW block \in 0..head
  PROVE  StorageOf(chain', address, block) = StorageOf(chain, address, block)
<1>1. \A i : i \in DOMAIN chain' /\ chain'[i].block <= block
             <=> i \in DOMAIN chain /\ chain[i].block <= block
  BY DEF ChainGrows, BlocksTyped
<1>2. \A i \in DOMAIN chain : i \in Nat /\ 1..(i - 1) \subseteq DOMAIN chain
  <2>1. Len(chain) \in Nat /\ DOMAIN chain = 1..Len(chain)
    BY LenProperties DEF IInv, ChainOK
  <2>2. QED BY <2>1
<1>3. \A i \in DOMAIN chain : chain'[i] = chain[i] /\ \A j \in 1..(i - 1) : chain'[j] = chain[j]
  BY <1>2 DEF ChainGrows
<1> DEFINE Counted(c) == {i \in {j \in DOMAIN c : c[j].block <= block} :
             /\ c[i].ok
             /\ c[i].tx.kind = "call"
             /\ c[i].tx.to = address
             /\ \E j \in 1..(i - 1) : /\ c[j].tx.kind = "create"
                                      /\ c[j].tx.nonce = address
                                      /\ c[j].ok}
<1>4. Counted(chain') = Counted(chain)
  BY <1>1, <1>3
<1>5. QED BY <1>4 DEF StorageOf

-----------------------------------------------------------------------------
(* LocalInv is an invariant. *)

\* While the chain stays as it is, what was true of it is.
LEMMA TruthKept ==
  ASSUME UNCHANGED chainVars, NEW m, NEW arg, NEW a, TrueAnswer(m, arg, a)
  PROVE  TrueAnswer(m, arg, a)'
<1>1. chain' = chain
  BY DEF chainVars
<1>2. Lookup(arg)' = Lookup(arg)
  BY <1>1 DEF Lookup
<1>3. StorageAt(arg.address, arg.block)' = StorageAt(arg.address, arg.block)
  BY <1>1 DEF StorageAt, UpTo
<1>4. QED BY <1>1, <1>2, <1>3 DEF TrueAnswer

\* The answers stay true if no call is made, or no answer is left of the last one.
LEMMA AnswersKept ==
  ASSUME AnswersTrue, UNCHANGED chainVars, reply' \subseteq reply,
         \/ rpc' = rpc
         \/ reply' = {} /\ rpc'.outcome.kind = "none"
  PROVE  AnswersTrue'
<1>1. CASE rpc' = rpc
  BY <1>1, TruthKept DEF AnswersTrue
<1>2. CASE reply' = {} /\ rpc'.outcome.kind = "none"
  BY <1>2 DEF AnswersTrue
<1>3. QED BY <1>1, <1>2

\* A call leaves no answer behind.
LEMMA CallsStartEmpty ==
  ASSUME IInv', rpc'.phase # "waiting"
  PROVE  reply' = {}
  BY DEF IInv, SubmissionInv, NonceAnswers

LEMMA BlocksKept ==
  ASSUME BlocksTyped, UNCHANGED chainVars
  PROVE  BlocksTyped'
  BY DEF BlocksTyped, chainVars

LEMMA WithinLocal ==
  ASSUME IInv', LocalInv, Within
  PROVE  LocalInv'
<1>1. FrameTyped'
  BY DEF LocalInv, FrameTyped, Within, SameStep
<1>2. ResultsTyped'
  BY DEF LocalInv, ResultsTyped, Within, SameStep
<1>3. BlocksTyped'
  BY BlocksKept DEF LocalInv, Within, NodeIdle
<1>4. BlocksExist'
  <2>1. /\ frame'.receipt = frame.receipt /\ results' = results /\ head' = head
        /\ frame.receipt # None => frame.receipt.block \in 0..head
    BY DEF LocalInv, BlocksExist, Within, SameStep, NodeIdle, chainVars
  <2>2. rpc'.method = "eth_getStorageAt" /\ rpc'.arg.block # None => rpc'.arg.block \in 0..head
    BY <2>1 DEF LocalInv, BlocksExist, Within, StorageBlock
  <2>3. QED BY <2>1, <2>2 DEF LocalInv, BlocksExist
<1>5. AnswersTrue'
  BY AnswersKept, CallsStartEmpty DEF LocalInv, Within, NodeIdle
<1>6. QED BY <1>1, <1>2, <1>3, <1>4, <1>5 DEF LocalInv, Within

LEMMA PassesLocal ==
  ASSUME LocalInv, Passes
  PROVE  LocalInv'
<1>1. FrameTyped'
  BY DEF LocalInv, FrameTyped, Passes
<1>2. ResultsTyped'
  BY DEF LocalInv, ResultsTyped, Passes
<1>3. BlocksTyped'
  BY BlocksKept DEF LocalInv, Passes, NodeIdle
<1>4. BlocksExist'
  BY DEF LocalInv, BlocksExist, Passes, NodeIdle, chainVars
<1>5. AnswersTrue'
  BY AnswersKept DEF LocalInv, Passes, NodeIdle
<1>6. CallMatches' /\ StageMatches'
  BY DEF CallMatches, StageMatches, Passes
<1>7. QED BY <1>1, <1>2, <1>3, <1>4, <1>5, <1>6 DEF LocalInv

LEMMA SendsLocal ==
  ASSUME LocalInv, Sends
  PROVE  LocalInv'
<1>1. FrameTyped'
  BY AppendFacts DEF LocalInv, FrameTyped, Sends
<1>2. ResultsTyped'
  BY DEF LocalInv, ResultsTyped, Sends
<1>3. BlocksTyped'
  BY BlocksKept DEF LocalInv, Sends, NodeIdle
<1>4. BlocksExist'
  BY DEF LocalInv, BlocksExist, Sends, NodeIdle, chainVars
<1>5. AnswersTrue'
  BY AnswersKept DEF LocalInv, Sends, NodeIdle
<1>6. CallMatches' /\ StageMatches'
  BY DEF CallMatches, StageMatches, Sends
<1>7. QED BY <1>1, <1>2, <1>3, <1>4, <1>5, <1>6 DEF LocalInv

LEMMA ReceivesLocal ==
  ASSUME IInv', LocalInv, Receives
  PROVE  LocalInv'
<1>1. FrameTyped'
  BY DEF LocalInv, FrameTyped, Receives
<1>2. ResultsTyped'
  BY DEF LocalInv, ResultsTyped, Receives
<1>3. BlocksTyped'
  BY BlocksKept DEF LocalInv, Receives, NodeIdle
<1>4. BlocksExist'
  <2>1. frame'.receipt.block \in 0..head
    BY DEF Receives, Lookup, LocalInv, BlocksTyped
  <2>2. rpc' = rpc \/ rpc'.method # "eth_getStorageAt"
    BY DEF Receives
  <2>3. QED BY <2>1, <2>2 DEF LocalInv, BlocksExist, Receives, NodeIdle, chainVars
<1>5. AnswersTrue'
  BY AnswersKept, CallsStartEmpty DEF LocalInv, Receives, NodeIdle
<1>6. CallMatches'
  BY DEF CallMatches, Receives
<1>7. StageMatches'
  <2>1. frame.hashes # <<>> /\ Step.action = "wait_receipt" /\ frame.pc <= Len(Case.steps)
    BY DEF LocalInv, StageMatches, Receives
  <2>2. frame'.stage = "block" => Step' = Step /\ Case' = Case
    BY DEF Receives, Step, Case
  <2>3. QED BY <2>1, <2>2 DEF StageMatches, Receives
<1>8. QED BY <1>1, <1>2, <1>3, <1>4, <1>5, <1>6, <1>7 DEF LocalInv

LEMMA RecordsLocal ==
  ASSUME LocalInv, Records
  PROVE  LocalInv'
<1> USE DEF LocalInv
<1>1. PICK verdict, storage : results' = Append(results,
            [case |-> frame.case, verdict |-> verdict, hashes |-> frame.hashes,
             receipt |-> frame.receipt, contract |-> frame.contract, error |-> frame.error,
             storage |-> storage])
  BY DEF Records
<1>2. /\ frame'.case = frame.case + 1 /\ frame'.pc = 1 /\ frame'.stage = "step"
      /\ frame'.hashes = <<>> /\ frame'.receipt = None /\ DOMAIN frame' = Locals
  BY DEF Records, Frame, Locals
<1>3. Len(Cases) \in Nat
  BY CaseConstants, SequenceFacts
<1>4. FrameTyped'
  <2>1. IsSequence(<<>>)
    BY EmptySeq DEF IsSequence
  <2>2. QED BY <1>2, <1>3, <2>1 DEF Records, FrameTyped
<1>5. /\ IsSequence(results') /\ Len(results') = Len(results) + 1
      /\ Len(results) \in Nat /\ DOMAIN results = 1..Len(results)
      /\ DOMAIN results' = 1..(Len(results) + 1)
      /\ \A i \in DOMAIN results : results'[i] = results[i]
      /\ results'[Len(results) + 1].case = frame.case
      /\ results'[Len(results) + 1].receipt = frame.receipt
  BY <1>1, AppendFacts, SequenceFacts DEF ResultsTyped
<1>6. ResultsTyped'
  BY <1>2, <1>5 DEF ResultsTyped, FrameTyped
<1>7. BlocksTyped'
  BY BlocksKept DEF Records, NodeIdle
<1>8. BlocksExist'
  <2>1. head' = head /\ rpc' = rpc
    BY DEF Records, NodeIdle, chainVars
  <2>2. QED BY <1>2, <1>5, <2>1 DEF BlocksExist
<1>9. AnswersTrue'
  BY AnswersKept DEF Records, NodeIdle
<1>10. CallMatches' /\ StageMatches'
  BY <1>2 DEF CallMatches, StageMatches
<1>11. QED BY <1>4, <1>6, <1>7, <1>8, <1>9, <1>10

\* A step of the transport keeps the request, and returns an answer that was there.
LEMMA ClientEffect ==
  ASSUME IInv, Rpc!ClientStep
  PROVE  /\ rpc'.method = rpc.method /\ rpc'.arg = rpc.arg /\ rpc'.call = rpc.call
         /\ reply' \subseteq reply
         /\ \/ rpc'.outcome = rpc.outcome
            \/ rpc'.outcome.kind # "answer"
            \/ rpc'.outcome.kind = "answer" /\ rpc'.outcome.value \in reply
<1> USE DEF IInv, RpcOK
<1>1. CASE Rpc!Send
  BY <1>1 DEF Rpc!Send
<1>2. ASSUME NEW kind, kind # "answer", Rpc!NextAttempt \/ Rpc!Return(Rpc!Raised(kind)),
             reply' \subseteq reply
      PROVE  /\ rpc'.method = rpc.method /\ rpc'.arg = rpc.arg /\ rpc'.call = rpc.call
             /\ rpc'.outcome = rpc.outcome \/ rpc'.outcome.kind # "answer"
  <2>1. /\ rpc'.method = rpc.method /\ rpc'.arg = rpc.arg
        /\ rpc'.outcome = rpc.outcome \/ rpc'.outcome.kind # "answer"
    BY <1>2, AttemptEnds
  <2>2. CASE Rpc!NextAttempt
    BY <2>1, <2>2 DEF Rpc!NextAttempt
  <2>3. CASE Rpc!Return(Rpc!Raised(kind))
    BY <2>1, <2>3 DEF Rpc!Return
  <2>4. QED BY <1>2, <2>2, <2>3
<1>3. ASSUME NEW kind \in {"timeout", "transport"}, Rpc!ConnectFails(kind)
      PROVE  /\ rpc'.method = rpc.method /\ rpc'.arg = rpc.arg /\ rpc'.call = rpc.call
             /\ reply' = reply
             /\ rpc'.outcome = rpc.outcome \/ rpc'.outcome.kind # "answer"
  BY <1>2, <1>3 DEF Rpc!ConnectFails
<1>4. CASE Rpc!ReadTimeout \/ Rpc!BadResponse \/ Rpc!ConnectionReset
  <2>1. PICK kind \in {"timeout", "transport", "uncaught"} :
          Rpc!NextAttempt \/ Rpc!Return(Rpc!Raised(kind))
    BY <1>4 DEF Rpc!ReadTimeout, Rpc!BadResponse, Rpc!ConnectionReset
  <2>2. reply' = {}
    BY <1>4 DEF Rpc!ReadTimeout, Rpc!BadResponse, Rpc!ConnectionReset
  <2>3. QED BY <1>2, <2>1, <2>2
<1>5. CASE Rpc!TakeAnswer
  <2>1. PICK a \in reply : Rpc!Return(Rpc!Answered(a))
    BY <1>5 DEF Rpc!TakeAnswer
  <2>2. QED BY <1>5, <2>1 DEF Rpc!TakeAnswer, Rpc!Return, Rpc!Answered
<1>6. QED BY <1>1, <1>3, <1>4, <1>5 DEF Rpc!ClientStep

\* Steps outside the interpreter keep the frame, the results and the request.
LEMMA FrameKept ==
  ASSUME LocalInv, UNCHANGED <<frame, results>>,
         rpc'.method = rpc.method, rpc'.arg = rpc.arg, rpc'.call = rpc.call,
         \/ head' = head
         \/ head' = head + 1,
         BlocksTyped', AnswersTrue'
  PROVE  LocalInv'
<1>1. FrameTyped' /\ ResultsTyped' /\ StageMatches'
  BY DEF LocalInv, FrameTyped, ResultsTyped, StageMatches, Step, Case, Resolvable
<1>2. BlocksExist'
  BY DEF LocalInv, BlocksExist, BlocksTyped
<1>3. CallMatches'
  <2>1. /\ Cur' = Cur /\ SubmitMethod' = SubmitMethod /\ Step' = Step /\ Resolvable' = Resolvable
        /\ LastHash' = LastHash /\ StorageBlock' = StorageBlock
    BY DEF Cur, SubmitMethod, Step, Case, Resolvable, LastHash, StorageBlock
  <2>2. (rpc.arg = Prepared(rpc.arg.nonce))' <=> rpc.arg = Prepared(rpc.arg.nonce)
    BY <2>1 DEF Prepared
  <2>3. QED BY <2>1, <2>2 DEF LocalInv, CallMatches
<1>4. QED BY <1>1, <1>2, <1>3 DEF LocalInv

LEMMA TransportLocal ==
  ASSUME IInv, LocalInv, Transport
  PROVE  LocalInv'
<1>1. UNCHANGED <<frame, results, chainVars>> /\ head' = head
  BY DEF Transport, chainVars
<1>2. /\ rpc'.method = rpc.method /\ rpc'.arg = rpc.arg /\ rpc'.call = rpc.call
      /\ reply' \subseteq reply
      /\ \/ rpc'.outcome = rpc.outcome
         \/ rpc'.outcome.kind # "answer"
         \/ rpc'.outcome.kind = "answer" /\ rpc'.outcome.value \in reply
  BY ClientEffect DEF Transport
<1>3. \A a : TrueAnswer(rpc.method, rpc.arg, a) => TrueAnswer(rpc.method, rpc.arg, a)'
  <2> SUFFICES ASSUME NEW a, TrueAnswer(rpc.method, rpc.arg, a)
               PROVE  TrueAnswer(rpc.method, rpc.arg, a)'
    OBVIOUS
  <2>1. QED BY <1>1, <1>2, TruthKept
<1>4. AnswersTrue'
  BY <1>2, <1>3 DEF LocalInv, AnswersTrue
<1>5. BlocksTyped'
  BY <1>1, BlocksKept DEF LocalInv
<1>6. QED BY <1>1, <1>2, <1>4, <1>5, FrameKept

\* What a replica answers is true.
LEMMA ReadAnswersTrue ==
  ASSUME LocalInv, NEW r \in wire, r.method \in Reads, NEW view \in Views,
         NEW a \in ReadAnswers(r, view),
         r.method = "eth_getStorageAt" /\ r.arg.block # None => r.arg.block \in 0..head
  PROVE  TrueAnswer(r.method, r.arg, a)
<1>1. r.method \notin Submissions
  BY DEF Reads, Submissions, RawTx
<1>2. CASE r.method = "eth_getTransactionReceipt"
  <2>1. CASE ReceiptsAt(r.arg, view) = {}
    BY <1>1, <1>2, <2>1 DEF ReadAnswers, TrueAnswer, Good
  <2>2. CASE ReceiptsAt(r.arg, view) # {}
    <3>1. PICK receipt \in ReceiptsAt(r.arg, view) : a = Good(receipt)
      BY <1>2, <2>2 DEF ReadAnswers
    <3>2. a.value = receipt
      BY <3>1 DEF Good
    <3>3. \E i \in Lookup(r.arg) :
            receipt = [status |-> chain[i].ok, block |-> chain[i].block, hash |-> r.arg,
                       address |-> IF r.arg.kind = "create" THEN r.arg.nonce ELSE NoNonce]
      BY <3>1 DEF ReceiptsAt
    <3>4. QED BY <1>1, <1>2, <3>2, <3>3 DEF TrueAnswer
  <2>3. QED BY <2>1, <2>2
<1>3. CASE r.method = "eth_getStorageAt"
  <2>1. a = IF r.arg.address = None THEN Bad("invalid params")
            ELSE IF r.arg.block = None THEN Good(StorageAt(r.arg.address, view))
            ELSE IF r.arg.block > view THEN Bad("header not found")
            ELSE Good(StorageAt(r.arg.address, r.arg.block))
    BY <1>3 DEF ReadAnswers
  <2>2. \A e : ~Bad(e).ok
    BY DEF Bad
  <2>3. \A v : Good(v).value = v
    BY DEF Good
  <2>4. a.ok /\ r.arg.block # None => a.value = StorageAt(r.arg.address, r.arg.block)
    BY <2>1, <2>2, <2>3
  <2>5. QED BY <1>1, <1>3, <2>4 DEF TrueAnswer
<1>4. CASE r.method = "eth_getBlockByNumber"
  <2>1. a = Good(r.arg) \/ a = Good(None)
    BY <1>4 DEF ReadAnswers
  <2>2. a.value = r.arg \/ a.value = None
    BY <2>1 DEF Good
  <2>3. QED BY <1>1, <1>4, <2>2 DEF TrueAnswer
<1>5. QED BY <1>1, <1>2, <1>3, <1>4 DEF TrueAnswer

\* The node handles a request: the answer it gives to the open call is true.
LEMMA HandleLocal ==
  ASSUME IInv, LocalInv, NEW r, NEW a, Rpc!Handle(r, a), UNCHANGED <<frame, results>>,
         chain' = chain, head' = head,
         rpc.phase = "waiting" /\ r = Rpc!Request => TrueAnswer(rpc.method, rpc.arg, a)
  PROVE  LocalInv'
<1>1. rpc' = rpc /\ reply' \subseteq reply \cup {a}
      /\ (reply' # reply => rpc.phase = "waiting" /\ r = Rpc!Request)
  BY DEF Rpc!Handle
<1>2. \A b : TrueAnswer(rpc.method, rpc.arg, b) => TrueAnswer(rpc.method, rpc.arg, b)'
  <2> SUFFICES ASSUME NEW b, TrueAnswer(rpc.method, rpc.arg, b)
               PROVE  TrueAnswer(rpc.method, rpc.arg, b)'
    OBVIOUS
  <2>1. Lookup(rpc.arg)' = Lookup(rpc.arg)
    BY <1>1 DEF Lookup
  <2>2. StorageAt(rpc.arg.address, rpc.arg.block)' = StorageAt(rpc.arg.address, rpc.arg.block)
    BY <1>1 DEF StorageAt, UpTo
  <2>3. QED BY <1>1, <2>1, <2>2 DEF TrueAnswer
<1>3. AnswersTrue'
  BY <1>1, <1>2 DEF LocalInv, AnswersTrue
<1>4. BlocksTyped'
  BY DEF LocalInv, BlocksTyped
<1>5. QED BY <1>1, <1>3, <1>4, FrameKept

LEMMA ServeReadLocal == ASSUME IInv, LocalInv, ServeRead PROVE LocalInv'
<1>1. PICK r \in {s \in wire : s.method \in Reads}, view \in Views :
        \E answer \in ReadAnswers(r, view) :
          /\ Rpc!Handle(r, answer)
          /\ UNCHANGED <<chainVars, frame, results>>
  BY DEF ServeRead
<1>2. PICK answer \in ReadAnswers(r, view) :
        /\ Rpc!Handle(r, answer)
        /\ UNCHANGED <<chainVars, frame, results>>
  BY <1>1
<1>3. ASSUME r = Rpc!Request PROVE TrueAnswer(rpc.method, rpc.arg, answer)
  <2>1. r.method = rpc.method /\ r.arg = rpc.arg
    BY <1>3 DEF Rpc!Request
  <2>2. r.method = "eth_getStorageAt" /\ r.arg.block # None => r.arg.block \in 0..head
    BY <2>1 DEF LocalInv, BlocksExist
  <2>3. TrueAnswer(r.method, r.arg, answer)
    BY <2>2, ReadAnswersTrue
  <2>4. QED BY <2>1, <2>3
<1>4. QED BY <1>2, <1>3, HandleLocal DEF chainVars

LEMMA ServeSubmissionLocal == ASSUME IInv, LocalInv, ServeSubmission PROVE LocalInv'
<1>1. PICK r \in {s \in wire : s.method \in Submissions} :
        LET tx == Signed(r.arg) IN
          /\ IF Refusal(tx) = "none"
             THEN Accept(tx) /\ Rpc!Handle(r, Good(tx))
             ELSE Rpc!Handle(r, Bad(Refusal(tx))) /\ UNCHANGED chainVars
          /\ UNCHANGED <<frame, results>>
  BY DEF ServeSubmission
<1>2. Signed(r.arg) = r.arg
  BY DEF Signed, Submitted, IInv, SubmissionInv, NoncesGiven
<1>3. PICK a : Rpc!Handle(r, a) /\ (a.ok => a.value = r.arg)
  BY <1>1, <1>2 DEF Good, Bad
<1>4. chain' = chain /\ head' = head /\ UNCHANGED <<frame, results>>
  BY <1>1 DEF Accept, chainVars
<1>5. r = Rpc!Request => TrueAnswer(rpc.method, rpc.arg, a)
  BY <1>3 DEF Rpc!Request, TrueAnswer, Submissions, RawTx
<1>6. QED BY <1>3, <1>4, <1>5, HandleLocal

LEMMA MineLocal == ASSUME IInv, LocalInv, MineBlock PROVE LocalInv'
<1>1. ChainGrows /\ UNCHANGED <<frame, results>> /\ rpc' = rpc /\ reply' = reply
  BY MineGrows DEF rpcVars
<1>2. BlocksTyped'
  BY <1>1 DEF LocalInv, BlocksTyped, ChainGrows
<1>3. \A b : TrueAnswer(rpc.method, rpc.arg, b) => TrueAnswer(rpc.method, rpc.arg, b)'
  <2> SUFFICES ASSUME NEW b, TrueAnswer(rpc.method, rpc.arg, b)
               PROVE  TrueAnswer(rpc.method, rpc.arg, b)'
    OBVIOUS
  <2>1. \A i \in Lookup(rpc.arg) : i \in Lookup(rpc.arg)' /\ chain'[i] = chain[i]
    BY <1>1 DEF Lookup, ChainGrows
  <2>2. rpc.method = "eth_getStorageAt" /\ rpc.arg.block # None =>
          StorageOf(chain', rpc.arg.address, rpc.arg.block)
            = StorageOf(chain, rpc.arg.address, rpc.arg.block)
    BY <1>1, StorageOfBlock DEF LocalInv, BlocksExist
  <2>3. StorageAt(rpc.arg.address, rpc.arg.block) = StorageOf(chain, rpc.arg.address, rpc.arg.block)
    BY DEF StorageAt, UpTo, StorageOf
  <2>4. StorageAt(rpc.arg.address, rpc.arg.block)' = StorageOf(chain', rpc.arg.address, rpc.arg.block)
    BY <1>1 DEF StorageAt, UpTo, StorageOf
  <2>5. QED BY <1>1, <2>1, <2>2, <2>3, <2>4 DEF TrueAnswer
<1>4. AnswersTrue'
  BY <1>1, <1>3 DEF LocalInv, AnswersTrue
<1>5. QED BY <1>1, <1>2, <1>4, FrameKept DEF ChainGrows

\* The pool is not part of what LocalInv says.
LEMMA PoolLocal ==
  ASSUME LocalInv, UNCHANGED <<rpcVars, frame, results>>, chain' = chain, head' = head
  PROVE  LocalInv'
<1>1. rpc' = rpc /\ reply' = reply
  BY DEF rpcVars
<1>2. \A b : TrueAnswer(rpc.method, rpc.arg, b) => TrueAnswer(rpc.method, rpc.arg, b)'
  <2> SUFFICES ASSUME NEW b, TrueAnswer(rpc.method, rpc.arg, b)
               PROVE  TrueAnswer(rpc.method, rpc.arg, b)'
    OBVIOUS
  <2>1. Lookup(rpc.arg)' = Lookup(rpc.arg)
    BY <1>1 DEF Lookup
  <2>2. StorageAt(rpc.arg.address, rpc.arg.block)' = StorageAt(rpc.arg.address, rpc.arg.block)
    BY <1>1 DEF StorageAt, UpTo
  <2>3. QED BY <1>1, <2>1, <2>2 DEF TrueAnswer
<1>3. AnswersTrue'
  BY <1>1, <1>2 DEF LocalInv, AnswersTrue
<1>4. BlocksTyped'
  BY DEF LocalInv, BlocksTyped
<1>5. QED BY <1>1, <1>3, <1>4, FrameKept

LEMMA LocalInit == Init => LocalInv
<1> SUFFICES ASSUME Init PROVE LocalInv
  OBVIOUS
<1>1. /\ frame.case = 1 /\ frame.pc = 1 /\ frame.stage = "step" /\ frame.hashes = <<>>
      /\ frame.receipt = None /\ DOMAIN frame = Locals
  BY DEF Init, Frame, Locals
<1>2. Len(Cases) \in Nat /\ IsSequence(<<>>) /\ Len(<<>>) = 0 /\ DOMAIN <<>> = {}
  BY CaseConstants, SequenceFacts, EmptySeq DEF IsSequence
<1>3. FrameTyped /\ ResultsTyped
  BY <1>1, <1>2 DEF Init, FrameTyped, ResultsTyped
<1>4. BlocksTyped /\ BlocksExist
  BY <1>1 DEF Init, ChainInit, BlocksTyped, BlocksExist
<1>5. CallMatches /\ StageMatches /\ AnswersTrue
  BY <1>1 DEF Init, CallMatches, StageMatches, AnswersTrue, Rpc!Raised
<1>6. QED BY <1>3, <1>4, <1>5 DEF LocalInv

LEMMA LocalStep == IInv /\ IInv' /\ LocalInv /\ [Next]_vars => LocalInv'
<1> SUFFICES ASSUME IInv, IInv', LocalInv, [Next]_vars PROVE LocalInv'
  OBVIOUS
<1>1. CASE Transport
  BY <1>1, TransportLocal
<1>2. CASE Interpret
  BY <1>2, InterpretEffect, WithinLocal, PassesLocal, SendsLocal, ReceivesLocal, RecordsLocal
     DEF IInv, SubmissionInv
<1>3. CASE ServeRead \/ ServeSubmission \/ MineBlock
  BY <1>3, ServeReadLocal, ServeSubmissionLocal, MineLocal
<1>4. CASE DropTransaction \/ OtherClient
  BY <1>4, PoolLocal DEF DropTransaction, Drop, OtherClient, Accept
<1>5. CASE UNCHANGED vars
  BY <1>5, PoolLocal DEF vars, chainVars
<1>6. QED BY <1>1, <1>2, <1>3, <1>4, <1>5 DEF Next, Harness, Node, Terminated

LEMMA LocalInvariance == Spec => [](IInv /\ LocalInv)
<1>1. Init => IInv /\ LocalInv
  BY InitInv, LocalInit
<1>2. IInv /\ LocalInv /\ [Next]_vars => (IInv /\ LocalInv)'
  BY StepInv, LocalStep
<1>3. QED BY <1>1, <1>2, PTL DEF Spec

-----------------------------------------------------------------------------
(* ChainInv is an invariant. *)

\* What the chain says of a transaction it goes on saying.
ChainExtends == \A i \in DOMAIN chain : i \in DOMAIN chain' /\ chain'[i] = chain[i]

LEMMA ExtensionFacts ==
  ASSUME IInv, ChainExtends
  PROVE  /\ \A hash, status : (\E j \in Lookup(hash) : chain[j].ok = status) =>
              \E j \in Lookup(hash)' : chain'[j].ok = status
         /\ \A address, case : (\E i \in DOMAIN chain : Created(address, case, i)) =>
              \E i \in DOMAIN chain' : Created(address, case, i)'
  BY DEF ChainExtends, Lookup, Created

\* The frame and the chain: what was confirmed or created stays so.
LEMMA FramePartKept ==
  ASSUME IInv, ChainInv, ChainExtends, UNCHANGED frame
  PROVE  HashesTrue' /\ BlockStageConfirmed' /\ ContractCreated'
<1>1. Case' = Case /\ LastHash' = LastHash
  BY DEF Case, LastHash
<1>2. ASSUME NEW hash, Confirmed(hash) PROVE Confirmed(hash)'
  <2>1. ExpectedStatus(hash)' = ExpectedStatus(hash)
    BY <1>1 DEF ExpectedStatus
  <2>2. QED BY <1>2, <2>1, ExtensionFacts DEF Confirmed
<1>3. HashesTrue'
  BY <1>1, <1>2 DEF ChainInv, HashesTrue
<1>4. BlockStageConfirmed'
  <2> SUFFICES ASSUME frame.stage = "block" PROVE Confirmed(LastHash)'
    BY DEF BlockStageConfirmed
  <2>1. PICK j \in Lookup(LastHash) : chain[j].ok = ExpectedStatus(LastHash)
    BY DEF ChainInv, BlockStageConfirmed, Confirmed
  <2>2. j \in Lookup(LastHash)' /\ chain'[j] = chain[j]
    BY <1>1, <2>1 DEF ChainExtends, Lookup
  <2>3. ExpectedStatus(LastHash)' = ExpectedStatus(LastHash)
    BY <1>1 DEF ExpectedStatus
  <2>4. QED BY <2>1, <2>2, <2>3 DEF Confirmed
<1>5. ContractCreated'
  BY ExtensionFacts DEF ChainInv, ContractCreated
<1>6. QED BY <1>3, <1>4, <1>5

\* The results and the chain.
LEMMA ResultsPartKept ==
  ASSUME IInv, LocalInv, ChainInv, results' = results, chain' = chain \/ ChainGrows
  PROVE  PassedCasesRan' /\ StorageIsOfReceiptBlock'
<1>1. ChainExtends
  BY DEF ChainExtends, ChainGrows
<1>2. PassedCasesRan'
  <2> SUFFICES ASSUME NEW k \in DOMAIN results, results[k].verdict = "passed",
                      NEW i \in DOMAIN results[k].hashes,
                      results[k].hashes[i].step[2] < Len(Cases[k].steps),
                      Cases[k].steps[results[k].hashes[i].step[2] + 1].action = "wait_receipt"
               PROVE  \E j \in Ran(results[k].hashes[i])' :
                        chain'[j].ok = Cases[k].steps[results[k].hashes[i].step[2]].status
    BY DEF PassedCasesRan
  <2>1. \E j \in Lookup(results[k].hashes[i]) :
          chain[j].ok = Cases[k].steps[results[k].hashes[i].step[2]].status
    BY DEF ChainInv, PassedCasesRan, Ran, Lookup
  <2>2. QED BY <1>1, <2>1 DEF ChainExtends, Lookup, Ran
<1>3. StorageIsOfReceiptBlock'
  <2> SUFFICES ASSUME NEW k \in DOMAIN results,
                      results[k].storage # None, results[k].receipt # None
               PROVE  results[k].storage = StorageAt(results[k].contract, results[k].receipt.block)'
    BY DEF StorageIsOfReceiptBlock
  <2> DEFINE address == results[k].contract
             block == results[k].receipt.block
  <2>1. results[k].storage = StorageOf(chain, address, block)
    BY DEF ChainInv, StorageIsOfReceiptBlock, StorageAt, UpTo, StorageOf
  <2>2. block \in 0..head
    BY DEF LocalInv, BlocksExist
  <2>3. StorageOf(chain', address, block) = StorageOf(chain, address, block)
    BY <2>2, StorageOfBlock DEF LocalInv
  <2>4. StorageAt(address, block)' = StorageOf(chain', address, block)
    BY DEF StorageAt, UpTo, StorageOf
  <2>5. QED BY <2>1, <2>3, <2>4
<1>4. QED BY <1>2, <1>3

\* Steps of the interpreter and of the transport leave the chain alone.
LEMMA NodePartKept ==
  ASSUME IInv, ChainInv, chain' = chain,
         \A t \in Submitted' \cup pool' :
           \/ t \in Submitted \cup pool
           \/ t.kind = "call" /\ t.to # None => \E i \in DOMAIN chain : Created(t.to, t.step[1], i)
  PROVE  CallsWaiting' /\ CallsOwnContract'
<1>1. CallsWaiting'
  BY DEF ChainInv, CallsWaiting, Created
<1>2. CallsOwnContract'
  BY DEF ChainInv, CallsOwnContract
<1>3. QED BY <1>1, <1>2

LEMMA NodeIdleChain ==
  ASSUME IInv, ChainInv, NodeIdle
  PROVE  chain' = chain /\ ChainExtends /\ CallsWaiting' /\ CallsOwnContract'
<1>1. chain' = chain /\ pool' = pool /\ Submitted' = Submitted
  BY DEF NodeIdle, chainVars, Submitted
<1>2. QED BY <1>1, NodePartKept DEF ChainExtends

LEMMA WithinChain == ASSUME IInv, LocalInv, ChainInv, Within PROVE ChainInv'
<1>1. /\ frame'.case = frame.case /\ frame'.pc = frame.pc /\ frame'.hashes = frame.hashes
      /\ frame'.contract = frame.contract /\ results' = results /\ NodeIdle
      /\ frame'.stage # "block"
  BY DEF Within, SameStep
<1>2. chain' = chain /\ CallsWaiting' /\ CallsOwnContract'
  BY <1>1, NodeIdleChain
<1>3. Case' = Case
  BY <1>1 DEF Case
<1>4. HashesTrue'
  BY <1>1, <1>2, <1>3 DEF ChainInv, HashesTrue, Confirmed, ExpectedStatus, Lookup
<1>5. BlockStageConfirmed' /\ ContractCreated'
  BY <1>1, <1>2 DEF ChainInv, BlockStageConfirmed, ContractCreated, Created
<1>6. PassedCasesRan' /\ StorageIsOfReceiptBlock'
  BY <1>1, <1>2, ResultsPartKept
<1>7. QED BY <1>2, <1>4, <1>5, <1>6 DEF ChainInv

\* The next step of the case, when nothing was sent: the last transaction is
\* confirmed if the step that is over waited for it.
LEMMA HashesPass ==
  ASSUME LocalInv, HashesTrue, chain' = chain, frame'.case = frame.case,
         frame'.pc = frame.pc + 1, frame'.hashes = frame.hashes,
         Step.action = "wait_receipt" => Confirmed(LastHash)
  PROVE  HashesTrue'
<1>1. Case' = Case
  BY DEF Case
<1> SUFFICES ASSUME NEW i \in DOMAIN frame.hashes, NEW hash, hash = frame.hashes[i]
             PROVE  /\ hash.step[1] = frame'.case
                    /\ hash.step[2] \in 1..(frame'.pc - 1)
                    /\ hash.step[2] <= Len(Case.steps)
                    /\ hash.step[2] + 1 = frame'.pc => i = Len(frame.hashes)
                    /\ hash.kind = KindOf(Case.steps[hash.step[2]].action)
                    /\ hash.step[2] + 1 < frame'.pc
                         /\ Case.steps[hash.step[2] + 1].action = "wait_receipt"
                         => Confirmed(hash)'
  BY <1>1 DEF HashesTrue
<1>2. /\ hash.step[1] = frame.case
      /\ hash.step[2] \in 1..(frame.pc - 1)
      /\ hash.step[2] <= Len(Case.steps)
      /\ hash.step[2] + 1 = frame.pc => i = Len(frame.hashes)
      /\ hash.kind = KindOf(Case.steps[hash.step[2]].action)
      /\ hash.step[2] + 1 < frame.pc /\ Case.steps[hash.step[2] + 1].action = "wait_receipt"
           => Confirmed(hash)
  BY DEF HashesTrue
<1>3. frame.pc \in Nat \ {0} /\ hash.step[2] \in Nat
  BY <1>2 DEF LocalInv, FrameTyped
<1>4. Confirmed(hash) => Confirmed(hash)'
  BY <1>1 DEF Confirmed, ExpectedStatus, Lookup
<1>5. hash.step[2] + 1 = frame.pc /\ Step.action = "wait_receipt" => Confirmed(hash)
  BY <1>2 DEF LastHash
<1>6. hash.step[2] + 1 = frame.pc => Case.steps[hash.step[2] + 1] = Step
  BY DEF Step
<1>7. QED BY <1>2, <1>3, <1>4, <1>5, <1>6

LEMMA PassesChain == ASSUME IInv, LocalInv, ChainInv, Passes PROVE ChainInv'
<1>1. /\ frame'.case = frame.case /\ frame'.pc = frame.pc + 1 /\ frame'.hashes = frame.hashes
      /\ frame'.contract = frame.contract /\ results' = results /\ NodeIdle
      /\ frame'.stage = "step"
  BY DEF Passes
<1>2. chain' = chain /\ CallsWaiting' /\ CallsOwnContract'
  BY <1>1, NodeIdleChain
<1>3. Step.action = "wait_receipt" => Confirmed(LastHash)
  BY DEF Passes, ChainInv, BlockStageConfirmed
<1>4. HashesTrue'
  BY <1>1, <1>2, <1>3, HashesPass DEF ChainInv
<1>5. BlockStageConfirmed' /\ ContractCreated'
  BY <1>1, <1>2 DEF ChainInv, BlockStageConfirmed, ContractCreated, Created
<1>6. PassedCasesRan' /\ StorageIsOfReceiptBlock'
  BY <1>1, <1>2, ResultsPartKept
<1>7. QED BY <1>2, <1>4, <1>5, <1>6 DEF ChainInv

LEMMA SendsChain == ASSUME IInv, LocalInv, ChainInv, Sends PROVE ChainInv'
<1>1. /\ frame'.case = frame.case /\ frame'.pc = frame.pc + 1
      /\ frame'.hashes = Append(frame.hashes, rpc.arg)
      /\ frame'.contract = frame.contract /\ results' = results /\ NodeIdle
      /\ frame'.stage = "step" /\ frame.stage = "send"
  BY DEF Sends
<1>2. chain' = chain /\ CallsWaiting' /\ CallsOwnContract'
  BY <1>1, NodeIdleChain
<1>3. Case' = Case
  BY <1>1 DEF Case
<1>4. /\ rpc.arg = Prepared(rpc.arg.nonce) /\ Step.action \in SubmitActions
      /\ frame.pc <= Len(Case.steps) /\ frame.pc \in Nat \ {0} /\ IsSequence(frame.hashes)
  BY <1>1 DEF LocalInv, CallMatches, StageMatches, FrameTyped
<1>5. rpc.arg.step = Cur /\ rpc.arg.kind = KindOf(Step.action)
  BY <1>4 DEF Prepared, Cur
<1>6. /\ Len(frame'.hashes) = Len(frame.hashes) + 1 /\ Len(frame.hashes) \in Nat
      /\ DOMAIN frame'.hashes = DOMAIN frame.hashes \cup {Len(frame.hashes) + 1}
      /\ \A i \in DOMAIN frame.hashes : frame'.hashes[i] = frame.hashes[i]
      /\ frame'.hashes[Len(frame.hashes) + 1] = rpc.arg
  BY <1>1, <1>4, AppendFacts, SequenceFacts
<1>7. HashesTrue'
  <2> SUFFICES ASSUME NEW i \in DOMAIN frame'.hashes, NEW hash, hash = frame'.hashes[i]
               PROVE  /\ hash.step[1] = frame'.case
                      /\ hash.step[2] \in 1..(frame'.pc - 1)
                      /\ hash.step[2] <= Len(Case.steps)
                      /\ hash.step[2] + 1 = frame'.pc => i = Len(frame'.hashes)
                      /\ hash.kind = KindOf(Case.steps[hash.step[2]].action)
                      /\ hash.step[2] + 1 < frame'.pc
                           /\ Case.steps[hash.step[2] + 1].action = "wait_receipt"
                           => Confirmed(hash)'
    BY <1>3 DEF HashesTrue
  <2>1. CASE i \in DOMAIN frame.hashes
    <3>1. /\ hash.step[1] = frame.case
          /\ hash.step[2] \in 1..(frame.pc - 1)
          /\ hash.step[2] <= Len(Case.steps)
          /\ hash.kind = KindOf(Case.steps[hash.step[2]].action)
          /\ hash.step[2] + 1 < frame.pc /\ Case.steps[hash.step[2] + 1].action = "wait_receipt"
               => Confirmed(hash)
      BY <1>6, <2>1 DEF ChainInv, HashesTrue
    <3>2. Confirmed(hash) => Confirmed(hash)'
      BY <1>2, <1>3 DEF Confirmed, ExpectedStatus, Lookup
    <3>3. hash.step[2] + 1 = frame.pc => Case.steps[hash.step[2] + 1].action # "wait_receipt"
      BY <1>4 DEF Step, SubmitActions
    <3>4. /\ hash.step[2] \in Nat /\ hash.step[2] < frame.pc
          /\ frame.pc \in Nat /\ frame'.pc = frame.pc + 1
      <4>1. frame.pc \in Nat /\ frame'.pc = frame.pc + 1
        BY <1>1, <1>4
      <4>2. hash.step[2] \in 1..(frame.pc - 1)
        BY <3>1
      <4>3. QED BY <4>1, <4>2
    <3>5. /\ hash.step[2] \in 1..(frame'.pc - 1)
          /\ hash.step[2] + 1 # frame'.pc
          /\ hash.step[2] + 1 < frame.pc \/ hash.step[2] + 1 = frame.pc
      BY <3>1, <3>4
    <3>6. Case.steps[hash.step[2] + 1].action = "wait_receipt" => Confirmed(hash)'
      BY <3>1, <3>2, <3>3, <3>5
    <3>7. QED BY <1>1, <3>1, <3>5, <3>6
  <2>2. CASE i = Len(frame.hashes) + 1
    <3>1. hash.step[1] = frame.case /\ hash.step[2] = frame.pc
      BY <1>5, <1>6, <2>2 DEF Cur
    <3>2. hash.kind = KindOf(Step.action)
      BY <1>5, <1>6, <2>2
    <3>3. /\ hash.step[2] \in 1..(frame'.pc - 1) /\ i = Len(frame'.hashes)
          /\ ~(hash.step[2] + 1 < frame'.pc)
      BY <1>1, <1>4, <1>6, <2>2, <3>1
    <3>4. QED BY <1>1, <1>4, <3>1, <3>2, <3>3 DEF Step
  <2>3. QED BY <1>6, <2>1, <2>2
<1>8. BlockStageConfirmed' /\ ContractCreated'
  BY <1>1, <1>2 DEF ChainInv, BlockStageConfirmed, ContractCreated, Created
<1>9. PassedCasesRan' /\ StorageIsOfReceiptBlock'
  BY <1>1, <1>2, ResultsPartKept
<1>10. QED BY <1>2, <1>7, <1>8, <1>9 DEF ChainInv

\* The contract of a confirmed deployment was created: a deployment cannot be
\* expected to fail.
LEMMA ReceivedContract ==
  ASSUME LocalInv, ChainInv, Receives, LastHash.kind = "create", LastHash.nonce # NoNonce
  PROVE  \E i \in DOMAIN chain : Created(LastHash.nonce, frame.case, i)
<1>1. PICK i \in Lookup(LastHash) : chain[i].ok = ExpectedStatus(LastHash)
  BY DEF Receives
<1>2. frame.case \in DOMAIN Cases
  BY CaseConstants, SequenceFacts DEF LocalInv, FrameTyped, Receives
<1>3. Len(frame.hashes) \in DOMAIN frame.hashes
  <2>1. IsSequence(frame.hashes) /\ frame.hashes # <<>>
    BY DEF LocalInv, FrameTyped, StageMatches, Receives
  <2>2. frame.hashes \in Seq({frame.hashes[j] : j \in DOMAIN frame.hashes})
    BY <2>1 DEF IsSequence
  <2>3. QED BY <2>1, <2>2, EmptySeq, LenProperties
<1>4. /\ LastHash.step[1] = frame.case
      /\ LastHash.step[2] \in 1..Len(Case.steps)
      /\ LastHash.kind = KindOf(Case.steps[LastHash.step[2]].action)
  <2>1. /\ LastHash.step[1] = frame.case
        /\ LastHash.step[2] \in 1..(frame.pc - 1) /\ LastHash.step[2] <= Len(Case.steps)
        /\ LastHash.kind = KindOf(Case.steps[LastHash.step[2]].action)
    BY <1>3 DEF ChainInv, HashesTrue, LastHash
  <2>2. Len(Case.steps) \in Nat
    BY <1>2, CaseConstants, SequenceFacts DEF Case
  <2>3. QED BY <2>1, <2>2 DEF LocalInv, FrameTyped
<1>5. Case.steps[LastHash.step[2]].action = "deploy_contract"
  BY <1>4 DEF KindOf
<1>6. LastHash.step[2] \in DOMAIN Case.steps
  BY <1>2, <1>4, CaseConstants, SequenceFacts DEF Case
<1>7. Case.steps[LastHash.step[2]].status
  BY <1>2, <1>5, <1>6, CaseConstants DEF Case
<1>8. chain[i].ok
  BY <1>1, <1>7 DEF ExpectedStatus
<1>9. QED BY <1>1, <1>4, <1>8 DEF Lookup, Created

LEMMA ReceivesChain == ASSUME IInv, LocalInv, ChainInv, Receives PROVE ChainInv'
<1>1. /\ frame'.case = frame.case /\ frame'.hashes = frame.hashes
      /\ results' = results /\ NodeIdle /\ Confirmed(LastHash)
      /\ frame'.contract = IF LastHash.kind = "create" /\ LastHash.nonce # NoNonce
                           THEN LastHash.nonce ELSE frame.contract
  BY DEF Receives, Confirmed
<1>2. chain' = chain /\ CallsWaiting' /\ CallsOwnContract'
  BY <1>1, NodeIdleChain
<1>3. Case' = Case /\ LastHash' = LastHash
  BY <1>1 DEF Case, LastHash
<1>4. Confirmed(LastHash)'
  BY <1>1, <1>2, <1>3 DEF Confirmed, ExpectedStatus, Lookup
<1>5. HashesTrue'
  <2>1. CASE frame'.pc = frame.pc
    BY <1>1, <1>2, <1>3, <2>1 DEF ChainInv, HashesTrue, Confirmed, ExpectedStatus, Lookup
  <2>2. CASE frame'.pc = frame.pc + 1
    BY <1>1, <1>2, <2>2, HashesPass DEF ChainInv
  <2>3. QED BY <2>1, <2>2 DEF Receives
<1>6. BlockStageConfirmed'
  BY <1>4 DEF BlockStageConfirmed
<1>7. ContractCreated'
  BY <1>1, <1>2, ReceivedContract DEF ChainInv, ContractCreated, Created
<1>8. PassedCasesRan' /\ StorageIsOfReceiptBlock'
  BY <1>1, <1>2, ResultsPartKept
<1>9. QED BY <1>2, <1>5, <1>6, <1>7, <1>8 DEF ChainInv

LEMMA RecordsChain == ASSUME IInv, LocalInv, ChainInv, Records PROVE ChainInv'
<1>1. PICK verdict, storage :
        /\ results' = Append(results,
             [case |-> frame.case, verdict |-> verdict, hashes |-> frame.hashes,
              receipt |-> frame.receipt, contract |-> frame.contract, error |-> frame.error,
              storage |-> storage])
        /\ verdict = "passed" => frame.pc > Len(Case.steps)
        /\ storage # None =>
             /\ frame.stage = "storage" /\ rpc.outcome.kind = "answer"
             /\ rpc.outcome.value.ok /\ storage = rpc.outcome.value.value
  BY DEF Records
<1>2. chain' = chain /\ CallsWaiting' /\ CallsOwnContract'
  BY NodeIdleChain DEF Records
<1>3. /\ frame'.hashes = <<>> /\ frame'.stage = "step" /\ frame'.contract = None
  BY DEF Records, Frame
<1>4. HashesTrue' /\ BlockStageConfirmed' /\ ContractCreated'
  BY <1>3, EmptySeq DEF HashesTrue, BlockStageConfirmed, ContractCreated
<1>5. /\ Len(results) + 1 = frame.case
      /\ DOMAIN results' = DOMAIN results \cup {frame.case}
      /\ \A k \in DOMAIN results : results'[k] = results[k]
      /\ results'[frame.case].verdict = verdict /\ results'[frame.case].hashes = frame.hashes
      /\ results'[frame.case].receipt = frame.receipt
      /\ results'[frame.case].contract = frame.contract
      /\ results'[frame.case].storage = storage
  <2>1. /\ Len(results) \in Nat /\ DOMAIN results = 1..Len(results)
        /\ DOMAIN results' = 1..(Len(results) + 1)
        /\ Len(results) = frame.case - 1
    BY <1>1, AppendFacts, SequenceFacts DEF LocalInv, ResultsTyped
  <2>2. Len(results) + 1 = frame.case
    BY <2>1, SequenceFacts, CaseConstants DEF LocalInv, FrameTyped
  <2>3. \A k \in DOMAIN results : results'[k] = results[k]
    BY <1>1, AppendFacts DEF LocalInv, ResultsTyped
  <2>4. results'[Len(results) + 1] =
          [case |-> frame.case, verdict |-> verdict, hashes |-> frame.hashes,
           receipt |-> frame.receipt, contract |-> frame.contract, error |-> frame.error,
           storage |-> storage]
    BY <1>1, AppendFacts DEF LocalInv, ResultsTyped
  <2>5. QED BY <2>1, <2>2, <2>3, <2>4
<1>6. PassedCasesRan'
  <2> SUFFICES ASSUME NEW k \in DOMAIN results', results'[k].verdict = "passed",
                      NEW i \in DOMAIN results'[k].hashes,
                      NEW hash, hash = results'[k].hashes[i],
                      hash.step[2] < Len(Cases[k].steps),
                      Cases[k].steps[hash.step[2] + 1].action = "wait_receipt"
               PROVE  \E j \in Ran(hash)' : chain'[j].ok = Cases[k].steps[hash.step[2]].status
    BY DEF PassedCasesRan
  <2>1. CASE k \in DOMAIN results
    <3>1. results'[k] = results[k]
      BY <1>5, <2>1
    <3>2. \E j \in Ran(hash) : chain[j].ok = Cases[k].steps[hash.step[2]].status
      BY <2>1, <3>1 DEF ChainInv, PassedCasesRan
    <3>3. QED BY <1>2, <3>2 DEF Ran
  <2>2. CASE k = frame.case
    <3>1. verdict = "passed" /\ i \in DOMAIN frame.hashes /\ hash = frame.hashes[i]
          /\ Cases[k] = Case
      BY <1>5, <2>2 DEF Case
    <3>2. hash.step[2] \in Nat /\ frame.pc \in Nat
      BY <3>1 DEF ChainInv, HashesTrue, LocalInv, FrameTyped
    <3>3. Len(Case.steps) \in Nat
      <4>1. frame.case <= Len(Cases)
        BY DEF Records
      <4>2. frame.case \in DOMAIN Cases
        BY <4>1, CaseConstants, SequenceFacts DEF LocalInv, FrameTyped
      <4>3. QED BY <4>2, CaseConstants, SequenceFacts DEF Case
    <3>4. hash.step[2] + 1 < frame.pc
      BY <1>1, <3>1, <3>2, <3>3
    <3>5. Confirmed(hash)
      BY <3>1, <3>4 DEF ChainInv, HashesTrue
    <3>6. QED BY <1>2, <3>1, <3>5 DEF Confirmed, ExpectedStatus, Lookup, Ran
  <2>3. QED BY <1>5, <2>1, <2>2
<1>7. StorageIsOfReceiptBlock'
  <2> SUFFICES ASSUME NEW k \in DOMAIN results',
                      results'[k].storage # None, results'[k].receipt # None,
                      NEW address, address = results'[k].contract,
                      NEW block, block = results'[k].receipt.block
               PROVE  results'[k].storage = StorageAt(address, block)'
    BY DEF StorageIsOfReceiptBlock
  <2>1. StorageAt(address, block)' = StorageAt(address, block)
    BY <1>2 DEF StorageAt, UpTo
  <2>2. CASE k \in DOMAIN results
    <3>1. results'[k] = results[k]
      BY <1>5, <2>2
    <3>2. results[k].storage = StorageAt(results[k].contract, results[k].receipt.block)
      BY <2>2, <3>1 DEF ChainInv, StorageIsOfReceiptBlock
    <3>3. QED BY <2>1, <3>1, <3>2
  <2>3. CASE k = frame.case
    <3>1. storage # None /\ frame.receipt # None
      BY <1>5, <2>3
    <3>2. /\ rpc.method = "eth_getStorageAt"
          /\ rpc.arg = [address |-> frame.contract, block |-> StorageBlock]
      BY <1>1, <3>1 DEF LocalInv, CallMatches
    <3>3. rpc.arg.address = frame.contract /\ rpc.arg.block = frame.receipt.block
      BY <3>1, <3>2 DEF StorageBlock
    <3>4. frame.receipt.block # None
      BY <3>1, ExecutionConstants DEF LocalInv, BlocksExist, BlocksTyped
    <3>5. storage = StorageAt(frame.contract, frame.receipt.block)
      BY <1>1, <3>1, <3>2, <3>3, <3>4 DEF LocalInv, AnswersTrue, TrueAnswer
    <3>6. QED BY <1>5, <2>1, <2>3, <3>5
  <2>4. QED BY <1>5, <2>2, <2>3
<1>8. QED BY <1>2, <1>4, <1>6, <1>7 DEF ChainInv

\* Outside the interpreter, and while the chain does not change, only what is
\* on its way to the chain matters.
LEMMA OutsideChain ==
  ASSUME IInv, LocalInv, ChainInv, UNCHANGED <<frame, results>>, chain' = chain,
         \A t \in Submitted' \cup pool' :
           \/ t \in Submitted \cup pool
           \/ t.kind = "call" /\ t.to # None => \E i \in DOMAIN chain : Created(t.to, t.step[1], i)
  PROVE  ChainInv'
<1>1. HashesTrue' /\ BlockStageConfirmed' /\ ContractCreated'
  BY FramePartKept DEF ChainExtends
<1>2. CallsWaiting' /\ CallsOwnContract'
  BY NodePartKept
<1>3. PassedCasesRan' /\ StorageIsOfReceiptBlock'
  BY ResultsPartKept
<1>4. QED BY <1>1, <1>2, <1>3 DEF ChainInv

\* What is sent calls the contract of its own case.
LEMMA SendChain ==
  ASSUME IInv, LocalInv, ChainInv, Rpc!Send, UNCHANGED <<frame, results, chainVars>>
  PROVE  ChainInv'
<1>1. wire' = wire \cup {Rpc!Request} /\ chain' = chain /\ pool' = pool
  BY DEF Rpc!Send, chainVars
<1>2. Rpc!Request.method = rpc.method /\ Rpc!Request.arg = rpc.arg
  BY DEF Rpc!Request
<1>3. CASE rpc.method \notin Submissions
  <2>1. Submitted' = Submitted
    BY <1>1, <1>2, <1>3 DEF Submitted
  <2>2. QED BY <1>1, <2>1, OutsideChain
<1>4. CASE rpc.method \in Submissions
  <2>1. Submitted' = Submitted \cup {rpc.arg}
    BY <1>1, <1>2, <1>4 DEF Submitted
  <2>2. frame.stage = "send"
    BY <1>4 DEF IInv, SubmissionInv, OnlySendSubmits, InProgress, Rpc!Send
  <2>3. rpc.arg = Prepared(rpc.arg.nonce)
    BY <2>2 DEF LocalInv, CallMatches
  <2>4. /\ rpc.arg.step[1] = frame.case
        /\ rpc.arg.to # None => frame.contract # None /\ rpc.arg.to = frame.contract
    BY <2>3 DEF Prepared
  <2>5. rpc.arg.to # None => \E i \in DOMAIN chain : Created(rpc.arg.to, rpc.arg.step[1], i)
    BY <2>4 DEF ChainInv, ContractCreated
  <2>6. QED BY <1>1, <2>1, <2>5, OutsideChain
<1>5. QED BY <1>3, <1>4

LEMMA TransportChain == ASSUME IInv, LocalInv, ChainInv, Transport PROVE ChainInv'
<1>1. UNCHANGED <<frame, results, chainVars>> /\ chain' = chain /\ pool' = pool
  BY DEF Transport, chainVars
<1>2. CASE Rpc!Send
  BY <1>1, <1>2, SendChain
<1>3. CASE ~Rpc!Send
  <2>1. wire' \subseteq wire
    BY <1>3 DEF Transport, Rpc!ClientStep, Rpc!ConnectFails, Rpc!ReadTimeout, Rpc!BadResponse,
                Rpc!ConnectionReset, Rpc!TakeAnswer, Rpc!WireAfterAbandon
  <2>2. Submitted' \subseteq Submitted
    BY <2>1 DEF Submitted
  <2>3. QED BY <1>1, <2>2, OutsideChain
<1>4. QED BY <1>2, <1>3

LEMMA ServeChain == ASSUME IInv, LocalInv, ChainInv, ServeRead \/ ServeSubmission PROVE ChainInv'
<1>1. PICK r, a : /\ r \in wire /\ Rpc!Handle(r, a) /\ UNCHANGED <<frame, results>>
                  /\ \/ UNCHANGED chainVars
                     \/ Accept(Signed(r.arg)) /\ r.method \in Submissions
  BY DEF ServeRead, ServeSubmission
<1>2. wire' \subseteq wire
  BY <1>1 DEF Rpc!Handle
<1>3. Submitted' \subseteq Submitted
  BY <1>2 DEF Submitted
<1>4. r.method \in Submissions => r.arg \in Submitted /\ Signed(r.arg) = r.arg
  BY <1>1 DEF Submitted, Signed, IInv, SubmissionInv, NoncesGiven
<1>5. chain' = chain /\ pool' \subseteq pool \cup Submitted
  BY <1>1, <1>4 DEF chainVars, Accept
<1>6. QED BY <1>1, <1>3, <1>5, OutsideChain

\* A block: what is executed called a contract that is on the chain.
LEMMA MineChain == ASSUME IInv, LocalInv, ChainInv, MineBlock PROVE ChainInv'
<1>1. ChainGrows /\ UNCHANGED <<frame, results, rpc, wire>>
  BY MineGrows DEF rpcVars
<1>2. ChainExtends
  BY <1>1 DEF ChainGrows, ChainExtends
<1>3. Submitted' = Submitted /\ pool' \subseteq pool
  BY <1>1 DEF Submitted, ChainGrows
<1>4. CallsWaiting'
  BY <1>2, <1>3, ExtensionFacts DEF ChainInv, CallsWaiting
<1>5. CallsOwnContract'
  <2> SUFFICES ASSUME NEW j \in DOMAIN chain', chain'[j].tx.kind = "call", chain'[j].tx.to # None,
                      NEW address, address = chain'[j].tx.to,
                      NEW case, case = chain'[j].tx.step[1]
               PROVE  \E i \in 1..(j - 1) : Created(address, case, i)'
    BY DEF CallsOwnContract, Created
  <2>1. Len(chain) \in Nat /\ DOMAIN chain = 1..Len(chain)
    BY LenProperties DEF IInv, ChainOK
  <2>2. CASE j \in DOMAIN chain
    <3>1. chain'[j] = chain[j]
      BY <1>2, <2>2 DEF ChainExtends
    <3>2. PICK i \in 1..(j - 1) : Created(address, case, i)
      BY <2>2, <3>1 DEF ChainInv, CallsOwnContract, Created
    <3>3. i \in DOMAIN chain /\ chain'[i] = chain[i]
      BY <1>2, <2>1, <2>2 DEF ChainExtends
    <3>4. QED BY <3>1, <3>2, <3>3 DEF Created
  <2>3. CASE j \notin DOMAIN chain
    <3>1. chain'[j].tx \in pool /\ j \in Nat /\ \A i \in DOMAIN chain : i < j
      BY <1>1, <2>3 DEF ChainGrows
    <3>2. PICK i \in DOMAIN chain : Created(address, case, i)
      BY <3>1 DEF ChainInv, CallsWaiting
    <3>3. i \in 1..(j - 1)
      BY <2>1, <3>1, <3>2
    <3>4. chain'[i] = chain[i]
      BY <1>2 DEF ChainExtends
    <3>5. QED BY <3>2, <3>3, <3>4 DEF Created
  <2>4. QED BY <2>2, <2>3
<1>6. HashesTrue' /\ BlockStageConfirmed' /\ ContractCreated'
  BY <1>1, <1>2, FramePartKept
<1>7. PassedCasesRan' /\ StorageIsOfReceiptBlock'
  BY <1>1, ResultsPartKept
<1>8. QED BY <1>4, <1>5, <1>6, <1>7 DEF ChainInv

\* The pool forgets, or another client of the account transfers.
LEMMA PoolChain == ASSUME IInv, LocalInv, ChainInv, DropTransaction \/ OtherClient PROVE ChainInv'
<1>1. UNCHANGED <<frame, results, wire>> /\ chain' = chain
  BY DEF DropTransaction, Drop, OtherClient, Accept, rpcVars
<1>2. Submitted' = Submitted
  BY <1>1 DEF Submitted
<1>3. \A t \in pool' : t \in pool \/ t.kind # "call"
  BY DEF DropTransaction, Drop, OtherClient, Accept, Foreign
<1>4. QED BY <1>1, <1>2, <1>3, OutsideChain

LEMMA InitChain == Init => ChainInv
<1> SUFFICES ASSUME Init PROVE ChainInv
  OBVIOUS
<1>1. /\ frame.stage = "step" /\ frame.hashes = <<>> /\ frame.contract = None
      /\ results = <<>> /\ chain = <<>> /\ wire = {} /\ pool = {}
  BY DEF Init, Frame, ChainInit
<1>2. DOMAIN <<>> = {}
  BY EmptySeq
<1>3. QED BY <1>1, <1>2 DEF ChainInv, HashesTrue, BlockStageConfirmed, ContractCreated, CallsWaiting,
     PassedCasesRan, CallsOwnContract, StorageIsOfReceiptBlock, Submitted

LEMMA ChainStep == IInv /\ LocalInv /\ ChainInv /\ [Next]_vars => ChainInv'
<1> SUFFICES ASSUME IInv, LocalInv, ChainInv, [Next]_vars PROVE ChainInv'
  OBVIOUS
<1>1. CASE Transport
  BY <1>1, TransportChain
<1>2. CASE Interpret
  BY <1>2, InterpretEffect, WithinChain, PassesChain, SendsChain, ReceivesChain, RecordsChain
     DEF IInv, SubmissionInv
<1>3. CASE ServeRead \/ ServeSubmission \/ MineBlock \/ DropTransaction \/ OtherClient
  BY <1>3, ServeChain, MineChain, PoolChain
<1>4. CASE UNCHANGED vars
  <2>1. UNCHANGED <<frame, results, wire>> /\ chain' = chain /\ pool' = pool
    BY <1>4 DEF vars, rpcVars, chainVars
  <2>2. Submitted' = Submitted
    BY <2>1 DEF Submitted
  <2>3. QED BY <2>1, <2>2, OutsideChain
<1>5. QED BY <1>1, <1>2, <1>3, <1>4 DEF Next, Harness, Node, Terminated

LEMMA ChainInvariance == Spec => [](IInv /\ LocalInv /\ ChainInv)
<1>1. Init => IInv /\ LocalInv /\ ChainInv
  BY InitInv, LocalInit, InitChain
<1>2. IInv /\ LocalInv /\ ChainInv /\ [Next]_vars => (IInv /\ LocalInv /\ ChainInv)'
  BY StepInv, LocalStep, ChainStep
<1>3. QED BY <1>1, <1>2, PTL DEF Spec

\* A case is passed only if every transaction it waited for is on the chain with
\* the status its step expects: the receipt is looked up by the hash the node
\* answered, and its status is compared before the step is over
\* (executor.py:1113-1129).
THEOREM PassedCasesAreTrue == Spec => []PassedCasesRan
<1>1. ChainInv => PassedCasesRan
  BY DEF ChainInv
<1>2. QED BY <1>1, ChainInvariance, PTL

\* Every call of $last_contract that reaches the chain follows the successful
\* creation of that contract by the same case: the address comes from a receipt,
\* and execute_case starts with none (executor.py:1104-1105, 1132-1133,
\* 1251-1257).
THEOREM ContractsAreOwn == Spec => []CallsOwnContract
<1>1. ChainInv => CallsOwnContract
  BY DEF ChainInv
<1>2. QED BY <1>1, ChainInvariance, PTL

\* The storage of a result is the contract's at the block of its last receipt,
\* however far the replicas lag and whatever is mined while it is read
\* (executor.py:1169-1183, 1235-1249).
THEOREM StorageIsTrue == Spec => []StorageIsOfReceiptBlock
<1>1. ChainInv => StorageIsOfReceiptBlock
  BY DEF ChainInv
<1>2. QED BY <1>1, ChainInvariance, PTL

-----------------------------------------------------------------------------
(* RefusalInv is an invariant. *)

\* A step of the interpreter makes no transaction known.
LEMMA NodeIdleKnown == NodeIdle => Known' = Known
  BY DEF NodeIdle, chainVars, Known, Submitted

LEMMA CaseIsOne ==
  ASSUME LocalInv, frame.case <= Len(Cases)
  PROVE  /\ frame.case \in DOMAIN Cases /\ IsSequence(Case.steps)
         /\ Len(Case.steps) \in Nat /\ DOMAIN Case.steps = 1..Len(Case.steps)
<1>1. frame.case \in DOMAIN Cases
  BY CaseConstants, SequenceFacts DEF LocalInv, FrameTyped
<1>2. IsSequence(Case.steps)
  BY <1>1, CaseConstants DEF Case
<1>3. QED BY <1>1, <1>2, SequenceFacts

LEMMA RejectedKept ==
  ASSUME RejectedUnknown, results' = results, Known' = Known
  PROVE  RejectedUnknown'
  BY DEF RejectedUnknown, Unknown

LEMMA WithinRefusal == ASSUME IInv, LocalInv, RefusalInv, Within PROVE RefusalInv'
<1>1. /\ frame'.case = frame.case /\ frame'.pc = frame.pc /\ results' = results
      /\ Known' = Known
      /\ frame'.stage = "send" => frame.stage \notin {"send", "aborted"} /\ rpc'.phase = "sending"
  BY NodeIdleKnown DEF Within, SameStep
<1>2. Case' = Case /\ Cur' = Cur
  BY <1>1 DEF Case, Cur
<1>3. RefusedUnknown'
  BY <1>1, <1>2 DEF RefusalInv, RefusedUnknown, Unknown
<1>4. RawPending'
  <2>1. frame'.stage = "send" => Unknown(Cur)
    BY <1>1 DEF IInv, SubmissionInv, UnsentStepUnknown, Unknown, Cur
  <2>2. Unknown(Cur) => Unknown(Cur)'
    BY <1>1, <1>2 DEF Unknown
  <2>3. QED BY <1>1, <2>1, <2>2 DEF RawPending
<1>5. QED BY <1>1, <1>3, <1>4, RejectedKept DEF RefusalInv

\* The next step: an expected refusal has come, or the step sent nothing.
LEMMA RefusedPass ==
  ASSUME IInv, LocalInv, RefusalInv, NodeIdle, results' = results, frame.case <= Len(Cases),
         frame'.case = frame.case, frame'.pc = frame.pc + 1, frame'.stage = "step",
         frame.pc \in DOMAIN Case.steps /\ Step.expectError # None => Unknown(Cur)
  PROVE  RefusalInv'
<1>1. Known' = Known /\ Case' = Case
  BY NodeIdleKnown DEF Case
<1>2. RawPending'
  BY DEF RawPending
<1>3. RefusedUnknown'
  <2> SUFFICES ASSUME NEW pc \in 1..(frame'.pc - 1), pc <= Len(Case.steps),
                      Case.steps[pc].expectError # None
               PROVE  Unknown(<<frame.case, pc>>)
    BY <1>1 DEF RefusedUnknown, Unknown
  <2>1. frame.pc \in Nat \ {0}
    BY DEF LocalInv, FrameTyped
  <2>2. CASE pc = frame.pc
    <3>1. frame.pc \in DOMAIN Case.steps
      BY <2>1, <2>2, CaseIsOne
    <3>2. QED BY <2>2, <3>1 DEF Step, Cur
  <2>3. CASE pc # frame.pc
    <3>1. pc \in 1..(frame.pc - 1)
      BY <2>1, <2>3
    <3>2. QED BY <3>1 DEF RefusalInv, RefusedUnknown
  <2>4. QED BY <2>2, <2>3
<1>4. QED BY <1>1, <1>2, <1>3, RejectedKept DEF RefusalInv

\* Before its submission begins, the transaction of a step is nowhere.
LEMMA UnsentUnknown ==
  ASSUME IInv, frame.stage \notin {"send", "aborted"}
  PROVE  Unknown(Cur)
  BY DEF IInv, SubmissionInv, UnsentStepUnknown, Unknown, Cur

LEMMA PassesRefusal == ASSUME IInv, LocalInv, RefusalInv, Passes PROVE RefusalInv'
<1>1. CASE frame.stage = "send"
  <2>1. ASSUME frame.pc \in DOMAIN Case.steps, Step.expectError # None PROVE Unknown(Cur)
    <3>1. Step.action = "eth_sendRawTransaction"
      BY <2>1, CaseIsOne, CaseConstants DEF Passes, Step, Case
    <3>2. rpc.method = RawTx
      BY <1>1, <3>1 DEF LocalInv, CallMatches, SubmitMethod
    <3>3. QED BY <1>1, <3>2 DEF RefusalInv, RawPending, Passes
  <2>2. QED BY <2>1, RefusedPass DEF Passes
<1>2. CASE frame.stage # "send"
  BY <1>2, UnsentUnknown, RefusedPass DEF Passes
<1>3. QED BY <1>1, <1>2

LEMMA SendsRefusal == ASSUME IInv, LocalInv, RefusalInv, Sends PROVE RefusalInv'
<1>1. Step.expectError = None
  BY DEF Sends
<1>2. NodeIdle /\ results' = results /\ frame.case <= Len(Cases)
      /\ frame'.case = frame.case /\ frame'.pc = frame.pc + 1 /\ frame'.stage = "step"
  BY DEF Sends
<1>3. QED BY <1>1, <1>2, RefusedPass

LEMMA ReceivesRefusal == ASSUME IInv, LocalInv, RefusalInv, Receives PROVE RefusalInv'
<1>1. /\ frame'.case = frame.case /\ results' = results /\ NodeIdle
      /\ frame.stage = "poll" /\ frame.case <= Len(Cases)
      /\ \/ frame'.stage = "block" /\ frame'.pc = frame.pc
         \/ frame'.stage = "step" /\ frame'.pc = frame.pc + 1
  BY DEF Receives
<1>2. CASE frame'.pc = frame.pc + 1 /\ frame'.stage = "step"
  BY <1>1, <1>2, UnsentUnknown, RefusedPass
<1>3. CASE frame'.pc = frame.pc /\ frame'.stage = "block"
  <2>1. Known' = Known /\ Case' = Case
    BY <1>1, NodeIdleKnown DEF Case
  <2>2. RefusedUnknown'
    BY <1>1, <1>3, <2>1 DEF RefusalInv, RefusedUnknown, Unknown
  <2>3. RawPending'
    BY <1>3 DEF RawPending
  <2>4. QED BY <1>1, <2>1, <2>2, <2>3, RejectedKept DEF RefusalInv
<1>4. QED BY <1>1, <1>2, <1>3

\* A case passes only after its last step.
LEMMA RecordsRefusal == ASSUME IInv, LocalInv, RefusalInv, Records PROVE RefusalInv'
<1>1. PICK verdict, storage :
        /\ results' = Append(results,
             [case |-> frame.case, verdict |-> verdict, hashes |-> frame.hashes,
              receipt |-> frame.receipt, contract |-> frame.contract, error |-> frame.error,
              storage |-> storage])
        /\ verdict = "passed" => frame.pc > Len(Case.steps)
  BY DEF Records
<1>2. /\ frame'.stage = "step" /\ frame'.pc = 1 /\ NodeIdle /\ frame.case <= Len(Cases)
  BY DEF Records, Frame
<1>3. RawPending' /\ RefusedUnknown'
  BY <1>2 DEF RawPending, RefusedUnknown
<1>4. /\ DOMAIN results' = DOMAIN results \cup {frame.case}
      /\ \A k \in DOMAIN results : results'[k] = results[k]
      /\ results'[frame.case].verdict = verdict
  <2>1. /\ Len(results) \in Nat /\ DOMAIN results = 1..Len(results)
        /\ DOMAIN results' = 1..(Len(results) + 1)
        /\ Len(results) = frame.case - 1
    BY <1>1, AppendFacts, SequenceFacts DEF LocalInv, ResultsTyped
  <2>2. Len(results) + 1 = frame.case
    BY <2>1, SequenceFacts, CaseConstants DEF LocalInv, FrameTyped
  <2>3. \A k \in DOMAIN results : results'[k] = results[k]
    BY <1>1, AppendFacts DEF LocalInv, ResultsTyped
  <2>4. results'[Len(results) + 1].verdict = verdict
    BY <1>1, AppendFacts DEF LocalInv, ResultsTyped
  <2>5. QED BY <2>1, <2>2, <2>3, <2>4
<1>5. RejectedUnknown'
  <2> SUFFICES ASSUME NEW k \in DOMAIN results', results'[k].verdict = "passed",
                      results'[k].error # None,
                      NEW pc \in DOMAIN Cases[k].steps, Cases[k].steps[pc].expectError # None
               PROVE  Unknown(<<k, pc>>)'
    BY DEF RejectedUnknown
  <2>1. Known' = Known
    BY <1>2, NodeIdleKnown
  <2>2. CASE k \in DOMAIN results
    <3>1. results'[k] = results[k]
      BY <1>4, <2>2
    <3>2. Unknown(<<k, pc>>)
      BY <2>2, <3>1 DEF RefusalInv, RejectedUnknown
    <3>3. QED BY <2>1, <3>2 DEF Unknown
  <2>3. CASE k = frame.case
    <3>1. pc \in 1..Len(Case.steps) /\ Case.steps[pc].expectError # None
          /\ Len(Case.steps) \in Nat
      BY <1>2, <2>3, CaseIsOne DEF Case
    <3>2. frame.pc > Len(Case.steps) /\ frame.pc \in Nat
      BY <1>1, <1>4, <2>3 DEF LocalInv, FrameTyped
    <3>3. pc \in 1..(frame.pc - 1)
      BY <3>1, <3>2
    <3>4. Unknown(<<frame.case, pc>>)
      BY <1>2, <3>1, <3>3 DEF RefusalInv, RefusedUnknown
    <3>5. QED BY <2>1, <2>3, <3>4 DEF Unknown
  <2>4. QED BY <1>4, <2>2, <2>3
<1>6. QED BY <1>3, <1>5 DEF RefusalInv

\* Outside the interpreter, only the transaction of the current step and those of
\* other clients become known.
LEMMA OldUnknownKept ==
  ASSUME IInv, LocalInv, RefusalInv, UNCHANGED <<frame, results>>,
         \A t \in Known' : t \in Known \/ t.step = Cur \/ t.step[1] = 0
  PROVE  RefusedUnknown' /\ RejectedUnknown'
<1>1. ASSUME NEW k \in Nat \ {0}, NEW pc, <<k, pc>> # Cur, Unknown(<<k, pc>>)
      PROVE  Unknown(<<k, pc>>)'
  <2> SUFFICES ASSUME NEW t \in Known', t.step = <<k, pc>> PROVE FALSE
    BY DEF Unknown
  <2>1. t.step[1] = k
    OBVIOUS
  <2>2. QED BY <1>1, <2>1 DEF Unknown
<1>2. RefusedUnknown'
  <2> SUFFICES ASSUME NEW pc \in 1..(frame.pc - 1), frame.case <= Len(Cases),
                      pc <= Len(Case.steps), Case.steps[pc].expectError # None,
                      NEW k, k = frame.case
               PROVE  Unknown(<<k, pc>>)'
    BY DEF RefusedUnknown, Case
  <2>1. Unknown(<<k, pc>>)
    BY DEF RefusalInv, RefusedUnknown
  <2>2. k \in Nat \ {0} /\ frame.pc \in Nat
    BY CaseConstants, SequenceFacts DEF LocalInv, FrameTyped
  <2>3. <<k, pc>> # Cur
    BY <2>2 DEF Cur
  <2>4. QED BY <1>1, <2>1, <2>2, <2>3
<1>3. RejectedUnknown'
  <2> SUFFICES ASSUME NEW k \in DOMAIN results, results[k].verdict = "passed",
                      results[k].error # None,
                      NEW pc \in DOMAIN Cases[k].steps, Cases[k].steps[pc].expectError # None
               PROVE  Unknown(<<k, pc>>)'
    BY DEF RejectedUnknown
  <2>1. Unknown(<<k, pc>>)
    BY DEF RefusalInv, RejectedUnknown
  <2>2. k \in Nat \ {0} /\ k # frame.case
    <3>1. /\ Len(results) \in Nat /\ DOMAIN results = 1..Len(results)
          /\ Len(results) = frame.case - 1
      BY SequenceFacts DEF LocalInv, ResultsTyped
    <3>2. frame.case \in Nat
      BY CaseConstants, SequenceFacts DEF LocalInv, FrameTyped
    <3>3. QED BY <3>1, <3>2
  <2>3. <<k, pc>> # Cur
    BY <2>2 DEF Cur
  <2>4. QED BY <1>1, <2>1, <2>2, <2>3
<1>4. QED BY <1>2, <1>3

\* A raw transaction that is on its way is with no node and has no answer yet,
\* and goes nowhere twice.
LEMMA SendRefusal ==
  ASSUME IInv, LocalInv, RefusalInv, Rpc!Send, UNCHANGED <<frame, results, chainVars>>
  PROVE  RefusalInv'
<1>1. /\ rpc'.method = rpc.method /\ rpc'.outcome = rpc.outcome /\ rpc'.phase = "waiting"
      /\ rpc.phase = "sending" /\ reply' = reply /\ wire' = wire \cup {Rpc!Request}
      /\ Rpc!Request' = Rpc!Request
  BY DEF Rpc!Send, Rpc!Request, IInv, RpcOK
<1>2. chain' = chain /\ pool' = pool /\ Cur' = Cur
  BY DEF chainVars, Cur
<1>3. Rpc!Request.method = rpc.method /\ Rpc!Request.arg = rpc.arg
  BY DEF Rpc!Request
<1>4. \A t \in Known' : t \in Known \/ t.step = Cur
  <2>1. CASE rpc.method \notin Submissions
    BY <1>1, <1>2, <1>3, <2>1 DEF Known, Submitted
  <2>2. CASE rpc.method \in Submissions
    <3>1. frame.stage = "send"
      BY <1>1, <2>2 DEF IInv, SubmissionInv, OnlySendSubmits, InProgress
    <3>2. rpc.arg.step = Cur
      BY <3>1 DEF IInv, SubmissionInv, SubmissionIsPrepared, Cur
    <3>3. QED BY <1>1, <1>2, <1>3, <3>2 DEF Known, Submitted
  <2>3. QED BY <2>1, <2>2
<1>5. RawPending'
  <2> SUFFICES ASSUME frame.stage = "send", rpc.method = RawTx
               PROVE  /\ \A r \in wire' : r.method \in Submissions /\ r.arg.step = Cur
                                            => r = Rpc!Request
                      /\ \A t \in pool \cup {chain[i].tx : i \in DOMAIN chain} : t.step # Cur
                      /\ reply = {}
    BY <1>1, <1>2 DEF RawPending
  <2>1. Unknown(Cur)
    BY <1>1 DEF RefusalInv, RawPending
  <2>2. reply = {}
    BY <1>1 DEF IInv, SubmissionInv, NonceAnswers
  <2>3. QED BY <1>1, <2>1, <2>2 DEF Unknown, Known, Submitted
<1>6. RefusedUnknown' /\ RejectedUnknown'
  BY <1>4, OldUnknownKept
<1>7. QED BY <1>5, <1>6 DEF RefusalInv

\* No attempt of a raw transaction follows a failure after it was sent.
LEMMA AbandonRefusal ==
  ASSUME IInv, LocalInv, RefusalInv, Transport, ~Rpc!Send
  PROVE  RefusalInv'
<1>1. UNCHANGED <<frame, results>> /\ chain' = chain /\ pool' = pool /\ wire' \subseteq wire
  BY DEF Transport, Rpc!ClientStep, Rpc!ConnectFails, Rpc!ReadTimeout, Rpc!BadResponse,
         Rpc!ConnectionReset, Rpc!TakeAnswer, Rpc!WireAfterAbandon, chainVars
<1>2. Known' \subseteq Known /\ Cur' = Cur
  BY <1>1 DEF Known, Submitted, Cur
<1>3. Unknown(Cur) => Unknown(Cur)'
  BY <1>2 DEF Unknown
<1>4. rpc'.method = rpc.method
  BY ClientEffect DEF Transport
<1>5. ASSUME frame.stage = "send", rpc.method = RawTx
      PROVE  /\ rpc'.phase # "waiting"
             /\ rpc'.phase = "sending" => Unknown(Cur)
             /\ rpc'.phase = "returned" /\ rpc'.outcome.kind = "answer" /\ ~rpc'.outcome.value.ok
                  => Unknown(Cur)
  <2>1. ASSUME NEW kind \in {"timeout", "transport"}, Rpc!ConnectFails(kind)
        PROVE  /\ rpc'.phase # "waiting"
               /\ rpc'.phase = "sending" => Unknown(Cur)
               /\ rpc'.phase = "returned" => rpc'.outcome.kind # "answer"
    <3>1. rpc.phase = "sending" /\ (Rpc!NextAttempt \/ Rpc!Return(Rpc!Raised(kind)))
      BY <2>1 DEF Rpc!ConnectFails
    <3>2. Unknown(Cur)
      BY <1>5, <3>1 DEF RefusalInv, RawPending
    <3>3. CASE Rpc!NextAttempt
      BY <3>2, <3>3 DEF Rpc!NextAttempt, IInv, RpcOK
    <3>4. CASE Rpc!Return(Rpc!Raised(kind))
      <4>1. rpc'.phase = "returned" /\ rpc'.outcome = Rpc!Raised(kind)
        BY <3>4 DEF Rpc!Return, IInv, RpcOK
      <4>2. QED BY <4>1 DEF Rpc!Raised
    <3>5. QED BY <3>1, <3>3, <3>4
  <2>2. CASE Rpc!ReadTimeout \/ Rpc!BadResponse \/ Rpc!ConnectionReset
    <3>1. PICK kind \in {"timeout", "transport", "uncaught"} : Rpc!Return(Rpc!Raised(kind))
      BY <1>5, <2>2 DEF Rpc!ReadTimeout, Rpc!RetriesTimeout, Rpc!BadResponse,
                        Rpc!ConnectionReset, Rpc!RawTx, RawTx
    <3>2. rpc'.phase = "returned" /\ rpc'.outcome = Rpc!Raised(kind)
      BY <3>1 DEF Rpc!Return, IInv, RpcOK
    <3>3. QED BY <3>2 DEF Rpc!Raised
  <2>3. CASE Rpc!TakeAnswer
    <3>1. PICK a \in reply : Rpc!Return(Rpc!Answered(a))
      BY <2>3 DEF Rpc!TakeAnswer
    <3>2. rpc.phase = "waiting"
      BY <2>3 DEF Rpc!TakeAnswer
    <3>3. rpc'.phase = "returned" /\ rpc'.outcome = Rpc!Answered(a)
      BY <3>1 DEF Rpc!Return, IInv, RpcOK
    <3>4. Rpc!Answered(a).value = a
      BY DEF Rpc!Answered
    <3>5. ~a.ok => Unknown(Cur)
      BY <1>5, <3>1, <3>2 DEF RefusalInv, RawPending
    <3>6. QED BY <3>3, <3>4, <3>5
  <2>4. QED BY <2>1, <2>2, <2>3 DEF Transport, Rpc!ClientStep
<1>6. RawPending'
  BY <1>1, <1>2, <1>3, <1>4, <1>5 DEF RawPending
<1>7. RefusedUnknown' /\ RejectedUnknown'
  BY <1>1, <1>2, OldUnknownKept
<1>8. QED BY <1>6, <1>7 DEF RefusalInv

\* When the node learns nothing of the current step, and answers nothing.
LEMMA NodeRefusal ==
  ASSUME IInv, LocalInv, RefusalInv, UNCHANGED <<frame, results, rpc, reply>>,
         wire' \subseteq wire,
         \A t \in pool' \cup {chain'[i].tx : i \in DOMAIN chain'} :
           \/ t \in pool \cup {chain[i].tx : i \in DOMAIN chain}
           \/ t.step # Cur /\ (t \in Known \/ t.step[1] = 0)
  PROVE  RefusalInv'
<1>1. Submitted' \subseteq Submitted /\ Cur' = Cur /\ Rpc!Request' = Rpc!Request
  BY DEF Submitted, Cur, Rpc!Request
<1>2. \A t \in Known' : t \in Known \/ (t.step # Cur /\ t.step[1] = 0)
  BY <1>1 DEF Known
<1>3. Unknown(Cur) => Unknown(Cur)'
  BY <1>1, <1>2 DEF Unknown
<1>4. RawPending'
  BY <1>1, <1>3 DEF RefusalInv, RawPending
<1>5. RefusedUnknown' /\ RejectedUnknown'
  BY <1>2, OldUnknownKept
<1>6. QED BY <1>4, <1>5 DEF RefusalInv

LEMMA ServeReadRefusal == ASSUME IInv, LocalInv, RefusalInv, ServeRead PROVE RefusalInv'
<1>1. PICK r, a : /\ r \in wire /\ Rpc!Handle(r, a) /\ r.method \in Reads
                  /\ UNCHANGED <<chainVars, frame, results>>
  BY DEF ServeRead
<1>2. /\ rpc' = rpc /\ wire' \subseteq wire /\ reply' \subseteq reply \cup {a}
      /\ reply' # reply => rpc.phase = "waiting" /\ r = Rpc!Request
  BY <1>1 DEF Rpc!Handle
<1>3. chain' = chain /\ pool' = pool /\ UNCHANGED <<frame, results>>
  BY <1>1 DEF chainVars
<1>4. CASE reply' = reply
  BY <1>2, <1>3, <1>4, NodeRefusal
<1>5. CASE reply' # reply
  <2>1. rpc.method \in Reads
    BY <1>1, <1>2, <1>5 DEF Rpc!Request
  <2>2. RawPending'
    BY <1>2, <2>1 DEF RawPending, Reads, RawTx
  <2>3. Known' \subseteq Known
    BY <1>2, <1>3 DEF Known, Submitted
  <2>4. RefusedUnknown' /\ RejectedUnknown'
    BY <1>3, <2>3, OldUnknownKept
  <2>5. QED BY <2>2, <2>4 DEF RefusalInv
<1>6. QED BY <1>4, <1>5

\* The node takes a transaction or refuses it: what it refuses is then nowhere.
LEMMA ServeSubmissionRefusal ==
  ASSUME IInv, LocalInv, RefusalInv, ServeSubmission
  PROVE  RefusalInv'
<1>1. PICK r \in {s \in wire : s.method \in Submissions} :
        LET tx == Signed(r.arg) IN
          /\ IF Refusal(tx) = "none"
             THEN Accept(tx) /\ Rpc!Handle(r, Good(tx))
             ELSE Rpc!Handle(r, Bad(Refusal(tx))) /\ UNCHANGED chainVars
          /\ UNCHANGED <<frame, results>>
  BY DEF ServeSubmission
<1>2. r \in wire /\ r.method \in Submissions /\ r.arg \in Submitted
  BY DEF Submitted
<1>3. Signed(r.arg) = r.arg
  BY <1>2 DEF Signed, IInv, SubmissionInv, NoncesGiven
<1>4. PICK a : /\ Rpc!Handle(r, a) /\ chain' = chain
               /\ \/ a.ok /\ pool' = pool \cup {r.arg}
                  \/ ~a.ok /\ pool' = pool
  BY <1>1, <1>3 DEF Good, Bad, Accept, chainVars
<1>5. /\ rpc' = rpc /\ wire' = wire \ {r} /\ UNCHANGED <<frame, results>>
      /\ reply' = IF rpc.phase = "waiting" /\ r = Rpc!Request THEN {a} ELSE reply
  BY <1>1, <1>4 DEF Rpc!Handle
<1>6. Known' \subseteq Known
  BY <1>2, <1>4, <1>5 DEF Known, Submitted
<1>7. RefusedUnknown' /\ RejectedUnknown'
  BY <1>5, <1>6, OldUnknownKept
<1>8. Cur' = Cur /\ Rpc!Request' = Rpc!Request /\ Rpc!Request.arg = rpc.arg
  BY <1>5 DEF Cur, Rpc!Request
<1>9. ASSUME frame.stage = "send", rpc.method = RawTx
      PROVE  RawPending'
  <2>1. rpc.arg.step = Cur
    BY <1>9 DEF IInv, SubmissionInv, SubmissionIsPrepared, Cur
  <2>2. Unknown(Cur) => Unknown(Cur)'
    BY <1>6, <1>8 DEF Unknown
  <2>3. CASE rpc.phase # "waiting"
    BY <1>5, <1>8, <1>9, <2>2, <2>3 DEF RefusalInv, RawPending
  <2>4. CASE rpc.phase = "waiting" /\ r.arg.step # Cur
    <3>1. reply' = reply
      BY <1>5, <1>8, <2>1, <2>4
    <3>2. QED BY <1>4, <1>5, <1>8, <1>9, <2>2, <2>4, <3>1 DEF RefusalInv, RawPending
  <2>5. CASE rpc.phase = "waiting" /\ r.arg.step = Cur
    <3>1. \A s \in wire : s.method \in Submissions /\ s.arg.step = Cur => s = r
      BY <1>2, <1>9, <2>5 DEF RefusalInv, RawPending
    <3>2. \A t \in pool \cup {chain[i].tx : i \in DOMAIN chain} : t.step # Cur
      BY <1>2, <1>9, <2>5 DEF RefusalInv, RawPending
    <3>3. \A s \in wire' : ~(s.method \in Submissions /\ s.arg.step = Cur)
      BY <1>5, <3>1
    <3>4. reply' = {a}
      BY <1>2, <1>5, <1>9, <2>5 DEF RefusalInv, RawPending
    <3>5. ~a.ok => Unknown(Cur)'
      BY <1>4, <1>8, <3>2, <3>3 DEF Unknown, Known, Submitted
    <3>6. QED BY <1>5, <1>8, <2>5, <3>3, <3>4, <3>5 DEF RawPending
  <2>6. QED BY <2>3, <2>4, <2>5
<1>10. RawPending'
  BY <1>5, <1>9 DEF RawPending
<1>11. QED BY <1>7, <1>10 DEF RefusalInv

\* Blocks, a pool that forgets, and other clients.
LEMMA WorldRefusal ==
  ASSUME IInv, LocalInv, RefusalInv, MineBlock \/ DropTransaction \/ OtherClient
  PROVE  RefusalInv'
<1>1. CASE MineBlock
  <2>1. ChainGrows /\ UNCHANGED <<rpcVars, frame, results>>
    BY <1>1, MineGrows
  <2>2. \A t \in pool' \cup {chain'[i].tx : i \in DOMAIN chain'} :
          t \in pool \cup {chain[i].tx : i \in DOMAIN chain}
    BY <2>1 DEF ChainGrows
  <2>3. QED BY <2>1, <2>2, NodeRefusal DEF rpcVars
<1>2. CASE DropTransaction
  BY <1>2, NodeRefusal DEF DropTransaction, Drop, rpcVars
<1>3. CASE OtherClient
  <2>1. UNCHANGED <<rpcVars, frame, results>> /\ chain' = chain
        /\ pool' = pool \cup {Foreign(PendingNonce)}
    BY <1>3 DEF OtherClient, Accept
  <2>2. Foreign(PendingNonce).step[1] = 0
    BY DEF Foreign
  <2>3. Foreign(PendingNonce).step # Cur
    BY <2>2 DEF Cur, IInv, FrameOK
  <2>4. QED BY <2>1, <2>2, <2>3, NodeRefusal DEF rpcVars
<1>4. QED BY <1>1, <1>2, <1>3

LEMMA InitRefusal == Init => RefusalInv
<1> SUFFICES ASSUME Init PROVE RefusalInv
  OBVIOUS
<1>1. frame.stage = "step" /\ frame.pc = 1 /\ results = <<>>
  BY DEF Init, Frame
<1>2. DOMAIN <<>> = {}
  BY EmptySeq
<1>3. QED BY <1>1, <1>2 DEF RefusalInv, RawPending, RefusedUnknown, RejectedUnknown

LEMMA RefusalStep == IInv /\ LocalInv /\ RefusalInv /\ [Next]_vars => RefusalInv'
<1> SUFFICES ASSUME IInv, LocalInv, RefusalInv, [Next]_vars PROVE RefusalInv'
  OBVIOUS
<1>1. CASE Transport
  BY <1>1, SendRefusal, AbandonRefusal DEF Transport
<1>2. CASE Interpret
  BY <1>2, InterpretEffect, WithinRefusal, PassesRefusal, SendsRefusal, ReceivesRefusal,
     RecordsRefusal DEF IInv, SubmissionInv
<1>3. CASE ServeRead \/ ServeSubmission \/ MineBlock \/ DropTransaction \/ OtherClient
  BY <1>3, ServeReadRefusal, ServeSubmissionRefusal, WorldRefusal
<1>4. CASE UNCHANGED vars
  BY <1>4, NodeRefusal DEF vars, rpcVars, chainVars
<1>5. QED BY <1>1, <1>2, <1>3, <1>4 DEF Next, Harness, Node, Terminated

\* A case that passes because the node refused a raw transaction is true: the
\* transaction is in no pool, in no block and on no wire, then and ever after,
\* since _rpc does not send a raw transaction again after a response timeout
\* (executor.py:1034-1064, 1496-1502).
THEOREM RejectionsAreReal == Spec => []RejectionIsReal
<1>1. Init => IInv /\ LocalInv /\ RefusalInv
  BY InitInv, LocalInit, InitRefusal
<1>2. IInv /\ LocalInv /\ RefusalInv /\ [Next]_vars => (IInv /\ LocalInv /\ RefusalInv)'
  BY StepInv, LocalStep, RefusalStep
<1>3. RefusalInv => RejectionIsReal
  BY DEF RefusalInv, RejectedUnknown, RejectionIsReal, Unknown, OfStep, Known, Submitted
<1>4. QED BY <1>1, <1>2, <1>3, PTL DEF Spec

-----------------------------------------------------------------------------
(* The block context.  While a block is asked for, it is the receipt's.        *)

BlockAsked ==
  frame.stage = "block" =>
    /\ frame.receipt # None
    /\ rpc.method = "eth_getBlockByNumber" /\ rpc.arg = frame.receipt.block

ContextInv == BlockAsked /\ ContextIsOfReceiptBlock

\* What can happen while a block is asked for, and after an uncaught exception.
LEMMA BlockStageSteps ==
  ASSUME Interpret, frame.stage \in {"block", "aborted"}
  PROVE  GotBlock \/ CallFails \/ RunAborts
<1>1. ~At("step") /\ ~At("wait")
  BY DEF At
<1>2. \A stage \in CallStages \ {"block"} : ~Back(stage)
  BY DEF Back, At, CallStages
<1>3. ~(BeginSubmit \/ BeginWait \/ BeginRpcCall \/ Observe \/ Poll \/ DeadlinePasses)
  BY <1>1 DEF BeginSubmit, BeginWait, BeginRpcCall, Observe, Poll, DeadlinePasses, AtStep
<1>4. ~(GotBalanceBefore \/ GotNonce \/ GotHash \/ GotRejection \/ NoReceipt \/ GotReceipt)
  BY <1>2 DEF GotBalanceBefore, GotNonce, GotHash, GotRejection, NoReceipt, GotReceipt, Result,
     CallStages
<1>5. ~(GotRpcCall \/ GotBalance \/ GotStorage \/ HeaderLags)
  BY <1>2 DEF GotRpcCall, GotBalance, GotStorage, HeaderLags, Result, CallStages
<1>6. QED BY <1>3, <1>4, <1>5 DEF Interpret

LEMMA ContextFresh ==
  ASSUME frame'.receipt = None, frame'.stage = "step"
  PROVE  ContextInv'
  BY DEF ContextInv, BlockAsked, ContextIsOfReceiptBlock

LEMMA RaiseFresh == ASSUME NEW verdict, Raise(verdict) PROVE ContextInv'
<1>1. frame' = Frame(frame.case + 1)
  BY DEF Raise, Record
<1>2. frame'.receipt = None /\ frame'.stage = "step"
  BY <1>1 DEF Frame
<1>3. QED BY <1>2, ContextFresh

\* The answer to the block that was asked for.
LEMMA BlockStepContext ==
  ASSUME LocalInv, ContextInv, Interpret, frame.stage \in {"block", "aborted"}
  PROVE  ContextInv'
<1>1. CASE GotBlock
  <2>1. /\ frame.stage = "block" /\ Value = rpc.outcome.value.value
        /\ rpc.outcome.kind = "answer" /\ rpc.outcome.value.ok
    BY <1>1 DEF GotBlock, Result, Back, At, Value
  <2>2. CASE Value = None
    BY <1>1, <2>2, RaiseFresh DEF GotBlock
  <2>3. CASE Value # None
    <3> DEFINE f == [NextStep EXCEPT !.context = Value]
    <3>1. Continue(f)
      BY <1>1, <2>3 DEF GotBlock
    <3>2. /\ f.case = frame.case /\ f.stage = "step" /\ f.receipt = frame.receipt
          /\ f.context = Value
      BY LocalsAre DEF NextStep, LocalInv, FrameTyped
    <3>3. frame' = f
      BY <3>1, ContinueFacts
    <3>4. Value = frame.receipt.block
      BY <2>1, <2>3 DEF LocalInv, AnswersTrue, TrueAnswer, ContextInv, BlockAsked
    <3> HIDE DEF f
    <3>5. frame'.context = frame'.receipt.block /\ frame'.stage = "step"
      BY <3>2, <3>3, <3>4
    <3>6. QED BY <3>5 DEF ContextInv, BlockAsked, ContextIsOfReceiptBlock
  <2>4. QED BY <2>2, <2>3
<1>2. CASE CallFails
  BY <1>2, RaiseFresh DEF CallFails
<1>3. CASE RunAborts
  <2> DEFINE f == [frame EXCEPT !.stage = "aborted"]
  <2>1. Continue(f) /\ f.stage = "aborted"
    BY <1>3, LocalsAre DEF RunAborts, LocalInv, FrameTyped
  <2>2. frame' = f
    BY <2>1, ContinueFacts
  <2>3. frame'.stage = "aborted"
    BY <2>1, <2>2
  <2>4. QED BY <2>3 DEF ContextInv, BlockAsked, ContextIsOfReceiptBlock
<1>4. QED BY <1>1, <1>2, <1>3, BlockStageSteps

LEMMA InterpretContext ==
  ASSUME IInv, LocalInv, ContextInv, Interpret
  PROVE  ContextInv'
<1>1. CASE frame.stage \in {"block", "aborted"}
  BY <1>1, BlockStepContext
<1>2. CASE frame.stage \notin {"block", "aborted"}
  <2>1. Within \/ Passes \/ Sends \/ Receives \/ Records
    BY InterpretEffect DEF IInv, SubmissionInv
  <2>2. CASE Within \/ Passes \/ Sends
    <3>1. /\ frame'.case = frame.case /\ frame'.receipt = frame.receipt
          /\ frame'.context = frame.context /\ frame'.stage # "block"
      BY <1>2, <2>2 DEF Within, SameStep, Passes, Sends
    <3>2. Case' = Case
      BY <3>1 DEF Case
    <3>3. QED BY <1>2, <3>1, <3>2 DEF ContextInv, BlockAsked, ContextIsOfReceiptBlock
  <2>3. CASE Receives
    <3>1. frame'.case = frame.case /\ Case' = Case /\ frame'.receipt # None
      BY <2>3 DEF Receives, Case
    <3>2. CASE frame'.stage = "block"
      BY <2>3, <3>1, <3>2 DEF Receives, ContextInv, BlockAsked, ContextIsOfReceiptBlock
    <3>3. CASE frame'.stage # "block"
      BY <2>3, <3>1, <3>3 DEF Receives, ContextInv, BlockAsked, ContextIsOfReceiptBlock
    <3>4. QED BY <3>2, <3>3
  <2>4. CASE Records
    <3>1. frame'.receipt = None /\ frame'.stage = "step"
      BY <2>4 DEF Records, Frame
    <3>2. QED BY <3>1, ContextFresh
  <2>5. QED BY <2>1, <2>2, <2>3, <2>4
<1>3. QED BY <1>1, <1>2

LEMMA ContextStep == IInv /\ LocalInv /\ ContextInv /\ [Next]_vars => ContextInv'
<1> SUFFICES ASSUME IInv, LocalInv, ContextInv, [Next]_vars PROVE ContextInv'
  OBVIOUS
<1>1. ASSUME frame' = frame, rpc'.method = rpc.method, rpc'.arg = rpc.arg PROVE ContextInv'
  BY <1>1 DEF ContextInv, BlockAsked, ContextIsOfReceiptBlock, Case
<1>2. CASE Interpret
  BY <1>2, InterpretContext
<1>3. CASE Transport
  BY <1>1, <1>3, ClientEffect DEF Transport
<1>4. CASE Node \/ UNCHANGED vars
  BY <1>1, <1>4 DEF Node, ServeRead, ServeSubmission, MineBlock, DropTransaction, OtherClient,
     Rpc!Handle, vars, rpcVars
<1>5. QED BY <1>2, <1>3, <1>4 DEF Next, Harness, Terminated

\* What a case says of its block is resolved with the block of its last receipt,
\* whichever replica is asked and however many receipts the case waits for
\* (executor.py:1130-1131, 1259-1267).
THEOREM ContextsAreOfReceipts == Spec => []ContextIsOfReceiptBlock
<1>1. Init => ContextInv
  <2> SUFFICES ASSUME Init PROVE ContextInv
    OBVIOUS
  <2>1. frame.receipt = None /\ frame.stage = "step"
    BY DEF Init, Frame
  <2>2. QED BY <2>1 DEF ContextInv, BlockAsked, ContextIsOfReceiptBlock
<1>2. ContextInv => ContextIsOfReceiptBlock
  BY DEF ContextInv
<1>3. QED BY <1>1, <1>2, ContextStep, LocalInvariance, PTL DEF Spec

-----------------------------------------------------------------------------
(* TypeOK: the bounds of the counters and what may be on the wire. *)

Stages == {"step", "wait", "aborted"} \cup CallStages

\* The storage is not read before the steps are over.
CountersOK(f) ==
  /\ f.stage \in Stages
  /\ f.polls \in 0..MaxPolls
  /\ f.tries \in 0..StorageAttempts
  /\ f.stage \notin {"storage", "aborted"} => f.tries = 0

TransportTyped ==
  /\ rpc.phase \in {"idle", "sending", "waiting", "returned"}
  /\ rpc.method \in Submissions \cup Reads
  /\ rpc.attempt \in 0..Rpc!Attempts
  /\ \A r \in wire : r.method \in Submissions => r.call = r.arg.step
  /\ \A h \in handled : h.request.method \in Submissions
  /\ \A a, b \in reply : a = b

VerdictsTyped == \A k \in DOMAIN results : results[k].verdict \in Verdicts

TypeInv == CountersOK(frame) /\ TransportTyped /\ VerdictsTyped

\* Every action of the interpreter calls, goes on or records.
Calls == \E f, m, arg : Call(f, m, arg) /\ m \in Submissions \cup Reads /\ CountersOK(f)
Goes == \E f : Continue(f) /\ CountersOK(f)
Reports == \E verdict, storage :
             Record(verdict, storage) /\ verdict \in Verdicts /\ UNCHANGED rpcVars

LEMMA RaiseReports ==
  ASSUME NEW verdict \in {"proof_error", "execution_error"}, Raise(verdict), UNCHANGED rpcVars
  PROVE  Reports
  BY DEF Raise, Reports, Verdicts

LEMMA SubmitCalls ==
  ASSUME LocalInv, NEW f, Submit(f), DOMAIN f = Locals, CountersOK(f), f.tries = 0
  PROVE  Calls
<1>1. CASE AsksNonce
  <2> DEFINE g == [f EXCEPT !.stage = "nonce"]
  <2>1. CountersOK(g)
    BY LocalsAre DEF CountersOK, Stages, CallStages
  <2>2. Call(g, "eth_getTransactionCount", None)
    BY <1>1 DEF Submit
  <2> HIDE DEF g
  <2>3. QED BY <2>1, <2>2 DEF Calls, Reads
<1>2. CASE ~AsksNonce
  <2> DEFINE g == [f EXCEPT !.stage = "send"]
             arg == Prepared(Step.nonce)
  <2>1. CountersOK(g)
    BY LocalsAre DEF CountersOK, Stages, CallStages
  <2>2. Call(g, SubmitMethod, arg)
    BY <1>2 DEF Submit
  <2>3. SubmitMethod \in Submissions
    BY DEF SubmitMethod, Submissions
  <2> HIDE DEF g, arg
  <2>4. QED BY <2>1, <2>2, <2>3 DEF Calls
<1>3. QED BY <1>1, <1>2

LEMMA SubmissionTyped ==
  ASSUME LocalInv, TypeInv, BeginSubmit \/ GotBalanceBefore \/ GotNonce \/ GotHash \/ GotRejection
  PROVE  Calls \/ Goes \/ Reports
<1>1. DOMAIN frame = Locals /\ CountersOK(frame)
  BY DEF LocalInv, FrameTyped, TypeInv
<1>2. CASE BeginSubmit
  <2>1. frame.stage = "step" /\ frame.tries = 0
    BY <1>1, <1>2 DEF BeginSubmit, AtStep, At, CountersOK
  <2>2. CASE \E verdict \in {"proof_error", "execution_error"} : Raise(verdict) /\ UNCHANGED rpcVars
    BY <2>2, RaiseReports
  <2>3. CASE Submit(frame)
    BY <1>1, <2>1, <2>3, SubmitCalls
  <2>4. CASE Call([frame EXCEPT !.stage = "before"], "eth_getBalance", None)
    <3> DEFINE f == [frame EXCEPT !.stage = "before"]
    <3>1. CountersOK(f) /\ Call(f, "eth_getBalance", None)
      BY <1>1, <2>1, <2>4, LocalsAre DEF CountersOK, Stages, CallStages
    <3> HIDE DEF f
    <3>2. QED BY <3>1 DEF Calls, Reads
  <2>5. QED BY <1>2, <2>2, <2>3, <2>4 DEF BeginSubmit
<1>3. CASE GotBalanceBefore
  <2> DEFINE f == [frame EXCEPT !.before = Value, !.after = Value + 1]
  <2>1. frame.stage = "before" /\ Submit(f)
    BY <1>3 DEF GotBalanceBefore, Result, Back, At
  <2>2. CountersOK(f) /\ DOMAIN f = Locals /\ f.tries = 0
    BY <1>1, <2>1, LocalsAre DEF CountersOK
  <2> HIDE DEF f
  <2>3. QED BY <2>1, <2>2, SubmitCalls
<1>4. CASE GotNonce
  <2> DEFINE f == [frame EXCEPT !.stage = "send"]
             arg == Prepared(Value)
  <2>1. frame.stage = "nonce" /\ Call(f, SubmitMethod, arg)
    BY <1>4 DEF GotNonce, Result, Back, At
  <2>2. CountersOK(f)
    BY <1>1, <2>1, LocalsAre DEF CountersOK, Stages, CallStages
  <2>3. SubmitMethod \in Submissions
    BY DEF SubmitMethod, Submissions
  <2> HIDE DEF f, arg
  <2>4. QED BY <2>1, <2>2, <2>3 DEF Calls
<1>5. CASE GotHash
  <2>1. frame.stage = "send"
    BY <1>5 DEF GotHash, Result, Back, At
  <2> DEFINE f == [NextStep EXCEPT !.hashes = Append(@, Value)]
  <2>2. CountersOK(f)
    BY <1>1, <2>1, LocalsAre DEF CountersOK, Stages, NextStep
  <2>3. (Raise("execution_error") /\ UNCHANGED rpcVars) \/ Continue(f)
    BY <1>5 DEF GotHash
  <2> HIDE DEF f
  <2>4. QED BY <2>2, <2>3, RaiseReports DEF Goes
<1>6. CASE GotRejection
  <2> DEFINE f == [NextStep EXCEPT !.error = Error]
  <2>1. frame.stage = "send" /\ Continue(f)
    BY <1>6 DEF GotRejection, Back, At
  <2>2. CountersOK(f)
    BY <1>1, <2>1, LocalsAre DEF CountersOK, Stages, NextStep
  <2> HIDE DEF f
  <2>3. QED BY <2>1, <2>2 DEF Goes
<1>7. QED BY <1>2, <1>3, <1>4, <1>5, <1>6

LEMMA WaitTyped ==
  ASSUME LocalInv, TypeInv,
         \/ BeginWait \/ Poll \/ DeadlinePasses \/ NoReceipt \/ GotReceipt \/ GotBlock
         \/ BeginRpcCall \/ GotRpcCall
  PROVE  Calls \/ Goes \/ Reports
<1>1. DOMAIN frame = Locals /\ CountersOK(frame)
  BY DEF LocalInv, FrameTyped, TypeInv
<1>2. frame.stage \in {"step", "wait", "poll", "block", "call"} /\ frame.tries = 0
  BY <1>1 DEF BeginWait, Poll, DeadlinePasses, NoReceipt, GotReceipt, GotBlock, BeginRpcCall,
              GotRpcCall, AtStep, Result, Back, At, CountersOK
<1>3. CASE BeginWait
  <2> DEFINE f == [frame EXCEPT !.stage = "wait", !.polls = 0]
  <2>1. CountersOK(f)
    BY <1>1, <1>2, LocalsAre, ExecutionConstants DEF CountersOK, Stages
  <2>2. (Raise("proof_error") /\ UNCHANGED rpcVars) \/ Continue(f)
    BY <1>3 DEF BeginWait
  <2> HIDE DEF f
  <2>3. QED BY <2>1, <2>2, RaiseReports DEF Goes
<1>4. CASE Poll
  <2> DEFINE f == [frame EXCEPT !.stage = "poll", !.polls = @ + 1]
  <2>1. CountersOK(f)
    BY <1>1, <1>2, <1>4, LocalsAre, ExecutionConstants DEF Poll, CountersOK, Stages, CallStages
  <2>2. Call(f, "eth_getTransactionReceipt", LastHash)
    BY <1>4 DEF Poll
  <2> HIDE DEF f
  <2>3. QED BY <2>1, <2>2 DEF Calls, Reads
<1>5. CASE DeadlinePasses
  BY <1>5, RaiseReports DEF DeadlinePasses
<1>6. CASE NoReceipt
  <2> DEFINE f == [frame EXCEPT !.stage = "wait"]
  <2>1. CountersOK(f) /\ Continue(f)
    BY <1>1, <1>2, <1>6, LocalsAre DEF NoReceipt, CountersOK, Stages
  <2> HIDE DEF f
  <2>2. QED BY <2>1 DEF Goes
<1>7. CASE GotReceipt
  <2> DEFINE f == [WithReceipt(Value) EXCEPT !.stage = "block"]
             g == [WithReceipt(Value) EXCEPT !.stage = "step", !.pc = @ + 1]
  <2>1. CountersOK(f) /\ CountersOK(g)
    BY <1>1, <1>2, LocalsAre DEF WithReceipt, CountersOK, Stages, CallStages
  <2>2. \/ Raise("execution_error") /\ UNCHANGED rpcVars
        \/ Call(f, "eth_getBlockByNumber", Value.block) \/ Continue(g)
    BY <1>7 DEF GotReceipt
  <2> HIDE DEF f, g
  <2>3. QED BY <2>1, <2>2, RaiseReports DEF Calls, Goes, Reads
<1>8. CASE GotBlock
  <2> DEFINE f == [NextStep EXCEPT !.context = Value]
  <2>1. CountersOK(f)
    BY <1>1, <1>2, LocalsAre DEF NextStep, CountersOK, Stages
  <2>2. (Raise("proof_error") /\ UNCHANGED rpcVars) \/ Continue(f)
    BY <1>8 DEF GotBlock
  <2> HIDE DEF f
  <2>3. QED BY <2>1, <2>2, RaiseReports DEF Goes
<1>9. CASE BeginRpcCall
  <2> DEFINE f == [frame EXCEPT !.stage = "call"]
  <2>1. CountersOK(f) /\ Call(f, "rpc_call", None)
    BY <1>1, <1>2, <1>9, LocalsAre DEF BeginRpcCall, CountersOK, Stages, CallStages
  <2> HIDE DEF f
  <2>2. QED BY <2>1 DEF Calls, Reads
<1>10. CASE GotRpcCall
  <2>1. CountersOK(NextStep) /\ Continue(NextStep)
    BY <1>1, <1>2, <1>10, LocalsAre DEF GotRpcCall, NextStep, CountersOK, Stages
  <2>2. QED BY <2>1 DEF Goes
<1>11. QED BY <1>3, <1>4, <1>5, <1>6, <1>7, <1>8, <1>9, <1>10

LEMMA ReadStorageCalls ==
  ASSUME NEW f, DOMAIN f = Locals, CountersOK(f), f.tries < StorageAttempts, ReadStorage(f)
  PROVE  Calls
<1> DEFINE g == [f EXCEPT !.stage = "storage", !.tries = @ + 1]
           arg == [address |-> f.contract, block |-> StorageBlock]
<1>1. CountersOK(g)
  BY LocalsAre DEF CountersOK, Stages, CallStages, StorageAttempts
<1>2. Call(g, "eth_getStorageAt", arg)
  BY DEF ReadStorage
<1> HIDE DEF g, arg
<1>3. QED BY <1>1, <1>2 DEF Calls, Reads

LEMMA CompareReports ==
  ASSUME NEW storage, NEW balance, Compare(storage, balance), UNCHANGED rpcVars
  PROVE  Reports
  BY DEF Compare, Reports, Verdicts

LEMMA ObserveTyped ==
  ASSUME LocalInv, TypeInv, Observe \/ GotBalance \/ GotStorage \/ HeaderLags
  PROVE  Calls \/ Goes \/ Reports
<1>1. DOMAIN frame = Locals /\ CountersOK(frame)
  BY DEF LocalInv, FrameTyped, TypeInv
<1>2. ASSUME NEW f, DOMAIN f = Locals, CountersOK(f), f.tries = 0, ObserveRest(f)
      PROVE  Calls \/ Reports
  <2>1. CASE ReadStorage(f)
    BY <1>2, <2>1, ReadStorageCalls DEF StorageAttempts
  <2>2. CASE Compare(None, f.balance) /\ UNCHANGED rpcVars
    BY <2>2, CompareReports
  <2>3. QED BY <1>2, <2>1, <2>2 DEF ObserveRest
<1>3. CASE Observe
  <2>1. frame.stage = "step" /\ frame.tries = 0
    BY <1>1, <1>3 DEF Observe, At, CountersOK
  <2> DEFINE f == [frame EXCEPT !.stage = "balance"]
  <2>2. CountersOK(f)
    BY <1>1, <2>1, LocalsAre DEF CountersOK, Stages, CallStages
  <2>3. Call(f, "eth_getBalance", None) \/ ObserveRest(frame)
    BY <1>3 DEF Observe
  <2> HIDE DEF f
  <2>4. QED BY <1>1, <1>2, <2>1, <2>2, <2>3 DEF Calls, Reads
<1>4. CASE GotBalance
  <2> DEFINE f == [frame EXCEPT !.balance = Value]
  <2>1. frame.stage = "balance" /\ ObserveRest(f)
    BY <1>4 DEF GotBalance, Result, Back, At
  <2>2. CountersOK(f) /\ DOMAIN f = Locals /\ f.tries = 0
    BY <1>1, <2>1, LocalsAre DEF CountersOK
  <2> HIDE DEF f
  <2>3. QED BY <1>2, <2>1, <2>2
<1>5. CASE GotStorage
  BY <1>5, CompareReports DEF GotStorage
<1>6. CASE HeaderLags
  BY <1>1, <1>6, ReadStorageCalls DEF HeaderLags
<1>7. QED BY <1>3, <1>4, <1>5, <1>6

LEMMA FailureTyped ==
  ASSUME LocalInv, TypeInv, CallFails \/ RunAborts
  PROVE  Calls \/ Goes \/ Reports
<1>1. CASE CallFails
  BY <1>1, RaiseReports DEF CallFails
<1>2. CASE RunAborts
  <2> DEFINE f == [frame EXCEPT !.stage = "aborted"]
  <2>1. CountersOK(f) /\ Continue(f)
    BY <1>2, LocalsAre DEF RunAborts, LocalInv, FrameTyped, TypeInv, CountersOK, Stages
  <2> HIDE DEF f
  <2>2. QED BY <2>1 DEF Goes
<1>3. QED BY <1>1, <1>2

LEMMA InterpretTyped ==
  ASSUME LocalInv, TypeInv, Interpret
  PROVE  Calls \/ Goes \/ Reports
  BY SubmissionTyped, WaitTyped, ObserveTyped, FailureTyped DEF Interpret

LEMMA CallsTyped == ASSUME IInv, TypeInv, Calls PROVE TypeInv'
<1>1. PICK f, m, arg : Call(f, m, arg) /\ m \in Submissions \cup Reads /\ CountersOK(f)
  BY DEF Calls
<1>2. /\ frame' = f /\ results' = results /\ UNCHANGED <<wire, handled, reply>>
      /\ rpc'.phase = "sending" /\ rpc'.method = m /\ rpc'.attempt = 1
  BY <1>1 DEF Call, Rpc!Invoke
<1>3. CountersOK(frame)'
  BY <1>1, <1>2 DEF CountersOK
<1>4. TransportTyped'
  BY <1>1, <1>2 DEF TypeInv, TransportTyped, Rpc!Attempts
<1>5. QED BY <1>2, <1>3, <1>4 DEF TypeInv, VerdictsTyped

LEMMA GoesTyped == ASSUME IInv, TypeInv, Goes PROVE TypeInv'
<1>1. PICK f : Continue(f) /\ CountersOK(f)
  BY DEF Goes
<1>2. frame' = f /\ UNCHANGED <<rpc, wire, handled, reply, results>>
  BY <1>1 DEF Continue, rpcVars
<1>3. CountersOK(frame)'
  BY <1>1, <1>2 DEF CountersOK
<1>4. QED BY <1>2, <1>3 DEF TypeInv, TransportTyped, VerdictsTyped

LEMMA ReportsTyped == ASSUME IInv, LocalInv, TypeInv, Reports PROVE TypeInv'
<1>1. PICK verdict, storage :
        Record(verdict, storage) /\ verdict \in Verdicts /\ UNCHANGED rpcVars
  BY DEF Reports
<1>2. /\ frame'.stage = "step" /\ frame'.polls = 0 /\ frame'.tries = 0
      /\ UNCHANGED <<rpc, wire, handled, reply>>
  BY <1>1 DEF Record, Frame, rpcVars
<1>3. CountersOK(frame)'
  BY <1>2, ExecutionConstants DEF CountersOK, Stages, StorageAttempts
<1>4. VerdictsTyped'
  <2> DEFINE r == [case |-> frame.case, verdict |-> verdict, hashes |-> frame.hashes,
                   receipt |-> frame.receipt, contract |-> frame.contract, error |-> frame.error,
                   storage |-> storage]
  <2>1. results' = Append(results, r) /\ r.verdict = verdict
    BY <1>1 DEF Record
  <2> HIDE DEF r
  <2>2. /\ DOMAIN results' = DOMAIN results \cup {Len(results) + 1}
        /\ \A k \in DOMAIN results : results'[k] = results[k]
        /\ results'[Len(results) + 1] = r
    BY <2>1, AppendFacts, SequenceFacts DEF LocalInv, ResultsTyped
  <2>3. QED BY <1>1, <2>1, <2>2 DEF TypeInv, VerdictsTyped
<1>5. QED BY <1>2, <1>3, <1>4 DEF TypeInv, TransportTyped

\* The transport: what is sent is the step's transaction, one answer at most.
LEMMA TransportKeepsTypes == ASSUME IInv, LocalInv, TypeInv, Transport PROVE TypeInv'
<1>1. UNCHANGED <<frame, results>>
  BY DEF Transport
<1>2. CountersOK(frame)' /\ VerdictsTyped'
  BY <1>1 DEF TypeInv, CountersOK, VerdictsTyped
<1>3. CASE Rpc!Send
  <2>1. /\ rpc'.phase = "waiting" /\ rpc'.method = rpc.method /\ rpc'.attempt = rpc.attempt
        /\ wire' = wire \cup {Rpc!Request} /\ UNCHANGED <<handled, reply>>
        /\ rpc.phase = "sending"
    BY <1>3 DEF Rpc!Send, IInv, RpcOK
  <2>2. /\ Rpc!Request.method = rpc.method /\ Rpc!Request.arg = rpc.arg
        /\ Rpc!Request.call = rpc.call
    BY DEF Rpc!Request
  <2>3. rpc.method \in Submissions => rpc.call = rpc.arg.step
    BY <2>1 DEF IInv, SubmissionInv, OnlySendSubmits, InProgress, SubmissionIsPrepared,
                LocalInv, CallMatches, Cur
  <2>4. QED BY <1>2, <2>1, <2>2, <2>3 DEF TypeInv, TransportTyped
<1>4. CASE ~Rpc!Send
  <2>1. rpc'.method = rpc.method /\ reply' \subseteq reply
    BY ClientEffect DEF Transport
  <2>2. wire' \subseteq wire /\ handled' = handled
    BY <1>4 DEF Transport, Rpc!ClientStep, Rpc!ConnectFails, Rpc!ReadTimeout, Rpc!BadResponse,
                Rpc!ConnectionReset, Rpc!TakeAnswer, Rpc!WireAfterAbandon
  <2>3. rpc'.phase \in {"sending", "returned"} /\ rpc'.attempt \in 0..Rpc!Attempts
    <3>1. \/ rpc.attempt < Rpc!Attempts /\ Rpc!NextAttempt
          \/ \E o : Rpc!Return(o)
      BY <1>4 DEF Transport, Rpc!ClientStep, Rpc!ConnectFails, Rpc!ReadTimeout, Rpc!BadResponse,
                  Rpc!ConnectionReset, Rpc!TakeAnswer, Rpc!RetriesConnect, Rpc!RetriesTimeout
    <3>2. CASE rpc.attempt < Rpc!Attempts /\ Rpc!NextAttempt
      BY <3>2 DEF Rpc!NextAttempt, Rpc!Attempts, IInv, RpcOK, TypeInv, TransportTyped
    <3>3. CASE \E o : Rpc!Return(o)
      BY <3>3 DEF Rpc!Return, IInv, RpcOK, TypeInv, TransportTyped
    <3>4. QED BY <3>1, <3>2, <3>3
  <2>4. QED BY <1>2, <2>1, <2>2, <2>3 DEF TypeInv, TransportTyped
<1>5. QED BY <1>3, <1>4

LEMMA NodeKeepsTypes ==
  ASSUME TypeInv, UNCHANGED <<frame, results>>,
         (\E r, a : Rpc!Handle(r, a)) \/ UNCHANGED rpcVars
  PROVE  TypeInv'
<1>1. CountersOK(frame)' /\ VerdictsTyped'
  BY DEF TypeInv, CountersOK, VerdictsTyped
<1>2. CASE UNCHANGED rpcVars
  BY <1>1, <1>2 DEF TypeInv, TransportTyped, rpcVars
<1>3. CASE \E r, a : Rpc!Handle(r, a)
  <2>1. PICK r, a : Rpc!Handle(r, a)
    BY <1>3
  <2>2. /\ rpc' = rpc /\ wire' \subseteq wire
        /\ \A h \in handled' : h \in handled \/ h.request.method \in Submissions
        /\ reply' = {a} \/ reply' = reply
    BY <2>1 DEF Rpc!Handle
  <2>3. QED BY <1>1, <2>2 DEF TypeInv, TransportTyped
<1>4. QED BY <1>2, <1>3

LEMMA TypeInit == Init => TypeInv
<1> SUFFICES ASSUME Init PROVE TypeInv
  OBVIOUS
<1>1. /\ frame.stage = "step" /\ frame.polls = 0 /\ frame.tries = 0
  BY DEF Init, Frame
<1>2. CountersOK(frame)
  BY <1>1, ExecutionConstants DEF CountersOK, Stages, StorageAttempts
<1>3. TransportTyped
  BY DEF Init, TransportTyped, Reads, Rpc!Attempts
<1>4. VerdictsTyped
  BY EmptySeq DEF Init, VerdictsTyped
<1>5. QED BY <1>2, <1>3, <1>4 DEF TypeInv

LEMMA TypeStep == IInv /\ LocalInv /\ TypeInv /\ [Next]_vars => TypeInv'
<1> SUFFICES ASSUME IInv, LocalInv, TypeInv, [Next]_vars PROVE TypeInv'
  OBVIOUS
<1>1. CASE Transport
  BY <1>1, TransportKeepsTypes
<1>2. CASE Interpret
  BY <1>2, InterpretTyped, CallsTyped, GoesTyped, ReportsTyped
<1>3. CASE Node
  BY <1>3, NodeKeepsTypes DEF Node, ServeRead, ServeSubmission, MineBlock, DropTransaction,
     OtherClient
<1>4. CASE UNCHANGED vars
  BY <1>4, NodeKeepsTypes DEF vars
<1>5. QED BY <1>1, <1>2, <1>3, <1>4 DEF Next, Harness, Terminated

\* One result per case that is over, in order; a receipt is polled for no longer
\* than the deadline allows and the storage read at most five times; a request
\* on the wire names the step its transaction is of (executor.py:1107-1123,
\* 1235-1249, cli.py's loop over the cases).
THEOREM ExecutionTypes == Spec => []TypeOK
<1>1. Init => IInv /\ LocalInv /\ TypeInv
  BY InitInv, LocalInit, TypeInit
<1>2. IInv /\ LocalInv /\ TypeInv /\ [Next]_vars => (IInv /\ LocalInv /\ TypeInv)'
  BY StepInv, LocalStep, TypeStep
<1>3. ASSUME LocalInv, TypeInv PROVE TypeOK
  <2>1. Cardinality(reply) <= 1
    <3>1. CASE reply = {}
      BY <3>1, FS_EmptySet
    <3>2. CASE reply # {}
      <4>1. PICK a \in reply : TRUE
        BY <3>2
      <4>2. reply = {a}
        BY <1>3, <4>1 DEF TypeInv, TransportTyped
      <4>3. Cardinality(reply) = 1
        BY <4>2, FS_Singleton
      <4>4. QED BY <4>3
    <3>3. QED BY <3>1, <3>2
  <2>2. QED BY <1>3, <2>1 DEF TypeOK, TypeInv, TransportTyped, CountersOK, Stages, VerdictsTyped,
               LocalInv, FrameTyped, ResultsTyped, BlocksTyped
<1>4. QED BY <1>1, <1>2, <1>3, PTL DEF Spec
=============================================================================
