------------------------ MODULE JsonRpcExecution_proofs -------------------------
(* Proof of NoDoubleExecution, for every list of cases, every node and every   *)
(* number of failures, and for both kinds of keys.                             *)
EXTENDS JsonRpcExecution, FiniteSetTheorems, SequenceTheorems, TLAPS

-----------------------------------------------------------------------------
(* What SubmissionInv needs of the types to be inductive. *)

FrameOK == /\ {"case", "pc", "stage"} \subseteq DOMAIN frame
           /\ frame.case \in Nat \ {0}
           /\ frame.pc \in Nat

RpcOK == {"phase", "outcome"} \subseteq DOMAIN rpc

ChainOK == \E S : chain \in Seq(S)

PoolOK == IsFiniteSet(pool)

IInv == FrameOK /\ RpcOK /\ ChainOK /\ PoolOK /\ SubmissionInv

-----------------------------------------------------------------------------
(* The steps of the interpreter, by what they do to the submission. *)

Outside == UNCHANGED <<wire, reply, pool, chain>>

StepKept == /\ frame'.case = frame.case
            /\ frame'.pc = frame.pc
            /\ {"case", "pc", "stage"} \subseteq DOMAIN frame'

\* A call that changes nothing on the node, or no call at all.
Reading == /\ rpc'.method \in Reads
           /\ rpc'.phase = "sending"
           /\ rpc'.outcome.kind = "none"
           /\ {"phase", "outcome"} \subseteq DOMAIN rpc'
           /\ rpc.phase \in {"idle", "returned"}

Quiet == /\ StepKept
         /\ frame.stage \notin {"send", "aborted"}
         /\ frame'.stage # "send"
         /\ \/ rpc' = rpc /\ frame'.stage # "nonce"
            \/ Reading /\ (frame'.stage = "nonce" => rpc'.method = "eth_getTransactionCount")
         /\ Outside

\* The submission of the current step begins.
StartsSend == /\ StepKept
              /\ frame.stage \notin {"send", "aborted"}
              /\ frame'.stage = "send"
              /\ rpc'.method \in Submissions
              /\ rpc'.phase = "sending"
              /\ rpc'.outcome.kind = "none"
              /\ {"phase", "outcome"} \subseteq DOMAIN rpc'
              /\ rpc'.arg.step = <<frame.case, frame.pc>>
              /\ rpc'.arg.nonce # NoNonce
              /\ rpc.phase \in {"idle", "returned"}
              /\ Outside

\* The next step, or the first one of the next case.
Advances == /\ frame.stage # "aborted"
            /\ frame.stage = "send" => rpc.phase = "returned"
            /\ frame'.stage = "step"
            /\ {"case", "pc", "stage"} \subseteq DOMAIN frame'
            /\ \/ frame'.case = frame.case /\ frame'.pc = frame.pc + 1
               \/ frame'.case = frame.case + 1 /\ frame'.pc = 1
            /\ rpc' = rpc
            /\ Outside

Aborts == /\ StepKept
          /\ rpc.phase = "returned"
          /\ frame'.stage = "aborted"
          /\ rpc' = rpc
          /\ Outside

\* Recording a result moves on to the next case.
LEMMA RecordAdvances ==
  ASSUME IInv, NEW verdict, NEW storage, Record(verdict, storage), UNCHANGED rpcVars,
         frame.stage # "aborted", frame.stage = "send" => rpc.phase = "returned"
  PROVE  Advances
  BY DEF Record, Frame, Advances, Outside, rpcVars, chainVars, IInv, FrameOK

\* A call of a read method, in a frame that differs in its stage and its locals.
LEMMA ReadIsQuiet ==
  ASSUME IInv, NEW f, NEW m \in Reads, NEW arg, Call(f, m, arg),
         f.case = frame.case, f.pc = frame.pc, {"case", "pc", "stage"} \subseteq DOMAIN f,
         frame.stage \notin {"send", "aborted"}, f.stage # "send",
         f.stage = "nonce" => m = "eth_getTransactionCount"
  PROVE  Quiet
  BY DEF Call, Rpc!Invoke, Rpc!Raised, Quiet, StepKept, Reading, Outside, chainVars

\* A submission, once its nonce is known.
LEMMA SendStarts ==
  ASSUME IInv, NEW f, NEW n, n # NoNonce, Call(f, SubmitMethod, Prepared(n)),
         f.case = frame.case, f.pc = frame.pc, {"case", "pc", "stage"} \subseteq DOMAIN f,
         frame.stage \notin {"send", "aborted"}, f.stage = "send"
  PROVE  StartsSend
<1>1. SubmitMethod \in Submissions
  BY DEF SubmitMethod, Submissions
<1>2. Prepared(n).step = <<frame.case, frame.pc>> /\ Prepared(n).nonce = n
  BY DEF Prepared
<1>3. QED
  BY <1>1, <1>2 DEF Call, Rpc!Invoke, Rpc!Raised, StartsSend, StepKept, Outside, chainVars

\* Submit asks for a nonce or has one.
LEMMA SubmitClass ==
  ASSUME IInv, NEW f, Submit(f), f.case = frame.case, f.pc = frame.pc,
         {"case", "pc", "stage"} \subseteq DOMAIN f, frame.stage \notin {"send", "aborted"}
  PROVE  Quiet \/ StartsSend
<1>1. CASE AsksNonce
  <2> DEFINE g == [f EXCEPT !.stage = "nonce"]
  <2>1. /\ g.case = frame.case /\ g.pc = frame.pc /\ g.stage = "nonce"
        /\ {"case", "pc", "stage"} \subseteq DOMAIN g
    OBVIOUS
  <2>2. Call(g, "eth_getTransactionCount", None)
    BY <1>1 DEF Submit
  <2>3. QED BY <2>1, <2>2, ReadIsQuiet DEF Reads
<1>2. CASE ~AsksNonce
  <2> DEFINE g == [f EXCEPT !.stage = "send"]
  <2>1. /\ g.case = frame.case /\ g.pc = frame.pc /\ g.stage = "send"
        /\ {"case", "pc", "stage"} \subseteq DOMAIN g
    OBVIOUS
  <2>2. Step.nonce # NoNonce /\ Call(g, SubmitMethod, Prepared(Step.nonce))
    BY <1>2 DEF Submit, AsksNonce
  <2>3. QED BY <2>1, <2>2, SendStarts
<1>3. QED BY <1>1, <1>2

\* The interpreter goes on with the next step.
LEMMA ContinueAdvances ==
  ASSUME IInv, NEW f, Continue(f), f.stage = "step",
         f.case = frame.case, f.pc = frame.pc + 1, {"case", "pc", "stage"} \subseteq DOMAIN f,
         frame.stage # "aborted", frame.stage = "send" => rpc.phase = "returned"
  PROVE  Advances
  BY DEF Continue, Advances, Outside, rpcVars, chainVars

\* The interpreter goes on within the step.
LEMMA ContinueIsQuiet ==
  ASSUME IInv, NEW f, Continue(f), f.stage \notin {"send", "nonce"},
         f.case = frame.case, f.pc = frame.pc, {"case", "pc", "stage"} \subseteq DOMAIN f,
         frame.stage \notin {"send", "aborted"}
  PROVE  Quiet
  BY DEF Continue, Quiet, StepKept, Outside, rpcVars, chainVars

\* The frame of the next step.
LEMMA NextStepFrame ==
  ASSUME IInv
  PROVE  /\ NextStep.stage = "step"
         /\ NextStep.case = frame.case
         /\ NextStep.pc = frame.pc + 1
         /\ DOMAIN NextStep = DOMAIN frame
  BY DEF IInv, FrameOK, NextStep

\* A frame whose locals change is at the same step.
LEMMA WithReceiptFrame ==
  ASSUME IInv, NEW receipt
  PROVE  /\ WithReceipt(receipt).stage = frame.stage
         /\ WithReceipt(receipt).case = frame.case
         /\ WithReceipt(receipt).pc = frame.pc
         /\ DOMAIN WithReceipt(receipt) = DOMAIN frame
  BY DEF IInv, FrameOK, WithReceipt

\* The steps that send a transaction.
LEMMA SubmissionClass ==
  ASSUME IInv, BeginSubmit \/ GotBalanceBefore \/ GotNonce \/ GotHash \/ GotRejection
  PROVE  Quiet \/ StartsSend \/ Advances
<1> USE DEF IInv, FrameOK
<1>1. CASE BeginSubmit
  <2>1. frame.stage = "step"
    BY <1>1 DEF BeginSubmit, AtStep, At
  <2>2. CASE \E verdict : Raise(verdict) /\ UNCHANGED rpcVars
    BY <2>1, <2>2, RecordAdvances DEF Raise
  <2>3. CASE Submit(frame)
    BY <2>1, <2>3, SubmitClass
  <2>4. CASE Call([frame EXCEPT !.stage = "before"], "eth_getBalance", None)
    <3> DEFINE f == [frame EXCEPT !.stage = "before"]
    <3>1. /\ f.stage = "before" /\ f.case = frame.case /\ f.pc = frame.pc
          /\ {"case", "pc", "stage"} \subseteq DOMAIN f
      OBVIOUS
    <3>2. QED BY <2>1, <2>4, <3>1, ReadIsQuiet DEF Reads
  <2>5. QED BY <1>1, <2>2, <2>3, <2>4 DEF BeginSubmit
<1>2. CASE GotBalanceBefore
  <2> DEFINE f == [frame EXCEPT !.before = Value, !.after = Value + 1]
  <2>1. /\ f.case = frame.case /\ f.pc = frame.pc
        /\ {"case", "pc", "stage"} \subseteq DOMAIN f
    OBVIOUS
  <2>2. frame.stage = "before" /\ Submit(f)
    BY <1>2 DEF GotBalanceBefore, Result, Back, At
  <2>3. QED BY <2>1, <2>2, SubmitClass
<1>3. CASE GotNonce
  <2> DEFINE f == [frame EXCEPT !.stage = "send"]
  <2>1. /\ f.stage = "send" /\ f.case = frame.case /\ f.pc = frame.pc
        /\ {"case", "pc", "stage"} \subseteq DOMAIN f
    OBVIOUS
  <2>2. frame.stage = "nonce" /\ Value # NoNonce
    BY <1>3 DEF GotNonce, Result, Back, At, Value, SubmissionInv, NonceAnswers
  <2>3. Call(f, SubmitMethod, Prepared(Value))
    BY <1>3 DEF GotNonce
  <2>4. QED BY <2>1, <2>2, <2>3, SendStarts
<1>4. CASE GotHash
  <2>1. frame.stage = "send" /\ rpc.phase = "returned"
    BY <1>4 DEF GotHash, Result, Back, At
  <2>2. CASE Raise("execution_error") /\ UNCHANGED rpcVars
    BY <2>1, <2>2, RecordAdvances DEF Raise
  <2>3. CASE Continue([NextStep EXCEPT !.hashes = Append(@, Value)])
    <3> DEFINE f == [NextStep EXCEPT !.hashes = Append(@, Value)]
    <3>1. /\ f.stage = "step" /\ f.case = frame.case /\ f.pc = frame.pc + 1
          /\ {"case", "pc", "stage"} \subseteq DOMAIN f
      BY NextStepFrame
    <3>2. QED BY <2>1, <2>3, <3>1, ContinueAdvances
  <2>4. QED BY <1>4, <2>2, <2>3 DEF GotHash
<1>5. CASE GotRejection
  <2> DEFINE f == [NextStep EXCEPT !.error = Error]
  <2>1. frame.stage = "send" /\ rpc.phase = "returned" /\ Continue(f)
    BY <1>5 DEF GotRejection, Back, At
  <2>2. /\ f.stage = "step" /\ f.case = frame.case /\ f.pc = frame.pc + 1
        /\ {"case", "pc", "stage"} \subseteq DOMAIN f
    BY NextStepFrame
  <2>3. QED BY <2>1, <2>2, ContinueAdvances
<1>6. QED BY <1>1, <1>2, <1>3, <1>4, <1>5

\* Waiting for a receipt, and calls whose result is dropped.
LEMMA WaitClass ==
  ASSUME IInv,
         \/ BeginWait \/ Poll \/ DeadlinePasses \/ NoReceipt \/ GotReceipt \/ GotBlock
         \/ BeginRpcCall \/ GotRpcCall
  PROVE  Quiet \/ Advances
<1> USE DEF IInv, FrameOK
<1>1. CASE BeginWait
  <2> DEFINE f == [frame EXCEPT !.stage = "wait", !.polls = 0]
  <2>1. /\ f.stage = "wait" /\ f.case = frame.case /\ f.pc = frame.pc
        /\ {"case", "pc", "stage"} \subseteq DOMAIN f
    OBVIOUS
  <2>2. frame.stage = "step"
    BY <1>1 DEF BeginWait, AtStep, At
  <2>3. CASE Raise("proof_error") /\ UNCHANGED rpcVars
    BY <2>2, <2>3, RecordAdvances DEF Raise
  <2>4. CASE Continue(f)
    BY <2>1, <2>2, <2>4, ContinueIsQuiet
  <2>5. QED BY <1>1, <2>3, <2>4 DEF BeginWait
<1>2. CASE Poll
  <2> DEFINE f == [frame EXCEPT !.stage = "poll", !.polls = @ + 1]
  <2>1. /\ f.stage = "poll" /\ f.case = frame.case /\ f.pc = frame.pc
        /\ {"case", "pc", "stage"} \subseteq DOMAIN f
    OBVIOUS
  <2>2. frame.stage = "wait" /\ Call(f, "eth_getTransactionReceipt", LastHash)
    BY <1>2 DEF Poll, At
  <2>3. QED BY <2>1, <2>2, ReadIsQuiet DEF Reads
<1>3. CASE DeadlinePasses
  BY <1>3, RecordAdvances DEF DeadlinePasses, At, Raise
<1>4. CASE NoReceipt
  <2> DEFINE f == [frame EXCEPT !.stage = "wait"]
  <2>1. /\ f.stage = "wait" /\ f.case = frame.case /\ f.pc = frame.pc
        /\ {"case", "pc", "stage"} \subseteq DOMAIN f
    OBVIOUS
  <2>2. frame.stage = "poll" /\ Continue(f)
    BY <1>4 DEF NoReceipt, Result, Back, At
  <2>3. QED BY <2>1, <2>2, ContinueIsQuiet
<1>5. CASE GotReceipt
  <2>1. frame.stage = "poll"
    BY <1>5 DEF GotReceipt, Result, Back, At
  <2>2. CASE Raise("execution_error") /\ UNCHANGED rpcVars
    BY <2>1, <2>2, RecordAdvances DEF Raise
  <2>3. CASE Call([WithReceipt(Value) EXCEPT !.stage = "block"], "eth_getBlockByNumber", Value.block)
    <3> DEFINE f == [WithReceipt(Value) EXCEPT !.stage = "block"]
    <3>1. /\ f.stage = "block" /\ f.case = frame.case /\ f.pc = frame.pc
          /\ {"case", "pc", "stage"} \subseteq DOMAIN f
      BY WithReceiptFrame
    <3>2. QED BY <2>1, <2>3, <3>1, ReadIsQuiet DEF Reads
  <2>4. CASE Continue([WithReceipt(Value) EXCEPT !.stage = "step", !.pc = @ + 1])
    <3> DEFINE f == [WithReceipt(Value) EXCEPT !.stage = "step", !.pc = @ + 1]
    <3>1. /\ f.stage = "step" /\ f.case = frame.case /\ f.pc = frame.pc + 1
          /\ {"case", "pc", "stage"} \subseteq DOMAIN f
      BY WithReceiptFrame
    <3>2. QED BY <2>1, <2>4, <3>1, ContinueAdvances
  <2>5. QED BY <1>5, <2>2, <2>3, <2>4 DEF GotReceipt
<1>6. CASE GotBlock
  <2> DEFINE f == [NextStep EXCEPT !.context = Value]
  <2>1. frame.stage = "block"
    BY <1>6 DEF GotBlock, Result, Back, At
  <2>2. CASE Raise("proof_error") /\ UNCHANGED rpcVars
    BY <2>1, <2>2, RecordAdvances DEF Raise
  <2>3. /\ f.stage = "step" /\ f.case = frame.case /\ f.pc = frame.pc + 1
        /\ {"case", "pc", "stage"} \subseteq DOMAIN f
    BY NextStepFrame
  <2>4. QED BY <1>6, <2>1, <2>2, <2>3, ContinueAdvances DEF GotBlock
<1>7. CASE BeginRpcCall
  <2> DEFINE f == [frame EXCEPT !.stage = "call"]
  <2>1. /\ f.stage = "call" /\ f.case = frame.case /\ f.pc = frame.pc
        /\ {"case", "pc", "stage"} \subseteq DOMAIN f
    OBVIOUS
  <2>2. frame.stage = "step" /\ Call(f, "rpc_call", None)
    BY <1>7 DEF BeginRpcCall, AtStep, At
  <2>3. QED BY <2>1, <2>2, ReadIsQuiet DEF Reads
<1>8. CASE GotRpcCall
  <2>1. frame.stage = "call" /\ Continue(NextStep)
    BY <1>8 DEF GotRpcCall, Result, Back, At
  <2>2. QED BY <2>1, NextStepFrame, ContinueAdvances
<1>9. QED BY <1>1, <1>2, <1>3, <1>4, <1>5, <1>6, <1>7, <1>8

\* A storage read, in a frame that differs in its locals.
LEMMA ReadStorageIsQuiet ==
  ASSUME IInv, NEW f, ReadStorage(f), f.case = frame.case, f.pc = frame.pc,
         {"case", "pc", "stage"} \subseteq DOMAIN f, frame.stage \notin {"send", "aborted"}
  PROVE  Quiet
<1> DEFINE g == [f EXCEPT !.stage = "storage", !.tries = @ + 1]
           arg == [address |-> f.contract, block |-> StorageBlock]
<1>1. /\ g.stage = "storage" /\ g.case = frame.case /\ g.pc = frame.pc
      /\ {"case", "pc", "stage"} \subseteq DOMAIN g
  OBVIOUS
<1>2. Call(g, "eth_getStorageAt", arg)
  BY DEF ReadStorage
<1> HIDE DEF g, arg
<1>3. QED BY <1>1, <1>2, ReadIsQuiet DEF Reads

\* The comparison ends the case.
LEMMA CompareAdvances ==
  ASSUME IInv, NEW storage, NEW balance, Compare(storage, balance), UNCHANGED rpcVars,
         frame.stage \notin {"send", "aborted"}
  PROVE  Advances
<1>1. PICK verdict : Record(verdict, storage)
  BY DEF Compare
<1>2. QED BY <1>1, RecordAdvances

\* The rest of the observation reads the storage or compares.
LEMMA ObserveRestClass ==
  ASSUME IInv, NEW f, ObserveRest(f), f.case = frame.case, f.pc = frame.pc,
         {"case", "pc", "stage"} \subseteq DOMAIN f, frame.stage \notin {"send", "aborted"}
  PROVE  Quiet \/ Advances
<1>1. CASE ReadStorage(f)
  BY <1>1, ReadStorageIsQuiet
<1>2. CASE Compare(None, f.balance) /\ UNCHANGED rpcVars
  BY <1>2, CompareAdvances
<1>3. QED BY <1>1, <1>2 DEF ObserveRest

\* Observing the result.
LEMMA ObserveClass ==
  ASSUME IInv, Observe \/ GotBalance \/ GotStorage \/ HeaderLags
  PROVE  Quiet \/ Advances
<1> USE DEF IInv, FrameOK
<1>1. CASE Observe
  <2>1. frame.stage = "step"
    BY <1>1 DEF Observe, At
  <2>2. CASE Call([frame EXCEPT !.stage = "balance"], "eth_getBalance", None)
    <3> DEFINE f == [frame EXCEPT !.stage = "balance"]
    <3>1. /\ f.stage = "balance" /\ f.case = frame.case /\ f.pc = frame.pc
          /\ {"case", "pc", "stage"} \subseteq DOMAIN f
      OBVIOUS
    <3>2. QED BY <2>1, <2>2, <3>1, ReadIsQuiet DEF Reads
  <2>3. CASE ObserveRest(frame)
    BY <2>1, <2>3, ObserveRestClass
  <2>4. QED BY <1>1, <2>2, <2>3 DEF Observe
<1>2. CASE GotBalance
  <2> DEFINE f == [frame EXCEPT !.balance = Value]
  <2>1. /\ f.case = frame.case /\ f.pc = frame.pc
        /\ {"case", "pc", "stage"} \subseteq DOMAIN f
    OBVIOUS
  <2>2. frame.stage = "balance" /\ ObserveRest(f)
    BY <1>2 DEF GotBalance, Result, Back, At
  <2>3. QED BY <2>1, <2>2, ObserveRestClass
<1>3. CASE GotStorage
  <2>1. frame.stage = "storage" /\ Compare(Value, frame.balance) /\ UNCHANGED rpcVars
    BY <1>3 DEF GotStorage, Result, Back, At
  <2>2. QED BY <2>1, CompareAdvances
<1>4. CASE HeaderLags
  <2>1. frame.stage = "storage" /\ ReadStorage(frame)
    BY <1>4 DEF HeaderLags, Back, At
  <2>2. QED BY <2>1, ReadStorageIsQuiet
<1>5. QED BY <1>1, <1>2, <1>3, <1>4

\* A call that fails ends the case or the run.
LEMMA FailureClass ==
  ASSUME IInv, CallFails \/ RunAborts
  PROVE  Advances \/ Aborts
<1>1. frame.stage # "aborted" /\ rpc.phase = "returned"
  BY DEF CallFails, RunAborts, Back, At, CallStages
<1>2. CASE CallFails
  BY <1>1, <1>2, RecordAdvances DEF CallFails, Raise
<1>3. CASE RunAborts
  <2> DEFINE f == [frame EXCEPT !.stage = "aborted"]
  <2>1. /\ f.stage = "aborted" /\ f.case = frame.case /\ f.pc = frame.pc
        /\ {"case", "pc", "stage"} \subseteq DOMAIN f
    BY DEF IInv, FrameOK
  <2>2. Continue(f)
    BY <1>3 DEF RunAborts
  <2> HIDE DEF f
  <2>3. QED BY <1>1, <2>1, <2>2 DEF Continue, Aborts, StepKept, Outside, rpcVars, chainVars
<1>4. QED BY <1>2, <1>3

\* The interpreter does nothing else.
LEMMA InterpretClass ==
  ASSUME IInv, Interpret
  PROVE  Quiet \/ StartsSend \/ Advances \/ Aborts
  BY SubmissionClass, WaitClass, ObserveClass, FailureClass DEF Interpret

-----------------------------------------------------------------------------
(* Each kind of step preserves the invariant. *)

\* What is known anywhere, when the node and the wire do not change.
LEMMA OutsideKnown == Outside => Known' = Known /\ Submitted' = Submitted
  BY DEF Outside, Known, Submitted

LEMMA QuietInv == IInv /\ Quiet => IInv'
<1> SUFFICES ASSUME IInv, Quiet PROVE IInv'
  OBVIOUS
<1>1. Known' = Known /\ Submitted' = Submitted /\ chain' = chain /\ pool' = pool /\ reply' = reply
  BY OutsideKnown DEF Quiet, Outside
<1>2. FrameOK' /\ RpcOK'
  BY DEF IInv, FrameOK, RpcOK, Quiet, StepKept, Reading
<1>3. ChainOK' /\ PoolOK'
  BY <1>1 DEF IInv, ChainOK, PoolOK
<1>4. ChainNonces' /\ OneTransactionPerStep' /\ ForeignByNonce' /\ NoncesGiven'
  BY <1>1 DEF IInv, SubmissionInv, ChainNonces, OneTransactionPerStep, ForeignByNonce,
              NoncesGiven, Foreign
<1>5. KnownStepsReached' /\ UnsentStepUnknown' /\ SubmissionIsPrepared'
  BY <1>1 DEF IInv, SubmissionInv, KnownStepsReached, UnsentStepUnknown, SubmissionIsPrepared,
              Quiet, StepKept
<1>6. OnlySendSubmits'
  BY DEF IInv, SubmissionInv, OnlySendSubmits, InProgress, Quiet, Reading, Submissions, Reads, RawTx
<1>7. NonceAnswers'
  BY <1>1 DEF IInv, SubmissionInv, NonceAnswers, Quiet, Reading
<1>8. QED BY <1>2, <1>3, <1>4, <1>5, <1>6, <1>7 DEF IInv, SubmissionInv

LEMMA StartsSendInv == IInv /\ StartsSend => IInv'
<1> SUFFICES ASSUME IInv, StartsSend PROVE IInv'
  OBVIOUS
<1>1. Known' = Known /\ Submitted' = Submitted /\ chain' = chain /\ pool' = pool /\ reply' = reply
  BY OutsideKnown DEF StartsSend, Outside
<1>2. FrameOK' /\ RpcOK'
  BY DEF IInv, FrameOK, RpcOK, StartsSend, StepKept
<1>3. ChainOK' /\ PoolOK'
  BY <1>1 DEF IInv, ChainOK, PoolOK
<1>4. ChainNonces' /\ OneTransactionPerStep' /\ ForeignByNonce' /\ NoncesGiven'
  BY <1>1 DEF IInv, SubmissionInv, ChainNonces, OneTransactionPerStep, ForeignByNonce,
              NoncesGiven, Foreign
<1>5. KnownStepsReached' /\ UnsentStepUnknown'
  BY <1>1 DEF IInv, SubmissionInv, KnownStepsReached, UnsentStepUnknown, StartsSend, StepKept
<1>6. SubmissionIsPrepared'
  BY <1>1 DEF IInv, SubmissionInv, UnsentStepUnknown, SubmissionIsPrepared, StartsSend, StepKept
<1>7. OnlySendSubmits'
  BY DEF OnlySendSubmits, StartsSend
<1>8. NonceAnswers'
  BY <1>1 DEF IInv, SubmissionInv, NonceAnswers, StartsSend, Submissions, RawTx
<1>9. QED BY <1>2, <1>3, <1>4, <1>5, <1>6, <1>7, <1>8 DEF IInv, SubmissionInv

LEMMA AdvancesInv == IInv /\ Advances => IInv'
<1> SUFFICES ASSUME IInv, Advances PROVE IInv'
  OBVIOUS
<1>1. Known' = Known /\ Submitted' = Submitted /\ chain' = chain /\ pool' = pool /\ reply' = reply
  BY OutsideKnown DEF Advances, Outside
<1>2. FrameOK' /\ RpcOK'
  BY DEF IInv, FrameOK, RpcOK, Advances
<1>3. ChainOK' /\ PoolOK'
  BY <1>1 DEF IInv, ChainOK, PoolOK
<1>4. ChainNonces' /\ OneTransactionPerStep' /\ ForeignByNonce' /\ NoncesGiven'
  BY <1>1 DEF IInv, SubmissionInv, ChainNonces, OneTransactionPerStep, ForeignByNonce,
              NoncesGiven, Foreign
<1>5. \A t \in Known : t.step # <<frame'.case, frame'.pc>>
  <2> SUFFICES ASSUME NEW t \in Known, t.step = <<frame'.case, frame'.pc>> PROVE FALSE
    OBVIOUS
  <2>1. t.step[1] = frame'.case /\ t.step[2] = frame'.pc
    OBVIOUS
  <2>2. t.step[1] <= frame.case /\ (t.step[1] = frame.case => t.step[2] <= frame.pc)
    BY DEF IInv, SubmissionInv, KnownStepsReached
  <2>3. QED BY <2>1, <2>2 DEF IInv, FrameOK, Advances
<1>6. \A t \in Known : /\ t.step \in Nat \X Nat
                       /\ t.step[1] <= frame'.case
                       /\ t.step[1] = frame'.case => t.step[2] <= frame'.pc
  <2> SUFFICES ASSUME NEW t \in Known
               PROVE  /\ t.step \in Nat \X Nat
                      /\ t.step[1] <= frame'.case
                      /\ t.step[1] = frame'.case => t.step[2] <= frame'.pc
    OBVIOUS
  <2>1. /\ t.step \in Nat \X Nat
        /\ t.step[1] <= frame.case /\ (t.step[1] = frame.case => t.step[2] <= frame.pc)
    BY DEF IInv, SubmissionInv, KnownStepsReached
  <2>2. QED BY <2>1 DEF IInv, FrameOK, Advances
<1>7. KnownStepsReached' /\ UnsentStepUnknown' /\ SubmissionIsPrepared'
  BY <1>1, <1>5, <1>6 DEF KnownStepsReached, UnsentStepUnknown, SubmissionIsPrepared, Advances
<1>8. OnlySendSubmits'
  BY DEF IInv, SubmissionInv, OnlySendSubmits, InProgress, Advances
<1>9. NonceAnswers'
  BY <1>1 DEF IInv, SubmissionInv, NonceAnswers, Advances
<1>10. QED BY <1>2, <1>3, <1>4, <1>7, <1>8, <1>9 DEF IInv, SubmissionInv

LEMMA AbortsInv == IInv /\ Aborts => IInv'
<1> SUFFICES ASSUME IInv, Aborts PROVE IInv'
  OBVIOUS
<1>1. Known' = Known /\ Submitted' = Submitted /\ chain' = chain /\ pool' = pool /\ reply' = reply
  BY OutsideKnown DEF Aborts, Outside
<1>2. FrameOK' /\ RpcOK' /\ ChainOK' /\ PoolOK'
  BY <1>1 DEF IInv, FrameOK, RpcOK, ChainOK, PoolOK, Aborts, StepKept
<1>3. ChainNonces' /\ OneTransactionPerStep' /\ ForeignByNonce' /\ NoncesGiven'
  BY <1>1 DEF IInv, SubmissionInv, ChainNonces, OneTransactionPerStep, ForeignByNonce,
              NoncesGiven, Foreign
<1>4. KnownStepsReached' /\ UnsentStepUnknown' /\ SubmissionIsPrepared'
  BY <1>1 DEF IInv, SubmissionInv, KnownStepsReached, UnsentStepUnknown, SubmissionIsPrepared,
              Aborts, StepKept
<1>5. OnlySendSubmits' /\ NonceAnswers'
  BY <1>1 DEF IInv, SubmissionInv, OnlySendSubmits, InProgress, NonceAnswers, Aborts
<1>6. QED BY <1>2, <1>3, <1>4, <1>5 DEF IInv, SubmissionInv

-----------------------------------------------------------------------------
(* The transport: what is sent is what was prepared. *)

\* Nothing new is known: the invariant depends on Known only.
LEMMA FewerKnown ==
  ASSUME IInv, UNCHANGED <<frame, chain, pool>>, wire' \subseteq wire
  PROVE  Known' \subseteq Known /\ Submitted' \subseteq Submitted
  BY DEF Known, Submitted

\* A step of the transport that sends nothing keeps the method, the argument,
\* and what the invariant says of them.
LEMMA TransportInv ==
  ASSUME IInv, UNCHANGED <<frame, chain, pool>>, wire' \subseteq wire,
         rpc'.method = rpc.method, rpc'.arg = rpc.arg,
         {"phase", "outcome"} \subseteq DOMAIN rpc',
         InProgress' => InProgress,
         NonceAnswers'
  PROVE  IInv'
<1>1. Known' \subseteq Known /\ Submitted' \subseteq Submitted
  BY FewerKnown
<1>2. FrameOK' /\ RpcOK' /\ ChainOK' /\ PoolOK'
  BY DEF IInv, FrameOK, RpcOK, ChainOK, PoolOK
<1>3. ChainNonces' /\ OneTransactionPerStep' /\ ForeignByNonce' /\ NoncesGiven'
  BY <1>1 DEF IInv, SubmissionInv, ChainNonces, OneTransactionPerStep, ForeignByNonce,
              NoncesGiven, Foreign
<1>4. KnownStepsReached' /\ UnsentStepUnknown' /\ SubmissionIsPrepared'
  BY <1>1 DEF IInv, SubmissionInv, KnownStepsReached, UnsentStepUnknown, SubmissionIsPrepared
<1>5. OnlySendSubmits'
  BY DEF IInv, SubmissionInv, OnlySendSubmits
<1>6. QED BY <1>2, <1>3, <1>4, <1>5 DEF IInv, SubmissionInv

\* An attempt that goes on or a call that raises.
LEMMA AttemptEnds ==
  ASSUME IInv, NEW kind, kind # "answer",
         Rpc!NextAttempt \/ Rpc!Return(Rpc!Raised(kind))
  PROVE  /\ rpc'.method = rpc.method /\ rpc'.arg = rpc.arg
         /\ {"phase", "outcome"} \subseteq DOMAIN rpc'
         /\ rpc'.phase \in {"sending", "returned"}
         /\ rpc'.outcome = rpc.outcome \/ rpc'.outcome.kind # "answer"
<1>1. CASE Rpc!NextAttempt
  BY <1>1 DEF IInv, RpcOK, Rpc!NextAttempt
<1>2. CASE Rpc!Return(Rpc!Raised(kind))
  <2>1. rpc'.outcome = Rpc!Raised(kind)
    BY <1>2 DEF IInv, RpcOK, Rpc!Return
  <2>2. Rpc!Raised(kind).kind = kind
    BY DEF Rpc!Raised
  <2>3. QED BY <1>2, <2>1, <2>2 DEF IInv, RpcOK, Rpc!Return
<1>3. QED BY <1>1, <1>2

LEMMA SendInv ==
  ASSUME IInv, Rpc!Send, UNCHANGED <<chainVars, frame, results>>
  PROVE  IInv'
<1>1. /\ rpc'.method = rpc.method /\ rpc'.arg = rpc.arg /\ rpc'.outcome = rpc.outcome
      /\ rpc'.phase = "waiting" /\ {"phase", "outcome"} \subseteq DOMAIN rpc'
  BY DEF IInv, RpcOK, Rpc!Send
<1>2. wire' = wire \cup {Rpc!Request} /\ reply' = reply
  BY DEF Rpc!Send
<1>3. Rpc!Request.method = rpc.method /\ Rpc!Request.arg = rpc.arg
  BY DEF Rpc!Request
<1>4. UNCHANGED <<frame, chain, pool>>
  BY DEF chainVars
<1>5. rpc.phase = "sending"
  BY DEF Rpc!Send
<1>6. NonceAnswers'
  BY <1>1, <1>2, <1>4 DEF IInv, SubmissionInv, NonceAnswers
<1>7. CASE rpc.method \notin Submissions
  <2>1. Known' = Known /\ Submitted' = Submitted
    BY <1>2, <1>3, <1>4, <1>7 DEF Known, Submitted
  <2>2. FrameOK' /\ RpcOK' /\ ChainOK' /\ PoolOK'
    BY <1>1, <1>4 DEF IInv, FrameOK, RpcOK, ChainOK, PoolOK
  <2>3. ChainNonces' /\ OneTransactionPerStep' /\ ForeignByNonce' /\ NoncesGiven'
    BY <2>1, <1>4 DEF IInv, SubmissionInv, ChainNonces, OneTransactionPerStep, ForeignByNonce,
                      NoncesGiven, Foreign
  <2>4. KnownStepsReached' /\ UnsentStepUnknown' /\ SubmissionIsPrepared'
    BY <2>1, <1>1, <1>4 DEF IInv, SubmissionInv, KnownStepsReached, UnsentStepUnknown,
                            SubmissionIsPrepared
  <2>5. OnlySendSubmits'
    BY <1>1, <1>4, <1>7 DEF OnlySendSubmits
  <2>6. QED BY <2>2, <2>3, <2>4, <2>5, <1>6 DEF IInv, SubmissionInv
<1>8. CASE rpc.method \in Submissions
  <2>1. frame.stage = "send"
    BY <1>5, <1>8 DEF IInv, SubmissionInv, OnlySendSubmits, InProgress
  <2>2. /\ rpc.arg.step = <<frame.case, frame.pc>> /\ rpc.arg.nonce # NoNonce
        /\ \A t \in Known : t.step = <<frame.case, frame.pc>> => t = rpc.arg
    BY <2>1 DEF IInv, SubmissionInv, SubmissionIsPrepared
  <2>3. Known' = Known \cup {rpc.arg} /\ Submitted' = Submitted \cup {rpc.arg}
    BY <1>2, <1>3, <1>4, <1>8 DEF Known, Submitted
  <2>4. FrameOK' /\ RpcOK' /\ ChainOK' /\ PoolOK'
    BY <1>1, <1>4 DEF IInv, FrameOK, RpcOK, ChainOK, PoolOK
  <2>5. ChainNonces' /\ NoncesGiven'
    BY <2>2, <2>3, <1>4 DEF IInv, SubmissionInv, ChainNonces, NoncesGiven
  <2>6. OneTransactionPerStep'
    BY <2>2, <2>3 DEF IInv, SubmissionInv, OneTransactionPerStep
  <2>7. rpc.arg.step[1] = frame.case /\ rpc.arg.step[2] = frame.pc
    BY <2>2
  <2>8. ForeignByNonce'
    BY <2>3, <2>7 DEF IInv, FrameOK, SubmissionInv, ForeignByNonce, Foreign
  <2>9. KnownStepsReached'
    BY <2>2, <2>3, <2>7, <1>4 DEF IInv, FrameOK, SubmissionInv, KnownStepsReached
  <2>10. UnsentStepUnknown' /\ SubmissionIsPrepared' /\ OnlySendSubmits'
    BY <1>1, <1>4, <2>1, <2>2, <2>3 DEF UnsentStepUnknown, SubmissionIsPrepared, OnlySendSubmits
  <2>11. QED BY <2>4, <2>5, <2>6, <2>8, <2>9, <2>10, <1>6 DEF IInv, SubmissionInv
<1>9. QED BY <1>7, <1>8

LEMMA ClientStepInv ==
  ASSUME IInv, Rpc!ClientStep, UNCHANGED <<chainVars, frame, results>>
  PROVE  IInv'
<1>1. UNCHANGED <<frame, chain, pool>>
  BY DEF chainVars
<1>2. CASE Rpc!Send
  BY <1>2, SendInv
<1>3. ASSUME NEW kind \in {"timeout", "transport"}, Rpc!ConnectFails(kind) PROVE IInv'
  <2>1. Rpc!NextAttempt \/ Rpc!Return(Rpc!Raised(kind))
    BY <1>3 DEF Rpc!ConnectFails
  <2>2. wire' = wire /\ reply' = reply /\ rpc.phase = "sending"
    BY <1>3 DEF Rpc!ConnectFails
  <2>3. NonceAnswers'
    BY <1>1, <2>1, <2>2, AttemptEnds DEF IInv, SubmissionInv, NonceAnswers
  <2>4. InProgress' => InProgress
    BY <2>2 DEF InProgress
  <2>5. QED BY <1>1, <2>1, <2>2, <2>3, <2>4, AttemptEnds, TransportInv
<1>4. CASE Rpc!ReadTimeout \/ Rpc!BadResponse \/ Rpc!ConnectionReset
  <2>1. PICK kind \in {"timeout", "transport", "uncaught"} :
          Rpc!NextAttempt \/ Rpc!Return(Rpc!Raised(kind))
    BY <1>4 DEF Rpc!ReadTimeout, Rpc!BadResponse, Rpc!ConnectionReset
  <2>2. wire' \subseteq wire /\ reply' = {} /\ rpc.phase = "waiting"
    BY <1>4 DEF Rpc!ReadTimeout, Rpc!BadResponse, Rpc!ConnectionReset, Rpc!WireAfterAbandon
  <2>3. NonceAnswers'
    BY <1>1, <2>1, <2>2, AttemptEnds DEF IInv, SubmissionInv, NonceAnswers
  <2>4. InProgress' => InProgress
    BY <2>2 DEF InProgress
  <2>5. QED BY <1>1, <2>1, <2>2, <2>3, <2>4, AttemptEnds, TransportInv
<1>5. CASE Rpc!TakeAnswer
  <2>1. PICK a \in reply : Rpc!Return(Rpc!Answered(a))
    BY <1>5 DEF Rpc!TakeAnswer
  <2>2. /\ rpc'.method = rpc.method /\ rpc'.arg = rpc.arg
        /\ {"phase", "outcome"} \subseteq DOMAIN rpc'
        /\ rpc'.phase = "returned" /\ rpc'.outcome = [kind |-> "answer", value |-> a]
    BY <2>1 DEF IInv, RpcOK, Rpc!Return, Rpc!Answered
  <2>3. wire' = wire /\ reply' = {} /\ rpc.phase = "waiting"
    BY <1>5 DEF Rpc!TakeAnswer
  <2>4. NonceAnswers'
    BY <1>1, <2>2, <2>3 DEF IInv, SubmissionInv, NonceAnswers
  <2>5. InProgress' => InProgress
    BY <2>3 DEF InProgress
  <2>6. QED BY <1>1, <2>2, <2>3, <2>4, <2>5, TransportInv
<1>6. QED BY <1>2, <1>3, <1>4, <1>5 DEF Rpc!ClientStep

-----------------------------------------------------------------------------
(* The node and other clients. *)

\* What the node answers to eth_getTransactionCount is a number.
LEMMA PendingNonceIsNat ==
  ASSUME IInv
  PROVE  PendingNonce \in Nat
<1>1. PICK S : chain \in Seq(S)
  BY DEF IInv, ChainOK
<1>2. Len(chain) \in Nat
  BY <1>1, LenProperties
<1>3. Ready \subseteq pool /\ IsFiniteSet(pool)
  BY DEF Ready, IInv, PoolOK
<1>4. Cardinality(Ready) \in Nat
  BY <1>3, FS_Subset, FS_CardinalityType
<1>5. QED BY <1>2, <1>4 DEF PendingNonce

LEMMA NonceAtIsNat ==
  ASSUME IInv, NEW view
  PROVE  NonceAt(view) \in Nat
<1>1. PICK S : chain \in Seq(S)
  BY DEF IInv, ChainOK
<1>2. Len(chain) \in Nat /\ DOMAIN chain = 1..Len(chain)
  BY <1>1, LenProperties
<1>3. IsFiniteSet(1..Len(chain))
  BY <1>2, FS_Interval
<1>4. UpTo(view) \subseteq 1..Len(chain)
  BY <1>2 DEF UpTo
<1>5. Cardinality(UpTo(view)) \in Nat
  BY <1>3, <1>4, FS_Subset, FS_CardinalityType
<1>6. QED BY <1>5, PendingNonceIsNat DEF NonceAt

\* The answer the node gives to a request does not disturb what the invariant
\* says of answers, if a nonce that is asked for is a nonce.
LEMMA HandleAnswers ==
  ASSUME IInv, NEW r, NEW a, Rpc!Handle(r, a), UNCHANGED frame,
         r.method = "eth_getTransactionCount" => a.value # NoNonce
  PROVE  NonceAnswers' /\ rpc' = rpc /\ wire' \subseteq wire /\ r \in wire
<1>1. rpc' = rpc /\ wire' \subseteq wire /\ r \in wire
  BY DEF Rpc!Handle
<1>2. reply' = IF rpc.phase = "waiting" /\ r = Rpc!Request THEN {a} ELSE reply
  BY DEF Rpc!Handle
<1>3. r = Rpc!Request => r.method = rpc.method
  BY DEF Rpc!Request
<1>4. QED BY <1>1, <1>2, <1>3 DEF IInv, SubmissionInv, NonceAnswers

LEMMA ServeReadInv == ASSUME IInv, ServeRead PROVE IInv'
<1>1. PICK r \in {s \in wire : s.method \in Reads}, view \in Views :
        \E answer \in ReadAnswers(r, view) :
          /\ Rpc!Handle(r, answer)
          /\ UNCHANGED <<chainVars, frame, results>>
  BY DEF ServeRead
<1>2. PICK answer \in ReadAnswers(r, view) :
        /\ Rpc!Handle(r, answer)
        /\ UNCHANGED <<chainVars, frame, results>>
  BY <1>1
<1>3. ASSUME r.method = "eth_getTransactionCount" PROVE answer.value # NoNonce
  <2>1. answer = Good(NonceAt(view))
    BY <1>3 DEF ReadAnswers
  <2>2. QED BY <2>1, NonceAtIsNat, ChainConstants DEF Good
<1>4. NonceAnswers' /\ rpc' = rpc /\ wire' \subseteq wire
  BY <1>2, <1>3, HandleAnswers
<1>5. UNCHANGED <<frame, chain, pool>>
  BY <1>2 DEF chainVars
<1>6. QED BY <1>4, <1>5, TransportInv DEF IInv, RpcOK, InProgress

\* The wire and the pool together know nothing new.
LEMMA ServeSubmissionInv == ASSUME IInv, ServeSubmission PROVE IInv'
<1>1. PICK r \in {s \in wire : s.method \in Submissions} :
        LET tx == Signed(r.arg) IN
          /\ IF Refusal(tx) = "none"
             THEN Accept(tx) /\ Rpc!Handle(r, Good(tx))
             ELSE Rpc!Handle(r, Bad(Refusal(tx))) /\ UNCHANGED chainVars
          /\ UNCHANGED <<frame, results>>
  BY DEF ServeSubmission
<1>2. Signed(r.arg) = r.arg /\ r.arg \in Submitted
  BY DEF Signed, Submitted, IInv, SubmissionInv, NoncesGiven
<1>3. r.method # "eth_getTransactionCount"
  BY DEF Submissions, RawTx
<1>4. PICK a : Rpc!Handle(r, a)
  BY <1>1
<1>5. frame' = frame
  BY <1>1
<1>6. NonceAnswers' /\ rpc' = rpc /\ wire' \subseteq wire
  BY <1>3, <1>4, <1>5, HandleAnswers
<1>7. chain' = chain /\ (pool' = pool \/ pool' = pool \cup {r.arg})
  BY <1>1, <1>2 DEF Accept, chainVars
<1>8. Known' \subseteq Known /\ Submitted' \subseteq Submitted
  BY <1>2, <1>6, <1>7 DEF Known, Submitted
<1>9. FrameOK' /\ RpcOK' /\ ChainOK'
  BY <1>5, <1>6, <1>7 DEF IInv, FrameOK, RpcOK, ChainOK
<1>10. PoolOK'
  BY <1>7, FS_AddElement DEF IInv, PoolOK
<1>11. ChainNonces' /\ OneTransactionPerStep' /\ ForeignByNonce' /\ NoncesGiven'
  BY <1>7, <1>8 DEF IInv, SubmissionInv, ChainNonces, OneTransactionPerStep, ForeignByNonce,
                    NoncesGiven, Foreign
<1>12. KnownStepsReached' /\ UnsentStepUnknown' /\ SubmissionIsPrepared' /\ OnlySendSubmits'
  BY <1>5, <1>6, <1>8 DEF IInv, SubmissionInv, KnownStepsReached, UnsentStepUnknown,
                          SubmissionIsPrepared, OnlySendSubmits, InProgress
<1>13. QED BY <1>6, <1>9, <1>10, <1>11, <1>12 DEF IInv, SubmissionInv

\* Transactions that move within the node, or leave it.
LEMMA NodeKeepsInv ==
  ASSUME IInv, UNCHANGED <<rpcVars, frame>>, Known' \subseteq Known,
         ChainOK', ChainNonces', PoolOK'
  PROVE  IInv'
<1>1. rpc' = rpc /\ wire' = wire /\ reply' = reply /\ Submitted' = Submitted
  BY DEF rpcVars, Submitted
<1>2. FrameOK' /\ RpcOK'
  BY <1>1 DEF IInv, FrameOK, RpcOK
<1>3. OneTransactionPerStep' /\ ForeignByNonce' /\ NoncesGiven'
  BY <1>1 DEF IInv, SubmissionInv, OneTransactionPerStep, ForeignByNonce, NoncesGiven, Foreign
<1>4. KnownStepsReached' /\ UnsentStepUnknown' /\ SubmissionIsPrepared'
  BY <1>1 DEF IInv, SubmissionInv, KnownStepsReached, UnsentStepUnknown, SubmissionIsPrepared
<1>5. OnlySendSubmits' /\ NonceAnswers'
  BY <1>1 DEF IInv, SubmissionInv, OnlySendSubmits, InProgress, NonceAnswers
<1>6. QED BY <1>2, <1>3, <1>4, <1>5 DEF IInv, SubmissionInv

\* A function on 1..k is a sequence of length k.
LEMMA FunctionIsSequence ==
  ASSUME NEW k \in Nat, NEW T, NEW f \in [1..k -> T]
  PROVE  f \in Seq(T) /\ Len(f) = k
  OBVIOUS

\* A block continues the nonces of the chain with transactions of the pool.
LEMMA MineInv == ASSUME IInv, MineBlock PROVE IInv'
<1>1. PICK k \in 1..MaxPerBlock, ok \in [1..MaxPerBlock -> IF MayFail THEN BOOLEAN ELSE {TRUE}] :
        LET next(i) == CHOOSE tx \in pool : tx.nonce = Len(chain) + i - 1
            mined == {next(i) : i \in 1..k} IN
          /\ \A i \in 1..k : \E tx \in pool : tx.nonce = Len(chain) + i - 1
          /\ chain' = chain \o [i \in 1..k |-> [tx |-> next(i), block |-> head + 1, ok |-> ok[i]]]
          /\ head' = head + 1
          /\ pool' = pool \ mined
          /\ UNCHANGED drops
  BY DEF MineBlock, Mine
<1> DEFINE next(i) == CHOOSE tx \in pool : tx.nonce = Len(chain) + i - 1
           entry(i) == [tx |-> next(i), block |-> head + 1, ok |-> ok[i]]
           block == [i \in 1..k |-> entry(i)]
<1>2. \A i \in 1..k : next(i) \in pool /\ next(i).nonce = Len(chain) + i - 1
  BY <1>1
<1>3. chain' = chain \o block /\ pool' \subseteq pool
  BY <1>1
<1>4. PICK S : chain \in Seq(S)
  BY DEF IInv, ChainOK
<1> DEFINE T == S \cup {entry(i) : i \in 1..k}
<1>5. k \in Nat
  BY ChainConstants
<1>6. chain \in Seq(T)
  BY <1>4, SeqMonotonic
<1>7. block \in Seq(T) /\ Len(block) = k
  <2>1. block \in [1..k -> T]
    OBVIOUS
  <2>2. QED BY <2>1, <1>5, FunctionIsSequence
<1>8. \A i \in 1..k : block[i].tx = next(i)
  OBVIOUS
<1> HIDE DEF T, block, next, entry
<1>9. /\ chain \o block \in Seq(T)
      /\ Len(chain \o block) = Len(chain) + Len(block)
      /\ \A i \in 1..(Len(chain) + Len(block)) :
           (chain \o block)[i] = IF i <= Len(chain) THEN chain[i] ELSE block[i - Len(chain)]
  BY <1>6, <1>7, ConcatProperties
<1>10. /\ Len(chain) \in Nat /\ DOMAIN chain = 1..Len(chain)
       /\ DOMAIN chain' = 1..(Len(chain) + k)
  BY <1>3, <1>5, <1>6, <1>7, <1>9, LenProperties
<1>11. \A i \in DOMAIN chain' :
         \/ i \in DOMAIN chain /\ chain'[i] = chain[i]
         \/ i - Len(chain) \in 1..k /\ chain'[i] = block[i - Len(chain)]
  BY <1>3, <1>5, <1>7, <1>9, <1>10
<1>12. ChainOK'
  BY <1>3, <1>9 DEF ChainOK
<1>13. PoolOK'
  BY <1>3, FS_Subset DEF IInv, PoolOK
<1>14. ChainNonces'
  <2> SUFFICES ASSUME NEW i \in DOMAIN chain' PROVE chain'[i].tx.nonce = i - 1
    BY DEF ChainNonces
  <2>1. CASE i \in DOMAIN chain /\ chain'[i] = chain[i]
    BY <2>1 DEF IInv, SubmissionInv, ChainNonces
  <2>2. CASE i - Len(chain) \in 1..k /\ chain'[i] = block[i - Len(chain)]
    <3>1. chain'[i].tx.nonce = Len(chain) + (i - Len(chain)) - 1
      BY <2>2, <1>2, <1>8
    <3>2. i \in Nat
      BY <1>10, <1>5
    <3>3. QED BY <3>1, <3>2, <1>10
  <2>3. QED BY <2>1, <2>2, <1>11
<1>15. Known' \subseteq Known
  <2>1. \A i \in DOMAIN chain' : chain'[i].tx \in Known
    BY <1>2, <1>8, <1>11 DEF Known
  <2>2. Submitted' = Submitted
    BY DEF MineBlock, rpcVars, Submitted
  <2>3. QED BY <2>1, <2>2, <1>3 DEF Known
<1>16. QED BY <1>12, <1>13, <1>14, <1>15, NodeKeepsInv DEF MineBlock

LEMMA DropInv == ASSUME IInv, DropTransaction PROVE IInv'
<1>1. pool' \subseteq pool /\ chain' = chain /\ UNCHANGED <<rpcVars, frame>>
  BY DEF DropTransaction, Drop
<1>2. Known' \subseteq Known
  BY <1>1 DEF Known, Submitted, rpcVars
<1>3. ChainOK' /\ ChainNonces'
  BY <1>1 DEF IInv, ChainOK, SubmissionInv, ChainNonces
<1>4. PoolOK'
  BY <1>1, FS_Subset DEF IInv, PoolOK
<1>5. QED BY <1>1, <1>2, <1>3, <1>4, NodeKeepsInv

\* A foreign transaction is named by its nonce and is none of this run's.
LEMMA OtherClientInv == ASSUME IInv, OtherClient PROVE IInv'
<1> DEFINE tx == Foreign(PendingNonce)
<1>1. PendingNonce \in Nat
  BY PendingNonceIsNat
<1>2. /\ tx.step = <<0, PendingNonce>> /\ tx = Foreign(tx.step[2])
      /\ tx.step[1] = 0 /\ tx.step[2] = PendingNonce
  BY DEF Foreign
<1> HIDE DEF tx
<1>3. pool' = pool \cup {tx} /\ chain' = chain /\ UNCHANGED <<rpcVars, frame>>
  BY DEF OtherClient, Accept, tx
<1>4. /\ rpc' = rpc /\ wire' = wire /\ reply' = reply
      /\ Submitted' = Submitted /\ Known' = Known \cup {tx}
  BY <1>3 DEF Known, Submitted, rpcVars
<1>5. \A t \in Known : t.step = tx.step => t = tx
  <2> SUFFICES ASSUME NEW t \in Known, t.step = tx.step PROVE t = tx
    OBVIOUS
  <2>1. t.step[1] = 0 /\ t.step[2] = PendingNonce
    BY <1>2
  <2>2. QED BY <2>1 DEF IInv, SubmissionInv, ForeignByNonce, tx
<1>6. FrameOK' /\ RpcOK' /\ ChainOK' /\ ChainNonces' /\ NoncesGiven'
  BY <1>3, <1>4 DEF IInv, FrameOK, RpcOK, ChainOK, SubmissionInv, ChainNonces, NoncesGiven
<1>7. PoolOK'
  BY <1>3, FS_AddElement DEF IInv, PoolOK
<1>8. OneTransactionPerStep' /\ ForeignByNonce'
  BY <1>2, <1>4, <1>5 DEF IInv, SubmissionInv, OneTransactionPerStep, ForeignByNonce, Foreign
<1>9. tx.step # <<frame.case, frame.pc>>
  BY <1>2 DEF IInv, FrameOK
<1>10. KnownStepsReached' /\ UnsentStepUnknown' /\ SubmissionIsPrepared'
  BY <1>1, <1>2, <1>3, <1>4, <1>9 DEF IInv, FrameOK, SubmissionInv, KnownStepsReached,
       UnsentStepUnknown, SubmissionIsPrepared
<1>11. OnlySendSubmits' /\ NonceAnswers'
  BY <1>3, <1>4 DEF IInv, SubmissionInv, OnlySendSubmits, InProgress, NonceAnswers
<1>12. QED BY <1>6, <1>7, <1>8, <1>10, <1>11 DEF IInv, SubmissionInv

-----------------------------------------------------------------------------
LEMMA InitInv == Init => IInv
<1> SUFFICES ASSUME Init PROVE IInv
  OBVIOUS
<1>1. Known = {} /\ Submitted = {}
  BY DEF Init, ChainInit, Known, Submitted
<1>2. FrameOK /\ RpcOK
  BY DEF Init, Frame, FrameOK, RpcOK
<1>3. ChainOK /\ PoolOK
  BY EmptySeq, FS_EmptySet DEF Init, ChainInit, ChainOK, PoolOK
<1>4. ChainNonces /\ OneTransactionPerStep /\ ForeignByNonce /\ NoncesGiven /\ KnownStepsReached
  BY <1>1 DEF Init, ChainInit, ChainNonces, OneTransactionPerStep, ForeignByNonce, NoncesGiven,
              KnownStepsReached
<1>5. UnsentStepUnknown /\ SubmissionIsPrepared /\ OnlySendSubmits /\ NonceAnswers
  BY <1>1 DEF Init, Frame, UnsentStepUnknown, SubmissionIsPrepared, OnlySendSubmits, InProgress,
              NonceAnswers
<1>6. QED BY <1>2, <1>3, <1>4, <1>5 DEF IInv, SubmissionInv

LEMMA StepInv == IInv /\ [Next]_vars => IInv'
<1> SUFFICES ASSUME IInv, [Next]_vars PROVE IInv'
  OBVIOUS
<1>1. CASE Transport
  BY <1>1, ClientStepInv DEF Transport
<1>2. CASE Interpret
  BY <1>2, InterpretClass, QuietInv, StartsSendInv, AdvancesInv, AbortsInv
<1>3. CASE Node
  BY <1>3, ServeReadInv, ServeSubmissionInv, MineInv, DropInv, OtherClientInv DEF Node
<1>4. CASE UNCHANGED vars
  <2>1. rpc' = rpc /\ UNCHANGED <<frame, chain, pool>> /\ wire' = wire /\ reply' = reply
    BY <1>4 DEF vars, rpcVars, chainVars
  <2>2. NonceAnswers'
    BY <2>1 DEF IInv, SubmissionInv, NonceAnswers
  <2>3. QED BY <2>1, <2>2, TransportInv DEF IInv, RpcOK, InProgress
<1>5. QED BY <1>1, <1>2, <1>3, <1>4 DEF Next, Harness, Terminated

\* The inductive invariant behind it (executor.py:1413-1414, 1301, 1496-1499).
THEOREM SubmissionsAreSafe == Spec => []SubmissionInv
<1>1. IInv => SubmissionInv
  BY DEF IInv
<1>2. QED BY InitInv, StepInv, <1>1, PTL DEF Spec

\* No step of any case takes effect twice on the chain: however often a request
\* that the node signs is repeated, and whatever the network, the node and other
\* clients of the account do (executor.py:1413-1414, 1301, 1496-1499).
THEOREM NothingRunsTwice == Spec => []NoDoubleExecution
<1>1. IInv => NoDoubleExecution
  <2> SUFFICES ASSUME IInv, NEW i \in DOMAIN chain, NEW j \in DOMAIN chain,
                      chain[i].tx.step = chain[j].tx.step
               PROVE  i = j
    BY DEF NoDoubleExecution
  <2>1. chain[i].tx = chain[j].tx
    BY DEF IInv, SubmissionInv, OneTransactionPerStep, Known
  <2>2. i - 1 = j - 1
    BY <2>1 DEF IInv, SubmissionInv, ChainNonces
  <2>3. i \in Nat /\ j \in Nat
    BY LenProperties DEF IInv, ChainOK
  <2>4. QED BY <2>2, <2>3
<1>2. QED BY InitInv, StepInv, <1>1, PTL DEF Spec
=============================================================================
