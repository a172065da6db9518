----------------------- MODULE JsonRpcExpectations_proofs -----------------------
(* Proofs that a case with a right expectation is not reported as a mismatch:  *)
(* NoFalseMismatch, and MismatchOnlyFromForeignTransfer for the cases that     *)
(* expect a balance, for every list of cases, right ones and wrong ones, every *)
(* node and every number of failures, and for both kinds of keys.              *)
EXTENDS JsonRpcResults_proofs

-----------------------------------------------------------------------------
(* The invariant.  First, what the transactions, the hashes, the receipt and   *)
(* the error of the case in progress stand for.                                *)

\* What a transaction that is known anywhere was made of.
Meant(t) ==
  LET k == t.step[1]
      pc == t.step[2] IN
    /\ k \in DOMAIN Cases /\ pc \in DOMAIN Cases[k].steps
    /\ Cases[k].steps[pc].action \in SubmitActions
    /\ t.kind = KindOf(Cases[k].steps[pc].action)
    /\ t.to # None <=> Cases[k].steps[pc].to = "$last_contract"

KnownMeant == \A t \in Known : t.step[1] # 0 => Meant(t)

\* A call is made within a case, and a refusal has a reason.
OnCase == frame.case <= Len(Cases)

CallsOnCase == frame.stage \notin {"step", "aborted"} => OnCase

RefusalsHaveReasons ==
  /\ \A a \in reply : ~a.ok => a.error # None
  /\ rpc.outcome.kind = "answer" /\ ~rpc.outcome.value.ok => rpc.outcome.value.error # None

\* The error that was kept is that of a step that was to be refused.
RefusalTold ==
  OnCase =>
    \A pc \in 1..(frame.pc - 1) :
      pc \in DOMAIN Case.steps /\ Case.steps[pc].expectError # None =>
        \E other \in DOMAIN Case.steps :
          /\ Case.steps[other].expectError # None
          /\ frame.error = Case.steps[other].expectError

\* Every transaction of the case that was taken has its hash, in order.
HashesComplete ==
  OnCase =>
    \A pc \in 1..(frame.pc - 1) :
      pc \in DOMAIN Case.steps /\ Case.steps[pc].action \in SubmitActions
        /\ Case.steps[pc].expectError = None =>
          \E i \in DOMAIN frame.hashes : frame.hashes[i].step = <<frame.case, pc>>

HashesSorted ==
  \A i, j \in DOMAIN frame.hashes :
    i < j => frame.hashes[i].step[2] < frame.hashes[j].step[2]

\* Later transactions are in later blocks, and so are later steps of the case.
BlocksOrdered ==
  \A i, j \in DOMAIN chain : i < j => chain[i].block <= chain[j].block

StepsOrdered ==
  OnCase =>
    \A i, j \in DOMAIN chain :
      chain[i].tx.step[1] = frame.case /\ chain[j].tx.step[1] = frame.case
        /\ Awaited(Case, chain[i].tx.step[2]) /\ chain[i].tx.step[2] < chain[j].tx.step[2]
          => i < j

\* The receipt of step pc has come.
Waited(pc) == pc + 1 < frame.pc \/ (pc + 1 = frame.pc /\ frame.stage = "block")

\* The last receipt is of a block that has every transaction that was waited for.
ReceiptCovers ==
  OnCase =>
    \A pc \in DOMAIN Case.steps : Awaited(Case, pc) /\ Waited(pc) =>
      /\ frame.receipt # None
      /\ \E j \in DOMAIN chain :
           /\ chain[j].tx.step = <<frame.case, pc>>
           /\ chain[j].ok = Case.steps[pc].status
           /\ chain[j].block <= frame.receipt.block
      /\ Case.steps[pc].action = "deploy_contract" => frame.contract # None

MeaningInv ==
  /\ KnownMeant
  /\ CallsOnCase
  /\ RefusalsHaveReasons
  /\ RefusalTold
  /\ HashesComplete
  /\ HashesSorted
  /\ BlocksOrdered
  /\ StepsOrdered
  /\ ReceiptCovers

-----------------------------------------------------------------------------
(* Facts about the case in progress and the chain. *)

LEMMA CaseFacts ==
  ASSUME LocalInv, OnCase
  PROVE  /\ frame.case \in DOMAIN Cases
         /\ Len(Case.steps) \in Nat /\ DOMAIN Case.steps = 1..Len(Case.steps)
         /\ frame.pc \in Nat \ {0}
         /\ \A pc \in DOMAIN Case.steps :
              /\ Case.steps[pc].action = "deploy_contract" => Case.steps[pc].status
              /\ Case.steps[pc].expectError # None => Case.steps[pc].action = RawTx
<1>1. frame.case \in 1..(Len(Cases) + 1) /\ frame.pc \in Nat \ {0}
  BY DEF LocalInv, FrameTyped
<1>2. Len(Cases) \in Nat /\ DOMAIN Cases = 1..Len(Cases)
  BY CaseConstants, SequenceFacts
<1>3. frame.case \in DOMAIN Cases
  BY <1>1, <1>2 DEF OnCase
<1>4. IsSequence(Case.steps)
  BY <1>3, CaseConstants DEF Case
<1>5. QED BY <1>1, <1>3, <1>4, CaseConstants, SequenceFacts DEF Case, RawTx

LEMMA ChainFacts ==
  ASSUME IInv
  PROVE  /\ Len(chain) \in Nat /\ DOMAIN chain = 1..Len(chain)
         /\ \A i \in DOMAIN chain : chain[i].tx \in Known /\ chain[i].tx.nonce = i - 1
         /\ \A i, j \in DOMAIN chain : chain[i].tx.step = chain[j].tx.step => i = j
<1>1. Len(chain) \in Nat /\ DOMAIN chain = 1..Len(chain)
  BY LenProperties DEF IInv, ChainOK
<1>2. \A i \in DOMAIN chain : chain[i].tx \in Known /\ chain[i].tx.nonce = i - 1
  BY DEF Known, IInv, SubmissionInv, ChainNonces
<1>3. ASSUME NEW i \in DOMAIN chain, NEW j \in DOMAIN chain, chain[i].tx.step = chain[j].tx.step
      PROVE  i = j
  <2>1. chain[i].tx = chain[j].tx
    BY <1>2, <1>3 DEF IInv, SubmissionInv, OneTransactionPerStep
  <2>2. i - 1 = j - 1 /\ i \in Nat /\ j \in Nat
    BY <1>1, <1>2, <2>1
  <2>3. QED BY <2>2
<1>4. QED BY <1>1, <1>2, <1>3

\* The same of the chain after a step.
LEMMA PrimedChainFacts ==
  ASSUME IInv'
  PROVE  /\ DOMAIN chain' \subseteq Nat
         /\ \A i, j \in DOMAIN chain' : chain'[i].tx.step = chain'[j].tx.step => i = j
<1>1. DOMAIN chain' \subseteq Nat
  <2>1. PICK S : chain' \in Seq(S)
    BY DEF IInv, ChainOK
  <2>2. QED BY <2>1, LenProperties
<1>2. \A i \in DOMAIN chain' : chain'[i].tx \in Known' /\ chain'[i].tx.nonce = i - 1
  BY DEF Known, IInv, SubmissionInv, ChainNonces
<1>3. ASSUME NEW i \in DOMAIN chain', NEW j \in DOMAIN chain', chain'[i].tx.step = chain'[j].tx.step
      PROVE  i = j
  <2>1. chain'[i].tx = chain'[j].tx
    BY <1>2, <1>3 DEF IInv, SubmissionInv, OneTransactionPerStep
  <2>2. i - 1 = j - 1 /\ i \in Nat /\ j \in Nat
    BY <1>1, <1>2, <2>1
  <2>3. QED BY <2>2
<1>4. QED BY <1>1, <1>3

\* A known transaction of the case in progress, and its step.
LEMMA KnownStep ==
  ASSUME IInv, NEW t \in Known
  PROVE  /\ t.step = <<t.step[1], t.step[2]>> /\ t.step[1] \in Nat /\ t.step[2] \in Nat
         /\ t.step[1] <= frame.case
         /\ t.step[1] = frame.case => t.step[2] <= frame.pc
  BY DEF IInv, SubmissionInv, KnownStepsReached

LEMMA InterpretOnCase == Interpret => OnCase
  BY DEF Interpret, BeginSubmit, GotBalanceBefore, GotNonce, GotHash, GotRejection,
     BeginWait, Poll, DeadlinePasses, NoReceipt, GotReceipt, GotBlock, BeginRpcCall, GotRpcCall,
     GotBalance, GotStorage, HeaderLags, CallFails, RunAborts, AtStep, At, Back, Result, OnCase

LEMMA ReasonsKept ==
  ASSUME RefusalsHaveReasons, reply' \subseteq reply,
         \/ rpc' = rpc
         \/ reply' = {} /\ rpc'.outcome.kind = "none"
  PROVE  RefusalsHaveReasons'
  BY DEF RefusalsHaveReasons

\* While the interpreter runs, nothing new is known and the chain stays.
LEMMA IdleMeaning ==
  ASSUME MeaningInv, NodeIdle
  PROVE  KnownMeant' /\ BlocksOrdered'
<1>1. Known' = Known /\ chain' = chain
  BY NodeIdleKnown DEF NodeIdle, chainVars
<1>2. QED BY <1>1 DEF MeaningInv, KnownMeant, BlocksOrdered

-----------------------------------------------------------------------------
(* MeaningInv is an invariant: the interpreter. *)

LEMMA WithinMeaning ==
  ASSUME IInv, IInv', LocalInv, MeaningInv, OnCase, Within
  PROVE  MeaningInv'
<1>1. /\ frame'.case = frame.case /\ frame'.pc = frame.pc /\ frame'.hashes = frame.hashes
      /\ frame'.receipt = frame.receipt /\ frame'.contract = frame.contract
      /\ frame'.error = frame.error /\ frame'.stage # "block"
      /\ Case' = Case /\ chain' = chain /\ NodeIdle
  BY DEF Within, SameStep, Case, NodeIdle, chainVars
<1>2. KnownMeant' /\ BlocksOrdered'
  BY <1>1, IdleMeaning
<1>3. CallsOnCase'
  BY <1>1 DEF CallsOnCase, OnCase
<1>4. RefusalsHaveReasons'
  BY <1>1, ReasonsKept, CallsStartEmpty DEF MeaningInv, Within, NodeIdle
<1>5. RefusalTold' /\ HashesComplete' /\ HashesSorted' /\ StepsOrdered'
  BY <1>1 DEF MeaningInv, RefusalTold, HashesComplete, HashesSorted, StepsOrdered, OnCase
<1>6. ReceiptCovers'
  BY <1>1 DEF MeaningInv, ReceiptCovers, OnCase, Waited
<1>7. QED BY <1>2, <1>3, <1>4, <1>5, <1>6 DEF MeaningInv

LEMMA PassesMeaning ==
  ASSUME IInv, LocalInv, MeaningInv, OnCase, Passes
  PROVE  MeaningInv'
<1>1. /\ frame'.case = frame.case /\ frame'.pc = frame.pc + 1 /\ frame'.hashes = frame.hashes
      /\ frame'.receipt = frame.receipt /\ frame'.contract = frame.contract
      /\ frame'.stage = "step" /\ rpc' = rpc
      /\ Case' = Case /\ chain' = chain /\ NodeIdle
  BY DEF Passes, Case, NodeIdle, chainVars
<1>2. /\ frame.case \in DOMAIN Cases /\ frame.pc \in Nat \ {0}
      /\ Len(Case.steps) \in Nat /\ DOMAIN Case.steps = 1..Len(Case.steps)
      /\ \A pc \in DOMAIN Case.steps :
           Case.steps[pc].expectError # None => Case.steps[pc].action = RawTx
  BY CaseFacts
<1>3. KnownMeant' /\ BlocksOrdered'
  BY <1>1, IdleMeaning
<1>4. CallsOnCase'
  BY <1>1 DEF CallsOnCase
<1>5. RefusalsHaveReasons'
  BY <1>1, ReasonsKept DEF MeaningInv, NodeIdle
<1>6. HashesSorted' /\ StepsOrdered'
  BY <1>1 DEF MeaningInv, HashesSorted, StepsOrdered, OnCase
<1>7. frame.pc \in DOMAIN Case.steps
  BY <1>2 DEF Passes, LocalInv, StageMatches
<1>8. /\ frame.stage = "send" =>
           Step.expectError # None /\ frame'.error = Step.expectError
      /\ frame.stage # "send" => Step.action \notin SubmitActions /\ frame'.error = frame.error
  BY DEF Passes, MeaningInv, RefusalsHaveReasons, Error, LocalInv, StageMatches, SubmitActions
<1>9. RefusalTold'
  <2> SUFFICES ASSUME NEW pc \in 1..frame.pc, pc \in DOMAIN Case.steps,
                      Case.steps[pc].expectError # None
               PROVE  \E other \in DOMAIN Case.steps :
                        /\ Case.steps[other].expectError # None
                        /\ frame'.error = Case.steps[other].expectError
    BY <1>1, <1>2 DEF RefusalTold
  <2>1. CASE frame.stage = "send"
    BY <1>7, <1>8, <2>1 DEF Step
  <2>2. CASE frame.stage # "send"
    <3>1. pc # frame.pc
      BY <1>2, <1>8, <2>2 DEF Step, SubmitActions, RawTx
    <3>2. pc \in 1..(frame.pc - 1)
      BY <1>2, <3>1
    <3>3. QED BY <1>8, <2>2, <3>2 DEF MeaningInv, RefusalTold
  <2>3. QED BY <2>1, <2>2
<1>10. HashesComplete'
  <2> SUFFICES ASSUME NEW pc \in 1..(frame'.pc - 1), pc \in DOMAIN Case'.steps,
                      Case'.steps[pc].action \in SubmitActions, Case'.steps[pc].expectError = None
               PROVE  \E i \in DOMAIN frame'.hashes : frame'.hashes[i].step = <<frame'.case, pc>>
    BY DEF HashesComplete
  <2>0. pc \in 1..frame.pc /\ pc \in DOMAIN Case.steps
        /\ Case.steps[pc].action \in SubmitActions /\ Case.steps[pc].expectError = None
    BY <1>1, <1>2
  <2>1. pc # frame.pc
    BY <1>8, <2>0 DEF Step
  <2>2. pc \in 1..(frame.pc - 1)
    BY <1>2, <2>0, <2>1
  <2>3. QED BY <1>1, <2>0, <2>2 DEF MeaningInv, HashesComplete
<1>11. ReceiptCovers'
  <2>1. ASSUME NEW pc \in DOMAIN Case.steps, Awaited(Case, pc), Waited(pc)'
        PROVE  Waited(pc)
    <3>1. pc + 1 < frame.pc + 1 /\ pc \in Nat
      BY <1>1, <1>2, <2>1 DEF Waited
    <3>2. CASE pc + 1 = frame.pc
      BY <2>1, <3>2 DEF Awaited, Passes, Step, Waited
    <3>3. CASE pc + 1 # frame.pc
      BY <1>2, <3>1, <3>3 DEF Waited
    <3>4. QED BY <3>2, <3>3
  <2>2. QED BY <1>1, <2>1 DEF MeaningInv, ReceiptCovers, OnCase
<1>12. QED BY <1>3, <1>4, <1>5, <1>6, <1>9, <1>10, <1>11 DEF MeaningInv

\* The new hash is that of the latest step.
LEMMA SendsMeaning ==
  ASSUME IInv, LocalInv, ChainInv, MeaningInv, OnCase, Sends
  PROVE  MeaningInv'
<1>1. /\ frame'.case = frame.case /\ frame'.pc = frame.pc + 1
      /\ frame'.receipt = frame.receipt /\ frame'.contract = frame.contract
      /\ frame'.error = frame.error
      /\ frame'.stage = "step" /\ rpc' = rpc
      /\ Case' = Case /\ chain' = chain /\ NodeIdle
  BY DEF Sends, Case, NodeIdle, chainVars
<1>2. /\ frame.case \in DOMAIN Cases /\ frame.pc \in Nat \ {0}
      /\ Len(Case.steps) \in Nat /\ DOMAIN Case.steps = 1..Len(Case.steps)
  BY CaseFacts
<1>3. KnownMeant' /\ BlocksOrdered'
  BY <1>1, IdleMeaning
<1>4. CallsOnCase'
  BY <1>1 DEF CallsOnCase
<1>5. RefusalsHaveReasons'
  BY <1>1, ReasonsKept DEF MeaningInv, NodeIdle
<1>6. StepsOrdered'
  BY <1>1 DEF MeaningInv, StepsOrdered, OnCase
<1>7. /\ frame.pc \in DOMAIN Case.steps /\ Step.expectError = None
      /\ Step.action \in SubmitActions /\ rpc.arg.step = Cur
  BY <1>2 DEF Sends, LocalInv, StageMatches, CallMatches, Prepared, Cur
<1>8. RefusalTold'
  <2> SUFFICES ASSUME NEW pc \in 1..frame.pc, pc \in DOMAIN Case.steps,
                      Case.steps[pc].expectError # None
               PROVE  \E other \in DOMAIN Case.steps :
                        /\ Case.steps[other].expectError # None
                        /\ frame.error = Case.steps[other].expectError
    BY <1>1, <1>2 DEF RefusalTold
  <2>1. pc \in 1..(frame.pc - 1)
    BY <1>2, <1>7 DEF Step
  <2>2. QED BY <2>1 DEF MeaningInv, RefusalTold
<1>9. /\ Len(frame.hashes) \in Nat /\ DOMAIN frame.hashes = 1..Len(frame.hashes)
      /\ DOMAIN frame'.hashes = 1..(Len(frame.hashes) + 1)
      /\ \A i \in DOMAIN frame.hashes : frame'.hashes[i] = frame.hashes[i]
      /\ frame'.hashes[Len(frame.hashes) + 1] = rpc.arg
  BY AppendFacts, SequenceFacts DEF Sends, LocalInv, FrameTyped
<1>10. HashesComplete'
  <2> SUFFICES ASSUME NEW pc \in 1..(frame'.pc - 1), pc \in DOMAIN Case'.steps,
                      Case'.steps[pc].action \in SubmitActions, Case'.steps[pc].expectError = None
               PROVE  \E i \in DOMAIN frame'.hashes : frame'.hashes[i].step = <<frame'.case, pc>>
    BY DEF HashesComplete
  <2>0. pc \in 1..frame.pc /\ pc \in DOMAIN Case.steps
        /\ Case.steps[pc].action \in SubmitActions /\ Case.steps[pc].expectError = None
    BY <1>1, <1>2
  <2>1. CASE pc = frame.pc
    BY <1>1, <1>7, <1>9, <2>1 DEF Cur
  <2>2. CASE pc # frame.pc
    <3>1. pc \in 1..(frame.pc - 1)
      BY <1>2, <2>0, <2>2
    <3>2. PICK i \in DOMAIN frame.hashes : frame.hashes[i].step = <<frame.case, pc>>
      BY <2>0, <3>1 DEF MeaningInv, HashesComplete
    <3>3. i \in DOMAIN frame'.hashes /\ frame'.hashes[i] = frame.hashes[i]
      BY <1>9
    <3>4. QED BY <1>1, <3>2, <3>3
  <2>3. QED BY <2>1, <2>2
<1>11. HashesSorted'
  <2> SUFFICES ASSUME NEW i \in DOMAIN frame'.hashes, NEW j \in DOMAIN frame'.hashes, i < j
               PROVE  frame'.hashes[i].step[2] < frame'.hashes[j].step[2]
    BY DEF HashesSorted
  <2>1. i \in DOMAIN frame.hashes
    BY <1>9
  <2>2. frame.hashes[i].step[2] \in 1..(frame.pc - 1)
    BY <2>1 DEF ChainInv, HashesTrue
  <2>3. CASE j \in DOMAIN frame.hashes
    BY <1>9, <2>1, <2>3 DEF MeaningInv, HashesSorted
  <2>4. CASE j \notin DOMAIN frame.hashes
    <3>1. j = Len(frame.hashes) + 1
      BY <1>9, <2>4
    <3>2. frame'.hashes[j].step[2] = frame.pc
      BY <1>7, <1>9, <3>1 DEF Cur
    <3>3. frame'.hashes[i].step[2] \in 1..(frame.pc - 1)
      BY <1>9, <2>1, <2>2
    <3>4. frame.pc \in Nat
      BY <1>2
    <3>5. QED BY <3>2, <3>3, <3>4
  <2>5. QED BY <2>3, <2>4
<1>12. ReceiptCovers'
  <2>1. ASSUME NEW pc \in DOMAIN Case.steps, Awaited(Case, pc), Waited(pc)'
        PROVE  Waited(pc)
    <3>1. pc + 1 < frame.pc + 1 /\ pc \in Nat
      BY <1>1, <1>2, <2>1 DEF Waited
    <3>2. pc + 1 # frame.pc
      BY <1>7, <2>1 DEF Awaited, Step, SubmitActions
    <3>3. QED BY <1>2, <3>1, <3>2 DEF Waited
  <2>2. QED BY <1>1, <2>1 DEF MeaningInv, ReceiptCovers, OnCase
<1>13. QED BY <1>3, <1>4, <1>5, <1>6, <1>8, <1>10, <1>11, <1>12 DEF MeaningInv

\* The receipt of the last hash is of a block no earlier than those before it.
LEMMA ReceivesCover ==
  ASSUME IInv, LocalInv, ChainInv, MeaningInv, OnCase, Receives,
         NEW pc \in DOMAIN Case.steps, Awaited(Case, pc), pc + 1 <= frame.pc
  PROVE  /\ \E j \in DOMAIN chain :
              /\ chain[j].tx.step = <<frame.case, pc>>
              /\ chain[j].ok = Case.steps[pc].status
              /\ chain[j].block <= frame'.receipt.block
         /\ Case.steps[pc].action = "deploy_contract" => frame'.contract # None
<1>1. /\ frame.case \in DOMAIN Cases /\ frame.pc \in Nat \ {0}
      /\ Len(Case.steps) \in Nat /\ DOMAIN Case.steps = 1..Len(Case.steps)
  BY CaseFacts
<1>2. /\ Len(chain) \in Nat /\ DOMAIN chain = 1..Len(chain)
      /\ \A i \in DOMAIN chain : chain[i].tx \in Known /\ chain[i].tx.nonce = i - 1
  BY ChainFacts
<1>3. Len(frame.hashes) \in Nat /\ DOMAIN frame.hashes = 1..Len(frame.hashes)
  BY SequenceFacts DEF LocalInv, FrameTyped
<1>4. PICK i \in Lookup(LastHash) :
        /\ chain[i].ok = ExpectedStatus(LastHash)
        /\ frame'.receipt.block = chain[i].block
        /\ frame'.contract = IF LastHash.kind = "create" /\ LastHash.nonce # NoNonce
                             THEN LastHash.nonce ELSE frame.contract
  BY DEF Receives
<1>5. i \in DOMAIN chain /\ chain[i].tx = LastHash
  BY <1>4 DEF Lookup
<1>6. PICK m \in DOMAIN frame.hashes : frame.hashes[m].step = <<frame.case, pc>>
  <2>1. pc \in 1..(frame.pc - 1)
    BY <1>1
  <2>2. QED BY <2>1 DEF MeaningInv, HashesComplete, Awaited
<1>7. Len(frame.hashes) \in DOMAIN frame.hashes /\ LastHash = frame.hashes[Len(frame.hashes)]
  BY <1>3, <1>6 DEF LastHash
<1> DEFINE q == LastHash.step[2]
<1>8. /\ LastHash.step[1] = frame.case /\ q \in 1..(frame.pc - 1) /\ q <= Len(Case.steps)
      /\ LastHash.kind = KindOf(Case.steps[q].action)
  BY <1>7 DEF ChainInv, HashesTrue
<1>9. chain[i].tx.step = <<frame.case, q>>
  BY <1>2, <1>5, <1>8, KnownStep
<1>10. chain[i].tx.nonce \in Nat
  BY <1>2, <1>5
<1>11. frame.contract # None => frame'.contract # None
  BY <1>4, <1>5, <1>10, ExecutionConstants
<1>12. CASE pc = q
  <2>1. chain[i].ok = Case.steps[pc].status
    BY <1>4, <1>12 DEF ExpectedStatus
  <2>2. chain[i].block \in Nat
    BY <1>5 DEF LocalInv, BlocksTyped
  <2>3. Case.steps[pc].action = "deploy_contract" => frame'.contract # None
    <3> SUFFICES ASSUME Case.steps[pc].action = "deploy_contract" PROVE frame'.contract # None
      OBVIOUS
    <3>1. LastHash.kind = "create"
      BY <1>8, <1>12 DEF KindOf
    <3>2. LastHash.nonce # NoNonce
      BY <1>5, <1>10, ChainConstants
    <3>3. QED BY <1>4, <1>5, <1>10, <3>1, <3>2, ExecutionConstants
  <2>4. chain[i].tx.step = <<frame.case, pc>> /\ chain[i].block <= frame'.receipt.block
    BY <1>4, <1>9, <1>12, <2>2
  <2>5. QED BY <1>5, <2>1, <2>3, <2>4
<1>13. CASE pc # q
  <2>1. m < Len(frame.hashes)
    BY <1>3, <1>6, <1>7, <1>13
  <2>2. pc < q
    BY <1>6, <1>7, <2>1 DEF MeaningInv, HashesSorted
  <2>3. Waited(pc)
    BY <1>1, <1>8, <2>2 DEF Waited
  <2>4. PICK j \in DOMAIN chain :
          /\ chain[j].tx.step = <<frame.case, pc>>
          /\ chain[j].ok = Case.steps[pc].status
          /\ chain[j].block <= frame.receipt.block
    BY <2>3 DEF MeaningInv, ReceiptCovers
  <2>5. j < i
    <3>1. chain[j].tx.step[1] = frame.case /\ chain[j].tx.step[2] = pc
      BY <2>4
    <3>2. chain[i].tx.step[1] = frame.case /\ chain[i].tx.step[2] = q
      BY <1>9
    <3> HIDE DEF q
    <3>3. QED BY <1>5, <2>2, <3>1, <3>2 DEF MeaningInv, StepsOrdered
  <2>6. chain[j].block <= chain[i].block
    BY <1>5, <2>5 DEF MeaningInv, BlocksOrdered
  <2>7. Case.steps[pc].action = "deploy_contract" => frame'.contract # None
    BY <1>11, <2>3 DEF MeaningInv, ReceiptCovers
  <2>8. QED BY <1>4, <2>4, <2>6, <2>7
<1>14. QED BY <1>12, <1>13

LEMMA ReceivesMeaning ==
  ASSUME IInv, IInv', LocalInv, ChainInv, MeaningInv, OnCase, Receives
  PROVE  MeaningInv'
<1>1. /\ frame'.case = frame.case /\ frame'.hashes = frame.hashes /\ frame'.receipt # None
      /\ frame'.error = frame.error
      /\ Case' = Case /\ chain' = chain /\ NodeIdle
      /\ \/ frame'.stage = "block" /\ frame'.pc = frame.pc
         \/ frame'.stage = "step" /\ frame'.pc = frame.pc + 1
  BY DEF Receives, Case, NodeIdle, chainVars
<1>2. /\ frame.case \in DOMAIN Cases /\ frame.pc \in Nat \ {0}
      /\ Len(Case.steps) \in Nat /\ DOMAIN Case.steps = 1..Len(Case.steps)
      /\ \A pc \in DOMAIN Case.steps :
           Case.steps[pc].expectError # None => Case.steps[pc].action = RawTx
  BY CaseFacts
<1>3. KnownMeant' /\ BlocksOrdered'
  BY <1>1, IdleMeaning
<1>4. CallsOnCase'
  BY <1>1 DEF CallsOnCase, OnCase
<1>5. RefusalsHaveReasons'
  BY ReasonsKept, CallsStartEmpty DEF MeaningInv, Receives, NodeIdle
<1>6. HashesSorted' /\ StepsOrdered'
  BY <1>1 DEF MeaningInv, HashesSorted, StepsOrdered, OnCase
<1>7. Step.action = "wait_receipt"
  BY DEF LocalInv, StageMatches, Receives
<1>8. ASSUME NEW pc \in 1..(frame'.pc - 1), pc \in DOMAIN Case.steps,
             Case.steps[pc].expectError # None \/ Case.steps[pc].action \in SubmitActions
      PROVE  pc \in 1..(frame.pc - 1)
  <2>1. pc # frame.pc
    BY <1>2, <1>7, <1>8 DEF Step, SubmitActions, RawTx
  <2>2. QED BY <1>1, <1>2, <2>1
<1>9. RefusalTold'
  BY <1>1, <1>8 DEF MeaningInv, RefusalTold, OnCase
<1>10. HashesComplete'
  <2> SUFFICES ASSUME NEW pc \in 1..(frame'.pc - 1), pc \in DOMAIN Case'.steps,
                      Case'.steps[pc].action \in SubmitActions, Case'.steps[pc].expectError = None
               PROVE  \E i \in DOMAIN frame'.hashes : frame'.hashes[i].step = <<frame'.case, pc>>
    BY DEF HashesComplete
  <2>1. pc \in 1..(frame.pc - 1)
    BY <1>1, <1>8
  <2>2. QED BY <1>1, <2>1 DEF MeaningInv, HashesComplete
<1>11. ReceiptCovers'
  <2>1. ASSUME NEW pc \in DOMAIN Case.steps, Waited(pc)' PROVE pc + 1 <= frame.pc
    BY <1>1, <1>2, <2>1 DEF Waited
  <2>2. QED BY <1>1, <2>1, ReceivesCover DEF ReceiptCovers
<1>12. QED BY <1>3, <1>4, <1>5, <1>6, <1>9, <1>10, <1>11 DEF MeaningInv

\* Nothing is known of the steps of the next case.
LEMMA RecordsMeaning ==
  ASSUME IInv, LocalInv, MeaningInv, OnCase, Records
  PROVE  MeaningInv'
<1>1. /\ frame'.case = frame.case + 1 /\ frame'.pc = 1 /\ frame'.stage = "step"
      /\ frame'.hashes = <<>> /\ rpc' = rpc /\ chain' = chain /\ NodeIdle
  BY DEF Records, Frame, NodeIdle, chainVars
<1>2. KnownMeant' /\ BlocksOrdered'
  BY <1>1, IdleMeaning
<1>3. CallsOnCase'
  BY <1>1 DEF CallsOnCase
<1>4. RefusalsHaveReasons'
  BY <1>1, ReasonsKept DEF MeaningInv, NodeIdle
<1>5. 1..(frame'.pc - 1) = {}
  BY <1>1
<1>6. RefusalTold' /\ HashesComplete'
  BY <1>5 DEF RefusalTold, HashesComplete
<1>7. HashesSorted'
  BY <1>1, EmptySeq DEF HashesSorted
<1>8. StepsOrdered'
  <2>1. ASSUME NEW i \in DOMAIN chain PROVE chain[i].tx.step[1] # frame.case + 1
    <3>1. chain[i].tx.step[1] \in Nat /\ chain[i].tx.step[1] <= frame.case
      BY ChainFacts, KnownStep
    <3>2. QED BY <3>1 DEF IInv, FrameOK
  <2>2. QED BY <1>1, <2>1 DEF StepsOrdered
<1>9. ReceiptCovers'
  <2>1. ASSUME OnCase', NEW pc \in DOMAIN Case'.steps PROVE ~Waited(pc)'
    <3>1. frame.case + 1 \in DOMAIN Cases
      <4>1. Len(Cases) \in Nat /\ DOMAIN Cases = 1..Len(Cases)
        BY CaseConstants, SequenceFacts
      <4>2. QED BY <1>1, <2>1, <4>1 DEF OnCase, IInv, FrameOK
    <3>2. pc \in Nat \ {0}
      BY <1>1, <2>1, <3>1, CaseConstants, SequenceFacts DEF Case
    <3>3. QED BY <1>1, <3>2 DEF Waited
  <2>2. QED BY <2>1 DEF ReceiptCovers
<1>10. QED BY <1>2, <1>3, <1>4, <1>6, <1>7, <1>8, <1>9 DEF MeaningInv

-----------------------------------------------------------------------------
(* MeaningInv is an invariant: the transport and the node. *)

\* A block adds transactions of the pool: those of the case come after the
\* steps that were waited for.
LEMMA GrowthMeaning ==
  ASSUME IInv, IInv', LocalInv, MeaningInv, ChainGrows, frame' = frame
  PROVE  BlocksOrdered' /\ StepsOrdered' /\ ReceiptCovers'
<1>1. /\ \A i \in DOMAIN chain : i \in DOMAIN chain' /\ chain'[i] = chain[i]
      /\ \A i \in DOMAIN chain' \ DOMAIN chain :
           /\ \A j \in DOMAIN chain : j < i
           /\ chain'[i].tx \in pool /\ chain'[i].block = head + 1
  BY DEF ChainGrows
<1>2. /\ Len(chain) \in Nat /\ DOMAIN chain = 1..Len(chain)
  BY ChainFacts
<1>3. /\ \A i, j \in DOMAIN chain' : chain'[i].tx.step = chain'[j].tx.step => i = j
      /\ DOMAIN chain' \subseteq Nat
  BY PrimedChainFacts
<1>4. Case' = Case
  BY DEF Case
<1>5. BlocksOrdered'
  <2> SUFFICES ASSUME NEW i \in DOMAIN chain', NEW j \in DOMAIN chain', i < j
               PROVE  chain'[i].block <= chain'[j].block
    BY DEF BlocksOrdered
  <2>1. head \in Nat /\ \A k \in DOMAIN chain : chain[k].block \in 1..head
    BY DEF LocalInv, BlocksTyped
  <2>2. CASE j \in DOMAIN chain
    <3>1. i \in DOMAIN chain
      BY <1>1, <1>2, <1>3, <2>2
    <3>2. QED BY <1>1, <2>2, <3>1 DEF MeaningInv, BlocksOrdered
  <2>3. CASE j \notin DOMAIN chain
    BY <1>1, <2>1, <2>3
  <2>4. QED BY <2>2, <2>3
<1>6. StepsOrdered'
  <2> SUFFICES ASSUME OnCase, NEW i \in DOMAIN chain', NEW j \in DOMAIN chain',
                      chain'[i].tx.step[1] = frame.case, chain'[j].tx.step[1] = frame.case,
                      Awaited(Case, chain'[i].tx.step[2]), chain'[i].tx.step[2] < chain'[j].tx.step[2]
               PROVE  i < j
    BY <1>4 DEF StepsOrdered, OnCase
  <2> DEFINE p == chain'[i].tx.step[2]
             q == chain'[j].tx.step[2]
  <2>1. CASE i \in DOMAIN chain /\ j \in DOMAIN chain
    BY <1>1, <2>1 DEF MeaningInv, StepsOrdered
  <2>2. CASE i \in DOMAIN chain /\ j \notin DOMAIN chain
    BY <1>1, <2>2
  <2>3. CASE i \notin DOMAIN chain
    <3>1. chain'[i].tx \in Known /\ chain'[j].tx \in Known
      BY <1>1, <2>3 DEF Known
    <3>2. /\ chain'[i].tx.step = <<frame.case, p>> /\ p \in Nat /\ q \in Nat /\ q <= frame.pc
      BY <3>1, KnownStep
    <3>3. frame.case \in DOMAIN Cases /\ frame.case # 0 /\ frame.pc \in Nat
      BY CaseFacts DEF IInv, FrameOK
    <3>4. Meant(chain'[j].tx)
      BY <3>1, <3>3 DEF MeaningInv, KnownMeant
    <3>5. q # p + 1
      BY <3>4 DEF Meant, Awaited, SubmitActions, Case
    <3>6. Waited(p) /\ p \in DOMAIN Case.steps
      <4>1. p + 1 < frame.pc
        BY <3>2, <3>3, <3>5
      <4>2. Meant(chain'[i].tx)
        BY <3>1, <3>3 DEF MeaningInv, KnownMeant
      <4>3. QED BY <4>1, <4>2 DEF Waited, Meant, Case
    <3>7. PICK k \in DOMAIN chain : chain[k].tx.step = <<frame.case, p>>
      BY <3>6 DEF MeaningInv, ReceiptCovers
    <3>8. k \in DOMAIN chain' /\ chain'[k].tx.step = chain'[i].tx.step
      BY <1>1, <3>2, <3>7
    <3>9. QED BY <1>3, <2>3, <3>8
  <2>4. QED BY <2>1, <2>2, <2>3
<1>7. ReceiptCovers'
  BY <1>1, <1>4 DEF MeaningInv, ReceiptCovers, OnCase, Waited
<1>8. QED BY <1>5, <1>6, <1>7

LEMMA WorldMeaning ==
  ASSUME IInv, IInv', LocalInv, MeaningInv, frame' = frame, RefusalsHaveReasons',
         chain' = chain \/ ChainGrows,
         \A t \in Known' : t \in Known \/ t.step[1] = 0 \/ Meant(t)
  PROVE  MeaningInv'
<1>1. Case' = Case
  BY DEF Case
<1>2. RefusalTold' /\ HashesComplete' /\ HashesSorted' /\ CallsOnCase'
  BY <1>1 DEF MeaningInv, RefusalTold, HashesComplete, HashesSorted, CallsOnCase, OnCase
<1>3. KnownMeant'
  BY DEF MeaningInv, KnownMeant, Meant
<1>4. BlocksOrdered' /\ StepsOrdered' /\ ReceiptCovers'
  <2>1. CASE chain' = chain
    BY <1>1, <2>1 DEF MeaningInv, BlocksOrdered, StepsOrdered, ReceiptCovers, OnCase, Waited
  <2>2. CASE ChainGrows
    BY <2>2, GrowthMeaning
  <2>3. QED BY <2>1, <2>2
<1>5. QED BY <1>2, <1>3, <1>4 DEF MeaningInv

\* What is sent is made of the current step.
LEMMA SentIsMeant ==
  ASSUME LocalInv, CallsOnCase, frame.stage = "send"
  PROVE  Meant(rpc.arg)
<1>1. rpc.arg = Prepared(rpc.arg.nonce) /\ Step.action \in SubmitActions /\ Resolvable
      /\ frame.pc <= Len(Case.steps)
  BY DEF LocalInv, CallMatches, StageMatches
<1>2. OnCase
  BY DEF CallsOnCase
<1>3. frame.case \in DOMAIN Cases /\ frame.pc \in DOMAIN Case.steps
  BY <1>1, <1>2, CaseFacts
<1>4. /\ rpc.arg.step[1] = frame.case /\ rpc.arg.step[2] = frame.pc
      /\ rpc.arg.kind = KindOf(Step.action)
      /\ rpc.arg.to = IF Step.to = "$last_contract" THEN frame.contract ELSE None
  BY <1>1 DEF Prepared
<1>5. rpc.arg.to # None <=> Step.to = "$last_contract"
  BY <1>1, <1>4 DEF Resolvable
<1>6. QED BY <1>1, <1>3, <1>4, <1>5 DEF Meant, Step, Case

LEMMA TransportMeaning ==
  ASSUME IInv, IInv', LocalInv, MeaningInv, Transport
  PROVE  MeaningInv'
<1>1. frame' = frame /\ chain' = chain /\ pool' = pool
  BY DEF Transport, chainVars
<1>2. RefusalsHaveReasons'
  BY ClientEffect DEF Transport, MeaningInv, RefusalsHaveReasons
<1>3. \A t \in Known' : t \in Known \/ Meant(t)
  <2>1. CASE Rpc!Send
    <3>1. wire' = wire \cup {Rpc!Request}
      BY <2>1 DEF Rpc!Send
    <3>2. Rpc!Request.method = rpc.method /\ Rpc!Request.arg = rpc.arg
      BY DEF Rpc!Request
    <3>3. rpc.method \in Submissions => Meant(rpc.arg)
      BY <2>1, SentIsMeant DEF MeaningInv, IInv, SubmissionInv, OnlySendSubmits, InProgress, Rpc!Send
    <3>4. \A t \in Submitted' : t \in Submitted \/ (rpc.method \in Submissions /\ t = rpc.arg)
      BY <3>1, <3>2 DEF Submitted
    <3>5. QED BY <1>1, <3>3, <3>4 DEF Known
  <2>2. CASE ~Rpc!Send
    <3>1. wire' \subseteq wire
      BY <2>2 DEF Transport, Rpc!ClientStep, Rpc!ConnectFails, Rpc!ReadTimeout, Rpc!BadResponse,
                  Rpc!ConnectionReset, Rpc!TakeAnswer, Rpc!WireAfterAbandon
    <3>2. QED BY <1>1, <3>1, FewerKnown
  <2>3. QED BY <2>1, <2>2
<1>4. QED BY <1>1, <1>2, <1>3, WorldMeaning

\* An error that the node answers is one of RpcErrors.
LEMMA ErrorsHaveReasons ==
  ASSUME NEW r, r.method \in Reads, NEW view, NEW a \in ReadAnswers(r, view), ~a.ok
  PROVE  a.error # None
<1>1. "invalid params" # None /\ "header not found" # None
  BY ExecutionConstants DEF RpcErrors
<1>2. CASE r.method = "eth_getStorageAt"
  <2>1. \/ a = Bad("invalid params") \/ a = Bad("header not found")
        \/ \E value : a = Good(value)
    BY <1>2 DEF ReadAnswers
  <2>2. (\A e : Bad(e).error = e) /\ (\A v : Good(v).ok)
    BY DEF Good, Bad
  <2>3. QED BY <1>1, <2>1, <2>2
<1>3. CASE r.method # "eth_getStorageAt"
  <2>1. \E value : a = Good(value)
    BY <1>3 DEF ReadAnswers, Reads
  <2>2. QED BY <2>1 DEF Good
<1>4. QED BY <1>2, <1>3

LEMMA ServeMeaning ==
  ASSUME IInv, IInv', LocalInv, MeaningInv, ServeRead \/ ServeSubmission
  PROVE  MeaningInv'
<1>1. PICK r, a : /\ r \in wire /\ Rpc!Handle(r, a) /\ UNCHANGED <<frame, results>>
                  /\ ~a.ok => a.error # None
                  /\ \/ UNCHANGED chainVars
                     \/ Accept(Signed(r.arg)) /\ r.method \in Submissions
  <2>1. CASE ServeRead
    <3>1. PICK r \in {s \in wire : s.method \in Reads}, view \in Views :
            \E answer \in ReadAnswers(r, view) :
              Rpc!Handle(r, answer) /\ UNCHANGED <<chainVars, frame, results>>
      BY <2>1 DEF ServeRead
    <3>2. QED BY <3>1, ErrorsHaveReasons
  <2>2. CASE ServeSubmission
    <3>1. PICK r \in {s \in wire : s.method \in Submissions} :
            LET tx == Signed(r.arg) IN
              /\ IF Refusal(tx) = "none"
                 THEN Accept(tx) /\ Rpc!Handle(r, Good(tx))
                 ELSE Rpc!Handle(r, Bad(Refusal(tx))) /\ UNCHANGED chainVars
              /\ UNCHANGED <<frame, results>>
      BY <2>2 DEF ServeSubmission
    <3>2. Refusal(Signed(r.arg)) # "none" => Refusal(Signed(r.arg)) # None
      BY ExecutionConstants DEF Refusal, RpcErrors
    <3>3. CASE Refusal(Signed(r.arg)) = "none"
      BY <3>1, <3>3 DEF Good
    <3>4. CASE Refusal(Signed(r.arg)) # "none"
      BY <3>1, <3>2, <3>4 DEF Bad
    <3>5. QED BY <3>3, <3>4
  <2>3. QED BY <2>1, <2>2
<1>2. rpc' = rpc /\ wire' \subseteq wire /\ reply' \subseteq reply \cup {a}
  BY <1>1 DEF Rpc!Handle
<1>3. RefusalsHaveReasons'
  BY <1>1, <1>2 DEF MeaningInv, RefusalsHaveReasons
<1>4. r.method \in Submissions => r.arg \in Submitted /\ Signed(r.arg) = r.arg
  BY <1>1 DEF Submitted, Signed, IInv, SubmissionInv, NoncesGiven
<1>5. chain' = chain /\ frame' = frame /\ pool' \subseteq pool \cup Submitted
  BY <1>1, <1>4 DEF chainVars, Accept
<1>6. Known' \subseteq Known
  BY <1>2, <1>5 DEF Known, Submitted
<1>7. QED BY <1>3, <1>5, <1>6, WorldMeaning

LEMMA NodeMeaning ==
  ASSUME IInv, IInv', LocalInv, MeaningInv,
         MineBlock \/ DropTransaction \/ OtherClient \/ UNCHANGED vars
  PROVE  MeaningInv'
<1>1. /\ frame' = frame /\ rpc' = rpc /\ wire' = wire /\ reply' = reply
      /\ chain' = chain \/ ChainGrows
      /\ \A t \in pool' \cup {chain'[i].tx : i \in DOMAIN chain'} : t \in Known \/ t.step[1] = 0
  <2>1. CASE MineBlock
    <3>1. ChainGrows /\ UNCHANGED <<rpcVars, frame, results>>
      BY <2>1, MineGrows
    <3>2. QED BY <3>1 DEF rpcVars, ChainGrows, Known
  <2>2. CASE DropTransaction
    BY <2>2 DEF DropTransaction, Drop, rpcVars, Known
  <2>3. CASE OtherClient
    <3>1. UNCHANGED <<rpcVars, frame, results>> /\ chain' = chain
          /\ pool' = pool \cup {Foreign(PendingNonce)}
      BY <2>3 DEF OtherClient, Accept
    <3>2. Foreign(PendingNonce).step[1] = 0
      BY DEF Foreign
    <3>3. QED BY <3>1, <3>2 DEF rpcVars, Known
  <2>4. CASE UNCHANGED vars
    BY <2>4 DEF vars, rpcVars, chainVars, Known
  <2>5. QED BY <2>1, <2>2, <2>3, <2>4
<1>2. RefusalsHaveReasons'
  BY <1>1 DEF MeaningInv, RefusalsHaveReasons
<1>3. Submitted' = Submitted
  BY <1>1 DEF Submitted
<1>4. \A t \in Known' : t \in Known \/ t.step[1] = 0
  BY <1>1, <1>3 DEF Known
<1>5. QED BY <1>1, <1>2, <1>4, WorldMeaning

LEMMA MeaningInit == Init => MeaningInv
<1> SUFFICES ASSUME Init PROVE MeaningInv
  OBVIOUS
<1>1. /\ frame.stage = "step" /\ frame.hashes = <<>> /\ frame.pc = 1 /\ frame.case = 1
      /\ chain = <<>> /\ wire = {} /\ pool = {} /\ reply = {} /\ rpc.outcome.kind = "none"
  BY DEF Init, Frame, ChainInit, Rpc!Raised
<1>2. DOMAIN <<>> = {}
  BY EmptySeq
<1>3. KnownMeant /\ CallsOnCase /\ RefusalsHaveReasons /\ HashesSorted /\ BlocksOrdered /\ StepsOrdered
  BY <1>1, <1>2 DEF KnownMeant, Known, Submitted, CallsOnCase, RefusalsHaveReasons, HashesSorted,
     BlocksOrdered, StepsOrdered
<1>4. 1..(frame.pc - 1) = {}
  BY <1>1
<1>5. RefusalTold /\ HashesComplete
  BY <1>4 DEF RefusalTold, HashesComplete
<1>6. ReceiptCovers
  <2>1. ASSUME OnCase, NEW pc \in DOMAIN Case.steps PROVE ~Waited(pc)
    <3>1. Len(Cases) \in Nat /\ DOMAIN Cases = 1..Len(Cases)
      BY CaseConstants, SequenceFacts
    <3>2. frame.case \in DOMAIN Cases
      BY <1>1, <2>1, <3>1 DEF OnCase
    <3>3. pc \in Nat \ {0}
      BY <2>1, <3>2, CaseConstants, SequenceFacts DEF Case
    <3>4. QED BY <1>1, <3>3 DEF Waited
  <2>2. QED BY <2>1 DEF ReceiptCovers
<1>7. QED BY <1>3, <1>5, <1>6 DEF MeaningInv

LEMMA MeaningStep ==
  IInv /\ IInv' /\ LocalInv /\ ChainInv /\ MeaningInv /\ [Next]_vars => MeaningInv'
<1> SUFFICES ASSUME IInv, IInv', LocalInv, ChainInv, MeaningInv, [Next]_vars PROVE MeaningInv'
  OBVIOUS
<1>1. CASE Transport
  BY <1>1, TransportMeaning
<1>2. CASE Interpret
  <2>1. OnCase
    BY <1>2, InterpretOnCase
  <2>2. Within \/ Passes \/ Sends \/ Receives \/ Records
    BY <1>2, InterpretEffect DEF IInv, SubmissionInv
  <2>3. QED BY <2>1, <2>2, WithinMeaning, PassesMeaning, SendsMeaning, ReceivesMeaning, RecordsMeaning
<1>3. CASE ServeRead \/ ServeSubmission
  BY <1>3, ServeMeaning
<1>4. CASE MineBlock \/ DropTransaction \/ OtherClient \/ UNCHANGED vars
  BY <1>4, NodeMeaning
<1>5. QED BY <1>1, <1>2, <1>3, <1>4 DEF Next, Harness, Node, Terminated

-----------------------------------------------------------------------------
(* A mismatch is reported where the case was judged. *)

Errs == results' = results \/ \E verdict \in {"proof_error", "execution_error"} : Raise(verdict)

\* What the comparison of this case finds wrong.
Mismatch(storage, balance) ==
  ~ /\ Case.storage # None => storage = Case.storage
    /\ Case.balance => balance = frame.after
    /\ Case.error # None => frame.error = Case.error

\* After the last step, with the answers of the node that were asked for last.
Judged ==
  /\ OnCase /\ frame.pc > Len(Case.steps)
  /\ \E storage, balance :
       /\ Mismatch(storage, balance)
       /\ Case.storage # None => Result("storage") /\ storage = Value
       /\ Case.balance =>
            \/ Result("balance") /\ balance = Value
            \/ Result("storage") /\ balance = frame.balance

LEMMA CallsErr ==
  /\ \A f, m, arg : Call(f, m, arg) => Errs
  /\ \A f : Continue(f) => Errs
  /\ \A f : Submit(f) => Errs
  /\ \A f : ReadStorage(f) => Errs
<1>1. \A f, m, arg : Call(f, m, arg) => Errs
  BY DEF Call, Errs
<1>2. \A f : Continue(f) => Errs
  BY DEF Continue, Errs
<1>3. QED BY <1>1, <1>2 DEF Submit, ReadStorage

\* Only the oracle's comparison says that a case has failed.
LEMMA StepsErr ==
  ASSUME \/ BeginSubmit \/ GotBalanceBefore \/ GotNonce \/ GotHash \/ GotRejection
         \/ BeginWait \/ Poll \/ DeadlinePasses \/ NoReceipt \/ GotReceipt \/ GotBlock
         \/ BeginRpcCall \/ GotRpcCall \/ HeaderLags \/ CallFails \/ RunAborts
  PROVE  Errs
<1>1. ASSUME BeginSubmit \/ GotBalanceBefore \/ GotNonce \/ GotHash \/ GotRejection PROVE Errs
  BY <1>1, CallsErr DEF BeginSubmit, GotBalanceBefore, GotNonce, GotHash, GotRejection, Errs
<1>2. ASSUME \/ BeginWait \/ Poll \/ DeadlinePasses \/ NoReceipt \/ GotReceipt \/ GotBlock
             \/ BeginRpcCall \/ GotRpcCall
      PROVE  Errs
  BY <1>2, CallsErr DEF BeginWait, Poll, DeadlinePasses, NoReceipt, GotReceipt, GotBlock,
     BeginRpcCall, GotRpcCall, Errs
<1>3. ASSUME HeaderLags \/ CallFails \/ RunAborts PROVE Errs
  BY <1>3, CallsErr DEF HeaderLags, CallFails, RunAborts, Errs
<1>4. QED BY <1>1, <1>2, <1>3

LEMMA NewResult ==
  ASSUME LocalInv, NEW verdict, NEW storage, Record(verdict, storage),
         NEW k \in DOMAIN results' \ DOMAIN results
  PROVE  k = frame.case /\ results'[k].verdict = verdict
<1> DEFINE new == [case |-> frame.case, verdict |-> verdict, hashes |-> frame.hashes,
                   receipt |-> frame.receipt, contract |-> frame.contract, error |-> frame.error,
                   storage |-> storage]
<1>1. results' = Append(results, new) /\ new.verdict = verdict
  BY DEF Record
<1> HIDE DEF new
<1>2. IsSequence(results) /\ Len(results) = frame.case - 1
  BY DEF LocalInv, ResultsTyped
<1>3. /\ DOMAIN results = 1..Len(results) /\ DOMAIN results' = 1..(Len(results) + 1)
      /\ Len(results) \in Nat /\ results'[Len(results) + 1] = new
  BY <1>1, <1>2, SequenceFacts, AppendFacts
<1>4. k = Len(results) + 1
  BY <1>3
<1>5. frame.case \in Nat
  BY DEF LocalInv, FrameTyped
<1>6. QED BY <1>1, <1>2, <1>3, <1>4, <1>5

LEMMA FailureIsJudged ==
  ASSUME LocalInv, Interpret,
         NEW k \in DOMAIN results' \ DOMAIN results, results'[k].verdict = "failed"
  PROVE  k = frame.case /\ Judged
<1>1. ASSUME Errs PROVE FALSE
  BY <1>1, NewResult DEF Errs, Raise
<1>2. OnCase
  BY InterpretOnCase
<1>3. ASSUME NEW storage, NEW balance, Compare(storage, balance)
      PROVE  k = frame.case /\ Mismatch(storage, balance)
  BY <1>3, NewResult DEF Compare, Mismatch
<1>4. CASE Observe
  <2>1. frame.pc > Len(Case.steps)
    BY <1>4 DEF Observe
  <2>2. ~Case.balance /\ Case.storage = None /\ Compare(None, frame.balance)
    BY <1>1, <1>4, CallsErr DEF Observe, ObserveRest
  <2>3. QED BY <1>2, <1>3, <2>1, <2>2 DEF Judged
<1>5. CASE GotBalance
  <2>1. Result("balance") /\ ObserveRest([frame EXCEPT !.balance = Value])
    BY <1>5 DEF GotBalance
  <2>2. [frame EXCEPT !.balance = Value].balance = Value
    BY LocalsAre DEF LocalInv, FrameTyped
  <2>3. Case.storage = None /\ Compare(None, Value)
    BY <1>1, <2>1, <2>2, CallsErr DEF ObserveRest
  <2>4. frame.pc > Len(Case.steps)
    BY <2>1 DEF Result, Back, At, LocalInv, StageMatches
  <2>5. QED BY <1>2, <1>3, <2>1, <2>3, <2>4 DEF Judged
<1>6. CASE GotStorage
  <2>1. Result("storage") /\ Compare(Value, frame.balance)
    BY <1>6 DEF GotStorage
  <2>2. frame.pc > Len(Case.steps)
    BY <2>1 DEF Result, Back, At, LocalInv, StageMatches
  <2>3. QED BY <1>2, <1>3, <2>1, <2>2 DEF Judged
<1>7. QED BY <1>1, <1>4, <1>5, <1>6, StepsErr DEF Interpret

-----------------------------------------------------------------------------
(* A right expectation is met. *)

LEMMA StepsOver ==
  ASSUME LocalInv, OnCase, frame.pc > Len(Case.steps), NEW pc \in DOMAIN Case.steps
  PROVE  /\ pc \in 1..(frame.pc - 1) /\ pc <= Len(Case.steps)
         /\ Awaited(Case, pc) => Waited(pc)
<1>1. /\ DOMAIN Case.steps = 1..Len(Case.steps) /\ Len(Case.steps) \in Nat
      /\ frame.pc \in Nat
  BY CaseFacts
<1>2. Awaited(Case, pc) => pc + 1 \in 1..Len(Case.steps)
  BY <1>1 DEF Awaited
<1>3. QED BY <1>1, <1>2 DEF Waited

\* The error of a case that expects one is that of its refused steps.
LEMMA ErrorIsRight ==
  ASSUME LocalInv, MeaningInv, OnCase, frame.pc > Len(Case.steps), RightError(Case)
  PROVE  frame.error = Case.error
<1>1. PICK pc \in DOMAIN Case.steps : Case.steps[pc].expectError # None
  BY DEF RightError
<1>2. PICK other \in DOMAIN Case.steps :
        Case.steps[other].expectError # None /\ frame.error = Case.steps[other].expectError
  BY <1>1, StepsOver DEF MeaningInv, RefusalTold
<1>3. QED BY <1>2 DEF RightError

\* A transaction of the case in progress that was waited for.
LEMMA LandedStep ==
  ASSUME IInv, LocalInv, MeaningInv, OnCase, frame.pc > Len(Case.steps), WaitsForAll(Case),
         NEW pc \in Expecting(Case, SubmitActions), Case.steps[pc].expectError = None
  PROVE  /\ frame.receipt # None
         /\ \E j \in DOMAIN chain :
              /\ chain[j].tx.step = <<frame.case, pc>>
              /\ chain[j].ok = Case.steps[pc].status
              /\ chain[j].block <= frame.receipt.block
         /\ Case.steps[pc].action = "deploy_contract" => frame.contract # None
<1>1. pc \in DOMAIN Case.steps /\ Awaited(Case, pc)
  BY DEF WaitsForAll, Expecting
<1>2. Waited(pc)
  BY <1>1, StepsOver
<1>3. QED BY <1>1, <1>2 DEF MeaningInv, ReceiptCovers

\* What a transaction of the case that is on the chain was made of.
LEMMA OwnStep ==
  ASSUME IInv, LocalInv, RefusalInv, MeaningInv, OnCase, frame.pc > Len(Case.steps),
         WaitsForAll(Case), NEW i \in DOMAIN chain, chain[i].tx.step[1] = frame.case,
         NEW pc, pc = chain[i].tx.step[2]
  PROVE  /\ pc \in Expecting(Case, SubmitActions)
         /\ chain[i].tx.step = <<frame.case, pc>>
         /\ Case.steps[pc].expectError = None
         /\ chain[i].ok = Case.steps[pc].status
         /\ chain[i].tx.kind = KindOf(Case.steps[pc].action)
         /\ chain[i].tx.to # None <=> Case.steps[pc].to = "$last_contract"
<1>1. chain[i].tx \in Known /\ chain[i].tx.step = <<frame.case, pc>> /\ frame.case # 0
  <2>1. chain[i].tx \in Known
    BY ChainFacts
  <2>2. QED BY <2>1, KnownStep DEF IInv, FrameOK
<1>2. /\ pc \in DOMAIN Case.steps /\ Case.steps[pc].action \in SubmitActions
      /\ chain[i].tx.kind = KindOf(Case.steps[pc].action)
      /\ chain[i].tx.to # None <=> Case.steps[pc].to = "$last_contract"
  BY <1>1 DEF MeaningInv, KnownMeant, Meant, Case
<1>3. Case.steps[pc].expectError = None
  BY <1>1, <1>2, StepsOver DEF RefusalInv, RefusedUnknown, Unknown, OnCase
<1>4. pc \in Expecting(Case, SubmitActions)
  BY <1>2 DEF Expecting
<1>5. PICK j \in DOMAIN chain : /\ chain[j].tx.step = <<frame.case, pc>>
                                /\ chain[j].ok = Case.steps[pc].status
  BY <1>3, <1>4, LandedStep
<1>6. i = j
  BY <1>1, <1>5, ChainFacts
<1>7. QED BY <1>1, <1>2, <1>3, <1>4, <1>5, <1>6

\* The calls that the contract counted, up to a block.
Counted(address, block) ==
  {i \in UpTo(block) :
    /\ chain[i].ok
    /\ chain[i].tx.kind = "call"
    /\ chain[i].tx.to = address
    /\ \E j \in 1..(i - 1) : /\ chain[j].tx.kind = "create"
                             /\ chain[j].tx.nonce = address
                             /\ chain[j].ok}

\* The contract of the case, once the receipt of its deployment has come.
LEMMA OwnContract ==
  ASSUME IInv, LocalInv, ChainInv, RefusalInv, MeaningInv, OnCase, frame.pc > Len(Case.steps),
         RightStorage(Case)
  PROVE  /\ frame.receipt # None /\ frame.receipt.block \in Nat /\ frame.contract # None
         /\ \A i \in DOMAIN chain :
              chain[i].tx.kind = "create" /\ chain[i].tx.step[1] = frame.case =>
                chain[i].tx.nonce = frame.contract
         /\ \A i \in DOMAIN chain :
              chain[i].tx.kind = "create" /\ chain[i].tx.nonce = frame.contract =>
                chain[i].tx.step[1] = frame.case
<1>1. PICK d \in DOMAIN Case.steps : Deployments(Case) = {d}
  BY DEF RightStorage
<1>2. Case.steps[d].action = "deploy_contract"
  BY <1>1 DEF Deployments, Expecting
<1>3. Case.steps[d].expectError = None
  BY <1>2, CaseFacts DEF RawTx
<1>4. d \in Expecting(Case, SubmitActions)
  BY <1>2 DEF Expecting, SubmitActions
<1>5. frame.receipt # None /\ frame.contract # None
  BY <1>2, <1>3, <1>4, LandedStep DEF RightStorage
<1>6. frame.receipt.block \in Nat
  BY <1>5 DEF LocalInv, BlocksExist, BlocksTyped
<1>7. PICK n \in DOMAIN chain : Created(frame.contract, frame.case, n)
  BY <1>5 DEF ChainInv, ContractCreated
<1>8. ASSUME NEW i \in DOMAIN chain, chain[i].tx.kind = "create", chain[i].tx.step[1] = frame.case
      PROVE  chain[i].tx.step = <<frame.case, d>>
  <2> DEFINE pc == chain[i].tx.step[2]
  <2>1. /\ pc \in Expecting(Case, SubmitActions) /\ chain[i].tx.step = <<frame.case, pc>>
        /\ chain[i].tx.kind = KindOf(Case.steps[pc].action)
    BY <1>8, OwnStep DEF RightStorage
  <2> HIDE DEF pc
  <2>2. Case.steps[pc].action = "deploy_contract"
    BY <1>8, <2>1 DEF KindOf, Expecting, SubmitActions
  <2>3. pc \in Deployments(Case)
    BY <2>1, <2>2 DEF Deployments, Expecting
  <2>4. QED BY <1>1, <2>1, <2>3
<1>9. ASSUME NEW i \in DOMAIN chain, chain[i].tx.kind = "create", chain[i].tx.step[1] = frame.case
      PROVE  chain[i].tx.nonce = frame.contract
  <2>1. chain[i].tx.step = chain[n].tx.step
    BY <1>7, <1>8, <1>9 DEF Created
  <2>2. QED BY <1>7, <2>1, ChainFacts DEF Created
<1>10. ASSUME NEW i \in DOMAIN chain, chain[i].tx.kind = "create", chain[i].tx.nonce = frame.contract
       PROVE  chain[i].tx.step[1] = frame.case
  <2>1. i - 1 = n - 1 /\ i \in Nat /\ n \in Nat
    BY <1>7, <1>10, ChainFacts DEF Created
  <2>2. i = n
    BY <2>1
  <2>3. QED BY <1>7, <2>2 DEF Created
<1>11. QED BY <1>5, <1>6, <1>9, <1>10

\* What it counted is the calls that the case made and expected to succeed.
LEMMA CountedCall ==
  ASSUME IInv, LocalInv, ChainInv, RefusalInv, MeaningInv, OnCase, frame.pc > Len(Case.steps),
         RightStorage(Case), NEW i \in Counted(frame.contract, frame.receipt.block)
  PROVE  /\ chain[i].tx.step[2] \in ContractCalls(Case)
         /\ chain[i].tx.step = <<frame.case, chain[i].tx.step[2]>>
<1> DEFINE pc == chain[i].tx.step[2]
<1>1. /\ i \in DOMAIN chain /\ chain[i].ok /\ chain[i].tx.kind = "call"
      /\ chain[i].tx.to = frame.contract /\ chain[i].tx.to # None
  BY OwnContract DEF Counted, UpTo
<1>2. PICK j \in 1..(i - 1) : Created(frame.contract, chain[i].tx.step[1], j)
  BY <1>1 DEF ChainInv, CallsOwnContract, Created
<1>3. j \in DOMAIN chain
  BY <1>1, ChainFacts
<1>4. chain[i].tx.step[1] = frame.case
  BY <1>2, <1>3, OwnContract DEF Created
<1>5. /\ pc \in Expecting(Case, SubmitActions) /\ chain[i].tx.step = <<frame.case, pc>>
      /\ Case.steps[pc].expectError = None /\ chain[i].ok = Case.steps[pc].status
      /\ chain[i].tx.kind = KindOf(Case.steps[pc].action)
      /\ chain[i].tx.to # None <=> Case.steps[pc].to = "$last_contract"
  BY <1>1, <1>4, OwnStep DEF RightStorage
<1> HIDE DEF pc
<1>6. Case.steps[pc].action \notin {"deploy_contract", "transfer_native"}
  BY <1>1, <1>5 DEF KindOf
<1>7. pc \in ContractCalls(Case)
  BY <1>1, <1>5, <1>6 DEF ContractCalls, Expecting
<1>8. QED BY <1>5, <1>7 DEF pc

LEMMA CallCounted ==
  ASSUME IInv, LocalInv, ChainInv, RefusalInv, MeaningInv, OnCase, frame.pc > Len(Case.steps),
         RightStorage(Case), NEW pc \in ContractCalls(Case)
  PROVE  \E i \in Counted(frame.contract, frame.receipt.block) : chain[i].tx.step[2] = pc
<1>1. /\ pc \in Expecting(Case, SubmitActions)
      /\ Case.steps[pc].action \in SubmitActions \ {"deploy_contract", "transfer_native"}
      /\ Case.steps[pc].to = "$last_contract" /\ Case.steps[pc].status
      /\ Case.steps[pc].expectError = None
  BY DEF ContractCalls, Expecting
<1>2. PICK i \in DOMAIN chain : /\ chain[i].tx.step = <<frame.case, pc>>
                                /\ chain[i].ok = Case.steps[pc].status
                                /\ chain[i].block <= frame.receipt.block
  BY <1>1, LandedStep DEF RightStorage
<1>3. chain[i].tx.step[1] = frame.case /\ chain[i].tx.step[2] = pc
  BY <1>2
<1>4. /\ chain[i].tx.kind = KindOf(Case.steps[pc].action)
      /\ chain[i].tx.to # None
  BY <1>1, <1>3, OwnStep DEF RightStorage
<1>5. chain[i].tx.kind = "call"
  BY <1>1, <1>4 DEF KindOf
<1>6. PICK j \in 1..(i - 1) : Created(chain[i].tx.to, chain[i].tx.step[1], j)
  BY <1>4, <1>5 DEF ChainInv, CallsOwnContract, Created
<1>7. j \in DOMAIN chain
  BY ChainFacts
<1>8. chain[i].tx.to = frame.contract
  BY <1>3, <1>6, <1>7, OwnContract DEF Created
<1>9. i \in Counted(frame.contract, frame.receipt.block)
  BY <1>1, <1>2, <1>5, <1>6, <1>8 DEF Counted, UpTo, Created
<1>10. QED BY <1>3, <1>9

LEMMA StorageIsRight ==
  ASSUME IInv, LocalInv, ChainInv, RefusalInv, MeaningInv, OnCase, frame.pc > Len(Case.steps),
         RightStorage(Case), Result("storage")
  PROVE  Value = Case.storage
<1> DEFINE S == Counted(frame.contract, frame.receipt.block)
           C == ContractCalls(Case)
           F == [i \in S |-> chain[i].tx.step[2]]
<1>1. Value = StorageAt(frame.contract, frame.receipt.block)
  <2>1. /\ frame.stage = "storage" /\ rpc.outcome.kind = "answer" /\ rpc.outcome.value.ok
    BY DEF Result, Back, At
  <2>2. /\ rpc.method = "eth_getStorageAt"
        /\ rpc.arg = [address |-> frame.contract, block |-> StorageBlock]
    BY <2>1 DEF LocalInv, CallMatches
  <2>3. StorageBlock = frame.receipt.block /\ StorageBlock # None
    BY OwnContract, ExecutionConstants DEF StorageBlock
  <2>4. TrueAnswer(rpc.method, rpc.arg, rpc.outcome.value)
    BY <2>1 DEF LocalInv, AnswersTrue
  <2>5. QED BY <2>1, <2>2, <2>3, <2>4 DEF TrueAnswer, Value
<1>2. StorageAt(frame.contract, frame.receipt.block) = Cardinality(S)
  BY DEF StorageAt, Counted
<1>3. IsFiniteSet(S)
  <2>1. S \subseteq 1..Len(chain) /\ Len(chain) \in Nat
    BY ChainFacts DEF Counted, UpTo
  <2>2. IsFiniteSet(1..Len(chain))
    BY <2>1, FS_Interval
  <2> HIDE DEF S
  <2>3. QED BY <2>1, <2>2, FS_Subset
<1>4. ExistsBijection(S, C)
  <2>1. F \in [S -> C]
    BY CountedCall
  <2>2. ASSUME NEW i \in S, NEW j \in S, F[i] = F[j] PROVE i = j
    <3>1. chain[i].tx.step = <<frame.case, F[i]>> /\ chain[j].tx.step = <<frame.case, F[j]>>
      BY CountedCall
    <3>2. i \in DOMAIN chain /\ j \in DOMAIN chain
      BY DEF Counted, UpTo
    <3> HIDE DEF F
    <3>3. QED BY <2>2, <3>1, <3>2, ChainFacts
  <2>3. ASSUME NEW pc \in C PROVE \E i \in S : F[i] = pc
    BY CallCounted
  <2> HIDE DEF S, C, F
  <2>4. F \in Bijection(S, C)
    BY <2>1, <2>2, <2>3 DEF Bijection, Injection, Surjection, IsInjective
  <2>5. QED BY <2>4 DEF ExistsBijection
<1>5. Cardinality(C) = Cardinality(S)
  <2> HIDE DEF S, C
  <2>1. QED BY <1>3, <1>4, FS_Bijection
<1>6. QED BY <1>1, <1>2, <1>5 DEF RightStorage

\* Results are only added, and only by the interpreter.
LEMMA ResultsStay ==
  ASSUME IInv, LocalInv, [Next]_vars
  PROVE  /\ \A k \in DOMAIN results : results'[k] = results[k]
         /\ ~Interpret => results' = results
<1>1. CASE Interpret
  <2>1. Within \/ Passes \/ Sends \/ Receives \/ Records
    BY <1>1, InterpretEffect DEF IInv, SubmissionInv
  <2>2. CASE Records
    <3>1. PICK new : results' = Append(results, new)
      BY <2>2 DEF Records
    <3>2. QED BY <1>1, <3>1, AppendFacts DEF LocalInv, ResultsTyped
  <2>3. CASE ~Records
    BY <1>1, <2>1, <2>3 DEF Within, Passes, Sends, Receives
  <2>4. QED BY <1>1, <2>2, <2>3
<1>2. CASE ~Interpret
  BY <1>2 DEF Next, Harness, Node, Terminated, Transport, ServeRead, ServeSubmission, MineBlock,
              DropTransaction, OtherClient, vars
<1>3. QED BY <1>1, <1>2

\* A case whose expectation is right is found wrong only by its balance.
LEMMA OnlyBalanceMismatch ==
  ASSUME IInv, LocalInv, ChainInv, RefusalInv, MeaningInv, Judged, RightCase(Case)
  PROVE  /\ Case.balance
         /\ \E balance :
              /\ balance # frame.after
              /\ \/ Result("balance") /\ balance = Value
                 \/ Result("storage") /\ balance = frame.balance
<1>1. OnCase /\ frame.pc > Len(Case.steps)
  BY DEF Judged
<1>2. PICK storage, balance :
        /\ Mismatch(storage, balance)
        /\ Case.storage # None => Result("storage") /\ storage = Value
        /\ Case.balance =>
             \/ Result("balance") /\ balance = Value
             \/ Result("storage") /\ balance = frame.balance
  BY DEF Judged
<1>3. Case.storage # None => storage = Case.storage
  BY <1>1, <1>2, StorageIsRight DEF RightCase
<1>4. Case.error # None => frame.error = Case.error
  BY <1>1, ErrorIsRight DEF RightCase
<1>5. QED BY <1>2, <1>3, <1>4 DEF Mismatch

LEMMA MismatchStep ==
  IInv /\ LocalInv /\ ChainInv /\ RefusalInv /\ MeaningInv /\ NoFalseMismatch /\ [Next]_vars
    => NoFalseMismatch'
<1> SUFFICES ASSUME IInv, LocalInv, ChainInv, RefusalInv, MeaningInv, NoFalseMismatch, [Next]_vars
             PROVE  NoFalseMismatch'
  OBVIOUS
<1> SUFFICES ASSUME NEW k \in DOMAIN results', RightCase(Cases[k]), ~Cases[k].balance,
                    results'[k].verdict = "failed"
             PROVE  FALSE
  BY DEF NoFalseMismatch, RightCase, RightStorage, RightBalance, RightError, WaitsForAll, Awaited,
         Expecting, Deployments, Transfers, ContractCalls
<1>1. k \notin DOMAIN results
  BY ResultsStay DEF NoFalseMismatch
<1>2. Interpret
  BY <1>1, ResultsStay
<1>3. k = frame.case /\ Judged
  BY <1>1, <1>2, FailureIsJudged
<1>4. QED BY <1>3, OnlyBalanceMismatch DEF Case

\* The invariants that the theorems of this module rest on.
LEMMA MeaningInvariance == Spec => [](IInv /\ LocalInv /\ ChainInv /\ RefusalInv /\ MeaningInv)
<1>1. Init => IInv /\ LocalInv /\ ChainInv /\ RefusalInv /\ MeaningInv
  BY InitInv, LocalInit, InitChain, InitRefusal, MeaningInit
<1>2. IInv /\ LocalInv /\ ChainInv /\ RefusalInv /\ MeaningInv /\ [Next]_vars =>
        (IInv /\ LocalInv /\ ChainInv /\ RefusalInv /\ MeaningInv)'
  BY StepInv, LocalStep, ChainStep, RefusalStep, MeaningStep
<1>3. QED BY <1>1, <1>2, PTL DEF Spec

\* No failure of the network or of the node is reported as a wrong value: a case
\* that expects the right storage and the right error, and no balance, never
\* fails, it passes or ends with an execution error.  The storage is read at the
\* block of the receipt that was waited for last, and counts each call of the
\* case once (executor.py:1113-1129, 1169-1183, 1235-1249).
THEOREM RightCasesNeverFail == Spec => []NoFalseMismatch
<1>1. Init => NoFalseMismatch
  <2>1. DOMAIN <<>> = {}
    BY EmptySeq
  <2>2. QED BY <2>1 DEF Init, NoFalseMismatch
<1>2. QED BY <1>1, MismatchStep, MeaningInvariance, PTL DEF Spec

-----------------------------------------------------------------------------
(* The balance, when no replica lags: what the balances that were read stand   *)
(* for.                                                                        *)

Landings(n) == {j \in 1..n : chain[j].ok /\ chain[j].tx.kind = "transfer"}
Landed(n) == Cardinality(Landings(n))

OwnTransfer(i) == chain[i].tx.kind = "transfer" /\ chain[i].tx.step[1] = frame.case

\* v was the balance before any transfer of this case, or after all of them.
Captured(v) ==
  \E n \in 0..Len(chain) :
    v = Landed(n) /\ \A i \in DOMAIN chain : OwnTransfer(i) => n < i

Seen(v) ==
  \E n \in 0..Len(chain) :
    v = Landed(n) /\ \A i \in DOMAIN chain : OwnTransfer(i) => i <= n

\* A case that may expect its balance.
Balanced == MaxLag = 0 /\ OnCase /\ Case.balance /\ RightBalance(Case)

AnswersCaptured ==
  frame.stage = "before" =>
    /\ \A a \in reply : a.ok => Captured(a.value)
    /\ rpc.outcome.kind = "answer" /\ rpc.outcome.value.ok => Captured(rpc.outcome.value.value)

AnswersSeen ==
  frame.stage = "balance" =>
    /\ \A a \in reply : a.ok => Seen(a.value)
    /\ rpc.outcome.kind = "answer" /\ rpc.outcome.value.ok => Seen(rpc.outcome.value.value)

\* The transfer of the case is being sent, or was.
TransferBegun ==
  \/ frame.stage \in {"nonce", "send"} /\ Step.action = "transfer_native"
  \/ \E pc \in Transfers(Case) : pc < frame.pc

CaptureKept ==
  TransferBegun => frame.after = frame.before + 1 /\ Captured(frame.before)

BalanceKept == frame.stage = "storage" => Seen(frame.balance)

BalanceStages ==
  /\ frame.stage \in {"before", "balance"} => rpc.method = "eth_getBalance"
  /\ frame.stage = "before" => Step.action = "transfer_native"

BalanceInv ==
  /\ BalanceStages
  /\ Balanced => AnswersCaptured /\ AnswersSeen /\ CaptureKept /\ BalanceKept

-----------------------------------------------------------------------------
(* What the interpreter does to the balances. *)

\* A balance is asked for, by a call that has no answer yet.
AsksBalance ==
  /\ rpc'.method = "eth_getBalance" /\ rpc'.phase = "sending" /\ rpc'.outcome.kind = "none"
  /\ frame'.stage = "before" => Step.action = "transfer_native"

\* The balance before the transfer is kept, and what it is to be after it.
Captures ==
  /\ Result("before")
  /\ frame'.stage \in {"nonce", "send"}
  /\ frame'.before = Value /\ frame'.after = Value + 1

KeepsBalances ==
  /\ frame'.before = frame.before /\ frame'.after = frame.after
  /\ frame'.stage \in {"before", "balance"} => AsksBalance
  /\ frame'.stage \in {"nonce", "send"} =>
       \/ frame.stage = "nonce"
       \/ Step.action # "transfer_native"
       \/ ~Case.balance
  /\ frame'.stage = "storage" =>
       \/ ~Case.balance
       \/ frame.stage = "storage" /\ frame'.balance = frame.balance
       \/ Result("balance") /\ frame'.balance = Value

BalanceEffect == frame' = Frame(frame.case + 1) \/ Captures \/ KeepsBalances

LEMMA RaiseBalance == ASSUME NEW verdict, Raise(verdict) PROVE BalanceEffect
  BY DEF Raise, Record, BalanceEffect

\* The steps that ask for no balance and send nothing.
LEMMA OtherBalance ==
  ASSUME LocalInv,
         \/ GotHash \/ GotRejection \/ BeginWait \/ Poll \/ DeadlinePasses \/ NoReceipt
         \/ GotReceipt \/ GotBlock \/ BeginRpcCall \/ GotRpcCall \/ CallFails \/ RunAborts
  PROVE  BalanceEffect
<1> DEFINE SameBalances(f) == /\ f.before = frame.before /\ f.after = frame.after
                              /\ f.stage \in {"step", "wait", "poll", "block", "call", "aborted"}
<1>1. ASSUME NEW f, SameBalances(f), Continue(f) \/ \E m, arg : Call(f, m, arg) PROVE BalanceEffect
  <2>1. frame' = f
    BY <1>1 DEF Continue, Call
  <2>2. QED BY <1>1, <2>1 DEF BalanceEffect, KeepsBalances
<1>2. DOMAIN frame = Locals
  BY DEF LocalInv, FrameTyped
<1>3. CASE GotHash
  <2>1. SameBalances([NextStep EXCEPT !.hashes = Append(@, Value)])
    BY <1>2, LocalsAre DEF NextStep
  <2> HIDE DEF SameBalances
  <2>2. QED BY <1>1, <1>3, <2>1, RaiseBalance DEF GotHash
<1>4. CASE GotRejection
  <2>1. SameBalances([NextStep EXCEPT !.error = Error])
    BY <1>2, LocalsAre DEF NextStep
  <2> HIDE DEF SameBalances
  <2>2. QED BY <1>1, <1>4, <2>1 DEF GotRejection
<1>5. CASE BeginWait
  <2>1. SameBalances([frame EXCEPT !.stage = "wait", !.polls = 0])
    BY <1>2, LocalsAre
  <2> HIDE DEF SameBalances
  <2>2. QED BY <1>1, <1>5, <2>1, RaiseBalance DEF BeginWait
<1>6. CASE Poll
  <2>1. SameBalances([frame EXCEPT !.stage = "poll", !.polls = @ + 1])
    BY <1>2, LocalsAre
  <2> HIDE DEF SameBalances
  <2>2. QED BY <1>1, <1>6, <2>1 DEF Poll
<1>7. CASE NoReceipt
  <2>1. SameBalances([frame EXCEPT !.stage = "wait"])
    BY <1>2, LocalsAre
  <2> HIDE DEF SameBalances
  <2>2. QED BY <1>1, <1>7, <2>1 DEF NoReceipt
<1>8. CASE GotReceipt
  <2>1. /\ SameBalances([WithReceipt(Value) EXCEPT !.stage = "block"])
        /\ SameBalances([WithReceipt(Value) EXCEPT !.stage = "step", !.pc = @ + 1])
    BY <1>2, LocalsAre DEF WithReceipt
  <2> HIDE DEF SameBalances
  <2>2. QED BY <1>1, <1>8, <2>1, RaiseBalance DEF GotReceipt
<1>9. CASE GotBlock
  <2>1. SameBalances([NextStep EXCEPT !.context = Value])
    BY <1>2, LocalsAre DEF NextStep
  <2> HIDE DEF SameBalances
  <2>2. QED BY <1>1, <1>9, <2>1, RaiseBalance DEF GotBlock
<1>10. CASE BeginRpcCall
  <2>1. SameBalances([frame EXCEPT !.stage = "call"])
    BY <1>2, LocalsAre
  <2> HIDE DEF SameBalances
  <2>2. QED BY <1>1, <1>10, <2>1 DEF BeginRpcCall
<1>11. CASE GotRpcCall
  <2>1. SameBalances(NextStep)
    BY <1>2, LocalsAre DEF NextStep
  <2> HIDE DEF SameBalances
  <2>2. QED BY <1>1, <1>11, <2>1 DEF GotRpcCall
<1>12. CASE RunAborts
  <2>1. SameBalances([frame EXCEPT !.stage = "aborted"])
    BY <1>2, LocalsAre
  <2> HIDE DEF SameBalances
  <2>2. QED BY <1>1, <1>12, <2>1 DEF RunAborts
<1>13. CASE DeadlinePasses \/ CallFails
  BY <1>13, RaiseBalance DEF DeadlinePasses, CallFails
<1>14. QED BY <1>3, <1>4, <1>5, <1>6, <1>7, <1>8, <1>9, <1>10, <1>11, <1>12, <1>13

\* A transaction is sent, or its nonce asked for, in a frame that keeps the balances.
LEMMA SubmitFrame ==
  ASSUME NEW f, DOMAIN f = Locals, Submit(f)
  PROVE  /\ frame'.before = f.before /\ frame'.after = f.after
         /\ frame'.stage \in {"nonce", "send"}
<1> DEFINE n == [f EXCEPT !.stage = "nonce"]
           s == [f EXCEPT !.stage = "send"]
<1>1. /\ n.before = f.before /\ n.after = f.after /\ n.stage = "nonce"
      /\ s.before = f.before /\ s.after = f.after /\ s.stage = "send"
  BY LocalsAre
<1>2. frame' = n \/ frame' = s
  BY DEF Submit, Call
<1> HIDE DEF n, s
<1>3. QED BY <1>1, <1>2

LEMMA SubmitBalance ==
  ASSUME LocalInv, BeginSubmit \/ GotBalanceBefore \/ GotNonce
  PROVE  BalanceEffect
<1>1. DOMAIN frame = Locals
  BY DEF LocalInv, FrameTyped
<1>2. CASE BeginSubmit
  <2>1. CASE Submit(frame) /\ ~(Step.action = "transfer_native" /\ Case.balance)
    <3>1. /\ frame'.before = frame.before /\ frame'.after = frame.after
          /\ frame'.stage \in {"nonce", "send"}
      BY <1>1, <2>1, SubmitFrame
    <3>2. QED BY <2>1, <3>1 DEF BalanceEffect, KeepsBalances
  <2>2. CASE /\ Step.action = "transfer_native"
             /\ Call([frame EXCEPT !.stage = "before"], "eth_getBalance", None)
    <3> DEFINE f == [frame EXCEPT !.stage = "before"]
    <3>1. f.before = frame.before /\ f.after = frame.after /\ f.stage = "before"
      BY <1>1, LocalsAre
    <3> HIDE DEF f
    <3>2. /\ frame' = f /\ rpc'.method = "eth_getBalance" /\ rpc'.phase = "sending"
          /\ rpc'.outcome.kind = "none"
      BY <2>2, CallFacts DEF f
    <3>3. QED BY <2>2, <3>1, <3>2 DEF BalanceEffect, KeepsBalances, AsksBalance
  <2>3. CASE Raise("proof_error") \/ Raise("execution_error")
    BY <2>3, RaiseBalance
  <2>4. QED BY <1>2, <2>1, <2>2, <2>3 DEF BeginSubmit
<1>3. CASE GotBalanceBefore
  <2> DEFINE f == [frame EXCEPT !.before = Value, !.after = Value + 1]
  <2>1. f.before = Value /\ f.after = Value + 1 /\ DOMAIN f = Locals
    BY <1>1, LocalsAre
  <2>2. Result("before") /\ Submit(f)
    BY <1>3 DEF GotBalanceBefore
  <2> HIDE DEF f
  <2>3. QED BY <2>1, <2>2, SubmitFrame DEF BalanceEffect, Captures
<1>4. CASE GotNonce
  <2> DEFINE f == [frame EXCEPT !.stage = "send"]
  <2>1. f.before = frame.before /\ f.after = frame.after /\ f.stage = "send"
    BY <1>1, LocalsAre
  <2>2. frame.stage = "nonce" /\ frame' = f
    BY <1>4 DEF GotNonce, Result, Back, At, Call
  <2> HIDE DEF f
  <2>3. QED BY <2>1, <2>2 DEF BalanceEffect, KeepsBalances
<1>5. QED BY <1>2, <1>3, <1>4

LEMMA ObserveBalance ==
  ASSUME LocalInv, Observe \/ GotBalance \/ GotStorage \/ HeaderLags
  PROVE  BalanceEffect
<1>1. DOMAIN frame = Locals
  BY DEF LocalInv, FrameTyped
<1>2. ASSUME NEW f, DOMAIN f = Locals, ReadStorage(f)
      PROVE  /\ frame'.before = f.before /\ frame'.after = f.after
             /\ frame'.balance = f.balance /\ frame'.stage = "storage"
  <2> DEFINE g == [f EXCEPT !.stage = "storage", !.tries = @ + 1]
  <2>1. g.before = f.before /\ g.after = f.after /\ g.balance = f.balance /\ g.stage = "storage"
    BY <1>2, LocalsAre
  <2>2. frame' = g
    BY <1>2 DEF ReadStorage, Call
  <2> HIDE DEF g
  <2>3. QED BY <2>1, <2>2
<1>3. \A storage, balance : Compare(storage, balance) => BalanceEffect
  BY DEF Compare, Record, BalanceEffect
<1>4. CASE Observe
  <2>1. CASE Call([frame EXCEPT !.stage = "balance"], "eth_getBalance", None)
    <3> DEFINE f == [frame EXCEPT !.stage = "balance"]
    <3>1. f.before = frame.before /\ f.after = frame.after /\ f.stage = "balance"
      BY <1>1, LocalsAre
    <3> HIDE DEF f
    <3>2. /\ frame' = f /\ rpc'.method = "eth_getBalance" /\ rpc'.phase = "sending"
          /\ rpc'.outcome.kind = "none"
      BY <2>1, CallFacts DEF f
    <3>3. QED BY <3>1, <3>2 DEF BalanceEffect, KeepsBalances, AsksBalance
  <2>2. CASE ~Case.balance /\ ReadStorage(frame)
    BY <1>1, <1>2, <2>2 DEF BalanceEffect, KeepsBalances
  <2>3. QED BY <1>3, <1>4, <2>1, <2>2 DEF Observe, ObserveRest
<1>5. CASE GotBalance
  <2> DEFINE f == [frame EXCEPT !.balance = Value]
  <2>1. /\ f.before = frame.before /\ f.after = frame.after /\ f.balance = Value
        /\ DOMAIN f = Locals
    BY <1>1, LocalsAre
  <2>2. Result("balance") /\ ObserveRest(f)
    BY <1>5 DEF GotBalance
  <2> HIDE DEF f
  <2>3. CASE ReadStorage(f)
    BY <1>2, <2>1, <2>2, <2>3 DEF BalanceEffect, KeepsBalances
  <2>4. QED BY <1>3, <2>2, <2>3 DEF ObserveRest
<1>6. CASE GotStorage
  BY <1>3, <1>6 DEF GotStorage
<1>7. CASE HeaderLags
  BY <1>1, <1>2, <1>7 DEF HeaderLags, Back, At, BalanceEffect, KeepsBalances
<1>8. QED BY <1>4, <1>5, <1>6, <1>7

LEMMA InterpretBalance == ASSUME LocalInv, Interpret PROVE BalanceEffect
  BY OtherBalance, SubmitBalance, ObserveBalance DEF Interpret

-----------------------------------------------------------------------------
(* BalanceInv is an invariant. *)

LEMMA ViewKept ==
  ASSUME chain' = chain, frame'.case = frame.case
  PROVE  \A v : (Captured(v) => Captured(v)') /\ (Seen(v) => Seen(v)')
  BY DEF Captured, Seen, Landed, Landings, OwnTransfer

\* What the case in progress has begun.
LEMMA BegunBefore ==
  ASSUME LocalInv, Interpret, KeepsBalances, Balanced,
         Within \/ Passes \/ Sends \/ Receives, TransferBegun'
  PROVE  TransferBegun
<1>1. Case' = Case /\ OnCase
  BY DEF Case, Within, SameStep, Passes, Sends, Receives, Balanced
<1>2. frame.pc \in Nat /\ DOMAIN Case.steps \subseteq Nat
  BY <1>1, CaseFacts
<1>3. CASE frame'.stage \in {"nonce", "send"}
  <2>1. Within
    BY <1>3 DEF Passes, Sends, Receives
  <2>2. Step' = Step /\ frame'.pc = frame.pc
    BY <1>1, <2>1 DEF Step, Within, SameStep
  <2>3. CASE Step.action = "transfer_native"
    BY <1>3, <2>3 DEF KeepsBalances, Balanced, TransferBegun
  <2>4. CASE Step.action # "transfer_native"
    BY <1>1, <2>2, <2>4 DEF TransferBegun, Transfers, Expecting
  <2>5. QED BY <2>3, <2>4
<1>4. CASE frame'.stage \notin {"nonce", "send"}
  <2>1. PICK pc \in Transfers(Case) : pc < frame'.pc
    BY <1>1, <1>4 DEF TransferBegun, Transfers, Expecting
  <2>2. pc \in DOMAIN Case.steps /\ Case.steps[pc].action = "transfer_native"
    BY <2>1 DEF Transfers, Expecting
  <2>3. frame'.pc = frame.pc \/ frame'.pc = frame.pc + 1
    BY DEF Within, SameStep, Passes, Sends, Receives
  <2>4. CASE pc < frame.pc
    BY <2>1, <2>4 DEF TransferBegun
  <2>5. CASE ~(pc < frame.pc)
    <3>1. pc = frame.pc /\ frame'.pc = frame.pc + 1
      BY <1>2, <2>1, <2>2, <2>3, <2>5
    <3>2. Step.action = "transfer_native"
      BY <2>2, <3>1 DEF Step
    <3>3. Passes \/ Sends \/ Receives
      BY <1>2, <3>1 DEF Within, SameStep
    <3>4. frame.stage = "send"
      BY <3>2, <3>3 DEF Passes, Sends, Receives, LocalInv, StageMatches
    <3>5. QED BY <3>2, <3>4 DEF TransferBegun
  <2>6. QED BY <2>4, <2>5
<1>5. QED BY <1>3, <1>4

LEMMA InterpretKeepsBalance ==
  ASSUME IInv, IInv', LocalInv, BalanceInv, Interpret
  PROVE  BalanceInv'
<1>1. OnCase /\ (Within \/ Passes \/ Sends \/ Receives \/ Records)
  BY InterpretOnCase, InterpretEffect DEF IInv, SubmissionInv
<1>2. CASE frame' = Frame(frame.case + 1)
  <2>1. /\ frame'.case = frame.case + 1 /\ frame'.pc = 1 /\ frame'.stage = "step"
    BY <1>2 DEF Frame
  <2>2. ASSUME Balanced', TransferBegun' PROVE FALSE
    <3>1. PICK pc \in Transfers(Case') : pc < 1
      BY <2>1, <2>2 DEF TransferBegun, Transfers, Expecting
    <3>2. frame'.case \in DOMAIN Cases
      <4>1. Len(Cases) \in Nat /\ DOMAIN Cases = 1..Len(Cases)
        BY CaseConstants, SequenceFacts
      <4>2. QED BY <2>1, <2>2, <4>1 DEF Balanced, OnCase, IInv, FrameOK
    <3>3. pc \in Nat \ {0}
      BY <3>1, <3>2, CaseConstants, SequenceFacts DEF Case, Transfers, Expecting
    <3>4. QED BY <3>1, <3>3
  <2>3. QED BY <2>1, <2>2 DEF BalanceInv, BalanceStages, AnswersCaptured, AnswersSeen, CaptureKept,
            BalanceKept
<1>3. CASE frame' # Frame(frame.case + 1)
  <2>1. Within \/ Passes \/ Sends \/ Receives
    BY <1>1, <1>3 DEF Records
  <2>2. Captures \/ KeepsBalances
    BY <1>3, InterpretBalance DEF BalanceEffect
  <2>3. /\ frame'.case = frame.case /\ Case' = Case /\ chain' = chain /\ reply' = reply
        /\ frame'.stage \in {"step", "block"} \/ (frame'.pc = frame.pc /\ Step' = Step)
    BY <2>1 DEF Within, SameStep, Passes, Sends, Receives, Case, Step, NodeIdle, chainVars
  <2>4. frame'.stage \in {"before", "balance"} => AsksBalance
    BY <2>2 DEF Captures, KeepsBalances
  <2>5. BalanceStages'
    BY <2>3, <2>4 DEF BalanceStages, AsksBalance
  <2>6. AnswersCaptured' /\ AnswersSeen'
    <3>1. AsksBalance => reply' = {}
      BY DEF AsksBalance, IInv, SubmissionInv, NonceAnswers
    <3>2. QED BY <2>4, <3>1 DEF AnswersCaptured, AnswersSeen, AsksBalance
  <2>7. ASSUME Balanced' PROVE CaptureKept' /\ BalanceKept'
    <3>1. Balanced
      BY <2>3, <2>7 DEF Balanced, OnCase, RightBalance, WaitsForAll, Awaited, Transfers, Expecting
    <3>2. AnswersCaptured /\ AnswersSeen /\ CaptureKept /\ BalanceKept
      BY <3>1 DEF BalanceInv
    <3>3. CASE Captures
      <4>1. Captured(Value)
        BY <3>2, <3>3 DEF Captures, AnswersCaptured, Result, Back, At, Value
      <4>2. Captured(frame.before)'
        BY <2>3, <3>3, <4>1, ViewKept DEF Captures
      <4>3. QED BY <3>3, <4>2 DEF CaptureKept, BalanceKept, Captures
    <3>4. CASE KeepsBalances
      <4>1. CaptureKept'
        BY <2>1, <2>3, <3>1, <3>2, <3>4, BegunBefore, ViewKept DEF CaptureKept, KeepsBalances
      <4>2. BalanceKept'
        <5> SUFFICES ASSUME frame'.stage = "storage" PROVE Seen(frame.balance)'
          BY DEF BalanceKept
        <5>1. CASE frame.stage = "storage" /\ frame'.balance = frame.balance
          BY <2>3, <3>2, <5>1, ViewKept DEF BalanceKept
        <5>2. CASE Result("balance") /\ frame'.balance = Value
          <6>1. Seen(Value)
            BY <3>2, <5>2 DEF AnswersSeen, Result, Back, At, Value
          <6>2. QED BY <2>3, <5>2, <6>1, ViewKept
        <5>3. QED BY <3>1, <3>4, <5>1, <5>2 DEF KeepsBalances, Balanced
      <4>3. QED BY <4>1, <4>2
    <3>5. QED BY <2>2, <3>3, <3>4
  <2>8. QED BY <2>5, <2>6, <2>7 DEF BalanceInv
<1>4. QED BY <1>2, <1>3

\* A known transfer of the case in progress is that of its transfer step.
LEMMA KnownTransfer ==
  ASSUME IInv, MeaningInv, NEW t \in Known, t.kind = "transfer", t.step[1] = frame.case
  PROVE  t.step[2] \in Transfers(Case) /\ t.step = <<frame.case, t.step[2]>>
<1>1. frame.case # 0
  BY DEF IInv, FrameOK
<1>2. Meant(t)
  BY <1>1 DEF MeaningInv, KnownMeant
<1>3. t.step[2] \in DOMAIN Case.steps /\ Case.steps[t.step[2]].action = "transfer_native"
  BY <1>2 DEF Meant, KindOf, SubmitActions, Case
<1>4. QED BY <1>3, KnownStep DEF Transfers, Expecting

\* The balance at the newest block.
LEMMA NewestBalance ==
  ASSUME IInv, LocalInv
  PROVE  BalanceAt(head) = Landed(Len(chain))
<1>1. DOMAIN chain = 1..Len(chain)
  BY ChainFacts
<1>2. \A i \in DOMAIN chain : chain[i].block <= head
  BY DEF LocalInv, BlocksTyped
<1>3. UpTo(head) = 1..Len(chain)
  BY <1>1, <1>2 DEF UpTo
<1>4. QED BY <1>3 DEF BalanceAt, Landed, Landings

\* Before the transfer is sent it is nowhere: the balance is that before it.
LEMMA NewestIsCaptured ==
  ASSUME IInv, LocalInv, MeaningInv, BalanceStages, Balanced, frame.stage = "before"
  PROVE  Captured(BalanceAt(head))
<1>1. ASSUME NEW i \in DOMAIN chain, OwnTransfer(i) PROVE FALSE
  <2>1. chain[i].tx \in Known
    BY ChainFacts
  <2>2. /\ chain[i].tx.step[2] \in Transfers(Case)
        /\ chain[i].tx.step = <<frame.case, chain[i].tx.step[2]>>
    BY <1>1, <2>1, KnownTransfer DEF OwnTransfer
  <2>3. frame.pc \in Transfers(Case)
    <3>1. Step.action = "transfer_native"
      BY DEF BalanceStages
    <3>2. frame.pc \in DOMAIN Case.steps
      BY CaseFacts DEF LocalInv, StageMatches, Balanced
    <3>3. QED BY <3>1, <3>2 DEF Transfers, Expecting, Step
  <2>4. chain[i].tx.step = <<frame.case, frame.pc>>
    BY <2>2, <2>3 DEF Balanced, RightBalance
  <2>5. QED BY <2>1, <2>4 DEF IInv, SubmissionInv, UnsentStepUnknown
<1>2. Len(chain) \in 0..Len(chain)
  BY ChainFacts
<1>3. QED BY <1>1, <1>2, NewestBalance DEF Captured

\* After the last step, the newest balance is that after the transfer.
LEMMA NewestIsSeen ==
  ASSUME IInv, LocalInv
  PROVE  Seen(BalanceAt(head))
<1>1. Len(chain) \in 0..Len(chain) /\ \A i \in DOMAIN chain : i <= Len(chain)
  BY ChainFacts
<1>2. QED BY <1>1, NewestBalance DEF Seen

LEMMA ServeKeepsBalance ==
  ASSUME IInv, LocalInv, MeaningInv, BalanceInv, ServeRead \/ ServeSubmission
  PROVE  BalanceInv'
<1>1. PICK r, a : /\ r \in wire /\ Rpc!Handle(r, a) /\ UNCHANGED <<frame, results>>
                  /\ chain' = chain
                  /\ \/ r.method \in Submissions
                     \/ \E view \in Views : a \in ReadAnswers(r, view)
  BY DEF ServeRead, ServeSubmission, chainVars, Accept
<1>2. /\ rpc' = rpc /\ frame' = frame
      /\ \/ reply' = reply
         \/ reply' = {a} /\ r = Rpc!Request
  BY <1>1 DEF Rpc!Handle
<1>3. Case' = Case /\ Step' = Step
  BY <1>2 DEF Case, Step
<1>4. BalanceStages'
  BY <1>2, <1>3 DEF BalanceInv, BalanceStages
<1>5. ASSUME Balanced' PROVE AnswersCaptured' /\ AnswersSeen' /\ CaptureKept' /\ BalanceKept'
  <2>1. Balanced
    BY <1>2, <1>3, <1>5 DEF Balanced, OnCase, RightBalance, WaitsForAll, Awaited, Transfers, Expecting
  <2>2. AnswersCaptured /\ AnswersSeen /\ CaptureKept /\ BalanceKept
    BY <2>1 DEF BalanceInv
  <2>3. \A v : (Captured(v) => Captured(v)') /\ (Seen(v) => Seen(v)')
    BY <1>1, <1>2, ViewKept
  <2>4. CaptureKept' /\ BalanceKept'
    BY <1>2, <1>3, <2>2, <2>3 DEF CaptureKept, BalanceKept, TransferBegun, Transfers, Expecting
  <2>5. ASSUME frame.stage \in {"before", "balance"}, reply' # reply
        PROVE  a.value = BalanceAt(head) /\ reply' = {a}
    <3>1. r.method = "eth_getBalance"
      BY <1>2, <2>5 DEF BalanceInv, BalanceStages, Rpc!Request
    <3>2. PICK view \in Views : a \in ReadAnswers(r, view)
      BY <1>1, <3>1 DEF Submissions, RawTx
    <3>3. view = head
      BY <2>1, <3>2 DEF Views, Balanced, LocalInv, BlocksTyped
    <3>4. a = Good(BalanceAt(view))
      BY <3>1, <3>2 DEF ReadAnswers
    <3>5. QED BY <1>2, <2>5, <3>3, <3>4 DEF Good
  <2>6. AnswersCaptured'
    BY <1>2, <2>1, <2>2, <2>3, <2>5, NewestIsCaptured DEF AnswersCaptured, BalanceInv
  <2>7. AnswersSeen'
    BY <1>2, <2>1, <2>2, <2>3, <2>5, NewestIsSeen DEF AnswersSeen
  <2>8. QED BY <2>4, <2>6, <2>7
<1>6. QED BY <1>4, <1>5 DEF BalanceInv

\* A block after them changes neither a captured balance nor one that was seen
\* when the transfer was on the chain.
LEMMA GrowthKeepsLanded ==
  ASSUME IInv, IInv', ChainGrows, NEW n \in 0..Len(chain)
  PROVE  n \in 0..Len(chain') /\ Landed(n)' = Landed(n)
<1>1. /\ Len(chain) \in Nat /\ DOMAIN chain = 1..Len(chain)
      /\ \A i \in DOMAIN chain : i \in DOMAIN chain' /\ chain'[i] = chain[i]
  BY ChainFacts DEF ChainGrows
<1>2. \A i \in 1..n : chain'[i] = chain[i]
  BY <1>1
<1>3. Landings(n)' = Landings(n)
  BY <1>2 DEF Landings
<1>4. Landed(n)' = Landed(n)
  BY <1>3 DEF Landed
<1>5. Len(chain') \in Nat /\ DOMAIN chain' = 1..Len(chain')
  BY LenProperties DEF IInv, ChainOK
<1>6. QED BY <1>1, <1>4, <1>5

LEMMA GrowthKeepsCaptured ==
  ASSUME IInv, IInv', ChainGrows, frame' = frame, NEW v, Captured(v)
  PROVE  Captured(v)'
<1>1. PICK n \in 0..Len(chain) :
        v = Landed(n) /\ \A i \in DOMAIN chain : OwnTransfer(i) => n < i
  BY DEF Captured
<1>2. n \in 0..Len(chain') /\ Landed(n)' = Landed(n)
  BY GrowthKeepsLanded
<1>3. ASSUME NEW i \in DOMAIN chain', OwnTransfer(i)' PROVE n < i
  <2>1. CASE i \in DOMAIN chain
    BY <1>1, <1>3, <2>1 DEF OwnTransfer, ChainGrows
  <2>2. CASE i \notin DOMAIN chain
    <3>1. i \in Nat /\ \A j \in DOMAIN chain : j < i
      BY <2>2 DEF ChainGrows
    <3>2. i # 0
      <4>1. PICK S : chain' \in Seq(S)
        BY DEF IInv, ChainOK
      <4>2. QED BY <4>1, LenProperties
    <3>3. DOMAIN chain = 1..Len(chain) /\ Len(chain) \in Nat
      BY ChainFacts
    <3>4. QED BY <3>1, <3>2, <3>3
  <2>3. QED BY <2>1, <2>2
<1>4. QED BY <1>1, <1>2, <1>3 DEF Captured

\* After the last step, the transfer of the case is on the chain.
LEMMA TransferLanded ==
  ASSUME IInv, LocalInv, MeaningInv, OnCase, RightBalance(Case), frame.pc > Len(Case.steps)
  PROVE  \E d \in DOMAIN Case.steps :
           /\ Transfers(Case) = {d} /\ d < frame.pc
           /\ \E j \in DOMAIN chain :
                /\ chain[j].tx.step = <<frame.case, d>> /\ chain[j].tx.step[1] = frame.case
                /\ chain[j].ok /\ chain[j].tx.kind = "transfer"
<1>1. PICK d \in DOMAIN Case.steps : Transfers(Case) = {d} /\ Case.steps[d].status
  BY DEF RightBalance
<1>2. Case.steps[d].action = "transfer_native"
  BY <1>1 DEF Transfers, Expecting
<1>3. Case.steps[d].expectError = None
  BY <1>2, CaseFacts DEF RawTx
<1>4. d \in Expecting(Case, SubmitActions)
  BY <1>2 DEF Expecting, SubmitActions
<1>5. PICK j \in DOMAIN chain : /\ chain[j].tx.step = <<frame.case, d>>
                                /\ chain[j].ok = Case.steps[d].status
  BY <1>3, <1>4, LandedStep DEF RightBalance
<1>6. chain[j].tx.step[1] = frame.case /\ chain[j].tx.step[2] = d /\ frame.case # 0
  BY <1>5 DEF IInv, FrameOK
<1>7. Meant(chain[j].tx)
  BY <1>6, ChainFacts DEF MeaningInv, KnownMeant
<1>8. chain[j].tx.kind = "transfer"
  BY <1>2, <1>6, <1>7 DEF Meant, KindOf, Case
<1>9. d < frame.pc
  <2>1. d \in 1..(frame.pc - 1) /\ frame.pc \in Nat
    BY StepsOver, CaseFacts
  <2>2. QED BY <2>1
<1>10. QED BY <1>1, <1>5, <1>6, <1>8, <1>9

LEMMA GrowthKeepsSeen ==
  ASSUME IInv, IInv', LocalInv, MeaningInv, Balanced, frame.pc > Len(Case.steps),
         ChainGrows, frame' = frame, NEW v, Seen(v)
  PROVE  Seen(v)'
<1>1. PICK n \in 0..Len(chain) :
        v = Landed(n) /\ \A i \in DOMAIN chain : OwnTransfer(i) => i <= n
  BY DEF Seen
<1>2. n \in 0..Len(chain') /\ Landed(n)' = Landed(n)
  BY GrowthKeepsLanded
<1>3. ASSUME NEW i \in DOMAIN chain', OwnTransfer(i)' PROVE i <= n
  <2>1. CASE i \in DOMAIN chain
    BY <1>1, <1>3, <2>1 DEF OwnTransfer, ChainGrows
  <2>2. CASE i \notin DOMAIN chain
    <3>1. PICK d \in DOMAIN Case.steps :
            /\ Transfers(Case) = {d}
            /\ \E j \in DOMAIN chain : chain[j].tx.step = <<frame.case, d>>
      BY TransferLanded DEF Balanced
    <3>2. PICK j \in DOMAIN chain : chain[j].tx.step = <<frame.case, d>>
      BY <3>1
    <3>3. chain'[i].tx \in Known
      BY <2>2 DEF ChainGrows, Known
    <3>4. chain'[i].tx.step = <<frame.case, d>>
      BY <1>3, <3>1, <3>3, KnownTransfer DEF OwnTransfer
    <3>5. j \in DOMAIN chain' /\ chain'[j].tx.step = chain'[i].tx.step
      BY <3>2, <3>4 DEF ChainGrows
    <3>6. QED BY <2>2, <3>5, PrimedChainFacts
  <2>3. QED BY <2>1, <2>2
<1>4. QED BY <1>1, <1>2, <1>3 DEF Seen

\* Outside the interpreter, when nothing new is answered.
LEMMA WorldKeepsBalance ==
  ASSUME IInv, IInv', LocalInv, MeaningInv, BalanceInv,
         frame' = frame, rpc'.method = rpc.method, reply' \subseteq reply,
         \/ rpc'.outcome = rpc.outcome
         \/ rpc'.outcome.kind # "answer"
         \/ rpc'.outcome.kind = "answer" /\ rpc'.outcome.value \in reply,
         chain' = chain \/ ChainGrows
  PROVE  BalanceInv'
<1>1. Case' = Case /\ Step' = Step
  BY DEF Case, Step
<1>2. BalanceStages'
  BY <1>1 DEF BalanceInv, BalanceStages
<1>3. ASSUME Balanced' PROVE AnswersCaptured' /\ AnswersSeen' /\ CaptureKept' /\ BalanceKept'
  <2>1. Balanced
    BY <1>1, <1>3 DEF Balanced, OnCase, RightBalance, WaitsForAll, Awaited, Transfers, Expecting
  <2>2. AnswersCaptured /\ AnswersSeen /\ CaptureKept /\ BalanceKept
    BY <2>1 DEF BalanceInv
  <2>3. \A v : Captured(v) => Captured(v)'
    BY ViewKept, GrowthKeepsCaptured
  <2>4. \A v : frame.stage \in {"balance", "storage"} /\ Seen(v) => Seen(v)'
    BY <2>1, ViewKept, GrowthKeepsSeen DEF LocalInv, StageMatches
  <2>5. CaptureKept' /\ BalanceKept'
    BY <1>1, <2>2, <2>3, <2>4 DEF CaptureKept, BalanceKept, TransferBegun, Transfers, Expecting
  <2>6. AnswersCaptured' /\ AnswersSeen'
    BY <2>2, <2>3, <2>4 DEF AnswersCaptured, AnswersSeen
  <2>7. QED BY <2>5, <2>6
<1>4. QED BY <1>2, <1>3 DEF BalanceInv

LEMMA BalanceInit == Init => BalanceInv
<1> SUFFICES ASSUME Init PROVE BalanceInv
  OBVIOUS
<1>1. frame.stage = "step" /\ frame.pc = 1 /\ frame.case = 1
  BY DEF Init, Frame
<1>2. ASSUME Balanced, TransferBegun PROVE FALSE
  <2>1. PICK pc \in Transfers(Case) : pc < 1
    BY <1>1, <1>2 DEF TransferBegun
  <2>2. frame.case \in DOMAIN Cases
    <3>1. Len(Cases) \in Nat /\ DOMAIN Cases = 1..Len(Cases)
      BY CaseConstants, SequenceFacts
    <3>2. QED BY <1>1, <1>2, <3>1 DEF Balanced, OnCase
  <2>3. pc \in Nat \ {0}
    BY <2>1, <2>2, CaseConstants, SequenceFacts DEF Case, Transfers, Expecting
  <2>4. QED BY <2>1, <2>3
<1>3. QED BY <1>1, <1>2 DEF BalanceInv, BalanceStages, AnswersCaptured, AnswersSeen, CaptureKept,
          BalanceKept

LEMMA BalanceStep ==
  IInv /\ IInv' /\ LocalInv /\ MeaningInv /\ BalanceInv /\ [Next]_vars => BalanceInv'
<1> SUFFICES ASSUME IInv, IInv', LocalInv, MeaningInv, BalanceInv, [Next]_vars PROVE BalanceInv'
  OBVIOUS
<1>1. CASE Transport
  BY <1>1, ClientEffect, WorldKeepsBalance DEF Transport, chainVars
<1>2. CASE Interpret
  BY <1>2, InterpretKeepsBalance
<1>3. CASE ServeRead \/ ServeSubmission
  BY <1>3, ServeKeepsBalance
<1>4. CASE MineBlock
  BY <1>4, MineGrows, WorldKeepsBalance DEF rpcVars
<1>5. CASE DropTransaction \/ OtherClient
  BY <1>5, WorldKeepsBalance DEF DropTransaction, Drop, OtherClient, Accept, rpcVars
<1>6. CASE UNCHANGED vars
  BY <1>6, WorldKeepsBalance DEF vars, rpcVars, chainVars
<1>7. QED BY <1>1, <1>2, <1>3, <1>4, <1>5, <1>6 DEF Next, Harness, Node, Terminated

-----------------------------------------------------------------------------
(* A balance that was found wrong is explained by a transfer of another client. *)

LEMMA LandingsFinite ==
  ASSUME IInv, NEW n \in 0..Len(chain)
  PROVE  /\ IsFiniteSet(Landings(n)) /\ Landed(n) \in Nat
         /\ \A m \in 0..Len(chain) : m <= n => Landed(m) <= Landed(n)
<1>1. n \in Int /\ Len(chain) \in Nat
  BY ChainFacts
<1>2. IsFiniteSet(1..n)
  BY <1>1, FS_Interval
<1>3. Landings(n) \subseteq 1..n
  BY DEF Landings
<1>4. IsFiniteSet(Landings(n))
  BY <1>2, <1>3, FS_Subset
<1>5. ASSUME NEW m \in 0..Len(chain), m <= n PROVE Landed(m) <= Landed(n)
  <2>1. Landings(m) \subseteq Landings(n)
    BY <1>1, <1>5 DEF Landings
  <2>2. QED BY <1>4, <2>1, FS_Subset DEF Landed
<1>6. QED BY <1>4, <1>5, FS_CardinalityType DEF Landed

LEMMA ForeignTransfer ==
  ASSUME IInv, LocalInv, ChainInv, RefusalInv, MeaningInv, BalanceInv,
         MaxLag = 0, Judged, RightCase(Case)
  PROVE  \E i \in DOMAIN chain :
           /\ chain[i].ok /\ chain[i].tx.kind = "transfer" /\ chain[i].tx.step[1] # frame.case
           /\ frame.before <= TransfersBefore(i)
<1>1. /\ Len(chain) \in Nat /\ DOMAIN chain = 1..Len(chain)
      /\ \A i \in DOMAIN chain : chain[i].tx \in Known
      /\ \A i, j \in DOMAIN chain : chain[i].tx.step = chain[j].tx.step => i = j
  BY ChainFacts
<1>2. PICK balance : /\ Case.balance /\ balance # frame.after
                     /\ \/ Result("balance") /\ balance = Value
                        \/ Result("storage") /\ balance = frame.balance
  BY OnlyBalanceMismatch
<1>3. OnCase /\ frame.pc > Len(Case.steps) /\ RightBalance(Case) /\ Balanced
  BY <1>2 DEF Judged, Balanced, RightCase
<1>4. AnswersSeen /\ CaptureKept /\ BalanceKept
  BY <1>3 DEF BalanceInv
<1>5. PICK d \in DOMAIN Case.steps :
        /\ Transfers(Case) = {d} /\ d < frame.pc
        /\ \E j \in DOMAIN chain :
             /\ chain[j].tx.step = <<frame.case, d>> /\ chain[j].tx.step[1] = frame.case
             /\ chain[j].ok /\ chain[j].tx.kind = "transfer"
  BY <1>3, TransferLanded
<1>6. PICK j \in DOMAIN chain :
        /\ chain[j].tx.step = <<frame.case, d>> /\ chain[j].tx.step[1] = frame.case
        /\ chain[j].ok /\ chain[j].tx.kind = "transfer"
  BY <1>5
<1>7. frame.after = frame.before + 1 /\ Captured(frame.before)
  BY <1>4, <1>5 DEF CaptureKept, TransferBegun
<1>8. PICK n \in 0..Len(chain) :
        frame.before = Landed(n) /\ \A i \in DOMAIN chain : OwnTransfer(i) => n < i
  BY <1>7 DEF Captured
<1>9. Seen(balance)
  BY <1>2, <1>4 DEF AnswersSeen, BalanceKept, Result, Back, At, Value
<1>10. PICK m \in 0..Len(chain) :
        balance = Landed(m) /\ \A i \in DOMAIN chain : OwnTransfer(i) => i <= m
  BY <1>9 DEF Seen
<1>11. n < j /\ j <= m
  BY <1>6, <1>8, <1>10 DEF OwnTransfer
<1>12. PICK i \in (n + 1)..m : /\ chain[i].ok /\ chain[i].tx.kind = "transfer"
                               /\ chain[i].tx.step[1] # frame.case
  <2> SUFFICES ASSUME \A i \in (n + 1)..m :
                        chain[i].ok /\ chain[i].tx.kind = "transfer" =>
                          chain[i].tx.step[1] = frame.case
               PROVE  FALSE
    OBVIOUS
  <2>1. ASSUME NEW i \in Landings(m), i \notin Landings(n) PROVE i = j
    <3>1. i \in 1..m /\ chain[i].ok /\ chain[i].tx.kind = "transfer" /\ i \notin 1..n
      BY <2>1 DEF Landings
    <3>2. i \in (n + 1)..m /\ i \in DOMAIN chain
      BY <1>1, <3>1
    <3>3. chain[i].tx.step[1] = frame.case
      BY <3>1, <3>2
    <3>4. chain[i].tx.step = <<frame.case, d>>
      BY <1>1, <1>5, <3>1, <3>2, <3>3, KnownTransfer
    <3>5. QED BY <1>1, <1>6, <3>2, <3>4
  <2>2. j \in Landings(m) /\ j \notin Landings(n) /\ Landings(n) \subseteq Landings(m)
    BY <1>1, <1>6, <1>11 DEF Landings
  <2>3. Landings(m) = Landings(n) \cup {j}
    BY <2>1, <2>2
  <2>4. Landed(m) = Landed(n) + 1
    BY <2>2, <2>3, LandingsFinite, FS_AddElement DEF Landed
  <2>5. QED BY <1>2, <1>7, <1>8, <1>10, <2>4
<1>13. i \in DOMAIN chain /\ i - 1 \in 0..Len(chain) /\ n <= i - 1
  BY <1>1
<1>14. frame.before <= TransfersBefore(i)
  <2>1. TransfersBefore(i) = Landed(i - 1)
    BY DEF TransfersBefore, Landed, Landings
  <2>2. QED BY <1>8, <1>13, <2>1, LandingsFinite
<1>15. QED BY <1>12, <1>13, <1>14

\* What a step says of the results it adds.
Explained ==
  \A k \in DOMAIN results' \ DOMAIN results :
    RightCase(Cases[k]) /\ results'[k].verdict = "failed" =>
      \E i \in DOMAIN chain :
        /\ chain[i].ok /\ chain[i].tx.kind = "transfer" /\ chain[i].tx.step[1] # k
        /\ frame.before <= TransfersBefore(i)

LEMMA ExplainedStep ==
  ASSUME MaxLag = 0, IInv, LocalInv, ChainInv, RefusalInv, MeaningInv, BalanceInv, [Next]_vars
  PROVE  Explained
<1> SUFFICES ASSUME NEW k \in DOMAIN results' \ DOMAIN results, RightCase(Cases[k]),
                    results'[k].verdict = "failed"
             PROVE  \E i \in DOMAIN chain :
                      /\ chain[i].ok /\ chain[i].tx.kind = "transfer" /\ chain[i].tx.step[1] # k
                      /\ frame.before <= TransfersBefore(i)
  BY DEF Explained
<1>1. Interpret
  BY ResultsStay
<1>2. k = frame.case /\ Judged
  BY <1>1, FailureIsJudged
<1>3. RightCase(Case)
  BY <1>2 DEF Case
<1>4. QED BY <1>2, <1>3, ForeignTransfer

\* When no replica lags, a case whose expectation is right is reported as failed
\* only if a transfer of another client took effect after its balance was
\* captured: the balance is read before the transfer is signed, the value the
\* transfer adds is computed then, and the receipt is waited for before the
\* balance is read again (executor.py:1075-1081, 1113-1129, 1159-1161).
THEOREM OnlyForeignTransfersMislead ==
  ASSUME MaxLag = 0
  PROVE  Spec => MismatchOnlyFromForeignTransfer
<1>1. Init => IInv /\ LocalInv /\ MeaningInv /\ BalanceInv
  BY InitInv, LocalInit, MeaningInit, BalanceInit
<1>2. IInv /\ IInv' /\ LocalInv /\ MeaningInv /\ BalanceInv /\ [Next]_vars => BalanceInv'
  BY BalanceStep
<1>3. IInv /\ LocalInv /\ ChainInv /\ RefusalInv /\ MeaningInv /\ BalanceInv /\ [Next]_vars
        => [Explained]_vars
  BY ExplainedStep
<1>4. Spec => [][Explained]_vars
  BY <1>1, <1>2, <1>3, MeaningInvariance, PTL DEF Spec
<1>5. QED BY <1>4 DEF MismatchOnlyFromForeignTransfer, Explained
=============================================================================
