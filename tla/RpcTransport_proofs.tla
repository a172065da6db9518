-------------------------- MODULE RpcTransport_proofs ---------------------------
(* Proofs about RpcTransport, for every set of methods, arguments and answers, *)
(* every number of calls and of failures. *)
EXTENDS RpcTransport, TLAPS

\* The attempts of a call that go on are well typed.
LEMMA NextAttemptType ==
  ASSUME TypeOK, InProgress, rpc.attempt < Attempts, NextAttempt
  PROVE  /\ rpc' = [phase |-> "sending", call |-> rpc.call, attempt |-> rpc.attempt + 1,
                    method |-> rpc.method, arg |-> rpc.arg, outcome |-> rpc.outcome]
         /\ rpc'.attempt \in 1..Attempts
<1>1. rpc.attempt + 1 \in 1..Attempts
  BY DEF TypeOK, InProgress, Attempts
<1>2. rpc' = [phase |-> "sending", call |-> rpc.call, attempt |-> rpc.attempt + 1,
              method |-> rpc.method, arg |-> rpc.arg, outcome |-> rpc.outcome]
  BY DEF TypeOK, NextAttempt
<1>3. QED BY <1>1, <1>2

\* A call that returns keeps everything but its phase and outcome.
LEMMA ReturnType ==
  ASSUME TypeOK, NEW o \in [kind : OutcomeKinds, value : Answers \cup {NoAnswer}], Return(o)
  PROVE  rpc' = [phase |-> "returned", call |-> rpc.call, attempt |-> rpc.attempt,
                 method |-> rpc.method, arg |-> rpc.arg, outcome |-> o]
  BY DEF TypeOK, Return

\* What _rpc raises is an outcome.
LEMMA RaisedType ==
  \A kind \in OutcomeKinds : Raised(kind) \in [kind : OutcomeKinds, value : Answers \cup {NoAnswer}]
  BY DEF Raised

\* No step leaves the types.
LEMMA StepType == TypeOK /\ [Next]_vars => TypeOK'
<1> SUFFICES ASSUME TypeOK, [Next]_vars PROVE TypeOK'
  OBVIOUS
<1>1. ASSUME NEW m \in Methods, NEW a \in Args,
             rpc.call < MaxCalls, Invoke(rpc.call + 1, m, a)
      PROVE TypeOK'
  BY <1>1, TransportConstants DEF Invoke, Raised, OutcomeKinds, Attempts, TypeOK
<1>2. CASE Send
  <2>1. Request \in Requests
    BY <1>2 DEF Send, Request, Requests, TypeOK, Attempts
  <2>2. QED BY <1>2, <2>1 DEF Send, TypeOK
<1>3. ASSUME NEW kind \in {"timeout", "transport"}, ConnectFails(kind)
      PROVE TypeOK'
  <2>1. CASE RetriesConnect
    BY <1>3, <2>1, NextAttemptType DEF ConnectFails, RetriesConnect, InProgress, Fault, TypeOK
  <2>2. CASE ~RetriesConnect
    <3>1. Raised(kind) \in [kind : OutcomeKinds, value : Answers \cup {NoAnswer}]
      BY RaisedType DEF OutcomeKinds
    <3>2. QED BY <1>3, <2>2, <3>1, ReturnType DEF ConnectFails, Fault, TypeOK
  <2>3. QED BY <2>1, <2>2
<1>4. CASE ReadTimeout
  <2>1. wire' \subseteq Requests
    BY <1>4 DEF ReadTimeout, WireAfterAbandon, TypeOK
  <2>2. CASE RetriesTimeout
    BY <1>4, <2>1, <2>2, NextAttemptType DEF ReadTimeout, RetriesTimeout, InProgress, Fault, TypeOK
  <2>3. CASE ~RetriesTimeout
    <3>1. Raised("timeout") \in [kind : OutcomeKinds, value : Answers \cup {NoAnswer}]
      BY RaisedType DEF OutcomeKinds
    <3>2. QED BY <1>4, <2>1, <2>3, <3>1, ReturnType DEF ReadTimeout, Fault, TypeOK
  <2>4. QED BY <2>2, <2>3
<1>5. CASE BadResponse \/ ConnectionReset
  <2>1. Raised("transport") \in [kind : OutcomeKinds, value : Answers \cup {NoAnswer}]
    BY RaisedType DEF OutcomeKinds
  <2>2. Raised("uncaught") \in [kind : OutcomeKinds, value : Answers \cup {NoAnswer}]
    BY RaisedType DEF OutcomeKinds
  <2>3. wire' \subseteq Requests
    BY <1>5 DEF BadResponse, ConnectionReset, WireAfterAbandon, TypeOK
  <2>4. QED BY <1>5, <2>1, <2>2, <2>3, ReturnType DEF BadResponse, ConnectionReset, Fault, TypeOK
<1>6. CASE TakeAnswer
  <2>1. PICK a \in reply : Return(Answered(a))
    BY <1>6 DEF TakeAnswer
  <2>2. Answered(a) \in [kind : OutcomeKinds, value : Answers \cup {NoAnswer}]
    BY DEF Answered, TypeOK, OutcomeKinds
  <2>3. QED BY <1>6, <2>1, <2>2, ReturnType DEF TakeAnswer, TypeOK
<1>7. ASSUME NEW r \in wire, NEW a \in Answers, Handle(r, a)
      PROVE TypeOK'
  BY <1>7 DEF Handle, TypeOK
<1>8. CASE UNCHANGED vars
  BY <1>8 DEF vars, TypeOK
<1>9. QED
  BY <1>1, <1>2, <1>3, <1>4, <1>5, <1>6, <1>7, <1>8 DEF Next, ClientStep, NodeStep

-----------------------------------------------------------------------------
\* The state an attempt in progress fails in keeps the invariant, whether it is
\* followed by another attempt or ends the call.
LEMMA FailedAttempt ==
  ASSUME IInv, TypeOK', InProgress,
         Transmitted' = Transmitted, HandledOnce', reply' = {},
         \/ NextAttempt /\ rpc.attempt < Attempts /\ (rpc.phase = "waiting" => rpc.method # RawTx)
         \/ \E kind \in {"timeout", "transport", "uncaught"} : Return(Raised(kind))
  PROVE  IInv'
<1> USE DEF IInv
<1>1. /\ rpc'.call = rpc.call /\ rpc'.method = rpc.method /\ rpc'.attempt >= rpc.attempt
      /\ rpc'.outcome.kind # "answer"
      /\ rpc'.phase = "sending" =>
           rpc'.attempt = rpc.attempt + 1 /\ (rpc.phase = "waiting" => rpc.method # RawTx)
  <2>1. CASE NextAttempt /\ rpc.attempt < Attempts /\ (rpc.phase = "waiting" => rpc.method # RawTx)
    <3>1. rpc.outcome.kind # "answer"
      BY DEF ReturnedOutcome, InProgress
    <3>2. QED BY <2>1, <3>1, NextAttemptType DEF TypeOK
  <2>2. ASSUME NEW kind \in {"timeout", "transport", "uncaught"}, Return(Raised(kind))
        PROVE  rpc'.phase = "returned" /\ rpc'.call = rpc.call /\ rpc'.method = rpc.method
               /\ rpc'.attempt = rpc.attempt /\ rpc'.outcome.kind # "answer"
    <3>1. Raised(kind) \in [kind : OutcomeKinds, value : Answers \cup {NoAnswer}]
      BY RaisedType DEF OutcomeKinds
    <3>2. QED BY <2>2, <3>1, ReturnType DEF Raised
  <2>3. QED BY <2>1, <2>2 DEF TypeOK
<1>2. SentSoFar'
  BY <1>1 DEF SentSoFar, Transmitted, TypeOK, Requests
<1>3. SendIsNew'
  BY <1>1 DEF SendIsNew, SentSoFar, TypeOK, InProgress, Requests, Transmitted
<1>4. RequestsNamed' /\ RawSentOnce'
  BY DEF RequestsNamed, RawSentOnce
<1>5. ReplyIsCurrent' /\ ReturnedOutcome' /\ AnswerIsGenuine'
  BY <1>1 DEF ReplyIsCurrent, ReturnedOutcome, AnswerIsGenuine
<1>6. QED BY <1>2, <1>3, <1>4, <1>5

\* Giving up on an attempt forgets no effectful request.
LEMMA AbandonKeepsEffects ==
  ASSUME wire' = WireAfterAbandon, handled' = handled, HandledOnce
  PROVE  Transmitted' = Transmitted /\ HandledOnce'
  BY DEF Transmitted, WireAfterAbandon, HandledOnce

LEMMA InitInvariant == Init => IInv
<1> SUFFICES ASSUME Init PROVE IInv
  OBVIOUS
<1>1. TypeOK
  BY TransportConstants DEF Init, TypeOK, Raised, OutcomeKinds, Attempts
<1>2. Transmitted = {}
  BY DEF Init, Transmitted
<1>3. rpc.outcome.kind # "answer"
  BY DEF Init, Raised
<1>4. QED
  BY <1>1, <1>2, <1>3 DEF IInv, Init, SentSoFar, SendIsNew, RequestsNamed, RawSentOnce,
     HandledOnce, ReplyIsCurrent, ReturnedOutcome, AnswerIsGenuine

LEMMA NextInvariant == IInv /\ [Next]_vars => IInv'
<1> SUFFICES ASSUME IInv, [Next]_vars PROVE IInv'
  OBVIOUS
<1>0. TypeOK' /\ TypeOK /\ HandledOnce
  BY StepType DEF IInv
<1>1. ASSUME NEW m \in Methods, NEW a \in Args, rpc.call < MaxCalls, Invoke(rpc.call + 1, m, a)
      PROVE IInv'
  <2>1. Transmitted' = Transmitted /\ rpc'.call = rpc.call + 1 /\ rpc'.phase = "sending"
        /\ rpc'.outcome.kind = "none" /\ rpc.phase # "waiting"
    BY <1>1 DEF Invoke, Transmitted, Raised
  <2>2. SentSoFar' /\ SendIsNew'
    BY <1>0, <2>1 DEF IInv, SentSoFar, SendIsNew, TypeOK, Transmitted, Requests
  <2>3. RequestsNamed' /\ RawSentOnce'
    BY <2>1 DEF IInv, RequestsNamed, RawSentOnce
  <2>4. HandledOnce' /\ ReplyIsCurrent' /\ ReturnedOutcome' /\ AnswerIsGenuine'
    BY <1>1, <2>1 DEF IInv, Invoke, HandledOnce, ReplyIsCurrent, ReturnedOutcome, AnswerIsGenuine
  <2>5. QED BY <1>0, <2>2, <2>3, <2>4 DEF IInv
<1>2. CASE Send
  <2>1. /\ Request = [call |-> rpc.call, attempt |-> rpc.attempt,
                      method |-> rpc.method, arg |-> rpc.arg]
        /\ rpc' = [phase |-> "waiting", call |-> rpc.call, attempt |-> rpc.attempt,
                   method |-> rpc.method, arg |-> rpc.arg, outcome |-> rpc.outcome]
        /\ rpc.phase = "sending" /\ rpc.call >= 1
    BY <1>0, <1>2 DEF Send, Request, TypeOK
  <2>2. Transmitted' \subseteq Transmitted \cup {Request}
    BY <1>2 DEF Send, Transmitted
  <2>3. \A r \in Transmitted : r.call = rpc.call => r.attempt < rpc.attempt /\ r.method # RawTx
                                                   /\ r.method = rpc.method
    BY <2>1 DEF IInv, SendIsNew, SentSoFar
  <2>4. SentSoFar'
    BY <1>0, <2>1, <2>2 DEF IInv, SentSoFar, TypeOK
  <2>5. SendIsNew' /\ ReturnedOutcome' /\ AnswerIsGenuine'
    BY <2>1 DEF IInv, SendIsNew, ReturnedOutcome, AnswerIsGenuine
  <2>6. RequestsNamed' /\ RawSentOnce'
    BY <1>0, <2>1, <2>2, <2>3 DEF IInv, RequestsNamed, RawSentOnce, TypeOK
  <2>7. HandledOnce'
    <3>1. ASSUME NEW h \in handled PROVE h.request # Request
      <4>1. h.request \in Transmitted
        BY DEF Transmitted
      <4>2. QED BY <1>0, <4>1, <2>1, <2>3 DEF TypeOK
    <3>2. QED BY <1>0, <1>2, <3>1 DEF Send, HandledOnce
  <2>8. ReplyIsCurrent'
    BY <1>2, <2>1 DEF IInv, ReplyIsCurrent, Send
  <2>9. QED BY <1>0, <2>4, <2>5, <2>6, <2>7, <2>8 DEF IInv
<1>3. ASSUME NEW kind \in {"timeout", "transport"}, ConnectFails(kind)
      PROVE IInv'
  <2>1. Transmitted' = Transmitted /\ HandledOnce' /\ reply' = {} /\ rpc.phase = "sending"
    BY <1>0, <1>3 DEF ConnectFails, Transmitted, HandledOnce, IInv, ReplyIsCurrent
  <2>2. QED BY <1>0, <1>3, <2>1, FailedAttempt DEF ConnectFails, RetriesConnect, InProgress
<1>4. CASE ReadTimeout \/ BadResponse \/ ConnectionReset
  <2>1. /\ wire' = WireAfterAbandon /\ handled' = handled /\ reply' = {}
        /\ rpc.phase = "waiting"
    BY <1>4 DEF ReadTimeout, BadResponse, ConnectionReset
  <2>2. Transmitted' = Transmitted /\ HandledOnce'
    BY <1>0, <2>1, AbandonKeepsEffects
  <2>3. \/ NextAttempt /\ rpc.attempt < Attempts /\ rpc.method # RawTx
        \/ \E kind \in {"timeout", "transport", "uncaught"} : Return(Raised(kind))
    BY <1>4 DEF ReadTimeout, BadResponse, ConnectionReset, RetriesTimeout
  <2>4. QED BY <1>0, <2>1, <2>2, <2>3, FailedAttempt DEF InProgress
<1>5. CASE TakeAnswer
  <2>1. PICK a \in reply : Return(Answered(a))
    BY <1>5 DEF TakeAnswer
  <2>2. Answered(a) \in [kind : OutcomeKinds, value : Answers \cup {NoAnswer}]
    BY <1>0 DEF Answered, TypeOK, OutcomeKinds
  <2>3. rpc' = [phase |-> "returned", call |-> rpc.call, attempt |-> rpc.attempt,
                method |-> rpc.method, arg |-> rpc.arg, outcome |-> Answered(a)]
    BY <1>0, <2>1, <2>2, ReturnType
  <2>4. Request' = Request /\ rpc'.outcome.value = a /\ rpc'.phase = "returned"
    BY <2>3 DEF Request, Answered
  <2>5. wire' = wire /\ handled' = handled /\ reply' = {} /\ Transmitted' = Transmitted
    BY <1>5 DEF TakeAnswer, Transmitted
  <2>6. rpc.method \in Effectful => [request |-> Request, answer |-> a] \in handled
    BY <2>1 DEF IInv, ReplyIsCurrent
  <2>7. AnswerIsGenuine'
    BY <2>3, <2>4, <2>5, <2>6 DEF AnswerIsGenuine
  <2>8. QED
    BY <1>0, <2>3, <2>5, <2>7 DEF IInv, SentSoFar, SendIsNew, RequestsNamed, RawSentOnce,
       HandledOnce, ReplyIsCurrent, ReturnedOutcome
<1>6. ASSUME NEW r \in wire, NEW a \in Answers, Handle(r, a)
      PROVE IInv'
  <2>1. Transmitted' \subseteq Transmitted /\ rpc' = rpc
    BY <1>6 DEF Handle, Transmitted
  <2>2. Request' = Request
    BY <2>1 DEF Request
  <2>3. HandledOnce'
    BY <1>0, <1>6 DEF Handle, HandledOnce
  <2>4. ReplyIsCurrent'
    <3>1. CASE rpc.phase = "waiting" /\ r = Request
      <4>1. r.method = rpc.method /\ reply' = {a}
        BY <1>6, <3>1 DEF Handle, Request
      <4>2. QED BY <1>6, <2>1, <2>2, <3>1, <4>1 DEF Handle, ReplyIsCurrent
    <3>2. CASE ~(rpc.phase = "waiting" /\ r = Request)
      BY <1>6, <2>1, <2>2, <3>2 DEF Handle, ReplyIsCurrent, IInv
    <3>3. QED BY <3>1, <3>2
  <2>5. handled \subseteq handled'
    BY <1>6 DEF Handle
  <2>6. SentSoFar' /\ SendIsNew' /\ RequestsNamed' /\ RawSentOnce'
    BY <2>1 DEF IInv, SentSoFar, SendIsNew, RequestsNamed, RawSentOnce
  <2>7. AnswerIsGenuine' /\ ReturnedOutcome'
    BY <2>1, <2>2, <2>5 DEF IInv, AnswerIsGenuine, ReturnedOutcome
  <2>8. QED BY <1>0, <2>3, <2>4, <2>6, <2>7 DEF IInv
<1>7. CASE UNCHANGED vars
  BY <1>7 DEF vars, IInv, TypeOK, SentSoFar, SendIsNew, RequestsNamed, RawSentOnce, HandledOnce,
     ReplyIsCurrent, ReturnedOutcome, AnswerIsGenuine, Transmitted, Request
<1>8. QED
  BY <1>1, <1>2, <1>3, <1>4, <1>5, <1>6, <1>7 DEF Next, ClientStep, NodeStep

LEMMA Invariant == Spec => []IInv
  BY InitInvariant, NextInvariant, PTL DEF Spec

\* Every state of the transport is well typed: the attempts of a call never
\* exceed the three of _rpc (executor.py:1478-1479).
THEOREM TypeCorrect == Spec => []TypeOK
  BY Invariant, PTL DEF IInv

\* A raw transaction leaves the client at most once per call
\* (executor.py:1496-1502).
THEOREM RawIsSentOnce == Spec => []RawSentOnce
  BY Invariant, PTL DEF IInv

\* The answer of an effectful call is the node's answer to that very attempt
\* (executor.py:1494-1495, 1537-1543).
THEOREM AnswersAreGenuine == Spec => []AnswerIsGenuine
  BY Invariant, PTL DEF IInv

-----------------------------------------------------------------------------
\* Every attempt before the current one has failed.
FailuresCounted == InProgress => rpc.attempt <= faults + 1

LEMMA StepCounts == IInv /\ FailuresCounted /\ [Next]_vars => FailuresCounted'
<1> SUFFICES ASSUME TypeOK, FailuresCounted, [Next]_vars PROVE FailuresCounted'
  BY DEF IInv
<1>1. /\ faults \in Nat /\ rpc.attempt \in Nat
      /\ DOMAIN rpc = {"phase", "call", "attempt", "method", "arg", "outcome"}
  BY DEF TypeOK, Attempts
<1>2. ASSUME NEW m, NEW a, Invoke(rpc.call + 1, m, a) PROVE FailuresCounted'
  <2>1. rpc'.attempt = 1 /\ faults' = faults
    BY <1>2 DEF Invoke
  <2>2. QED BY <1>1, <2>1 DEF FailuresCounted
<1>3. ASSUME InProgress, NEW kind, Fault(kind), NextAttempt PROVE FailuresCounted'
  <2>1. rpc'.attempt = rpc.attempt + 1 /\ faults' = faults + 1
    BY <1>1, <1>3 DEF Fault, NextAttempt
  <2>2. QED BY <1>1, <1>3, <2>1 DEF FailuresCounted
<1>4. ASSUME NEW o, Return(o) PROVE FailuresCounted'
  <2>1. rpc'.phase = "returned"
    BY <1>1, <1>4 DEF Return
  <2>2. QED BY <2>1 DEF FailuresCounted, InProgress
<1>5. CASE Send
  <2>1. rpc'.attempt = rpc.attempt /\ faults' = faults /\ InProgress
    BY <1>1, <1>5 DEF Send, InProgress
  <2>2. QED BY <2>1 DEF FailuresCounted
<1>6. ASSUME NEW kind, ConnectFails(kind) PROVE FailuresCounted'
  BY <1>3, <1>4, <1>6 DEF ConnectFails, InProgress
<1>7. CASE ReadTimeout
  BY <1>3, <1>4, <1>7 DEF ReadTimeout, InProgress
<1>8. CASE BadResponse \/ ConnectionReset \/ TakeAnswer
  BY <1>4, <1>8 DEF BadResponse, ConnectionReset, TakeAnswer
<1>9. CASE NodeStep \/ UNCHANGED vars
  BY <1>9 DEF NodeStep, Handle, vars, FailuresCounted, InProgress
<1>10. QED BY <1>2, <1>5, <1>6, <1>7, <1>8, <1>9 DEF Next, ClientStep

\* One or two failures, of whatever calls, never fail a call that may be repeated,
\* in whatever order connections fail and responses time out
\* (executor.py:1479-1516).
THEOREM TwoFailuresSurvive == Spec => TwoFailuresAreSurvived
<1> DEFINE A == InProgress /\ rpc'.phase = "returned" /\ faults' < Attempts =>
                  \/ rpc'.outcome.kind = "answer"
                  \/ /\ rpc.phase = "waiting"
                     /\ rpc'.outcome.kind = "timeout" => rpc.method = RawTx
<1>1. IInv /\ FailuresCounted /\ [Next]_vars => [A]_vars
  <2> SUFFICES ASSUME TypeOK, FailuresCounted, Next, InProgress, rpc'.phase = "returned",
                      faults' < Attempts, rpc'.outcome.kind # "answer"
               PROVE  /\ rpc.phase = "waiting"
                      /\ rpc'.outcome.kind = "timeout" => rpc.method = RawTx
    BY DEF IInv
  <2>1. /\ faults \in Nat /\ rpc.attempt \in Nat
        /\ DOMAIN rpc = {"phase", "call", "attempt", "method", "arg", "outcome"}
    BY DEF TypeOK, Attempts
  <2>2. ASSUME NEW kind, Fault(kind) PROVE rpc.attempt < Attempts
    BY <2>1, <2>2 DEF Fault, FailuresCounted, Attempts
  <2>3. ~NextAttempt
    BY <2>1 DEF NextAttempt
  <2>4. ASSUME NEW kind, ConnectFails(kind) PROVE FALSE
    BY <2>2, <2>3, <2>4 DEF ConnectFails, RetriesConnect
  <2>5. CASE ReadTimeout
    BY <2>2, <2>3, <2>5 DEF ReadTimeout, RetriesTimeout
  <2>6. CASE BadResponse \/ ConnectionReset
    <3>1. \E kind \in {"transport", "uncaught"} : Return(Raised(kind))
      BY <2>6 DEF BadResponse, ConnectionReset
    <3>2. rpc'.outcome.kind \in {"transport", "uncaught"}
      BY <2>1, <3>1 DEF Return, Raised
    <3>3. QED BY <2>6, <3>2 DEF BadResponse, ConnectionReset
  <2>7. CASE TakeAnswer
    <3>1. rpc'.outcome.kind = "answer"
      BY <2>1, <2>7 DEF TakeAnswer, Return, Answered
    <3>2. QED BY <3>1
  <2>8. CASE Send \/ NodeStep
    BY <2>1, <2>8 DEF Send, NodeStep, Handle, InProgress
  <2>9. ASSUME NEW m, NEW a, Invoke(rpc.call + 1, m, a) PROVE FALSE
    BY <2>9 DEF Invoke, InProgress
  <2>10. QED BY <2>4, <2>5, <2>6, <2>7, <2>8, <2>9 DEF Next, ClientStep
<1>2. Init => FailuresCounted
  BY DEF Init, FailuresCounted, InProgress
<1>3. Spec => []FailuresCounted
  BY <1>2, StepCounts, Invariant, PTL DEF Spec
<1>4. QED BY <1>1, <1>3, Invariant, PTL DEF Spec, TwoFailuresAreSurvived

-----------------------------------------------------------------------------
\* The refinement mapping of Contract, by name.
Verdict == CASE rpc.phase = "idle" -> "none"
             [] rpc.phase \in {"sending", "waiting"} -> "open"
             [] rpc.phase = "returned" ->
                  IF rpc.outcome.kind = "answer" THEN "answered" ELSE "unknown"
Applied == {[call |-> h.request.call, method |-> h.request.method,
             attempt |-> h.request.attempt] : h \in handled}

LEMMA InitImplements == Init => Contract!Init
  BY DEF Init, Contract!Init

\* The node applies a request the contract allows it to apply.
LEMMA HandleImplements ==
  ASSUME IInv, NEW r \in wire, NEW a \in Answers, Handle(r, a)
  PROVE  \/ \E c \in 1..MaxCalls, m \in Effectful, k \in 1..Attempts : Contract!Apply(c, m, k)
         \/ UNCHANGED Contract!vars
<1>0. rpc' = rpc /\ TypeOK
  BY DEF Handle, IInv
<1>1. CASE r.method \notin Effectful
  <2>1. handled' = handled
    BY <1>1 DEF Handle
  <2>2. QED BY <1>0, <2>1 DEF Contract!vars
<1>2. CASE r.method \in Effectful
  <2>1. r \in Transmitted /\ r \in Requests
    BY <1>0, <1>2 DEF Transmitted, TypeOK
  <2>2. /\ r.call \in 1..MaxCalls /\ r.call <= rpc.call /\ r.attempt \in 1..Attempts
        /\ r.call = rpc.call => r.method = rpc.method
    BY <1>0, <2>1, TransportConstants DEF IInv, SentSoFar, TypeOK, Requests
  <2>3. ASSUME NEW h \in handled, h.request.call = r.call
        PROVE  h.request.method = r.method /\ r.method # RawTx /\ h.request.attempt # r.attempt
    <3>1. h.request \in Transmitted /\ h.request # r
      BY DEF Transmitted, IInv, HandledOnce
    <3>2. QED BY <2>1, <2>3, <3>1 DEF IInv, RequestsNamed, RawSentOnce
  <2>4. Applied' = Applied \cup {[call |-> r.call, method |-> r.method, attempt |-> r.attempt]}
    <3>1. handled' = handled \cup {[request |-> r, answer |-> a]}
      BY <1>2 DEF Handle
    <3> DEFINE effect(h) == [call |-> h.request.call, method |-> h.request.method,
                             attempt |-> h.request.attempt]
               new == [request |-> r, answer |-> a]
    <3>2. effect(new) = [call |-> r.call, method |-> r.method, attempt |-> r.attempt]
      OBVIOUS
    <3>3. Applied = {effect(h) : h \in handled} /\ Applied' = {effect(h) : h \in handled'}
      BY DEF Applied
    <3> HIDE DEF effect, new
    <3>4. handled' = handled \cup {new}
      BY <3>1 DEF new
    <3>5. Applied' = Applied \cup {effect(new)}
      BY <3>3, <3>4
    <3>6. QED BY <3>2, <3>5
  <2>5. Contract!Apply(r.call, r.method, r.attempt)
    BY <1>0, <2>2, <2>3, <2>4 DEF Contract!Apply, Contract!Effects, Contract!RawTx, RawTx, Applied
  <2>6. QED BY <1>2, <2>2, <2>5
<1>3. QED BY <1>1, <1>2

LEMMA StepImplements == IInv /\ IInv' /\ [Next]_vars => [Contract!Next]_(Contract!vars)
<1> SUFFICES ASSUME IInv, IInv', [Next]_vars PROVE Contract!Next \/ UNCHANGED Contract!vars
  OBVIOUS
<1>0. TypeOK
  BY DEF IInv
<1>1. ASSUME NEW m \in Methods, NEW a \in Args, rpc.call < MaxCalls, Invoke(rpc.call + 1, m, a)
      PROVE Contract!Open(m)
  BY <1>1 DEF Invoke, Contract!Open
<1>2. CASE Send
  BY <1>0, <1>2 DEF Send, TypeOK, Contract!vars
<1>3. ASSUME InProgress, handled' = handled, NextAttempt
      PROVE  UNCHANGED Contract!vars
  BY <1>0, <1>3 DEF InProgress, NextAttempt, TypeOK, Contract!vars
<1>4. ASSUME NEW kind \in {"timeout", "transport", "uncaught"},
             InProgress, handled' = handled, Return(Raised(kind))
      PROVE  Contract!GiveUp
  BY <1>0, <1>4 DEF InProgress, Return, Raised, TypeOK, Contract!GiveUp
<1>5. CASE TakeAnswer
  <2>1. PICK a \in reply : Return(Answered(a))
    BY <1>5 DEF TakeAnswer
  <2>2. Answered(a) \in [kind : OutcomeKinds, value : Answers \cup {NoAnswer}]
    BY <1>0 DEF Answered, TypeOK, OutcomeKinds
  <2>3. rpc' = [phase |-> "returned", call |-> rpc.call, attempt |-> rpc.attempt,
                method |-> rpc.method, arg |-> rpc.arg, outcome |-> Answered(a)]
    BY <1>0, <2>1, <2>2, ReturnType
  <2>4. Verdict = "open" /\ Verdict' = "answered" /\ Applied' = Applied
    BY <1>5, <2>3 DEF TakeAnswer, Verdict, Applied, Answered
  <2>5. rpc.method \in Effectful => Contract!Effects(rpc.call) # {}
    <3>1. rpc.method \in Effectful => [request |-> Request, answer |-> a] \in handled
      BY <2>1 DEF IInv, ReplyIsCurrent
    <3>2. ASSUME NEW h \in handled, h.request.call = rpc.call
          PROVE  Contract!Effects(rpc.call) # {}
      <4> DEFINE e == [call |-> h.request.call, method |-> h.request.method,
                       attempt |-> h.request.attempt]
      <4>1. e \in Applied /\ e.call = rpc.call
        BY <3>2 DEF Applied
      <4>2. e \in Contract!Effects(rpc.call)
        BY <4>1 DEF Contract!Effects, Applied
      <4>3. QED BY <4>2
    <3>3. QED BY <3>1, <3>2 DEF Request
  <2>6. Contract!Answer
    BY <2>3, <2>4, <2>5 DEF Contract!Answer, Verdict, Applied
  <2>7. QED BY <2>6 DEF Contract!Next
<1>6. ASSUME NEW r \in wire, NEW a \in Answers, Handle(r, a)
      PROVE  Contract!Next \/ UNCHANGED Contract!vars
  BY <1>6, HandleImplements DEF Contract!Next, Contract!Attempts, Attempts
<1>7. CASE UNCHANGED vars
  BY <1>7 DEF vars, Contract!vars
<1>8. CASE \E kind \in {"timeout", "transport"} : ConnectFails(kind)
  BY <1>3, <1>4, <1>8 DEF ConnectFails, InProgress, Contract!Next
<1>9. CASE ReadTimeout \/ BadResponse \/ ConnectionReset
  BY <1>3, <1>4, <1>9 DEF ReadTimeout, BadResponse, ConnectionReset, InProgress, Contract!Next
<1>10. CASE \E m \in Methods, a \in Args : rpc.call < MaxCalls /\ Invoke(rpc.call + 1, m, a)
  BY <1>1, <1>10 DEF Contract!Next
<1>11. QED
  BY <1>2, <1>5, <1>6, <1>7, <1>8, <1>9, <1>10 DEF Next, ClientStep, NodeStep

\* The transport implements its contract: the node applies a raw transaction at
\* most once per call, any other request at most once per attempt, and no
\* answer is reported that the node did not give (executor.py:1476-1544).
THEOREM TransportImplementsCall == Spec => ImplementsRemoteCall
  BY Invariant, InitImplements, StepImplements, PTL DEF Spec, ImplementsRemoteCall, Contract!Spec
=============================================================================
