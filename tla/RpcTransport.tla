------------------------------ MODULE RpcTransport ------------------------------
(***************************************************************************)
(* JsonRpcBackend._rpc of src/adapter/executor.py: one blocking JSON-RPC   *)
(* call made of at most three HTTP requests, each on a connection of its   *)
(* own, against a node and a network that may fail at any point.           *)
(*                                                                         *)
(* What the model keeps is which exception path an attempt takes, whether  *)
(* the request had left the client when it was taken, and when the node    *)
(* handles a request: possibly long after the client has given up on it.   *)
(*                                                                         *)
(* _rpc is sequential, so at most one call is in progress.  A call has a   *)
(* name and a request is identified by call and attempt, which stands for  *)
(* the ids the code counts in request_id.                                  *)
(***************************************************************************)
EXTENDS Naturals

CONSTANTS
  Methods,      \* JSON-RPC methods the caller uses
  Args,         \* their parameters
  Answers,      \* what the node can answer: a result or an RPC error
  NoAnswer,
  Effectful,    \* methods whose handling changes the node
  MaxCalls,     \* bound: calls made in a behaviour
  MaxFaults,    \* bound: failed attempts in a behaviour
  FaultKinds    \* the kinds of failure the environment may produce

RawTx == "eth_sendRawTransaction"
Attempts == 3
AllFaultKinds == {"connect", "read_timeout", "bad_response", "reset"}

ASSUME TransportConstants ==
  /\ Effectful \subseteq Methods
  /\ NoAnswer \notin Answers
  /\ MaxCalls \in Nat
  /\ MaxFaults \in Nat
  /\ FaultKinds \subseteq AllFaultKinds

VARIABLES
  rpc,       \* the local state of _rpc
  wire,      \* requests sent and not yet handled by the node
  handled,   \* history: effectful requests the node has handled, with its answer
  reply,     \* the answer on the connection of the current attempt, if any
  faults     \* failed attempts so far

vars == <<rpc, wire, handled, reply, faults>>

(***************************************************************************)
(* Returning: a result or an RPC error ("answer"), TimeoutError            *)
(* ("timeout"), RuntimeError ("transport"), or an exception that _rpc does *)
(* not catch ("uncaught").                                                 *)
(***************************************************************************)
OutcomeKinds == {"none", "answer", "timeout", "transport", "uncaught"}
Raised(kind) == [kind |-> kind, value |-> NoAnswer]
Answered(a) == [kind |-> "answer", value |-> a]

Request == [call |-> rpc.call, attempt |-> rpc.attempt,
            method |-> rpc.method, arg |-> rpc.arg]

Return(outcome) == rpc' = [rpc EXCEPT !.phase = "returned", !.outcome = outcome]

\* Faulty variant: the loop never counts.
NextAttemptForever == rpc' = [rpc EXCEPT !.phase = "sending"]

NextAttempt == rpc' = [rpc EXCEPT !.phase = "sending", !.attempt = @ + 1]

\* Faulty variant: response timeouts are retried for every method.
RetriesTimeoutAlways == rpc.attempt < Attempts

\* Faulty variant: a response timeout is retried once.
RetriesTimeoutOnce == rpc.method # RawTx /\ rpc.attempt + 1 < Attempts

\* A response timeout says nothing of what the node did: raw transactions are
\* not sent again.
RetriesTimeout == rpc.method # RawTx /\ rpc.attempt < Attempts

\* Faulty variant: one attempt too many.
RetriesConnectOnceMore == rpc.attempt <= Attempts

\* A failure before the request left the client is retried for every method.
RetriesConnect == rpc.attempt < Attempts

\* The request of an abandoned attempt can still be handled later.  That
\* matters only if handling it has an effect: the others are forgotten.
WireAfterAbandon == {r \in wire : r.method \in Effectful}

Init ==
  /\ rpc \in {[phase |-> "idle", call |-> 0, attempt |-> 0, method |-> m,
               arg |-> a, outcome |-> Raised("none")] : m \in Methods, a \in Args}
  /\ wire = {}
  /\ handled = {}
  /\ reply = {}
  /\ faults = 0

\* c names the call: the calls that submit a transaction have names of their own.
Invoke(c, m, a) ==
  /\ rpc.phase \in {"idle", "returned"}
  /\ rpc' = [phase |-> "sending", call |-> c, attempt |-> 1,
             method |-> m, arg |-> a, outcome |-> Raised("none")]
  /\ UNCHANGED <<wire, handled, reply, faults>>

Send ==
  /\ rpc.phase = "sending"
  /\ rpc' = [rpc EXCEPT !.phase = "waiting"]
  /\ wire' = wire \cup {Request}
  /\ UNCHANGED <<handled, reply, faults>>

Fault(kind) ==
  /\ kind \in FaultKinds
  /\ faults < MaxFaults
  /\ faults' = faults + 1

\* URLError: name resolution, connection or TLS failed, or sending the request did.
ConnectFails(kind) ==
  /\ rpc.phase = "sending"
  /\ Fault("connect")
  /\ IF RetriesConnect THEN NextAttempt ELSE Return(Raised(kind))
  /\ UNCHANGED <<wire, handled, reply>>

\* Faulty variant: the next attempt reads from the connection of this one.
ReadTimeoutReuse ==
  /\ rpc.phase = "waiting"
  /\ Fault("read_timeout")
  /\ IF RetriesTimeout THEN NextAttempt ELSE Return(Raised("timeout"))
  /\ wire' = WireAfterAbandon
  /\ UNCHANGED <<handled, reply>>

\* TimeoutError or socket.timeout while waiting for the response.
ReadTimeout ==
  /\ rpc.phase = "waiting"
  /\ Fault("read_timeout")
  /\ IF RetriesTimeout THEN NextAttempt ELSE Return(Raised("timeout"))
  /\ wire' = WireAfterAbandon
  /\ reply' = {}
  /\ UNCHANGED handled

\* Faulty variant: a body without a result counts as one.
BadResponseAnswers ==
  /\ rpc.phase = "waiting"
  /\ Fault("bad_response")
  /\ \E a \in Answers : Return(Answered(a))
  /\ wire' = WireAfterAbandon
  /\ reply' = {}
  /\ UNCHANGED handled

\* HTTPError (an error status), a body that is not JSON or not an object, or
\* one with neither error nor result: RuntimeError, never retried.
BadResponse ==
  /\ rpc.phase = "waiting"
  /\ Fault("bad_response")
  /\ Return(Raised("transport"))
  /\ wire' = WireAfterAbandon
  /\ reply' = {}
  /\ UNCHANGED handled

\* The connection dies after the request was sent: urllib wraps only errors of
\* the sending phase in URLError, and no handler of _rpc takes a bare
\* ConnectionError, RemoteDisconnected or IncompleteRead.
ConnectionReset ==
  /\ rpc.phase = "waiting"
  /\ Fault("reset")
  /\ Return(Raised("uncaught"))
  /\ wire' = WireAfterAbandon
  /\ reply' = {}
  /\ UNCHANGED handled

TakeAnswer ==
  /\ rpc.phase = "waiting"
  /\ \E a \in reply : Return(Answered(a))
  /\ reply' = {}
  /\ UNCHANGED <<wire, handled, faults>>

\* The node handles any request it was sent, at any time; its answer reaches
\* the client only on a connection that is still open.
Handle(r, a) ==
  /\ r \in wire
  /\ wire' = wire \ {r}
  /\ handled' = IF r.method \in Effectful
                THEN handled \cup {[request |-> r, answer |-> a]}
                ELSE handled
  /\ reply' = IF rpc.phase = "waiting" /\ r = Request THEN {a} ELSE reply
  /\ UNCHANGED <<rpc, faults>>

\* What the client does once a call is in progress.
ClientStep ==
  \/ Send
  \/ \E kind \in {"timeout", "transport"} : ConnectFails(kind)
  \/ ReadTimeout
  \/ BadResponse
  \/ ConnectionReset
  \/ TakeAnswer

NodeStep == \E r \in wire, a \in Answers : Handle(r, a)

Next ==
  \/ /\ rpc.call < MaxCalls
     /\ \E m \in Methods, a \in Args : Invoke(rpc.call + 1, m, a)
  \/ ClientStep
  \/ NodeStep

Spec == Init /\ [][Next]_vars

InProgress == rpc.phase \in {"sending", "waiting"}

(***************************************************************************)
(* Fairness.  The client is a running program with a socket timeout on     *)
(* every wait: as long as a call is in progress it takes a step.  Nothing  *)
(* is assumed of the node or of the network.                               *)
(***************************************************************************)
LiveSpec == Spec /\ WF_vars(ClientStep)

-----------------------------------------------------------------------------
Requests == [call : Nat, attempt : 1..Attempts, method : Methods, arg : Args]

TypeOK ==
  /\ rpc \in [phase : {"idle", "sending", "waiting", "returned"},
              call : Nat, attempt : 0..Attempts, method : Methods, arg : Args,
              outcome : [kind : OutcomeKinds, value : Answers \cup {NoAnswer}]]
  /\ rpc.call <= MaxCalls
  /\ rpc.phase # "idle" => rpc.attempt >= 1 /\ rpc.call >= 1
  /\ wire \subseteq Requests
  /\ handled \subseteq [request : Requests, answer : Answers]
  /\ reply \subseteq Answers
  /\ faults \in Nat

\* Every effectful request that ever left the client.
Transmitted == {r \in wire : r.method \in Effectful} \cup {h.request : h \in handled}

\* A raw transaction leaves the client at most once per call, however the
\* attempts fail: what was sent is never sent again on a guess
\* (executor.py:1496-1502, the exception for eth_sendRawTransaction).
RawSentOnce ==
  \A r, s \in Transmitted :
    r.method = RawTx /\ r.call = s.call => r = s

\* An answer handed to the caller is the node's answer to the very request of
\* the attempt that returned it, never a late answer to an abandoned one.
AnswerIsGenuine ==
  rpc.outcome.kind = "answer" /\ rpc.method \in Effectful
    => [request |-> Request, answer |-> rpc.outcome.value] \in handled

\* Two failures never fail a call that may be repeated: while fewer than three
\* requests failed, of whatever calls, a call ends without an answer only if the
\* response itself was bad or the connection was reset, or if a raw transaction
\* may have arrived (executor.py:1479-1516).
TwoFailuresAreSurvived ==
  [][InProgress /\ rpc'.phase = "returned" /\ faults' < Attempts =>
       \/ rpc'.outcome.kind = "answer"
       \/ /\ rpc.phase = "waiting"
          /\ rpc'.outcome.kind = "timeout" => rpc.method = RawTx]_vars

\* What makes RawSentOnce and AnswerIsGenuine inductive: a request names a call
\* made so far and one of its attempts, names it alone, and is handled once; an
\* attempt about to be sent has not been sent, and before the second attempt of
\* a raw call nothing was sent at all; an answer on its way belongs to the
\* attempt that waits.
SentSoFar ==
  \A r \in Transmitted :
    /\ r.call <= rpc.call
    /\ r.call >= 1
    /\ r.call = rpc.call => r.method = rpc.method /\ r.attempt <= rpc.attempt

SendIsNew ==
  rpc.phase = "sending" =>
    \A r \in Transmitted : r.call = rpc.call =>
      r.attempt < rpc.attempt /\ r.method # RawTx

RequestsNamed ==
  \A r, s \in Transmitted :
    r.call = s.call => /\ r.method = s.method
                       /\ r.attempt = s.attempt => r = s

HandledOnce == \A h \in handled : h.request \notin wire /\ h.request.method \in Effectful

ReplyIsCurrent ==
  \A a \in reply :
    /\ rpc.phase = "waiting"
    /\ rpc.method \in Effectful => [request |-> Request, answer |-> a] \in handled

ReturnedOutcome == rpc.outcome.kind = "answer" => rpc.phase = "returned"

IInv ==
  /\ TypeOK
  /\ SentSoFar
  /\ SendIsNew
  /\ RequestsNamed
  /\ RawSentOnce
  /\ HandledOnce
  /\ ReplyIsCurrent
  /\ ReturnedOutcome
  /\ AnswerIsGenuine

\* The contract RemoteCall, on this state: what the node has applied is what it
\* has handled, and an exception tells nothing of what it did.
Contract == INSTANCE RemoteCall WITH
  current <- rpc.call,
  method <- rpc.method,
  verdict <- CASE rpc.phase = "idle" -> "none"
               [] rpc.phase \in {"sending", "waiting"} -> "open"
               [] rpc.phase = "returned" ->
                    IF rpc.outcome.kind = "answer" THEN "answered" ELSE "unknown",
  applied <- {[call |-> h.request.call, method |-> h.request.method,
               attempt |-> h.request.attempt] : h \in handled}

\* _rpc implements RemoteCall: in particular the node applies a raw transaction
\* at most once per call although failed attempts are retried.
ImplementsRemoteCall == Contract!Spec

\* Every call returns or raises, even when the node never answers.
EveryCallReturns == InProgress ~> (rpc.phase = "returned")
=============================================================================
