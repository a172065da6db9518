------------------------------- MODULE RemoteCall -------------------------------
(***************************************************************************)
(* What a caller of JsonRpcBackend._rpc may rely on, whatever the network  *)
(* does: calls are made one after another; the node applies a raw          *)
(* transaction at most once per call and any other request at most once    *)
(* per attempt, possibly after the call is over; and a call reports an     *)
(* answer only if the node has applied it.  RpcTransport implements this.  *)
(***************************************************************************)
EXTENDS Naturals

CONSTANTS Methods, Effectful, MaxCalls

RawTx == "eth_sendRawTransaction"
Attempts == 3

VARIABLES
  current,   \* number of the latest call
  method,    \* its method
  verdict,   \* "open" while it is in progress, then "answered" or "unknown"
  applied    \* effects on the node: [call, method, attempt]

vars == <<current, method, verdict, applied>>

Effects(c) == {e \in applied : e.call = c}

Init ==
  /\ current = 0
  /\ method \in Methods
  /\ verdict = "none"
  /\ applied = {}

Open(m) ==
  /\ verdict # "open"
  /\ current < MaxCalls
  /\ current' = current + 1
  /\ method' = m
  /\ verdict' = "open"
  /\ UNCHANGED applied

Apply(c, m, k) ==
  /\ c <= current
  /\ c = current => m = method
  /\ \A e \in Effects(c) : e.method = m /\ m # RawTx /\ e.attempt # k
  /\ applied' = applied \cup {[call |-> c, method |-> m, attempt |-> k]}
  /\ UNCHANGED <<current, method, verdict>>

Answer ==
  /\ verdict = "open"
  /\ method \in Effectful => Effects(current) # {}
  /\ verdict' = "answered"
  /\ UNCHANGED <<current, method, applied>>

GiveUp ==
  /\ verdict = "open"
  /\ verdict' = "unknown"
  /\ UNCHANGED <<current, method, applied>>

Next ==
  \/ \E m \in Methods : Open(m)
  \/ \E c \in 1..MaxCalls, m \in Effectful, k \in 1..Attempts : Apply(c, m, k)
  \/ Answer
  \/ GiveUp

Spec == Init /\ [][Next]_vars
=============================================================================
