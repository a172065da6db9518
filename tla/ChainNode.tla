------------------------------- MODULE ChainNode --------------------------------
(***************************************************************************)
(* The chain under test, as JsonRpcBackend uses it (it is not part of the  *)
(* repository): a transaction pool, blocks, and an RPC endpoint whose      *)
(* replicas may lag a few blocks behind the one that has the newest block. *)
(* All the harness's transactions are sent by the admin account.           *)
(*                                                                         *)
(* A transaction is [step, nonce, kind, to, legal]; its hash is the record *)
(* itself.  A contract created with nonce n has address n.  A contract     *)
(* counts the calls that succeed, so that storage tells how often a        *)
(* transaction took effect.                                                *)
(***************************************************************************)
EXTENDS Naturals, Sequences, FiniteSets

CONSTANTS
  NoNonce,        \* a request that leaves the nonce to the node
  MaxLag,         \* bound: blocks a replica may lag behind
  MaxPerBlock,    \* bound: transactions in a block
  MayFail,        \* TRUE if the execution of a transaction may fail
  Conforms,       \* TRUE if the node rejects what the rule under test forbids
  MaxDrops        \* bound: pooled transactions the node may forget

ASSUME ChainConstants ==
  /\ NoNonce \notin Nat
  /\ MaxLag \in Nat
  /\ MaxPerBlock \in Nat \ {0}
  /\ MaxDrops \in Nat
  /\ MayFail \in BOOLEAN
  /\ Conforms \in BOOLEAN

VARIABLES
  pool,       \* accepted transactions, not yet in a block
  chain,      \* executed transactions, in order: [tx, block, ok]
  head,       \* number of the newest block
  drops       \* pooled transactions forgotten so far

chainVars == <<pool, chain, head, drops>>

ChainInit ==
  /\ pool = {}
  /\ chain = <<>>
  /\ head = 0
  /\ drops = 0

Lookup(tx) == {i \in DOMAIN chain : chain[i].tx = tx}
UpTo(block) == {i \in DOMAIN chain : chain[i].block <= block}

\* Block heights a replica that answers a request may be at.
Views == {v \in 0..head : v + MaxLag >= head}

\* The next nonce in the pool's view: after the executed transactions come
\* those of the pool that follow without a gap.
Ready == {tx \in pool : \A m \in Len(chain)..tx.nonce : \E other \in pool : other.nonce = m}
PendingNonce == Len(chain) + Cardinality(Ready)

\* A lagging replica knows neither the newest blocks nor the pool.
NonceAt(view) == IF view = head THEN PendingNonce ELSE Cardinality(UpTo(view))

\* eth_getTransactionReceipt: absent until the replica has the block.
ReceiptsAt(tx, view) ==
  {[status |-> chain[i].ok, block |-> chain[i].block, hash |-> tx,
    address |-> IF tx.kind = "create" THEN tx.nonce ELSE NoNonce] :
      i \in Lookup(tx) \cap UpTo(view)}

\* eth_getStorageAt of the counter of the contract at an address, at a block.
StorageAt(address, block) ==
  Cardinality({i \in UpTo(block) :
    /\ chain[i].ok
    /\ chain[i].tx.kind = "call"
    /\ chain[i].tx.to = address
    /\ \E j \in 1..(i - 1) : /\ chain[j].tx.kind = "create"
                             /\ chain[j].tx.nonce = address
                             /\ chain[j].ok})

\* eth_getBalance of the account all transfers go to, at a replica's newest block.
BalanceAt(view) ==
  Cardinality({i \in UpTo(view) : chain[i].ok /\ chain[i].tx.kind = "transfer"})

\* Why the pool refuses a transaction, or "none".
Refusal(tx) ==
  IF tx.nonce < Len(chain) THEN "nonce too low"
  ELSE IF tx \in pool THEN "already known"
  ELSE IF \E other \in pool : other.nonce = tx.nonce THEN "underpriced"
  ELSE IF ~tx.legal /\ Conforms THEN "forbidden"
  ELSE "none"

Accept(tx) == pool' = pool \cup {tx} /\ UNCHANGED <<chain, head, drops>>

\* A block with the next k transactions in nonce order.
Mine ==
  \E k \in 1..MaxPerBlock, ok \in [1..MaxPerBlock -> IF MayFail THEN BOOLEAN ELSE {TRUE}] :
    LET next(i) == CHOOSE tx \in pool : tx.nonce = Len(chain) + i - 1
        mined == {next(i) : i \in 1..k} IN
      /\ \A i \in 1..k : \E tx \in pool : tx.nonce = Len(chain) + i - 1
      /\ chain' = chain \o [i \in 1..k |-> [tx |-> next(i), block |-> head + 1, ok |-> ok[i]]]
      /\ head' = head + 1
      /\ pool' = pool \ mined
      /\ UNCHANGED drops

\* The node forgets a pooled transaction (a restart, an eviction).
Drop ==
  /\ drops < MaxDrops
  /\ \E tx \in pool : pool' = pool \ {tx}
  /\ drops' = drops + 1
  /\ UNCHANGED <<chain, head>>
=============================================================================
