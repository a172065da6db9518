----------------------------- MODULE MCRpcTransport -----------------------------
(* Instances of RpcTransport: a raw submission, a submission signed by the node *)
(* and a read, with a node that accepts or refuses. *)
EXTENDS RpcTransport

MCMethods == {RawTx, "eth_sendTransaction", "eth_getTransactionReceipt"}
=============================================================================
