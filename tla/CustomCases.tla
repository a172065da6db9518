---------------------------- MODULE CustomCases ----------------------------
(***************************************************************************)
(* The cases of the hand-written manifests that transact: a transfer, a    *)
(* deployment, a stored word, a raw transaction the node is to reject, and *)
(* an authorization that gives an account the code of a contract.          *)
(***************************************************************************)
EXTENDS GeneratedCase, TransactionSigning

CONSTANTS
    AuthorityKey,       \* the key 0x22...22 of the case
    Recipient,          \* 0xbb...bb, an account without code
    ProbeBytes          \* 2048: the calldata of the rejected transaction

Probe(key, feature) == [key |-> key, mode |-> "none", required_feature |-> feature]
Expecting(name, init, runtime, transfers, invokes, probe) ==
    [BuildCase(<<"custom", name>>, DeployContract(init, runtime, DeployGas100000, Nothing), invokes,
               <<>>, probe)
     EXCEPT !.transfers = transfers]

StopInit == <<96, 1, 96, 12, 96, 0, 57, 96, 1, 96, 0, 243, 0>>
StopRuntime == <<0>>

SelfTransfer(account) ==
    Expecting("self_transfer", <<>>, <<>>,
              <<[kind |-> "transfer", to |-> account, data |-> <<>>, value |-> 0, gas |-> 21000,
                 status |-> "success"]>>, <<>>, NoProbe)
DeployStop == Expecting("deploy_stop", StopInit, StopRuntime, <<>>, <<>>, NoProbe)

(* Literals: the first word of the calldata goes to slot 0. *)
StoreRuntime == <<96, 0, 53, 96, 0, 85, 0>>
StoreInit == <<96, 7, 96, 12, 96, 0, 57, 96, 7, 96, 0, 243>> \o StoreRuntime
DeployAndStore ==
    [Expecting("deploy_and_store", StoreInit, StoreRuntime, <<>>,
               <<InvokeContract(ToBytes(42, WordBytes), InvokeGas50000, 0, "success")>>, NoProbe)
     EXCEPT !.expectedStorage = [s \in {0} |-> Literal(42)]]

(* eth_sendRawTransaction keeps the declared gas; expect_error is the last *)
(* step of its case.                                                       *)
CalldataFloorRejection ==
    Expecting("calldata_floor_rejection", <<>>, <<>>,
              <<[kind |-> "raw", to |-> Recipient, data |-> [i \in 1 .. ProbeBytes |-> 255],
                 value |-> 0, gas |-> 21000, status |-> "refused"]>>, <<>>,
              Probe("tx_admission_probe", "calldata_floor_eip7623"))

(* The account of the key signs; it is the receiver, too. *)
AuthorizationDelegation ==
    Expecting("authorization_delegation", StopInit, StopRuntime, <<>>,
              <<[to |-> PrivateKeyToAddress(AuthorityKey), data |-> <<>>, value |-> 0,
                 gas |-> 100000, status |-> "success",
                 authorizations_to_sign |-> <<[private_key |-> AuthorityKey, chain_id |-> 0]>>]>>,
              Probe("eip7702_probe", "eip7702"))

CustomCases(admin_account) ==
    {SelfTransfer(admin_account), DeployStop, DeployAndStore, CalldataFloorRejection, AuthorizationDelegation}
=============================================================================
