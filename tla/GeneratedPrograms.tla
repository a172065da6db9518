------------------------- MODULE GeneratedPrograms -------------------------
(***************************************************************************)
(* The generated cases on the machine they are written for: which of them  *)
(* a chain's profile selects, what the runner observes when a case has run *)
(* (_observe of the JSON-RPC backend), what the oracle makes of it, and    *)
(* what the mock backend would have observed.                              *)
(***************************************************************************)
EXTENDS Evm, MockBackend, CustomCases, Selection
LOCAL INSTANCE TLC

(* eth_getStorageAt of the address the case names; the admin account is no *)
(* contract and stores nothing.                                            *)
StorageAt(slot) ==
    StoredIn(accounts, IF test.storageAddress = "$last_contract" THEN LastContract
                       ELSE AdminAccount, slot)

ObservedStorage ==
    [s \in DOMAIN test.expectedStorage \union DynamicOffsetSlots(test) |-> StorageAt(s)]
Observed ==
    [storage |-> ObservedStorage, code |-> AccountIn(accounts, LastContract).code, logs |-> logs,
     witness_slots |-> [s \in IF test.expectedWitness = <<>> THEN {}
                              ELSE SystemWitnessStorageSlots(test.probe) |->
                          StoredIn(accounts, LastContract, s)]]

(* The block of the n-th receipt, once the case is through of the last. *)
ContextOfFirst == BlockOf(1)       \* faulty variant: the context is loaded once and kept
ContextBlock == BlockOf(turn)
Context ==
    ("$last_contract_word" :> LastContract) @@ ("$admin_account_word" :> AdminAccount)
      @@ ("$chain_id_word" :> ChainId) @@ ("$gas_price_word" :> GasPrice)
      @@ ("$block_coinbase_word" :> ContextBlock.coinbase)
      @@ ("$block_timestamp_word" :> ContextBlock.timestamp)
      @@ ("$block_number_word" :> ContextBlock.number)
      @@ ("$block_prevrandao_word" :> ContextBlock.prevrandao)
      @@ ("$block_gaslimit_word" :> ContextBlock.gaslimit)
      @@ ("$block_basefee_word" :> ContextBlock.basefee)
      @@ ("$present_target_balance_after_word" :>
            AccountIn(Genesis, PresentTarget).balance + PresentTargetFunding)

Verdict == status = ExpectedStatus /\ Compare(test, Observed, Context)

-----------------------------------------------------------------------------
(***************************************************************************)
(* What a generator predicts of its program is what the program does: on a *)
(* correct chain every case its profile selects passes.  A prediction is   *)
(* made by one piece of Python, the program by another, the byte positions *)
(* by a third, the gas by a fourth, and the expectation may be derived     *)
(* again from what was observed.                                           *)
(***************************************************************************)
WitnessHolds == Finished /\ Selected(test, features) => Verdict

(***************************************************************************)
(* The other way round: a case blocked for want of a feature would fail on *)
(* a chain without it, so that its passing elsewhere shows the feature.    *)
(* Three cannot tell: the expectation of PREVRANDAO is replaced by what    *)
(* was observed; a bad signature has no output, nor has an address with no *)
(* contract; and the raw transaction that is to be rejected for its data   *)
(* floor declares less than its intrinsic cost, for which any node does.   *)
(***************************************************************************)
Indifferent ==
    {<<"block_context", "prevrandao">>, <<"precompile", <<"p256verify", 2>>>>,
     <<"custom", "calldata_floor_rejection">>}
WitnessTellsFeature ==
    Finished /\ ~Selected(test, features) /\ test.name \notin Indifferent => ~Verdict

(***************************************************************************)
(* A node takes every transaction of a case it supports, whatever gas the  *)
(* case declares: _gas_with_intrinsic_floor raises it to both of its       *)
(* own floors (the data floor passes the 50000 of a long calldata case),   *)
(* and the signature and the encoding of the runner give the node the      *)
(* sender and the fields back, whatever nonce the signature drew.  Only a  *)
(* raw transaction a case expects to be rejected is.                       *)
(***************************************************************************)
NeverRefused ==
    status = "refused" /\ Selected(test, features) => ExpectedStatus = "refused"

(***************************************************************************)
(* An authorization a case asks to be signed takes effect: the account of  *)
(* its key ends with the designation of the contract the case deployed.    *)
(* The node drops a bad one silently, and the receipt and the storage of   *)
(* the case are the same without it, so no run of a suite would show it.   *)
(***************************************************************************)
AuthorizationsTakeEffect ==
    Finished /\ Selected(test, features) =>
        \A tx \in {Transactions[n] : n \in DOMAIN Transactions} :
            "authorizations_to_sign" \in DOMAIN tx =>
                \A i \in DOMAIN tx.authorizations_to_sign :
                    AccountIn(accounts, PrivateKeyToAddress(tx.authorizations_to_sign[i].private_key))
                        .code = Designation(LastContract)

(***************************************************************************)
(* A deployment leaves the contract the case declares to the mock backend: *)
(* its init code returns bytecode_runtime, up to trailing STOPs, and has   *)
(* written initial_storage.  The two are literals side by side in a case   *)
(* and each backend uses one of them.                                      *)
(***************************************************************************)
DeploysWhatItDeclares ==
    turn = Deployment /\ status = "success" /\ Selected(test, features) =>
        LET contract == AccountIn(accounts, LastContract)
        IN  /\ \E n \in 0 .. 1 : contract.code = test.runtime \o Zeros(n)
            /\ contract.storage = test.initialStorage

(***************************************************************************)
(* Without a chain: every case of a manifest passes in the mock backend,   *)
(* which builds its program again from the probe in the case, or takes it  *)
(* apart, and derives the result from the probe.  Two hand-written cases   *)
(* have steps that only the JSON-RPC backend takes: a raw transaction, and *)
(* an authorization to sign.                                               *)
(***************************************************************************)
Configured == [admin_account |-> AdminAccount, chain_id |-> ChainId, block |-> Block,
               gas_price |-> GasPrice, balances |-> <<>>]
ForMock(case) ==
    /\ \A i \in DOMAIN case.transfers : case.transfers[i].kind # "raw"
    /\ \A i \in DOMAIN case.invokes : "authorizations_to_sign" \notin DOMAIN case.invokes[i]
EveryCasePassesInMock == turn = 0 /\ ForMock(test) => MockPasses(test, Configured)

(***************************************************************************)
(* The two backends leave the same contract behind: the mock's storage is  *)
(* the chain's in every slot, observed or not, after failed invocations,   *)
(* too.  Only the address of a child may be another, and what depends on   *)
(* an offset the mock takes for 0.                                         *)
(***************************************************************************)
AsOnThisChain ==
    [Configured EXCEPT !.block = ContextBlock,
                       !.balances = [a \in DOMAIN Genesis |-> Genesis[a].balance]]
Alike(mocked, stored) == mocked = stored \/ (mocked = MockChild /\ stored # 0)
HasDynamicOffset ==
    \/ test.probe.mode = "codecopy"
    \/ test.probe.mode = "mcopy" /\ ~test.probe.fixed_src_dst
    \/ test.probe.mode = "log" /\ test.probe.template.dynamic
MockAgreesWithChain ==
    Finished /\ Selected(test, features) /\ ForMock(test) /\ ~HasDynamicOffset =>
        LET contract == MockExecute(test, AsOnThisChain)
            stored == AccountIn(accounts, LastContract).storage
        IN  \A s \in DOMAIN stored \union DOMAIN contract.storage :
                Alike(StoredWord(contract, s), StoredIn(accounts, LastContract, s))

(***************************************************************************)
(* docs/benchmark-coverage-status.md: all dynamic-offset log cases are     *)
(* admitted via observation of the byte window the program logged.         *)
(***************************************************************************)
DynamicWindowIsObserved ==
    Finished /\ test.probe.mode = "log" /\ test.probe.template.dynamic => Verdict

(***************************************************************************)
(* What the notes of two kinds of system case say.  The wrapper of the     *)
(* collision case calls the same proxy again with the same salt, so that   *)
(* the second CREATE2 collides (system_generator.py:919-926).  The child   *)
(* of a large return or revert fills the whole payload with 0xff before it *)
(* ends (877-878), by the loop of _build_fill_ff_prefix.  Either way the   *)
(* case passes on a chain that has its feature: create_collision, or       *)
(* large_nonzero_returndata.                                               *)
(***************************************************************************)
SystemNotesHold ==
    Finished /\ test.expectedWitness # <<>> /\ Selected(test, features)
      /\ test.expectedWitness.shape \in {"create_collision", "return_revert_self_call"}
      => Verdict
=============================================================================
