--------------------------- MODULE MCJsonRpcExecution ---------------------------
EXTENDS JsonRpcExecution
S(action) == [action |-> action, to |-> None, nonce |-> NoNonce, legal |-> TRUE,
              presigned |-> FALSE, expectError |-> None, status |-> TRUE]
Deploy == S("deploy_contract")
InvokeLast == [S("invoke_contract") EXCEPT !.to = "$last_contract"]
Wait == S("wait_receipt")
Transfer == S("transfer_native")
RawAt(nonce, error) ==
  [S("eth_sendRawTransaction") EXCEPT !.nonce = nonce, !.expectError = error,
                                      !.presigned = nonce # NoNonce]
CaseOf(steps) == [steps |-> steps, storage |-> None, balance |-> FALSE,
                  context |-> FALSE, error |-> None]

StorageCase == [CaseOf(<<Deploy, Wait, InvokeLast, Wait>>) EXCEPT !.storage = 1, !.context = TRUE]

\* The usual shape of the manifests, a case that does not wait for its deployment
\* before it invokes $last_contract, and one that observes nothing but its block.
HastyCase == CaseOf(<<Deploy, InvokeLast, Wait>>)
ReceiptCase == [CaseOf(<<Deploy, Wait>>) EXCEPT !.context = TRUE]
MCThree == <<StorageCase, HastyCase, ReceiptCase>>

\* A stale nonce, a transaction a rule forbids, then two transfers, the first of
\* which may land while the second one is judged, and a plain call and a wait for nothing.
RejectedAt(steps, error) == [CaseOf(steps) EXCEPT !.error = error]
TransferCase == [CaseOf(<<Transfer, Wait>>) EXCEPT !.balance = TRUE]
MCSubmissions ==
  <<RejectedAt(<<RawAt(0, "nonce too low")>>, "nonce too low"),
    RejectedAt(<<[RawAt(NoNonce, "forbidden") EXCEPT !.legal = FALSE]>>, "forbidden"),
    TransferCase, TransferCase, CaseOf(<<S("rpc_call"), Wait>>)>>

MCLive == <<[CaseOf(<<Deploy, Wait>>) EXCEPT !.storage = 0]>>

\* Every case of the runs expects what an honest chain does.
ASSUME MCCasesAreRight ==
  \A cases \in {MCThree, MCSubmissions, MCLive} : \A k \in DOMAIN cases : RightCase(cases[k])
=============================================================================
