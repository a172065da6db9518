-------------------------- MODULE ContextPrograms --------------------------
(***************************************************************************)
(* The block-context, transaction-context and account-query generators:    *)
(* each program stores one word of its environment in slot 0, and the case *)
(* expects a literal or a word the runner resolves after the case has run. *)
(* Each family scans an inventory of upstream's parameters and admits the  *)
(* entries it has a witness for.                                           *)
(***************************************************************************)
EXTENDS GeneratedCase
LOCAL INSTANCE TLC

CONSTANTS AbsentTarget, PresentTarget    \* ABSENT_TARGET_ADDRESS, PRESENT_TARGET_ADDRESS

Slot0Holds(expected) == (0 :> expected)

-----------------------------------------------------------------------------
(* Block context. *)

BlockContextRuntime ==
    [blockhash_current |-> <<67, 64, 95, 85, 0>>,
     coinbase |-> <<65, 96, 0, 85, 0>>, timestamp |-> <<66, 96, 0, 85, 0>>,
     number |-> <<67, 96, 0, 85, 0>>, prevrandao |-> <<68, 96, 0, 85, 0>>,
     gaslimit |-> <<69, 96, 0, 85, 0>>, chainid |-> <<70, 96, 0, 85, 0>>,
     basefee |-> <<72, 96, 0, 85, 0>>]
BlockContextExpectedWord ==
    [blockhash_current |-> Literal(0),
     coinbase |-> Placeholder("$block_coinbase_word"),
     timestamp |-> Placeholder("$block_timestamp_word"),
     number |-> Placeholder("$block_number_word"),
     prevrandao |-> Placeholder("$block_prevrandao_word"),
     gaslimit |-> Placeholder("$block_gaslimit_word"),
     chainid |-> Placeholder("$chain_id_word"),
     basefee |-> Placeholder("$block_basefee_word")]

(* The inventory: upstream's opcode or blockhash index, and the mode that  *)
(* serves it, if any.                                                      *)
NoMode == "none"
ScanBlockOps ==
    {<<"BASEFEE", "basefee">>, <<"CHAINID", "chainid">>, <<"COINBASE", "coinbase">>,
     <<"GASLIMIT", "gaslimit">>, <<"NUMBER", "number">>, <<"PREVRANDAO", "prevrandao">>,
     <<"TIMESTAMP", "timestamp">>, <<"BLOBBASEFEE", NoMode>>}
ScanBlockhash ==
    {<<label, IF label = "current_block" THEN "blockhash_current" ELSE NoMode>> :
        label \in {"genesis", "block_1", "block_256", "current_block", "random"}}
ScanBlockContextCases == ScanBlockOps \union ScanBlockhash

(* The family's own init code: every push is a PUSH1. *)
BlockContextInitCode(runtime) ==
    <<96, Len(runtime), 96, 12, 96, 0, 57, 96, Len(runtime), 96, 0, 243>> \o runtime
RenderBlockContextCase(mode) ==
    BuildCase(<<"block_context", mode>>,
              DeployContract(BlockContextInitCode(BlockContextRuntime[mode]),
                             BlockContextRuntime[mode], DeployGas100000, Nothing),
              <<InvokeContract(<<>>, InvokeGas50000, 0, "success")>>,
              Slot0Holds(BlockContextExpectedWord[mode]),
              [key |-> "block_context_probe", mode |-> mode])
RenderBlockContextCases ==
    {RenderBlockContextCase(entry[2]) : entry \in {e \in ScanBlockContextCases : e[2] # NoMode}}

-----------------------------------------------------------------------------
(* Transaction context. *)

ScanTxContextCases ==
    {<<"ORIGIN", "origin">>, <<"GASPRICE", "gasprice">>,
     <<"no_blobs", NoMode>>, <<"one_blob", NoMode>>}

OriginRuntime == <<50, 96, 0, 85, 0>>
GaspriceRuntime == <<58, 96, 0, 85, 0>>
RenderTxContextCase(mode) ==
    CASE mode = "origin" ->
            DeployAndInvoke(<<"tx_context", mode>>, OriginRuntime, <<>>, InvokeGas50000,
                            Slot0Holds(AdminAccountWord), NoProbe)
      [] mode = "gasprice" ->
            DeployAndInvoke(<<"tx_context", mode>>, GaspriceRuntime, <<>>, InvokeGas50000,
                            Slot0Holds(Placeholder("$gas_price_word")), NoProbe)
RenderTxContextCases ==
    {RenderTxContextCase(entry[2]) : entry \in {e \in ScanTxContextCases : e[2] # NoMode}}

-----------------------------------------------------------------------------
(* Account queries; CODECOPY is among the digests. *)

PresentTargetFunding == 42
SelfbalanceRuntime == <<71, 96, 0, 85, 0>>
CodesizeRuntime == <<56, 96, 0, 85, 0>>
BalanceRuntime == <<95, 53, 49, 96, 0, 85, 0>>     \* BALANCE of the calldata's word

(* The balance of the target after the transfer, which the runner reads    *)
(* before it and adds to: the account is shared with earlier runs.         *)
FundPresentTarget ==
    [kind |-> "transfer", to |-> PresentTarget, data |-> <<>>, value |-> PresentTargetFunding,
     gas |-> 21000, status |-> "success"]

AccountQuery(mode, runtime, data, expected) ==
    DeployAndInvoke(<<"account_query", mode>>, runtime, data, InvokeGas50000,
                    Slot0Holds(expected), NoProbe)
RenderSelfbalanceCase(balance) ==
    [AccountQuery(IF balance = 0 THEN "selfbalance_0" ELSE "selfbalance_1", SelfbalanceRuntime, <<>>, Literal(balance))
     EXCEPT !.deployValue = balance]
RenderCodesizeCase == AccountQuery("codesize", CodesizeRuntime, <<>>, Literal(5))
RenderBalanceAbsentCase ==
    AccountQuery("balance_absent", BalanceRuntime, ToBytes(AbsentTarget, WordBytes), Literal(0))
RenderBalancePresentCase ==
    [AccountQuery("balance_present", BalanceRuntime, ToBytes(PresentTarget, WordBytes),
                  Placeholder("$present_target_balance_after_word"))
     EXCEPT !.transfers = <<FundPresentTarget>>]

(* The inventory: every SELFBALANCE, CODESIZE and BALANCE case is          *)
(* admitted, every CODECOPY case of a size too, no EXTCODECOPY case.       *)
CodecopySizes(quarters) == (quarters * MaxCodeSize) \div 4
ScanCodecopyCases == {<<fixed, CodecopySizes(q)>> : fixed \in BOOLEAN, q \in 0 .. 4}
ScanCodecopyBenchmarkCases(code_sizes) == {<<FALSE, size>> : size \in code_sizes}

RenderAccountQueryCases ==
    {RenderSelfbalanceCase(balance) : balance \in {0, 1}}
      \union {RenderCodesizeCase, RenderBalanceAbsentCase, RenderBalancePresentCase}
=============================================================================
