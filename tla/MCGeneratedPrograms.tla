------------------------ MODULE MCGeneratedPrograms ------------------------
(* Words of three bytes: the whole gas of a benchmark block fits one. *)
EXTENDS GeneratedPrograms
LOCAL INSTANCE TLC

MCMemorySteps == <<5, 7, 9, 10>>
MCShiftAmounts == <<1, 2, 3, 5, 9, 16>>
MCShiftRolls == <<3, 1, 6, 6, 6, 2, 5, 4, 6, 6, 1, 3, 6, 5, 2, 4, 6, 1, 6, 6, 3, 2, 5, 1, 4, 2>>

(* The arguments: the corners of a word, also those the few literals of    *)
(* the benchmark miss (the most negative word and its neighbours, divisors *)
(* of zero, shifts of a whole word, indices of its first and last bytes).  *)
Corners == {0, 1, 2, 2^(Bits - 1) - 1, 2^(Bits - 1), 2^(Bits - 1) + 1, Base - 2, Base - 1, 7598506}
Arguments(op) ==
    CASE op \in OneArgument -> {<<a>> : a \in Corners \union {127, 248}}
      [] op \in {"SHL", "SHR", "SAR"} -> {0, 1, Bits - 1, Bits, Bits + 1} \X Corners
      [] op \in {"SIGNEXTEND", "BYTE"} -> (0 .. WordBytes + 1) \X (Corners \union {128, 12648430})
      [] op = "EXP" -> {0, 2, 3, Base - 1} \X {0, 1, 11, Bits, Base - 1}
      [] op \in ThreeArguments ->
            {0, 7598506, Base - 1} \X {1, Base - 1} \X {0, 1, 2^(Bits - 1) - 1, Base - 2, Base - 1}
      [] OTHER -> Corners \X Corners

WordTests ==
    UNION {{RenderWordCase(op, args) : args \in Arguments(op)} : op \in WordOpcodes}
      \union {RenderStackCase("PUSH", n) : n \in 0 .. WordBytes}
      \union {RenderStackCase(kind, n) : kind \in {"DUP", "SWAP"}, n \in {1, 2, 16}}
      \union {RenderShiftCase(op) : op \in {"SHR", "SAR"}}
      \union {RenderClzCase}

MemoryTests ==
    {RenderMemoryAccessCase(op, offset, initialized, mem_size) :
        op \in {"MLOAD", "MSTORE", "MSTORE8"}, offset \in {0, 1, WordBytes - 1},
        initialized \in BOOLEAN, mem_size \in {0, 1, 3 * WordBytes}}
      \union {RenderMsizeCase(mem_size) : mem_size \in {0, 1, WordBytes, 10}}
      \union {RenderMcopyCase(mem_size, copy_size, fixed) :
                mem_size \in {0, 7}, copy_size \in {0, WordBytes, 8 * WordBytes},
                fixed \in BOOLEAN}

DigestTests ==
    {RenderBasicKeccakCase(data, offset, update) :
        data \in {<<>>, <<102, 102>>, [i \in 1 .. 10 |-> 102]}, offset \in {0, 2, 8},
        update \in BOOLEAN}
      \union {RenderDiffSizesCase(m, n) : m \in {0, WordBytes, 9}, n \in {0, WordBytes, 9}}
      \union {RenderMaxPermutationsCase(13)}
      \union {IF e[1] THEN RenderCodecopyFixedCase(e[2]) ELSE RenderCodecopyDynamicCase(e[2]) :
                e \in ScanCodecopyCases \union ScanCodecopyBenchmarkCases({9, 60})}

(* Seeds on both sides of the unroll limit and of a word boundary; a       *)
(* window as long as the seed, and longer.                                 *)
FixedLogs ==
    {LogTemplate(topics, word, log_size, seed, FALSE) :
        topics \in {0, 1, 4}, word \in {FullWord}, log_size \in {0, 4, 6, 10}, seed \in {0, 6, 10, 12}}
      \union {LogTemplate(2, 0, 6, 6, FALSE)}
DynamicLogs(seeds) ==
    {LogTemplate(topics, FullWord, log_size, seed, TRUE) :
        topics \in {0, 2}, log_size \in {0, 6, 10}, seed \in seeds}

(* The account of the key the runner signs with, on a curve of 13 points. *)
MCAdminAccount == PrivateKeyToAddress(PrivateKey)
MCCurveG == <<1, 2>>

(* The chain: what its accounts hold before a case, and its block. *)
MCGenesis ==
    (AdminAccount :> [NoAccount EXCEPT !.balance = 1000])
      @@ (PresentTarget :> [NoAccount EXCEPT !.balance = 84])
MCBlock == [coinbase |-> 500001, timestamp |-> 600000, number |-> 9, gaslimit |-> 16777215,
            basefee |-> 7, prevrandao |-> 700000]

(* Chains with every feature and with none. *)
AllFeatures ==
    {"base_fee", "prevrandao", "clz", "large_log_payload", "max_create_child_code",
     "create_collision", "large_nonzero_returndata", "selfdestruct_created_clears_code",
     "bls12_381_precompiles", "p256verify_precompile", "modexp_eip7883",
     "calldata_floor_eip7623", "eip7702"}
MCFeatureSets == {AllFeatures, {}}

(* The vectors: points and signatures are bytes, their output what the     *)
(* precompiled contract makes of them.                                     *)
MCPoints == <<<<3, 1, 4, 1, 5, 9>>, <<2, 7, 1, 8>>>>
MCVectors ==
    [file \in {"add_G1_bls.json", "mul_G1_bls.json", "fail-add_G1_bls.json"} |->
       [i \in 1 .. 2 |-> <<MCPoints[i], BlsOf(MCPoints[i])>>]]
PrecompileTests ==
    {RenderPrecompileCase(t) :
        t \in ScanVectors(DOMAIN MCVectors, MCVectors)
                \union ScanP256Verify(<<1, 2, 3, 4, 5>>, <<5, 4, 3, 2, 1>>)
                \union ScanModexpOsaka(<<8, 112, 7>> \o [i \in 1 .. 10 |-> 255])}

(* The three kinds of system case whose program is not what its witness    *)
(* says: a filled return, a second creation, the largest child.            *)
LargeReturns == {t \in SystemTemplates : t.mode = "return_revert_self_call"
                                            /\ t.return_size = Mebibyte /\ t.return_non_zero_data}
Collisions == {t \in SystemTemplates : t.mode = "create_collision"}
LargestChildren == {t \in SystemTemplates : t.mode = "create_child_code"
                                               /\ t.initcode_size = MaxCodeSize
                                               /\ t.data_kind = "non_zero"}
SoundTemplates == SystemTemplates \ (LargeReturns \union Collisions \union LargestChildren)

MCTests ==
    WordTests \union MemoryTests \union DigestTests
      \union {RenderControlFlowCase(mode) : mode \in ControlFlowModes}
      \union {RenderLogCase(t) : t \in FixedLogs \union DynamicLogs({0})}
      \union RenderStorageCases \union RenderCallContextCases
      \union RenderBlockContextCases \union RenderTxContextCases \union RenderAccountQueryCases
      \union PrecompileTests \union CustomCases(AdminAccount)
      \union {RenderSystemCase(t) : t \in SoundTemplates}

(* The dynamic cases that fill the memory they log. *)
MCDynamicTests == {RenderLogCase(t) : t \in DynamicLogs({6, 10})}

(* The cases no chain passes, whatever its features. *)
MCNotedCases == {RenderSystemCase(t) : t \in Collisions \union LargeReturns}
=============================================================================
