------------------------- MODULE PrecompilePrograms -------------------------
(***************************************************************************)
(* The precompile generator: a wrapper carries the input behind its code,  *)
(* calls a precompiled contract with it and stores success, the size of    *)
(* the output and, if there is one, its digest.                            *)
(***************************************************************************)
EXTENDS GeneratedCase
LOCAL INSTANCE TLC

PrecompileG1Add == 11
PrecompileG1Mul == 12
PrecompileP256Verify == 256
PrecompileModexp == 5
ModexpStipend == 20975      \* one less than the new price, far more than the old one

(* A template: an input and the output upstream lists for it. *)
PrecompileTemplate(id, address, input_bytes, expected_output, family, flag) ==
    [case_id |-> id, address |-> address, input |-> input_bytes,
     expected |-> expected_output, precompile_family |-> family, feature_flag |-> flag]

-----------------------------------------------------------------------------
(* The inventories.  A vector is <<input, output>>; a file is admitted or  *)
(* not, and of an admitted one the first two.                              *)
AdmittedFiles == {"add_G1_bls.json", "mul_G1_bls.json"}
PrecompileAddresses ==
    ("add_G1_bls.json" :> PrecompileG1Add) @@ ("mul_G1_bls.json" :> PrecompileG1Mul)
ScanVectors(files, vectors) ==
    {PrecompileTemplate(<<file, i>>, PrecompileAddresses[file], vectors[file][i][1],
                        vectors[file][i][2], "bls12_381", "bls12_381_precompiles") :
        file \in files \intersect AdmittedFiles, i \in 1 .. 2}

(* One good signature; one with its bytes swapped, which has no output.    *)
ScanP256Verify(good, swapped) ==
    {PrecompileTemplate(<<"p256verify", 1>>, PrecompileP256Verify, good, ToBytes(1, WordBytes),
                        "p256verify", "p256verify_precompile"),
     PrecompileTemplate(<<"p256verify", 2>>, PrecompileP256Verify, swapped, <<>>,
                        "p256verify", "p256verify_precompile")}

(* One gas too little for the new price, enough for the old one.           *)
ScanModexpOsaka(input_bytes) ==
    {PrecompileTemplate(<<"modexp", 1>>, PrecompileModexp, input_bytes, <<>>, "modexp", "modexp_eip7883")}

-----------------------------------------------------------------------------
(* generate_precompile_runtime *)
PrecompileRuntime(address, input_bytes, gas_left) ==
    Finish(<<Code(PushInt(Len(input_bytes))), PushLabel("input"), Code(PushInt(0) \o <<57>>),
             Code(PushInt(0) \o PushInt(0) \o PushInt(Len(input_bytes)) \o PushInt(0)
                  \o PushInt(0) \o PushInt(address) \o PushInt(gas_left) \o <<241>>
                  \o PushInt(0) \o <<85>>
                  \o <<61>> \o PushInt(1) \o <<85>>
                  \o <<61>>),
             PushLabel("not_empty"), Code(<<87, 0>>),
             Mark("not_empty"),
             Code(<<61>> \o PushInt(0) \o PushInt(0) \o <<62>>
                  \o <<61>> \o PushInt(0) \o <<32>> \o PushInt(2) \o <<85, 0>>),
             [kind |-> "mark", label |-> "input", bytes |-> <<>>], Code(input_bytes)>>)

ExpectedSuccess(t) == t.precompile_family # "modexp"
InnerGas(t) == IF t.precompile_family = "modexp" THEN ModexpStipend ELSE 10000000

(* Faulty variant: the size and the digest of the output are not looked at. *)
SuccessAlone(t) == (0 :> Literal(IF ExpectedSuccess(t) THEN 1 ELSE 0))
PrecompileStorage(t) ==
    (0 :> Literal(IF ExpectedSuccess(t) THEN 1 ELSE 0))
      @@ (1 :> Literal(Len(t.expected)))
      @@ (IF t.expected = <<>> THEN <<>> ELSE (2 :> Literal(Keccak(t.expected))))

RenderPrecompileCase(t) ==
    LET runtime == PrecompileRuntime(t.address, t.input, InnerGas(t))
    IN  BuildCase(<<"precompile", t.case_id>>,
                  DeployContract(InitCode(runtime), runtime, 10000000, Nothing),
                  <<InvokeContract(<<>>, 10000000, 0, "success")>>,
                  PrecompileStorage(t),
                  [key |-> "precompile_probe", mode |-> "none", address |-> t.address,
                   input_size |-> Len(t.input), output_size |-> Len(t.expected),
                   expected_success |-> ExpectedSuccess(t),
                   expected_output_digest |-> Keccak(t.expected), inner_gas |-> InnerGas(t),
                   required_feature |-> t.feature_flag])
=============================================================================
