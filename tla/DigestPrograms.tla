--------------------------- MODULE DigestPrograms ---------------------------
(***************************************************************************)
(* The keccak generator and the CODECOPY programs of the account-query     *)
(* generator: programs that store the digest of a window of memory.        *)
(***************************************************************************)
EXTENDS GeneratedCase, SimulatedMemory
LOCAL INSTANCE FiniteSetsExt
LOCAL INSTANCE TLC

KeccakGas(size_hint) ==
    GasForSize(<<100000, 400000, 1000000, 2000000, 2000000>>, size_hint)

StoreAt(slot) == PushInt(slot) \o <<85>>
KeptDigest(slot) == <<128>> \o StoreAt(slot)         \* DUP1, PUSH slot, SSTORE
ThreeSlots(words) == [s \in 0 .. 2 |-> Literal(words[s + 1])]

-----------------------------------------------------------------------------
(* SHA3 of the calldata copied to an offset; with mem_update the digest is *)
(* written back to memory 0.  Slot 1 takes memory word 0, slot 2 the MSIZE *)
(* before it is read.                                                      *)
BasicKeccakRuntime(offset, mem_update) ==
    <<54, 128>> \o PushInt(0) \o PushInt(offset) \o <<55>>
      \o <<54>> \o PushInt(offset) \o <<32>> \o KeptDigest(0)
      \o (IF mem_update THEN PushInt(0) \o <<82>> ELSE <<80>>)
      \o <<89>> \o StoreAt(2)
      \o PushInt(0) \o <<81>> \o StoreAt(1) \o <<0>>

SimulateBasicKeccak(data, offset, mem_update) ==
    LET copied == Calldatacopy(Untouched, offset, data)
        digest == Sha3(copied, offset, Len(data))
        hashed == AfterSha3(copied, offset, Len(data))
        updated == IF mem_update THEN Mstore(hashed, 0, digest) ELSE hashed
    IN  <<digest, Mload(updated, 0), Len(updated)>>

RenderBasicKeccakCase(data, offset, mem_update) ==
    DeployAndInvoke(<<"keccak", data, offset, mem_update>>,
                    BasicKeccakRuntime(offset, mem_update), data,
                    KeccakGas(Max({offset + Len(data), WordBytes})),
                    ThreeSlots(SimulateBasicKeccak(data, offset, mem_update)),
                    [key |-> "keccak_probe", mode |-> "keccak", offset |-> offset,
                     mem_update |-> mem_update])

(* SHA3 of msg_size bytes of a memory of mem_size, the digest written to 0. *)
DiffSizesRuntime(mem_size, msg_size) ==
    (IF mem_size > 0 THEN PushInt(255) \o PushInt(mem_size - 1) \o <<83>> ELSE <<>>)
      \o PushInt(msg_size) \o PushInt(0) \o <<32>> \o KeptDigest(0)
      \o PushInt(0) \o <<82>>
      \o PushInt(msg_size) \o StoreAt(1)
      \o <<89>> \o StoreAt(2) \o <<0>>

SimulateDiffSizes(mem_size, msg_size) ==
    LET sized == IF mem_size > 0 THEN Mstore8(Untouched, mem_size - 1, 255) ELSE Untouched
        digest == Sha3(sized, 0, msg_size)
    IN  <<digest, msg_size, Len(Mstore(AfterSha3(sized, 0, msg_size), 0, digest))>>

RenderDiffSizesCase(mem_size, msg_size) ==
    DeployAndInvoke(<<"diff_mem_msg_sizes", mem_size, msg_size>>,
                    DiffSizesRuntime(mem_size, msg_size), <<>>,
                    KeccakGas(Max({mem_size, msg_size, WordBytes})),
                    ThreeSlots(SimulateDiffSizes(mem_size, msg_size)),
                    [key |-> "keccak_probe", mode |-> "diff_mem_msg_sizes", mem_size |-> mem_size,
                     msg_size |-> msg_size])

(* SHA3 of length zero bytes. *)
MaxPermutationsRuntime(length) ==
    PushInt(length) \o <<128>> \o PushInt(0) \o <<32>> \o KeptDigest(0) \o <<80>>
      \o <<128>> \o StoreAt(1)
      \o <<89>> \o StoreAt(2) \o <<0>>

RenderMaxPermutationsCase(length) ==
    [DeployAndInvoke(<<"max_permutations", length>>, MaxPermutationsRuntime(length), <<>>, 2000000,
                     ThreeSlots(<<Keccak(Zeros(length)), length, RoundUp(length)>>),
                     [key |-> "keccak_probe", mode |-> "max_permutations",
                      witness_input_length |-> length])
     EXCEPT !.deployGas = 2000000]

-----------------------------------------------------------------------------
(* CODECOPY of the program itself: the digest of the copy and its size.    *)

CopyEnd(copy_size) == KeptDigest(1) \o <<80>> \o PushInt(copy_size) \o StoreAt(0) \o <<0>>

CodecopyFixedRuntime(copy_size) ==
    PushInt(copy_size) \o PushInt(0) \o PushInt(0) \o <<57>>
      \o PushInt(copy_size) \o PushInt(0) \o <<32>> \o CopyEnd(copy_size)

CodecopyDynamicRuntime(copy_size) ==
    PushInt(copy_size) \o GasOffset(2) \o <<128, 57>>
      \o PushInt(copy_size) \o PushInt(2) \o <<84, 32>> \o CopyEnd(copy_size)

(* _codecopy_fixed_digest and _codecopy_dynamic_digest: copy_size bytes of *)
(* the code from an offset, zeros beyond its end.                          *)
CodecopyDigest(code, offset, copy_size) == Keccak(Slice(code, offset, copy_size))

CopyExpectation(code, offset, copy_size) ==
    (0 :> Literal(copy_size)) @@ (1 :> Literal(CodecopyDigest(code, offset, copy_size)))

(* derive_codecopy_expectation *)
DeriveCodecopyExpectation(probe, code, dynamic_offset) ==
    CopyExpectation(code, dynamic_offset, probe.copy_size)

CodecopyInvokeGas(copy_size) == IF copy_size >= MaxCodeSize THEN 4194304 ELSE 2097152
CodecopyCase(mode, copy_size, runtime, probe) ==
    DeployAndInvoke(<<mode, copy_size>>, runtime, <<>>, CodecopyInvokeGas(copy_size),
                    CopyExpectation(runtime, 0, copy_size), probe)
RenderCodecopyFixedCase(copy_size) ==
    CodecopyCase("codecopy_fixed", copy_size, CodecopyFixedRuntime(copy_size),
                 [key |-> "account_query_probe", mode |-> "codecopy_fixed", copy_size |-> copy_size])
RenderCodecopyDynamicCase(copy_size) ==
    CodecopyCase("codecopy_dynamic", copy_size, CodecopyDynamicRuntime(copy_size),
                 [key |-> "account_query_probe", mode |-> "codecopy", copy_size |-> copy_size, dynamic_offset_slot |-> 2])
=============================================================================
