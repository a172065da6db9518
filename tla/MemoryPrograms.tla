--------------------------- MODULE MemoryPrograms ---------------------------
(***************************************************************************)
(* The memory generator: MLOAD, MSTORE, MSTORE8, MSIZE and MCOPY programs  *)
(* and the words it expects them to store.  Literals of 32 bytes are       *)
(* WordBytes here; sizes are scaled with them.                             *)
(***************************************************************************)
EXTENDS GeneratedCase, SimulatedMemory
LOCAL INSTANCE FiniteSetsExt
LOCAL INSTANCE TLC

MemoryGas(size_hint) ==
    GasForSize(<<200000, 200000, 400000, 1000000, BlockGas>>, size_hint)

Word2A == 42
Word2B == 43

StoreInSlot(slot) == PushInt(slot) \o <<85>>
MsizeToSlot1 == <<89>> \o StoreInSlot(1) \o <<0>>

-----------------------------------------------------------------------------
(* MLOAD, MSTORE, MSTORE8 at an offset. *)

Prefix(offset, offset_initialized, mem_size) ==
    (IF mem_size > 0 THEN PushInt(1) \o PushInt(mem_size - 1) \o <<83>> ELSE <<>>)
      \o (IF offset_initialized THEN PushInt(Word2B) \o PushInt(offset) \o <<82>> ELSE <<>>)

MemoryAccessRuntime(op, offset, offset_initialized, mem_size) ==
    Prefix(offset, offset_initialized, mem_size)
      \o (CASE op = "MLOAD" -> PushInt(offset) \o <<81>>
            [] op = "MSTORE" ->
                  PushInt(Word2A) \o PushInt(offset) \o <<82>> \o PushInt(offset) \o <<81>>
            [] op = "MSTORE8" ->
                  PushInt(Word2A) \o PushInt(offset) \o <<83>>
                    \o PushInt((offset \div WordBytes) * WordBytes) \o <<81>>)
      \o StoreInSlot(0) \o MsizeToSlot1

SimulateMemoryAccess(op, offset, offset_initialized, mem_size) ==
    LET sized == IF mem_size > 0 THEN Mstore8(Untouched, mem_size - 1, 1) ELSE Untouched
        ready == IF offset_initialized THEN Mstore(sized, offset, Word2B) ELSE sized
        written == CASE op = "MLOAD" -> ready
                     [] op = "MSTORE" -> Mstore(ready, offset, Word2A)
                     [] op = "MSTORE8" -> Mstore8(ready, offset, Word2A)
        read == IF op = "MSTORE8" THEN (offset \div WordBytes) * WordBytes ELSE offset
    IN  <<Mload(written, read), Len(AfterMload(written, read))>>

TwoSlots(words) == (0 :> Literal(words[1])) @@ (1 :> Literal(words[2]))

RenderMemoryAccessCase(op, offset, offset_initialized, mem_size) ==
    DeployAndInvoke(<<"memory_access", op, offset, offset_initialized, mem_size>>,
                    MemoryAccessRuntime(op, offset, offset_initialized, mem_size),
                    <<>>, MemoryGas(Max({mem_size, offset + WordBytes})),
                    TwoSlots(SimulateMemoryAccess(op, offset, offset_initialized, mem_size)),
                    [key |-> "memory_probe", mode |-> "memory_access", opcode |-> op,
                     offset |-> offset, offset_initialized |-> offset_initialized,
                     mem_size |-> mem_size])

-----------------------------------------------------------------------------
(* MSIZE after an MLOAD at mem_size. *)

MsizeRuntime(mem_size) == PushInt(mem_size) \o <<81, 80, 89>> \o StoreInSlot(0) \o <<0>>

SimulateMsize(mem_size) == Len(AfterMload(Untouched, mem_size))
RenderMsizeCase(mem_size) ==
    DeployAndInvoke(<<"msize", mem_size>>, MsizeRuntime(mem_size), <<>>, MemoryGas(mem_size),
                    (0 :> Literal(SimulateMsize(mem_size))),
                    [key |-> "memory_probe", mode |-> "msize", mem_size |-> mem_size])

-----------------------------------------------------------------------------
(* MCOPY, from and to 0 or an offset read from GAS, kept in slots 3 and 4. *)

McopyRuntime(mem_size, copy_size, fixed_src_dst) ==
    PushInt(copy_size)
      \o (IF fixed_src_dst THEN PushInt(0) \o PushInt(0) ELSE GasOffset(3) \o GasOffset(4))
      \o <<94, 89>> \o StoreInSlot(0)
      \o (IF mem_size > 0
          THEN Concat([i \in 1 .. 3 |->
                 <<90>> \o PushInt(<<0, mem_size \div 2, mem_size - 1>>[i]) \o <<83>>])
          ELSE <<>>)
      \o MsizeToSlot1

(* The offsets when none was observed. *)
DefaultOffset(fixed_src_dst) == IF fixed_src_dst THEN 0 ELSE GasModulus - 1

SimulateMcopy(mem_size, copy_size, src, dst) ==
    LET copied == Mcopy(Untouched, dst, src, copy_size)
        touched == IF mem_size = 0 THEN copied
                   ELSE Mstore8(Mstore8(Mstore8(copied, 0, 0), mem_size \div 2, 0), mem_size - 1, 0)
    IN  <<Len(copied), Len(touched)>>

McopyProbe(mem_size, copy_size, fixed_src_dst) ==
    [key |-> "memory_probe", mode |-> "mcopy", mem_size |-> mem_size, copy_size |-> copy_size,
     fixed_src_dst |-> fixed_src_dst]

RenderMcopyCase(mem_size, copy_size, fixed_src_dst) ==
    LET offset == DefaultOffset(fixed_src_dst)
    IN  DeployAndInvoke(<<"mcopy", mem_size, copy_size, fixed_src_dst>>,
                        McopyRuntime(mem_size, copy_size, fixed_src_dst), <<>>,
                        Max({MemoryGas(Max({mem_size, copy_size})), 200000}),
                        TwoSlots(SimulateMcopy(mem_size, copy_size, offset, offset)),
                        McopyProbe(mem_size, copy_size, fixed_src_dst))

(* derive_memory_expectation *)
DeriveMemoryExpectation(probe, src_offset, dst_offset) ==
    TwoSlots(SimulateMcopy(probe.mem_size, probe.copy_size, src_offset, dst_offset))
=============================================================================
