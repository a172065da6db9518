-------------------------- MODULE SimulatedMemory --------------------------
(***************************************************************************)
(* _MemoryState of the memory and keccak generators: the memory they       *)
(* replay a program's accesses on to predict what it reads and MSIZE.      *)
(* A memory is its sequence of bytes; each operation returns the next one. *)
(***************************************************************************)
EXTENDS Assembler
LOCAL INSTANCE FiniteSetsExt

Untouched == <<>>
RoundUp(size) == ((size + WordBytes - 1) \div WordBytes) * WordBytes

Ensure(m, size) == m \o Zeros(IF size <= Len(m) THEN 0 ELSE RoundUp(size) - Len(m))

Put(m, offset, bytes) ==
    [i \in DOMAIN m |-> IF i - offset \in DOMAIN bytes THEN bytes[i - offset] ELSE m[i]]
Window(m, offset, size) == SubSeq(m, offset + 1, offset + size)

Mstore8(m, offset, value) == Put(Ensure(m, offset + 1), offset, <<value % 256>>)
Mstore(m, offset, value) == Put(Ensure(m, offset + WordBytes), offset, ToBytes(value, WordBytes))
Mload(m, offset) == FromBytes(Window(Ensure(m, offset + WordBytes), offset, WordBytes))
AfterMload(m, offset) == Ensure(m, offset + WordBytes)
Calldatacopy(m, offset, data) ==
    IF data = <<>> THEN m ELSE Put(Ensure(m, offset + Len(data)), offset, data)
Mcopy(m, destination, source, size) ==
    IF size = 0 THEN m
    ELSE LET grown == Ensure(Ensure(m, source + size), destination + size)
         IN  Put(grown, destination, Window(grown, source, size))
AfterSha3(m, offset, size) == IF size > 0 THEN Ensure(m, offset + size) ELSE m
Sha3(m, offset, size) == Keccak(Window(AfterSha3(m, offset, size), offset, size))
=============================================================================
