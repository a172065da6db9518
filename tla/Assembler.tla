----------------------------- MODULE Assembler -----------------------------
(***************************************************************************)
(* The byte code the generators assemble: push literals, init code that    *)
(* deploys a runtime, and the labelled builder of the programs that jump.  *)
(* Code is a sequence of bytes; the opcodes are the EVM's own.             *)
(***************************************************************************)
EXTENDS Words

Byte == 0 .. 255
PUSH0 == 95

(* int.to_bytes(n, "big") *)
ToBytes(v, n) == [i \in 1 .. n |-> (v \div 256^(n - i)) % 256]
FromBytes(bytes) ==
    LET value[i \in 0 .. Len(bytes)] == IF i = 0 THEN 0 ELSE 256 * value[i - 1] + bytes[i]
    IN  value[Len(bytes)]
Zeros(n) == [i \in 1 .. n |-> 0]
Concat(codes) ==
    LET joined[i \in 0 .. Len(codes)] == IF i = 0 THEN <<>> ELSE joined[i - 1] \o codes[i]
    IN  joined[Len(codes)]

(* Bytes from to from + n - 1 of a string, zero beyond its end. *)
Slice(bytes, from, n) ==
    LET there == SubSeq(bytes, from + 1, IF from + n < Len(bytes) THEN from + n ELSE Len(bytes))
    IN  there \o Zeros(n - Len(there))
WordCount(n) == (n + WordBytes - 1) \div WordBytes
LoadWord(bytes, from) == FromBytes(Slice(bytes, from, WordBytes))

(* Keccak-256, code outside src/: any function of the bytes whose values   *)
(* differ on the few inputs of a run serves; this one absorbs blocks of    *)
(* Rate words.                                                             *)
Rate == 20
Absorbed(seed, n, block(_)) ==
    LET hash[i \in 0 .. n] == IF i = 0 THEN seed ELSE (31 * hash[i - 1] + block(i - 1) + 1) % 65521
    IN  hash[n]
Keccak(bytes) ==
    Absorbed(7 + Len(bytes), (WordCount(Len(bytes)) + Rate - 1) \div Rate,
             LAMBDA i : LET block == Slice(bytes, i * Rate * WordBytes, Rate * WordBytes)
                        IN  Absorbed(0, Rate, LAMBDA j : LoadWord(block, j * WordBytes)))

(* The fewest bytes that hold v; none for 0. *)
ByteLength(v) == CHOOSE n \in 0 .. WordBytes : v < 256^n /\ (n = 0 \/ v >= 256^(n - 1))

PushIntNarrow(v) == <<96, v>>            \* faulty variant: PUSH1, whatever the size

(* _push_int: PUSH0, or PUSHn and the n bytes of the literal. *)
PushInt(v) == <<PUSH0 + ByteLength(v)>> \o ToBytes(v, ByteLength(v))

(* push length, PUSH1 offset, PUSH1 0, CODECOPY, push length, PUSH1 0,     *)
(* RETURN, and the runtime itself at that offset.                          *)
InitCode(runtime) ==
    LET length_push == PushInt(Len(runtime))
        offset == Len(length_push) + 5 + Len(length_push) + 3
    IN  length_push \o <<96, offset, 96, 0, 57>> \o length_push \o <<96, 0, 243>> \o runtime

(* A longer runtime: the header pushes its own length, found as a fixed    *)
(* point from 0 up.                                                        *)
LargeHeader(length, offset) ==
    PushInt(length) \o PushInt(offset) \o PushInt(0) \o <<57>>
        \o PushInt(length) \o PushInt(0) \o <<243>>
LargeInitCode(runtime) ==
    IF Len(runtime) <= 255 THEN InitCode(runtime)
    ELSE LET grow[n \in 0 .. 4] ==        \* the loop's offset; 4 turns reach the fixed point
                 IF n = 0 THEN 0 ELSE Len(LargeHeader(Len(runtime), grow[n - 1]))
         IN  LargeHeader(Len(runtime), grow[4]) \o runtime

(***************************************************************************)
(* _BytecodeBuilder: a program is a sequence of items, each a piece of     *)
(* code, a mark (a JUMPDEST) or a push of the position of a mark (PUSH2),  *)
(* patched in when the program is finished.                                *)
(***************************************************************************)
Code(bytes) == [kind |-> "code", bytes |-> bytes]
Mark(name) == [kind |-> "mark", label |-> name, bytes |-> <<91>>]
PushLabel(name) == [kind |-> "push_label", label |-> name, bytes |-> <<97, 0, 0>>]

PositionOf(items, k) == Len(Concat([i \in 1 .. k - 1 |-> items[i].bytes]))
LabelPosition(items, name) ==
    PositionOf(items, CHOOSE k \in DOMAIN items :
                          items[k].kind = "mark" /\ items[k].label = name)
Finish(items) ==
    Concat([k \in DOMAIN items |->
              IF items[k].kind = "push_label"
              THEN <<97>> \o ToBytes(LabelPosition(items, items[k].label), 2)
              ELSE items[k].bytes])
=============================================================================
