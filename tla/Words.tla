------------------------------- MODULE Words -------------------------------
(***************************************************************************)
(* The machine words of the EVM and its word instructions, by their        *)
(* mathematical definition.  Code outside src/: the generators rely on it  *)
(* whenever they predict what an instruction leaves on the stack.  A word  *)
(* has WordBytes bytes of ByteBits bits (32 bytes of 8 bits on a chain).   *)
(* The largest intermediate value is below 128 * 2^Bits: nothing overflows *)
(* TLC's integers while Bits <= 24.                                        *)
(***************************************************************************)
EXTENDS Integers, Sequences, FiniteSets
LOCAL INSTANCE SequencesExt
LOCAL INSTANCE FiniteSetsExt

CONSTANTS ByteBits,     \* bits of a byte: 8
          WordBytes     \* bytes of a word: 32

ASSUME WordsAssumption == ByteBits \in Nat \ {0} /\ WordBytes \in Nat \ {0}

Bits == ByteBits * WordBytes
Base == 2^Bits
ByteBase == 2^ByteBits
Word == 0 .. Base - 1

(* A word read as a two's complement integer, and an integer as a word. *)
Signed(w) == IF w < 2^(Bits - 1) THEN w ELSE w - Base
Wrap(i) == i % Base

Bit(w, i) == (w \div 2^i) % 2
FromBits(bit(_)) == MapThenSumSet(LAMBDA i: bit(i) * 2^i, 0 .. Bits - 1)

(* a * b modulo m > 0, digit by digit of a (base 64), and a ^ e modulo     *)
(* Base by squaring, from the highest bit down.                            *)
Digits == (Bits + 5) \div 6
MulMod(a, b, m) ==
    FoldLeft(LAMBDA acc, i: (64 * acc + ((a \div 64^(Digits - i)) % 64) * (b % m)) % m,
             0, [i \in 1 .. Digits |-> i])
Power(a, e) ==
    LET power[i \in 0 .. Bits, product \in Word] ==
            IF i = Bits THEN product
            ELSE LET squared == MulMod(product, product, Base)
                 IN  power[i + 1, IF Bit(e, Bits - 1 - i) = 1 THEN MulMod(squared, a, Base)
                                  ELSE squared]
    IN  power[0, 1]

(* Division and remainder rounded toward zero. *)
Magnitude(i) == IF i < 0 THEN -i ELSE i
Sign(i) == IF i < 0 THEN -1 ELSE 1
Quotient(i, j) == Sign(i) * Sign(j) * (Magnitude(i) \div Magnitude(j))

(* The value of the k + 1 low bytes of w, read as a signed integer. *)
LowSigned(k, w) ==
    LET width == ByteBase^(k + 1)
    IN  IF w % width < width \div 2 THEN w % width ELSE (w % width) - width

(* What each word instruction computes; args[1] is the top of the stack. *)
Evm(opcode, args) ==
    LET a == args[1]
        b == args[2]
        m == args[3]
    IN  CASE opcode = "ADD" -> Wrap(a + b)
          [] opcode = "MUL" -> MulMod(a, b, Base)
          [] opcode = "SUB" -> Wrap(a - b)
          [] opcode = "DIV" -> IF b = 0 THEN 0 ELSE a \div b
          [] opcode = "SDIV" -> IF b = 0 THEN 0 ELSE Wrap(Quotient(Signed(a), Signed(b)))
          [] opcode = "MOD" -> IF b = 0 THEN 0 ELSE a % b
          [] opcode = "SMOD" ->
                IF b = 0 THEN 0
                ELSE Wrap(Signed(a) - Signed(b) * Quotient(Signed(a), Signed(b)))
          [] opcode = "ADDMOD" -> IF m = 0 THEN 0 ELSE (a + b) % m
          [] opcode = "MULMOD" -> IF m = 0 THEN 0 ELSE MulMod(a, b, m)
          [] opcode = "EXP" -> Power(a, b)
          [] opcode = "SIGNEXTEND" -> IF a >= WordBytes THEN b ELSE Wrap(LowSigned(a, b))
          [] opcode = "LT" -> IF a < b THEN 1 ELSE 0
          [] opcode = "GT" -> IF a > b THEN 1 ELSE 0
          [] opcode = "SLT" -> IF Signed(a) < Signed(b) THEN 1 ELSE 0
          [] opcode = "SGT" -> IF Signed(a) > Signed(b) THEN 1 ELSE 0
          [] opcode = "EQ" -> IF a = b THEN 1 ELSE 0
          [] opcode = "ISZERO" -> IF a = 0 THEN 1 ELSE 0
          [] opcode = "AND" -> FromBits(LAMBDA i: Bit(a, i) * Bit(b, i))
          [] opcode = "OR" -> FromBits(LAMBDA i: IF Bit(a, i) + Bit(b, i) = 0 THEN 0 ELSE 1)
          [] opcode = "XOR" -> FromBits(LAMBDA i: (Bit(a, i) + Bit(b, i)) % 2)
          [] opcode = "NOT" -> Base - 1 - a
          [] opcode = "BYTE" ->
                IF a >= WordBytes THEN 0 ELSE (b \div ByteBase^(WordBytes - 1 - a)) % ByteBase
          [] opcode = "SHL" ->
                FromBits(LAMBDA i: IF i >= a THEN Bit(b, i - a) ELSE 0)
          [] opcode = "SHR" ->
                FromBits(LAMBDA i: IF i + a < Bits THEN Bit(b, i + a) ELSE 0)
          [] opcode = "SAR" ->
                FromBits(LAMBDA i: Bit(b, IF i + a < Bits THEN i + a ELSE Bits - 1))
          [] opcode = "CLZ" -> Cardinality({i \in 0 .. Bits - 1 : a < 2^i})

OneArgument == {"ISZERO", "NOT", "CLZ"}
ThreeArguments == {"ADDMOD", "MULMOD"}
TwoArguments == {"ADD", "MUL", "SUB", "DIV", "SDIV", "MOD", "SMOD", "EXP", "SIGNEXTEND",
                 "LT", "GT", "SLT", "SGT", "EQ", "AND", "OR", "XOR", "BYTE", "SHL", "SHR", "SAR"}
WordOpcodes == OneArgument \union TwoArguments \union ThreeArguments
Arity(opcode) == IF opcode \in OneArgument THEN 1 ELSE IF opcode \in TwoArguments THEN 2 ELSE 3
=============================================================================
