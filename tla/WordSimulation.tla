--------------------------- MODULE WordSimulation ---------------------------
(***************************************************************************)
(* What the generators write into a case as the expected word: their own   *)
(* Python arithmetic on unbounded integers, masked to a word.  The         *)
(* literals 255, 256, 31 and 32 of the source are Bits - 1, Bits,          *)
(* WordBytes - 1 and WordBytes here.                                       *)
(***************************************************************************)
EXTENDS Words

(* to_signed and from_signed (_to_signed, _to_unsigned) of the sources. *)
ToSigned(v) == IF v < 2^(Bits - 1) THEN v ELSE v - Base
FromSigned(v) == IF v >= 0 THEN v ELSE v + Base

(* abs(a) // abs(b) or abs(a) % abs(b), negated when negative says so. *)
SignedResult(res, negative) == FromSigned(IF negative /\ res # 0 THEN -res ELSE res) % Base

SimulateSmod(args) ==
    LET a == ToSigned(args[1])
        b == ToSigned(args[2])
    IN  IF b = 0 THEN 0 ELSE SignedResult(Magnitude(a) % Magnitude(b), a < 0)

SimulateSdiv(args) ==
    LET a == ToSigned(args[1])
        b == ToSigned(args[2])
    IN  IF b = 0 THEN 0
        ELSE SignedResult(Magnitude(a) \div Magnitude(b), (a < 0) # (b < 0))

(* val | ~mask, with mask the size + 1 low bytes: the bits above the mask  *)
(* are all set; val & mask: they are all clear.                            *)
SimulateSignExtend(size, val) ==
    IF size > WordBytes - 1 THEN val
    ELSE LET mask == ByteBase^(size + 1)
         IN  IF Bit(val, size * ByteBits + ByteBits - 1) = 1
             THEN Base - mask + (val % mask)
             ELSE val % mask

SimulateMath(opcode, args) ==
    CASE opcode = "ADD" -> (args[1] + args[2]) % Base
      [] opcode = "MUL" -> MulMod(args[1], args[2], Base)
      [] opcode = "SUB" -> (args[1] - args[2]) % Base
      [] opcode = "DIV" -> IF args[2] = 0 THEN 0 ELSE args[1] \div args[2]
      [] opcode = "SDIV" -> SimulateSdiv(args)
      [] opcode = "MOD" -> IF args[2] = 0 THEN 0 ELSE args[1] % args[2]
      [] opcode = "SMOD" -> SimulateSmod(args)
      [] opcode = "EXP" -> Power(args[1], args[2])
      [] opcode = "SIGNEXTEND" -> SimulateSignExtend(args[1], args[2])
      [] opcode = "ADDMOD" -> IF args[3] = 0 THEN 0 ELSE (args[1] + args[2]) % args[3]
      [] opcode = "MULMOD" -> IF args[3] = 0 THEN 0 ELSE MulMod(args[1], args[2], args[3])

SimulateComparison(opcode, args) ==
    LET truth == CASE opcode = "LT" -> args[1] < args[2]
                   [] opcode = "GT" -> args[1] > args[2]
                   [] opcode = "SLT" -> ToSigned(args[1]) < ToSigned(args[2])
                   [] opcode = "SGT" -> ToSigned(args[1]) > ToSigned(args[2])
                   [] opcode = "EQ" -> args[1] = args[2]
                   [] opcode = "ISZERO" -> args[1] = 0
    IN  IF truth THEN 1 ELSE 0

(* int.bit_length *)
BitLength(v) == CHOOSE n \in 0 .. Bits : v < 2^n /\ (n = 0 \/ v >= 2^(n - 1))

(* An arithmetic right shift: a negative value is shifted as a signed      *)
(* Python integer, which rounds down.                                      *)
SimulateSar(shift, val) ==
    LET negative == val >= 2^(Bits - 1)
    IN  IF shift >= Bits THEN (IF negative THEN Base - 1 ELSE 0)
        ELSE IF negative THEN ((val - Base) \div 2^shift) + Base
        ELSE val \div 2^shift

(* val << shift: the bits that leave the word are dropped by the mask. *)
ShiftLeftMod(value, shift) == (value % 2^(Bits - shift)) * 2^shift

SimulateBitwise(opcode, args) ==
    CASE opcode = "AND" -> FromBits(LAMBDA i: IF Bit(args[1], i) = 1 THEN Bit(args[2], i) ELSE 0)
      [] opcode = "OR" -> FromBits(LAMBDA i: IF Bit(args[1], i) = 1 THEN 1 ELSE Bit(args[2], i))
      [] opcode = "XOR" -> FromBits(LAMBDA i: IF Bit(args[1], i) = Bit(args[2], i) THEN 0 ELSE 1)
      [] opcode = "NOT" -> (-args[1] - 1) % Base
      [] opcode = "BYTE" ->
            IF args[1] >= WordBytes THEN 0
            ELSE (args[2] \div 2^((WordBytes - 1 - args[1]) * ByteBits)) % ByteBase
      [] opcode = "SHL" -> IF args[1] >= Bits THEN 0 ELSE ShiftLeftMod(args[2], args[1])
      [] opcode = "SHR" -> IF args[1] >= Bits THEN 0 ELSE args[2] \div 2^args[1]
      [] opcode = "SAR" -> SimulateSar(args[1], args[2])
      [] opcode = "CLZ" -> IF args[1] = 0 THEN Bits ELSE Bits - BitLength(args[1])

ArithmeticOpcodes == {"ADD", "MUL", "SUB", "DIV", "SDIV", "MOD", "SMOD", "ADDMOD", "MULMOD",
                      "EXP", "SIGNEXTEND"}
ComparisonOpcodes == {"LT", "GT", "SLT", "SGT", "EQ", "ISZERO"}
BitwiseOpcodes == {"AND", "OR", "XOR", "NOT", "BYTE", "SHL", "SHR", "SAR", "CLZ"}

Simulate(opcode, args) ==
    CASE opcode \in ArithmeticOpcodes -> SimulateMath(opcode, args)
      [] opcode \in ComparisonOpcodes -> SimulateComparison(opcode, args)
      [] opcode \in BitwiseOpcodes -> SimulateBitwise(opcode, args)
=============================================================================
