----------------------------- MODULE Conversions -----------------------------
(***************************************************************************)
(* Conversions, select, and the parts of a struct in registers.  Nothing   *)
(* but the type tells how many bits of a holder count: a byte loaded from  *)
(* memory has zeros above them, a constant its sign, and the result of an  *)
(* addition whatever was carried.  `bits` of an instruction are those of   *)
(* its operand, `s` those of its result.                                   *)
(***************************************************************************)
EXTENDS Arithmetic

Converts(op, ws, from, to, constants) ==
  /\ Executes(op, FALSE, from, ws, <<>>, to)
  /\ cited' = constants
  /\ UNCHANGED passed

Singles == {<<w>> : w \in Operands}

(* Trunc to a word keeps the low word, to a narrower type the remainder.   *)
TruncToWord ==
  Waiting /\ \E a \in Doubles :
    /\ Converts("trunc", a, 2 * Bits, Bits, {})
    /\ dest' = <<a[1]>>

TruncNarrow ==
  Waiting /\ \E a \in Singles \cup Doubles, to \in NarrowBits :
    /\ Converts("trunc", a, Bits * Len(a), to, {2 ^ to})
    /\ dest' = <<ModConst(a[1], 2 ^ to)>>

BitCast ==
  Waiting /\ \E a \in Singles :
    /\ Converts("bitcast", a, Bits, Bits, {})
    /\ dest' = a

-----------------------------------------------------------------------------
(* SExt: the upper half of what is below m stands for negative numbers.    *)
(* Mutant: but for the first number of that half.                          *)
SignExtendAbove(w, m) ==
  LET low == ModConst(w, m)
  IN IF low \in m \div 2 + 1 .. m - 1 THEN Add(low, -m) ELSE low

SignExtend(w, m) ==
  LET low == ModConst(w, m)
  IN IF low \in m \div 2 .. m - 1 THEN Add(low, -m) ELSE low

SignWord(w) == IF w <= -1 THEN -1 ELSE 0

SExtFlag ==
  Waiting /\ \E a \in {0, 1} :
    /\ Converts("sext", <<a>>, 1, Bits, {})
    /\ dest' = <<IF a = 1 THEN -1 ELSE 0>>

SExtToWord ==
  Waiting /\ \E a \in Operands, bytes \in {1, 2} :
    /\ Converts("sext", <<a>>, bytes * ByteBits, Bits, {Byte ^ bytes})
    /\ dest' = <<SignExtend(a, Byte ^ bytes)>>

SExtTo64 ==
  Waiting /\ \E a \in Operands :
    \/ /\ Converts("sext", <<a>>, Bits, 2 * Bits, {})
       /\ dest' = <<a, SignWord(a)>>
    \/ /\ Converts("sext", <<a>>, ByteBits, 2 * Bits, {Byte})
       /\ dest' = <<SignExtend(a, Byte), SignWord(SignExtend(a, Byte))>>

(* ZExt of one word, to one or two; of an i48; and of <4 x i1>, a byte     *)
(* each, to <4 x i32>.                                                     *)
ZExtNarrow ==
  Waiting /\ \E a \in Operands, from \in NarrowBits, to \in {Bits, 2 * Bits} :
    /\ Converts("zext", <<a>>, from, to, {2 ^ from})
    /\ dest' = <<ModConst(a, 2 ^ from)>> \o (IF to > Bits THEN <<0>> ELSE <<>>)

ZExtWord ==
  Waiting /\ \E a \in Operands :
    /\ Converts("zext", <<a>>, Bits, 2 * Bits, {})
    /\ dest' = <<a, 0>>

ZExt48 ==
  Waiting /\ \E a \in Doubles :
    /\ Converts("zext", a, 6 * ByteBits, 2 * Bits, {Half})
    /\ dest' = <<a[1], ModConst(a[2], Half)>>

DivideByByte(w, n) ==
  LET q[i \in 0 .. n] == IF i = 0 THEN w ELSE Over(q[i - 1], Byte) IN q[n]

FlagsWord(flags) ==
  flags[1] + flags[2] * Byte + flags[3] * Byte ^ 2 + flags[4] * Byte ^ 3

ZExtFlags ==
  Waiting /\ \E flags \in [1 .. 4 -> {0, 1}] :
    /\ Converts("zext.flags", <<FlagsWord(flags)>>, 1, Bits, {2, Byte})
    /\ dest' = [i \in 1 .. 4 |-> ModConst(DivideByByte(FlagsWord(flags), i - 1), 2)]

(* Select: word by word, by a condition that is 1 or not.                  *)
Select ==
  Waiting /\ \E cond \in {0, 1}, a, b \in Operands :
    \E as \in {<<a>>, <<a, b>>} :
      LET bs == IF Len(as) = 1 THEN <<b>> ELSE <<b, a>>
      IN /\ Executes("select", FALSE, Bits, as, bs, cond)
         /\ dest' = IF cond = 1 THEN as ELSE bs
         /\ cited' = {}
         /\ UNCHANGED passed

-----------------------------------------------------------------------------
(* Structs in registers: words, the first at the lowest address.           *)

(* zero_low_bytes, by a shift to the right and multiplications; what is    *)
(* left of a word without these, truncate_to.  Mutant: one byte too many.  *)
ZeroLowBytesMore(w, n) == Times(Lshr(w, (n + 1) * ByteBits), Byte ^ n)

ZeroLowBytes(w, n) == Times(Lshr(w, n * ByteBits), Byte ^ n)

TruncateTo(w, n) == Wrap(w - ZeroLowBytes(w, n))

ExtractWord ==
  Waiting /\ \E a \in Doubles, i \in {1, 2} :
    /\ Converts("extract", a, Bits, i, {})
    /\ dest' = <<a[i]>>

(* The byte at an offset is cut out of what the destination held before,   *)
(* `old`: "FIXME: THIS DOES NOT WORK".                                     *)
ExtractByte ==
  Waiting /\ \E a \in Doubles, offset \in 0 .. 4, old \in {0, -1} :
    /\ Converts("extract.byte", a, ByteBits, offset, {Byte})
    /\ dest' = <<TruncateTo(DivideByByte(old, offset), 1)>>

InsertWord ==
  Waiting /\ \E a \in Doubles, e \in Operands, i \in {1, 2} :
    /\ Executes("insert", FALSE, Bits, a, <<e>>, i)
    /\ dest' = [a EXCEPT ![i] = e]
    /\ cited' = {} /\ UNCHANGED passed

(* A byte goes into the first byte of a word, or is the last part of a     *)
(* struct and takes a word.  The holder is added as it is.  The assertion  *)
(* before says that the word is no byte yet.                               *)
InsertByte(op, a, e, i, into) ==
  /\ Executes(op, FALSE, ByteBits, a, <<e>>, i)
  /\ dest' = [a EXCEPT ![i] = Add(into, e)]
  /\ passed' = (a[i] \notin 0 .. Byte - 1)
  /\ cited' = {Byte}

InsertFirstByte ==
  Waiting /\ \E a \in Singles, e \in Operands :
    InsertByte("insert.byte", a, e, 1, ZeroLowBytes(a[1], 1))

InsertLastByte ==
  Waiting /\ \E a \in Doubles, e \in Operands :
    InsertByte("insert.last", a, e, 2, TruncateTo(a[2], 0))

NextConversion ==
  \/ TruncToWord \/ TruncNarrow \/ BitCast
  \/ SExtFlag \/ SExtToWord \/ SExtTo64
  \/ ZExtNarrow \/ ZExtWord \/ ZExt48 \/ ZExtFlags
  \/ Select
  \/ ExtractWord \/ ExtractByte \/ InsertWord \/ InsertFirstByte \/ InsertLastByte

-----------------------------------------------------------------------------
(* Properties.                                                             *)

(* The operand as LLVM sees it: its low bits, with or without a sign.      *)
OfBits(bits) == Unsigned(instr.a) % 2 ^ bits

WidthsRight ==
  /\ instr.op = "trunc" => Unsigned(dest) = OfBits(instr.s)
  /\ instr.op = "bitcast" => dest = instr.a
  /\ instr.op = "zext" => Unsigned(dest) = OfBits(instr.bits)
  /\ instr.op = "sext" => Number(dest) = Signed(OfBits(instr.bits), instr.bits)
  /\ instr.op = "zext.flags" => \A i \in 1 .. 4 : dest[i] = ByteOf(instr.a[1], i - 1)

PartsRight ==
  /\ instr.op = "select" => dest = IF instr.s = 1 THEN instr.a ELSE instr.b
  /\ instr.op = "extract" => dest = <<instr.a[instr.s]>>
  /\ instr.op \in {"insert", "insert.last"} =>
       dest[instr.s] = instr.b[1] /\ dest[3 - instr.s] = instr.a[3 - instr.s]
  /\ instr.op = "insert.byte" =>
       /\ ByteOf(dest[1], 0) = ByteOf(instr.b[1], 0)
       /\ Clean(instr.b[1], ByteBits) =>
            \A i \in 1 .. 3 : ByteOf(dest[1], i) = ByteOf(instr.a[1], i)

(* Whatever a holder has above the bits of its type, a conversion gives    *)
(* the number that LLVM means, with no rest of them in the result.  A part *)
(* put into a struct of registers is the part that was meant, and changes  *)
(* no other part unless it is a byte whose holder has more than the byte.  *)
ConversionsRight == WidthsRight /\ PartsRight
=============================================================================
