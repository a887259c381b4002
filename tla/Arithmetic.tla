----------------------------- MODULE Arithmetic -----------------------------
(***************************************************************************)
(* Arithmetic and comparisons.  Scores are signed and wrap; carries,       *)
(* unsigned comparisons and values of two words are made of signed         *)
(* comparisons of single words.                                            *)
(***************************************************************************)
EXTENDS WordInstructions

Flag(b) == IF b THEN 1 ELSE 0

(* Mutant: the carry of two negative words is decided by their sum.        *)
CarryBySum(a, b) == (a < 0 \/ b < 0) /\ Add(a, b) >= 0

(* The three conditions of add_32_with_carry.                              *)
Carry(a, b) ==
  \/ a < 0 /\ b < 0
  \/ a < 0 /\ b >= 0 /\ Add(a, b) >= 0
  \/ a >= 0 /\ b < 0 /\ Add(a, b) >= 0

(* Mutant: the high word does not wrap.                                    *)
Add64Unwrapped(a, b) == <<Add(a[1], b[1]), a[2] + b[2] + Flag(Carry(a[1], b[1]))>>

(* add_64_bit.                                                             *)
Add64(a, b) == <<Add(a[1], b[1]), Add(Add(a[2], b[2]), Flag(Carry(a[1], b[1])))>>

(* invert: one more, negated.                                              *)
Invert(w) == TimesConst(Add(w, 1), -1)

(* Both words inverted, plus the double word of %%1 and %%0.               *)
Negate64(b) ==
  LET low == Invert(b[1])
  IN <<PlusConst(low, 1), Add(PlusConst(Invert(b[2]), 0), Flag(Carry(low, 1)))>>

(* Mutant: the carry out of the middle of the product is lost.             *)
MulTwoWordsNoCarry(a, b) ==
  LET lowA == Mod(a, Half)  highA == Lshr(a, Bits \div 2)
      lowB == Mod(b, Half)  highB == Lshr(b, Bits \div 2)
      low  == Times(lowB, lowA)
      mid1 == Add(Lshr(low, Bits \div 2), Times(lowB, highA))
      mid2 == Add(Mod(mid1, Half), Times(highB, lowA))
  IN <<Add(Times(mid2, Half), Mod(low, Half)),
       Add(Lshr(mid1, Bits \div 2), Times(highB, highA))>>

(* intrinsic:mul_32_to_64, by half-words; names are those of its comments  *)
(* and temporaries: low is %7, mid1 %12, mid2 %17.  The last or joins two  *)
(* numbers without a common bit.                                           *)
MulTwoWords(a, b) ==
  LET lowA == Mod(a, Half)  highA == Lshr(a, Bits \div 2)
      lowB == Mod(b, Half)  highB == Lshr(b, Bits \div 2)
      low  == Times(lowB, lowA)
      mid1 == Add(Lshr(low, Bits \div 2), Times(lowB, highA))
      mid2 == Add(Mod(mid1, Half), Times(highB, lowA))
      ones == {<<TRUE, TRUE>>, <<TRUE, FALSE>>, <<FALSE, TRUE>>}
  IN <<Bitwise(ones, Times(mid2, Half), Mod(low, Half)),
       Add(Add(Lshr(mid1, Bits \div 2), Times(highB, highA)), Lshr(mid2, Bits \div 2))>>

(* mul_64_bit; mul_32_to_64 puts back the parameters it is given.          *)
Mul64(a, b) ==
  LET p == MulTwoWords(a[1], b[1])
  IN <<p[1], Add(Add(p[2], Times(a[1], b[2])), Times(b[1], a[2]))>>

(* Mutant: words are compared as they are.                                 *)
UnsignedLessSigned(a, b) == a < b

(* The three checks of compile_unsigned_cmp.                               *)
UnsignedLess(a, b) ==
  \/ a >= 0 /\ b >= 0 /\ a < b
  \/ a < 0 /\ b < 0 /\ a < b
  \/ a >= 0 /\ b < 0

(* compile_normal_icmp.  The unsigned relations other than less are made   *)
(* by inverting its flag and by an additional check for equality.          *)
Compare(pred, a, b) ==
  CASE pred = "sge" -> a >= b
    [] pred = "sgt" -> a > b
    [] pred = "slt" -> a < b
    [] pred = "sle" -> a <= b
    [] pred = "eq"  -> a = b
    [] pred = "ne"  -> ~ (a = b)
    [] pred = "ult" -> UnsignedLess(a, b)
    [] pred = "ule" -> UnsignedLess(a, b) \/ a = b
    [] pred = "uge" -> ~ UnsignedLess(a, b)
    [] pred = "ugt" -> ~ (UnsignedLess(a, b) \/ a = b)

(* An i64 with one of the four predicates that are compiled.               *)
Compare64(pred, a, b) ==
  CASE pred = "eq" -> a[1] = b[1] /\ a[2] = b[2]
    [] pred = "ne" -> ~ (a[1] = b[1] /\ a[2] = b[2])
    [] pred \in {"ugt", "ult"} ->
         \/ Compare(pred, a[2], b[2])
         \/ a[2] = b[2] /\ Compare(pred, a[1], b[1])

(* Any other type of two words, an i48: the high words decide, and are     *)
(* overruled by the low words where they are equal.                        *)
Compare48(pred, a, b) ==
  IF a[2] = b[2] THEN Compare(pred, a[1], b[1]) ELSE Compare(pred, a[2], b[2])

-----------------------------------------------------------------------------
(* The instructions.                                                       *)

Operates(op, a, b, constants) ==
  /\ Executes(op, FALSE, Bits * Len(a), a, b, 0)
  /\ cited' = constants

(* The types narrower than a word that have a word of their own.           *)
NarrowBits == {1, ByteBits, 2 * ByteBits, 3 * ByteBits}

(* add, sub and mul of a word, sdiv and srem.  The divisions that LLVM does*)
(* not define, by zero and of the least word by -1, are left out; and the  *)
(* interpreter does not say what `%=` by a negative score is.              *)
AddWord ==
  Waiting /\ \E a, b \in Operands :
    /\ Operates("add", <<a>>, <<b>>, {})
    /\ dest' = <<Add(a, b)>>
    /\ UNCHANGED passed

SubWord ==
  Waiting /\ \E a, b \in Operands :
    /\ Operates("sub", <<a>>, <<b>>, {})
    /\ dest' = <<Wrap(a - b)>>
    /\ UNCHANGED passed

MulWord ==
  Waiting /\ \E a, b \in Operands :
    /\ Operates("mul", <<a>>, <<b>>, {})
    /\ dest' = <<Times(a, b)>>
    /\ UNCHANGED passed

SDiv ==
  Waiting /\ \E a, b \in Operands :
    /\ b # 0 /\ ~ (a = -HighBit /\ b = -1)
    /\ Operates("sdiv", <<a>>, <<b>>, {})
    /\ dest' = <<Over(a, b)>>
    /\ UNCHANGED passed

SRem ==
  Waiting /\ \E a, b \in Operands :
    /\ b > 0
    /\ Operates("srem", <<a>>, <<b>>, {})
    /\ dest' = <<Mod(a, b)>>
    /\ UNCHANGED passed

(* udiv and urem assert that neither operand is negative and divide signed.*)
UDiv ==
  Waiting /\ \E a, b \in Operands :
    /\ b # 0 /\ ~ (a = -HighBit /\ b = -1)
    /\ Operates("udiv", <<a>>, <<b>>, {})
    /\ dest' = <<Over(a, b)>>
    /\ passed' = (a >= 0 /\ b >= 0)

URem ==
  Waiting /\ \E a, b \in Operands :
    /\ b > 0
    /\ Operates("urem", <<a>>, <<b>>, {})
    /\ dest' = <<Mod(a, b)>>
    /\ passed' = (a >= 0 /\ b >= 0)

Doubles == Operands \X Operands

Add64Words ==
  Waiting /\ \E a, b \in Doubles :
    /\ Operates("add", a, b, {})
    /\ dest' = Add64(a, b)
    /\ UNCHANGED passed

Sub64Words ==
  Waiting /\ \E a, b \in Doubles :
    /\ Operates("sub", a, b, {-1, 0, 1})
    /\ dest' = Add64(a, Negate64(b))
    /\ UNCHANGED passed

Mul64Words ==
  Waiting /\ \E a, b \in Doubles :
    /\ Operates("mul", a, b, {Half, -1})
    /\ dest' = Mul64(a, b)
    /\ UNCHANGED passed

Predicates == {"sge", "sgt", "slt", "sle", "eq", "ne", "ult", "ule", "uge", "ugt"}

Compares(pred, bits, a, b) ==
  /\ Executes(pred, FALSE, bits, a, b, 0)
  /\ cited' = {}
  /\ UNCHANGED passed

(* Holders of one word are compared as they are, of whatever type.         *)
ICmp ==
  Waiting /\ \E a, b \in Operands, pred \in Predicates, bits \in NarrowBits \cup {Bits} :
    /\ Compares(pred, bits, <<a>>, <<b>>)
    /\ dest' = <<Flag(Compare(pred, a, b))>>

ICmp64 ==
  Waiting /\ \E a, b \in Doubles, pred \in {"eq", "ne", "ugt", "ult"} :
    /\ Compares(pred, 2 * Bits, a, b)
    /\ dest' = <<Flag(Compare64(pred, a, b))>>

(* The high words of i48s are half-words.                                  *)
ICmp48 ==
  Waiting /\ \E a, b \in Doubles, pred \in Predicates :
    /\ a[2] \in 0 .. Half - 1 /\ b[2] \in 0 .. Half - 1
    /\ Compares(pred, 6 * ByteBits, a, b)
    /\ dest' = <<Flag(Compare48(pred, a, b))>>

(* llvm.usub.with.overflow.i32: the value and, as the flag, the carry of   *)
(* the addition of the negated subtrahend.                                 *)
USubOverflow ==
  Waiting /\ \E a, b \in Operands :
    LET neg == TimesConst(b, -1) IN
    /\ Operates("usub.with.overflow", <<a>>, <<b>>, {-1})
    /\ dest' = <<Add(a, neg), Flag(Carry(a, neg))>>
    /\ UNCHANGED passed

(* llvm.uadd.with.overflow.i8: value and flag are two bytes of one word,   *)
(* here taken apart.  The operands are whatever their holders have.        *)
UAddByte ==
  Waiting /\ \E a, b \in Operands :
    /\ Operates("uadd.byte", <<a>>, <<b>>, {})
    /\ dest' = <<ByteOf(Add(a, b), 0), ByteOf(Add(a, b), 1)>>
    /\ UNCHANGED passed

(* llvm.usub.with.overflow.i8: the minuend plus 256 less the subtrahend.   *)
USubByte ==
  Waiting /\ \E a, b \in Operands :
    LET sum == Add(a, Add(TimesConst(b, -1), Byte)) IN
    /\ Operates("usub.byte", <<a>>, <<b>>, {-1})
    /\ dest' = <<ByteOf(sum, 0), ByteOf(sum, 1)>>
    /\ UNCHANGED passed

NextArithmetic ==
  \/ AddWord \/ SubWord \/ MulWord \/ SDiv \/ SRem \/ UDiv \/ URem
  \/ Add64Words \/ Sub64Words \/ Mul64Words
  \/ ICmp \/ ICmp64 \/ ICmp48
  \/ USubOverflow \/ UAddByte \/ USubByte

-----------------------------------------------------------------------------
(* Properties.                                                             *)

UA == Unsigned(instr.a)
UB == Unsigned(instr.b)

(* Sums and differences of one and of two words are right modulo 2^32 and  *)
(* 2^64: the carry passes from word to word, and again in the negation of  *)
(* what is subtracted, though no condition sees an unsigned number.  So are*)
(* the values of the overflow intrinsics, on whatever stands above a byte, *)
(* and the flag of an addition of two clean bytes, the second of the sum.  *)
SumsRight ==
  LET modulus == 2 ^ (Bits * Len(dest)) IN
  /\ instr.op = "add" => Unsigned(dest) = (UA + UB) % modulus
  /\ instr.op = "sub" => Unsigned(dest) = (UA - UB) % modulus
  /\ instr.op = "usub.with.overflow" => dest[1] % 2 ^ Bits = (UA - UB) % 2 ^ Bits
  /\ instr.op = "usub.byte" => dest[1] = (UA - UB) % Byte
  /\ instr.op = "uadd.byte" =>
       /\ dest[1] = (UA + UB) % Byte
       /\ Clean(instr.a[1], ByteBits) /\ Clean(instr.b[1], ByteBits) =>
            dest[2] = Flag(UA + UB >= Byte)

(* Products of half-words with their carries make up a product of words,   *)
(* and these a product of double words.                                    *)
ProductsRight ==
  instr.op = "mul" =>
    Unsigned(dest) = (Number(instr.a) * Number(instr.b)) % 2 ^ (Bits * Len(dest))

(* sdiv rounds towards zero; srem is right for a dividend that is not      *)
(* negative, udiv and urem where they pass their assertions.               *)
DivisionsRight ==
  /\ instr.op = "sdiv" =>
       LET a == instr.a[1]  b == instr.b[1]  rest == a - b * dest[1]
       IN \/ rest = 0
          \/ (rest < 0) = (a < 0) /\ rest * rest < b * b
  /\ instr.op = "srem" /\ instr.a[1] >= 0 => dest[1] = UA % UB
  /\ instr.op = "udiv" /\ passed => dest[1] = UA \div UB
  /\ instr.op = "urem" /\ passed => dest[1] = UA % UB

(* Sums, products and quotients of one and of two words are those of the  *)
(* numbers: what the three parts say.                                      *)
ArithmeticRight == SumsRight /\ ProductsRight /\ DivisionsRight

(* The operands as LLVM compares them.                                     *)
LowA == UA % 2 ^ instr.bits
LowB == UB % 2 ^ instr.bits

(* A loaded 255 and a constant -1 are the same i8 in different holders.    *)
HeldAlike ==
  Len(instr.a) = 1 =>
    \/ Clean(instr.a[1], instr.bits) /\ Clean(instr.b[1], instr.bits)
    \/ SignExtended(instr.a[1], instr.bits) /\ SignExtended(instr.b[1], instr.bits)

(* The high word of an i48 is never negative, and its low word is compared *)
(* with a sign.                                                            *)
SignsHeld ==
  IF Len(instr.a) = 1
  THEN SignExtended(instr.a[1], instr.bits) /\ SignExtended(instr.b[1], instr.bits)
  ELSE /\ (instr.a[2] < Half \div 2) = (instr.b[2] < Half \div 2)
       /\ \/ instr.a[2] # instr.b[2]
          \/ (instr.a[1] < 0) = (instr.b[1] < 0)

Tells(pred, x, y) ==
  CASE pred = "eq" -> x = y
    [] pred = "ne" -> x # y
    [] pred \in {"slt", "ult"} -> x < y
    [] pred \in {"sle", "ule"} -> x <= y
    [] pred \in {"sge", "uge"} -> x >= y
    [] pred \in {"sgt", "ugt"} -> x > y

(* A comparison tells what it compares, from a bit to two words: equality  *)
(* and the unsigned ones, made of signs, wherever both operands are held   *)
(* alike; the signed ones where the holders have the signs.                *)
ComparisonsRight ==
  instr.op \in Predicates =>
    IF instr.op \in {"slt", "sle", "sge", "sgt"}
    THEN SignsHeld => dest[1] = Flag(Tells(instr.op, Signed(LowA, instr.bits),
                                                     Signed(LowB, instr.bits)))
    ELSE HeldAlike => dest[1] = Flag(Tells(instr.op, LowA, LowB))
=============================================================================
