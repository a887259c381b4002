--------------------------- MODULE WordOpsProofs ----------------------------
(***************************************************************************)
(* For words of any length, every arithmetic instruction, comparison,      *)
(* shift, bitwise instruction, conversion and vector instruction computes  *)
(* what it means, reads no constant that is not set, and makes words only: *)
(* what Spec keeps to, for every value of ByteBits and Operands. The       *)
(* provers do not know powers: the laws of `^` are a hypothesis, Powers of *)
(* JukeboxProofs. What that module says of jukeboxes, and its constants,   *)
(* play no part here; what it says of Lshr, Over and Bitwise does.         *)
(***************************************************************************)
EXTENDS WordOps, JukeboxProofs

(* 2 ^ (Bits - 1) is positive and half of 2 ^ Bits.                        *)
PowersOfTwo == HighBit \in Nat \ {0} /\ 2 ^ Bits = 2 * HighBit

(* The unsigned value of a word.                                           *)
U(w) == w % (2 * HighBit)

-----------------------------------------------------------------------------
(* The remainder of what is at most one modulus away.                      *)

LEMMA ModSmall ==
  ASSUME NEW n \in Int, NEW m \in Nat \ {0}, 0 <= n, n < m
  PROVE  n % m = n
  BY Z3

LEMMA ModAbove ==
  ASSUME NEW n \in Int, NEW m \in Nat \ {0}, m <= n, n < 2 * m
  PROVE  n % m = n - m
  BY Z3

LEMMA ModBelow ==
  ASSUME NEW n \in Int, NEW m \in Nat \ {0}, -m <= n, n < 0
  PROVE  n % m = n + m
  BY Z3

(* A sum of two words is wrapped at most once.                             *)
LEMMA SumWraps ==
  ASSUME HighBit \in Nat \ {0}, NEW a \in Word, NEW b \in Word
  PROVE  /\ Add(a, b) \in Word
         /\ a + b \in Word => Add(a, b) = a + b
         /\ a + b >= HighBit => Add(a, b) = a + b - 2 * HighBit
         /\ a + b < -HighBit => Add(a, b) = a + b + 2 * HighBit
<1> DEFINE m == 2 * HighBit
           n == a + b + HighBit
<1>1. m \in Nat \ {0} /\ n \in Int /\ a \in Int /\ b \in Int
  BY DEF Word
<1>2. Add(a, b) = (n % m) - HighBit
  BY DEF Add, Wrap
<1>3. CASE a + b \in Word
  <2>1. 0 <= n /\ n < m
    BY <1>3, <1>1 DEF Word
  <2>2. n % m = n
    BY <2>1, <1>1, ModSmall
  <2> QED
    BY <2>2, <1>2, <1>3, <1>1 DEF Word
<1>4. CASE a + b >= HighBit
  <2>1. m <= n /\ n < 2 * m
    BY <1>4, <1>1 DEF Word
  <2>2. n % m = n - m
    BY <2>1, <1>1, ModAbove
  <2> QED
    BY <2>2, <1>2, <1>4, <1>1 DEF Word
<1>5. CASE a + b < -HighBit
  <2>1. -m <= n /\ n < 0
    BY <1>5, <1>1 DEF Word
  <2>2. n % m = n + m
    BY <2>1, <1>1, ModBelow
  <2> QED
    BY <2>2, <1>2, <1>5, <1>1 DEF Word
<1>6. a + b \in Word \/ a + b >= HighBit \/ a + b < -HighBit
  BY <1>1 DEF Word
<1> QED
  BY <1>3, <1>4, <1>5, <1>6

LEMMA UnsignedWord ==
  ASSUME HighBit \in Nat \ {0}, NEW a \in Word
  PROVE  /\ a >= 0 => U(a) = a
         /\ a < 0 => U(a) = a + 2 * HighBit
         /\ U(a) \in 0 .. 2 * HighBit - 1
<1> DEFINE m == 2 * HighBit
<1>1. m \in Nat \ {0} /\ a \in Int /\ -m <= a /\ a < m
  BY DEF Word
<1>2. a >= 0 => a % m = a
  BY <1>1, ModSmall
<1>3. a < 0 => a % m = a + m
  BY <1>1, ModBelow
<1> QED
  BY <1>1, <1>2, <1>3 DEF U, Word

(* add_32_with_carry, compile_ir.rs: whatever the signs, its conditions    *)
(* hold exactly when the unsigned sum leaves a word, and the sum and the   *)
(* carry together are the unsigned sum.                                    *)
THEOREM CarryTells ==
  ASSUME HighBit \in Nat \ {0}, NEW a \in Word, NEW b \in Word
  PROVE  /\ Carry(a, b) <=> U(a) + U(b) >= 2 * HighBit
         /\ U(Add(a, b)) + 2 * HighBit * Flag(Carry(a, b)) = U(a) + U(b)
<1> DEFINE H == HighBit
           sum == Add(a, b)
<1>1. /\ H \in Nat \ {0}
      /\ a \in Int /\ -H <= a /\ a < H
      /\ b \in Int /\ -H <= b /\ b < H
  BY DEF Word
<1>2. /\ sum \in Int /\ -H <= sum /\ sum < H
      /\ -H <= a + b /\ a + b < H => sum = a + b
      /\ a + b >= H => sum = a + b - 2 * H
      /\ a + b < -H => sum = a + b + 2 * H
  BY SumWraps, <1>1 DEF Word
<1>3. /\ U(a) = IF a >= 0 THEN a ELSE a + 2 * H
      /\ U(b) = IF b >= 0 THEN b ELSE b + 2 * H
      /\ U(sum) = IF sum >= 0 THEN sum ELSE sum + 2 * H
  <2>1. sum \in Word
    BY SumWraps
  <2> QED
    BY <2>1, <1>1, <1>2, UnsignedWord
<1> HIDE DEF H, sum
<1>4. Carry(a, b) <=> \/ a < 0 /\ b < 0
                      \/ a < 0 /\ b >= 0 /\ sum >= 0
                      \/ a >= 0 /\ b < 0 /\ sum >= 0
  BY DEF Carry, sum
<1>5. Carry(a, b) <=> U(a) + U(b) >= 2 * H
  BY <1>1, <1>2, <1>3, <1>4
<1>6. Carry(a, b) => U(sum) + 2 * H = U(a) + U(b)
  BY <1>1, <1>2, <1>3, <1>4
<1>7. ~ Carry(a, b) => U(sum) = U(a) + U(b)
  BY <1>1, <1>2, <1>3, <1>4
<1>8. U(sum) + 2 * H * Flag(Carry(a, b)) = U(a) + U(b)
  <2>1. U(sum) \in Int
    BY <1>1, <1>2, <1>3
  <2>2. CASE Carry(a, b)
    BY <2>1, <2>2, <1>1, <1>6 DEF Flag
  <2>3. CASE ~ Carry(a, b)
    BY <2>1, <2>3, <1>1, <1>7 DEF Flag
  <2> QED
    BY <2>2, <2>3
<1> QED
  BY <1>5, <1>8 DEF H, sum

-----------------------------------------------------------------------------
(* The three checks of compile_unsigned_cmp are the unsigned order.        *)
LEMMA UnsignedLessTells ==
  ASSUME HighBit \in Nat \ {0}, NEW a \in Word, NEW b \in Word
  PROVE  /\ UnsignedLess(a, b) <=> U(a) < U(b)
         /\ a = b <=> U(a) = U(b)
<1>1. /\ U(a) = IF a >= 0 THEN a ELSE a + 2 * HighBit
      /\ U(b) = IF b >= 0 THEN b ELSE b + 2 * HighBit
  BY UnsignedWord DEF Word
<1> QED
  BY <1>1 DEF UnsignedLess, Word

(* The numbers of two digits are ordered by the high one first.            *)
LEMMA TwoDigits ==
  ASSUME NEW m \in Nat \ {0},
         NEW l1 \in 0 .. m - 1, NEW h1 \in Nat,
         NEW l2 \in 0 .. m - 1, NEW h2 \in Nat
  PROVE  /\ l1 + m * h1 < l2 + m * h2 <=> (h1 < h2 \/ (h1 = h2 /\ l1 < l2))
         /\ l1 + m * h1 = l2 + m * h2 <=> (h1 = h2 /\ l1 = l2)
<1>1. ASSUME NEW x \in Nat, NEW y \in Nat, x < y
      PROVE  m * x + m <= m * y
  <2>1. m * (x + 1) <= m * y
    BY <1>1, Z3
  <2> QED
    BY <2>1, Z3
<1>2. m * h1 \in Int /\ m * h2 \in Int
  BY Z3
<1>3. CASE h1 = h2
  BY <1>2, <1>3
<1>4. CASE h1 < h2
  BY <1>1, <1>2, <1>4
<1>5. CASE h2 < h1
  BY <1>1, <1>2, <1>5
<1> QED
  BY <1>3, <1>4, <1>5

LEMMA OneWord ==
  ASSUME PowersOfTwo, NEW a \in Word
  PROVE  Unsigned(<<a>>) = U(a) /\ U(a) \in 0 .. 2 * HighBit - 1
<1>1. U(a) \in 0 .. 2 * HighBit - 1
  BY UnsignedWord DEF PowersOfTwo
<1>2. Unsigned(<<a>>) = U(a) + 0
  BY DEF Unsigned, U, PowersOfTwo
<1> QED
  BY <1>1, <1>2 DEF PowersOfTwo

LEMMA TwoWords ==
  ASSUME PowersOfTwo, NEW a \in Word \X Word
  PROVE  /\ Unsigned(a) = U(a[1]) + 2 * HighBit * U(a[2])
         /\ U(a[1]) \in 0 .. 2 * HighBit - 1
         /\ U(a[2]) \in 0 .. 2 * HighBit - 1
<1>1. a[1] \in Word /\ a[2] \in Word /\ Len(a) = 2
  OBVIOUS
<1>2. /\ U(a[1]) \in 0 .. 2 * HighBit - 1
      /\ U(a[2]) \in 0 .. 2 * HighBit - 1
  BY <1>1, UnsignedWord DEF PowersOfTwo
<1>3. Unsigned(a) = U(a[1]) + 2 * HighBit * U(a[2])
  BY <1>1 DEF Unsigned, U, PowersOfTwo
<1> QED
  BY <1>2, <1>3

-----------------------------------------------------------------------------
(* Every relation that compile_normal_icmp makes of the three checks.      *)
LEMMA CompareTells ==
  ASSUME HighBit \in Nat \ {0}, NEW a \in Word, NEW b \in Word
  PROVE  /\ Compare("eq", a, b)  <=> U(a) = U(b)
         /\ Compare("ne", a, b)  <=> U(a) # U(b)
         /\ Compare("ult", a, b) <=> U(a) < U(b)
         /\ Compare("ule", a, b) <=> U(a) <= U(b)
         /\ Compare("uge", a, b) <=> U(a) >= U(b)
         /\ Compare("ugt", a, b) <=> U(a) > U(b)
         /\ Compare("slt", a, b) <=> a < b
         /\ Compare("sge", a, b) <=> ~ (a < b)
         /\ Compare("sgt", a, b) <=> a > b
         /\ Compare("sle", a, b) <=> ~ (a > b)
<1>1. U(a) \in Int /\ U(b) \in Int /\ a \in Int /\ b \in Int
  BY UnsignedWord DEF Word
<1>2. /\ UnsignedLess(a, b) <=> U(a) < U(b)
      /\ a = b <=> U(a) = U(b)
  BY UnsignedLessTells
<1>3. /\ Compare("eq", a, b)  <=> a = b
      /\ Compare("ne", a, b)  <=> ~ (a = b)
      /\ Compare("ult", a, b) <=> UnsignedLess(a, b)
      /\ Compare("ule", a, b) <=> UnsignedLess(a, b) \/ a = b
      /\ Compare("uge", a, b) <=> ~ UnsignedLess(a, b)
      /\ Compare("ugt", a, b) <=> ~ (UnsignedLess(a, b) \/ a = b)
      /\ Compare("slt", a, b) <=> a < b
      /\ Compare("sge", a, b) <=> a >= b
      /\ Compare("sgt", a, b) <=> a > b
      /\ Compare("sle", a, b) <=> a <= b
  BY DEF Compare
<1> QED
  BY <1>1, <1>2, <1>3

-----------------------------------------------------------------------------
(* The instructions by their names: a property of one kind says nothing of *)
(* the others.                                                             *)
ShiftOps == {"shl", "lshr", "ashr", "fshr", "ctlz", "and", "or", "xor"}
SumOps == {"add", "sub", "mul", "sdiv", "srem", "udiv", "urem",
           "usub.with.overflow", "uadd.byte", "usub.byte"}
ConversionOps == {"trunc", "bitcast", "sext", "zext", "zext.flags", "select", "extract",
                  "extract.byte", "insert", "insert.byte", "insert.last"}
LaneOps == {"v.add", "v.sub", "v.mul", "v.and", "v.or", "v.xor",
            "v.eq", "v.ne", "v.ult", "v.ule", "v.uge", "v.ugt"}
VectorOps == LaneOps \union {"shuffle", "extract.element", "extract.flag", "insert.element"}

LEMMA SumOpsOnly ==
  ASSUME \/ AddWord \/ SubWord \/ MulWord \/ SDiv \/ SRem \/ UDiv \/ URem
         \/ Add64Words \/ Sub64Words \/ Mul64Words
         \/ USubOverflow \/ UAddByte \/ USubByte
  PROVE  \E op \in SumOps : \E const, bits, a, b, s : Executes(op, const, bits, a, b, s)
<1>1. \E op \in SumOps : \E a, b, cs : Operates(op, a, b, cs)
  BY Zenon DEF AddWord, SubWord, MulWord, SDiv, SRem, UDiv, URem, Add64Words,
     Sub64Words, Mul64Words, USubOverflow, UAddByte, USubByte, SumOps
<1> QED
  BY <1>1, Zenon DEF Operates

LEMMA PredicatesOnly ==
  ASSUME ICmp \/ ICmp64 \/ ICmp48
  PROVE  \E op \in Predicates : \E const, bits, a, b, s : Executes(op, const, bits, a, b, s)
<1>1. \E op \in Predicates : \E bits, a, b : Compares(op, bits, a, b)
  BY Zenon DEF ICmp, ICmp64, ICmp48, Predicates
<1> QED
  BY <1>1, Zenon DEF Compares

LEMMA ShiftOpsOnly ==
  ASSUME NextShift
  PROVE  \E op \in ShiftOps : \E const, bits, a, b, s : Executes(op, const, bits, a, b, s)
<1>1. CASE \/ ShlVariable \/ ShlConst \/ Shl64Variable \/ Shl64ConstNear
           \/ Shl64ConstFar \/ Shl48
  BY <1>1, Zenon DEF ShiftOps, ShlVariable, ShlConst, Shl64Variable, Shl64ConstNear,
     Shl64ConstFar, Shl48
<1>2. CASE \/ LshrVariable \/ Lshr64Variable \/ Lshr64ConstNear \/ Lshr64ConstFar
           \/ AshrVariable
  BY <1>2, Zenon DEF ShiftOps, LshrVariable, Lshr64Variable, Lshr64ConstNear, Lshr64ConstFar,
     AshrVariable
<1>3. CASE FunnelShift \/ CountZeros \/ BitwiseWord \/ BitwiseFlag
  BY <1>3, Zenon DEF ShiftOps, FunnelShift, CountZeros, BitwiseWord, BitwiseFlag
<1> QED
  BY <1>1, <1>2, <1>3 DEF NextShift

LEMMA ConversionOpsOnly ==
  ASSUME NextConversion
  PROVE  \E op \in ConversionOps : \E const, bits, a, b, s : Executes(op, const, bits, a, b, s)
<1>1. CASE \/ TruncToWord \/ TruncNarrow \/ BitCast
           \/ SExtFlag \/ SExtToWord \/ SExtTo64
  BY <1>1, Zenon DEF ConversionOps, TruncToWord, TruncNarrow, BitCast, SExtFlag, SExtToWord,
     SExtTo64, Converts
<1>2. CASE ZExtNarrow \/ ZExtWord \/ ZExt48 \/ ZExtFlags \/ Select
  BY <1>2, Zenon DEF ConversionOps, ZExtNarrow, ZExtWord, ZExt48, ZExtFlags, Select, Converts
<1>3. CASE \/ ExtractWord \/ ExtractByte
           \/ InsertWord \/ InsertFirstByte \/ InsertLastByte
  BY <1>3, Zenon DEF ConversionOps, ExtractWord, ExtractByte, InsertWord, InsertFirstByte,
     InsertLastByte, InsertByte, Converts
<1> QED
  BY <1>1, <1>2, <1>3 DEF NextConversion

LEMMA VectorOpsOnly ==
  ASSUME NextVector
  PROVE  \E op \in VectorOps : \E const, bits, a, b, s : Executes(op, const, bits, a, b, s)
<1> USE DEF VectorOps, LaneOps
<1>1. CASE ArithmeticLanes
  <2>1. \E op \in {"v.add", "v.sub", "v.mul"} : \E a, b : OnVectors(op, a, b, 0, {})
    BY <1>1, Zenon DEF ArithmeticLanes
  <2> QED
    BY <2>1, Zenon DEF OnVectors
<1>2. CASE BitwiseLanes
  <2>1. \E op \in {"v.and", "v.or", "v.xor"} : \E a, b : OnVectors(op, a, b, 0, {})
    BY <1>2, Zenon DEF BitwiseLanes
  <2> QED
    BY <2>1, Zenon DEF OnVectors
<1>3. CASE ICmpLanes
  <2>1. \A pred \in DOMAIN LanePred :
          LanePred[pred] \in {"v.eq", "v.ne", "v.ult", "v.ule", "v.uge", "v.ugt"}
    BY DEF LanePred
  <2>2. \E pred \in DOMAIN LanePred :
          \E const, bits, a, b, s : Executes(LanePred[pred], const, bits, a, b, s)
    BY <1>3, Zenon DEF ICmpLanes, OnVectors
  <2> QED
    BY <2>1, <2>2, Zenon
<1>4. CASE ShuffleWords
  <2>1. \E a, b, s : OnVectors("shuffle", a, b, s, {})
    BY <1>4, SMT DEF ShuffleWords
  <2> QED
    BY <2>1, Zenon DEF OnVectors
<1>5. CASE ExtractElement \/ ExtractFlag \/ InsertElement
  BY <1>5, Zenon DEF ExtractElement, ExtractFlag, InsertElement, OnVectors
<1> QED
  BY <1>1, <1>2, <1>3, <1>4, <1>5, Zenon DEF NextVector

-----------------------------------------------------------------------------
(* Numbers that differ by multiples of m.                                  *)
LEMMA WordSizes ==
  ASSUME Powers
  PROVE  /\ HighBit \in Nat \ {0} /\ Modulus \in Nat \ {0} /\ Modulus = 2 * HighBit
         /\ 2 ^ Bits = Modulus /\ 2 ^ (Bits * 2) = Modulus * Modulus
         /\ Bits \in Nat \ {0} /\ PowersOfTwo
         /\ Half \in Nat \ {0} /\ Half * Half = Modulus /\ 2 * Half <= HighBit
         /\ Byte \in Nat \ {0} /\ 2 <= Byte /\ Half = Byte * Byte /\ 2 * Byte <= Half
<1>1. /\ Byte \in Nat \ {0} /\ 2 <= Byte /\ Half = Byte * Byte
      /\ Bits \in Nat \ {0} /\ HighBit \in Nat \ {0}
      /\ Modulus = Byte * Byte * Byte * Byte /\ 2 ^ Bits = Modulus
  BY ByteSize, BytePlace
<1>2. Modulus = 2 * HighBit
  BY DEF Modulus
<1>3. 2 ^ (Bits * 2) = Modulus * Modulus
  <2>1. 2 ^ (Bits + Bits) = 2 ^ Bits * 2 ^ Bits
    <3>1. PICK two \in Nat \ {0} : two = 2
      OBVIOUS
    <3>2. two ^ (Bits + Bits) = two ^ Bits * two ^ Bits
      BY <1>1, PowerSum
    <3> QED
      BY <3>1, <3>2
  <2>2. Bits + Bits = Bits * 2
    BY <1>1
  <2> QED
    BY <1>1, <2>1, <2>2
<1>4. Half \in Nat \ {0} /\ 2 * Byte <= Half
  BY <1>1
<1>5. Half * Half = Modulus
  BY <1>1
<1>6. 2 * Half <= HighBit
  <2>1. 4 <= Half
    BY <1>1, <1>4
  <2>2. 4 * Half <= Half * Half
    BY <1>4, <2>1
  <2> QED
    BY <1>1, <1>2, <1>4, <1>5, <2>2
<1> QED
  BY <1>1, <1>2, <1>3, <1>4, <1>5, <1>6 DEF PowersOfTwo

Congruent(x, y, m) == \E k \in Int : x = y + k * m

LEMMA SameRest ==
  ASSUME NEW x \in Int, NEW y \in Int, NEW m \in Nat \ {0}, Congruent(x, y, m)
  PROVE  x % m = y % m
<1>1. PICK k \in Int : x = y + k * m
  BY DEF Congruent
<1>2. (y + k * m) % m = y % m
  BY Shifted
<1> QED
  BY <1>1, <1>2

LEMMA RestIsCongruent ==
  ASSUME NEW x \in Int, NEW m \in Nat \ {0}
  PROVE  /\ (x % m) \in 0 .. m - 1
         /\ Congruent(x % m, x, m) /\ Congruent(x, x % m, m) /\ Congruent(x, x, m)
<1> DEFINE q == x \div m
           r == x % m
<1>1. x = q * m + r /\ q \in Int /\ r \in 0 .. m - 1
  BY DivIs
<1> HIDE DEF q, r
<1>2. -q \in Int /\ 0 \in Int
  BY <1>1
<1>3. r = x + (-q) * m /\ x = r + q * m /\ x = x + 0 * m
  BY <1>1
<1>4. Congruent(r, x, m) /\ Congruent(x, r, m) /\ Congruent(x, x, m)
  BY <1>1, <1>2, <1>3 DEF Congruent
<1> QED
  BY <1>1, <1>4 DEF r

LEMMA RestIs ==
  ASSUME NEW x \in Int, NEW m \in Nat \ {0}, NEW r \in 0 .. m - 1, Congruent(x, r, m)
  PROVE  x % m = r
<1>1. r \in Int /\ x % m = r % m
  BY SameRest
<1>2. r % m = r
  BY ModSmall
<1> QED
  BY <1>1, <1>2

LEMMA CongruentBack ==
  ASSUME NEW x \in Int, NEW y \in Int, NEW m \in Nat \ {0}, Congruent(x, y, m)
  PROVE  Congruent(y, x, m)
<1>1. PICK k \in Int : x = y + k * m
  BY DEF Congruent
<1>2. -k \in Int /\ y = x + (-k) * m
  BY <1>1
<1> QED
  BY <1>2 DEF Congruent

LEMMA CongruentOn ==
  ASSUME NEW x \in Int, NEW y \in Int, NEW z \in Int, NEW m \in Nat \ {0},
         Congruent(x, y, m), Congruent(y, z, m)
  PROVE  Congruent(x, z, m)
<1>1. PICK k \in Int : x = y + k * m
  BY DEF Congruent
<1>2. PICK j \in Int : y = z + j * m
  BY DEF Congruent
<1>3. j + k \in Int /\ x = z + (j + k) * m
  BY <1>1, <1>2
<1> QED
  BY <1>3 DEF Congruent

LEMMA CongruentSums ==
  ASSUME NEW a \in Int, NEW x \in Int, NEW b \in Int, NEW y \in Int, NEW m \in Nat \ {0},
         Congruent(a, x, m), Congruent(b, y, m)
  PROVE  /\ Congruent(a + b, x + y, m)
         /\ Congruent(a - b, x - y, m)
         /\ Congruent(a * b, x * y, m)
<1>1. PICK j \in Int : a = x + j * m
  BY DEF Congruent
<1>2. PICK k \in Int : b = y + k * m
  BY DEF Congruent
<1>3. j + k \in Int /\ a + b = (x + y) + (j + k) * m
  BY <1>1, <1>2
<1>4. j - k \in Int /\ a - b = (x - y) + (j - k) * m
  BY <1>1, <1>2
<1>5. j * y + x * k + j * k * m \in Int /\ a * b = (x * y) + (j * y + x * k + j * k * m) * m
  BY <1>1, <1>2
<1> QED
  BY <1>3, <1>4, <1>5 DEF Congruent

-----------------------------------------------------------------------------
(* Words and their unsigned values.                                        *)
LEMMA UnsignedOf ==
  ASSUME Powers, NEW w \in Word
  PROVE  /\ w \in Int /\ U(w) \in 0 .. Modulus - 1 /\ U(w) \in Int
         /\ Congruent(U(w), w, Modulus) /\ Congruent(w, U(w), Modulus)
<1>1. w \in Int /\ Modulus \in Nat \ {0} /\ U(w) = w % Modulus
  BY WordSizes DEF Word, U
<1> QED
  BY <1>1, RestIsCongruent

LEMMA WrapCongruent ==
  ASSUME Powers, NEW n \in Int
  PROVE  /\ Wrap(n) \in Word /\ Wrap(n) \in Int
         /\ Congruent(Wrap(n), n, Modulus)
         /\ U(Wrap(n)) = n % Modulus
         /\ U(Wrap(n)) \in 0 .. Modulus - 1 /\ U(Wrap(n)) \in Int
         /\ Congruent(U(Wrap(n)), n, Modulus)
<1>1. Wrap(n) \in Word /\ Wrap(n) \in Int /\ Modulus \in Nat \ {0}
  BY WrapFacts, WordSizes
<1>2. PICK k \in Int : n = k * Modulus + Wrap(n)
  BY WrapFacts
<1>3. Congruent(n, Wrap(n), Modulus)
  <2>1. n = Wrap(n) + k * Modulus
    BY <1>1, <1>2
  <2> QED
    BY <2>1 DEF Congruent
<1>4. Congruent(Wrap(n), n, Modulus)
  BY <1>1, <1>3, CongruentBack
<1>5. U(Wrap(n)) = n % Modulus
  BY UpperBytes DEF U, Modulus
<1> QED
  BY <1>1, <1>4, <1>5, RestIsCongruent

(* What a word has to be congruent to for its unsigned value to be r.      *)
LEMMA UnsignedIs ==
  ASSUME Powers, NEW n \in Int, NEW r \in 0 .. Modulus - 1, Congruent(n, r, Modulus)
  PROVE  U(Wrap(n)) = r
<1>1. Modulus \in Nat \ {0}
  BY WordSizes
<1> QED
  BY <1>1, RestIs, WrapCongruent

(* Sums, differences and products of words, unsigned.                      *)
LEMMA UnsignedSums ==
  ASSUME Powers, NEW a \in Word, NEW b \in Word
  PROVE  /\ U(Add(a, b)) = (U(a) + U(b)) % Modulus
         /\ U(Wrap(a - b)) = (U(a) - U(b)) % Modulus
         /\ U(Times(a, b)) = (a * b) % Modulus
         /\ U(Times(a, b)) = (U(a) * U(b)) % Modulus
<1>1. /\ Modulus \in Nat \ {0} /\ a \in Int /\ b \in Int /\ U(a) \in Int /\ U(b) \in Int
      /\ Congruent(a, U(a), Modulus) /\ Congruent(b, U(b), Modulus)
  BY WordSizes, UnsignedOf
<1>2. /\ a + b \in Int /\ a - b \in Int /\ a * b \in Int
      /\ U(a) + U(b) \in Int /\ U(a) - U(b) \in Int /\ U(a) * U(b) \in Int
  BY <1>1
<1>3. /\ Congruent(a + b, U(a) + U(b), Modulus)
      /\ Congruent(a - b, U(a) - U(b), Modulus)
      /\ Congruent(a * b, U(a) * U(b), Modulus)
  BY <1>1, CongruentSums
<1>4. /\ (a + b) % Modulus = (U(a) + U(b)) % Modulus
      /\ (a - b) % Modulus = (U(a) - U(b)) % Modulus
      /\ (a * b) % Modulus = (U(a) * U(b)) % Modulus
  BY <1>1, <1>2, <1>3, SameRest
<1> QED
  BY <1>2, <1>4, WrapCongruent DEF Add, Times

-----------------------------------------------------------------------------
(* Values of two words.                                                    *)
LEMMA UnsignedDouble ==
  ASSUME Powers, NEW lo \in Word, NEW hi \in Word
  PROVE  /\ Unsigned(<<lo, hi>>) = U(lo) + Modulus * U(hi)
         /\ Unsigned(<<lo, hi>>) \in 0 .. Modulus * Modulus - 1
         /\ U(lo) \in 0 .. Modulus - 1 /\ U(hi) \in 0 .. Modulus - 1
<1> DEFINE d == <<lo, hi>>
<1>1. PowersOfTwo /\ Modulus \in Nat \ {0} /\ Modulus = 2 * HighBit
  BY WordSizes
<1>2. d \in Word \X Word /\ d[1] = lo /\ d[2] = hi
  OBVIOUS
<1> HIDE DEF d
<1>3. /\ Unsigned(d) = U(lo) + Modulus * U(hi)
      /\ U(lo) \in 0 .. Modulus - 1 /\ U(hi) \in 0 .. Modulus - 1
  BY <1>1, <1>2, TwoWords
<1>4. ASSUME NEW x \in 0 .. Modulus - 1, NEW y \in 0 .. Modulus - 1
      PROVE  x + Modulus * y \in 0 .. Modulus * Modulus - 1
  <2>1. Modulus * (y + 1) <= Modulus * Modulus /\ Modulus * (y + 1) = Modulus * y + Modulus
    BY <1>1
  <2>2. Modulus * y \in Nat
    BY <1>1
  <2> QED
    BY <1>1, <2>1, <2>2
<1>5. Unsigned(d) \in 0 .. Modulus * Modulus - 1
  BY <1>3, <1>4
<1> QED
  BY <1>3, <1>5 DEF d

(* The high word counts up to multiples of 2^32.                           *)
LEMMA DoubleIs ==
  ASSUME Powers, NEW lo \in Word, NEW hi \in Word, NEW h \in Int, NEW n \in Int,
         Congruent(hi, h, Modulus), Congruent(U(lo) + Modulus * h, n, Modulus * Modulus)
  PROVE  Unsigned(<<lo, hi>>) = n % (Modulus * Modulus)
<1> DEFINE m == Modulus
           v == Unsigned(<<lo, hi>>)
<1>1. /\ m \in Nat \ {0} /\ m * m \in Nat \ {0}
      /\ v = U(lo) + m * U(hi) /\ v \in 0 .. m * m - 1
      /\ U(lo) \in Int /\ U(hi) \in Int /\ hi \in Int
  BY WordSizes, UnsignedDouble, UnsignedOf
<1>2. Congruent(U(hi), h, m)
  BY <1>1, UnsignedOf, CongruentOn
<1> HIDE DEF v, m
<1>3. PICK k \in Int : U(hi) = h + k * m
  BY <1>2 DEF Congruent
<1>4. v = (U(lo) + m * h) + k * (m * m) /\ U(lo) + m * h \in Int
  BY <1>1, <1>3
<1>5. Congruent(v, U(lo) + m * h, m * m)
  BY <1>4 DEF Congruent
<1>6. v \in Int /\ Congruent(v, n, m * m)
  BY <1>1, <1>4, <1>5, CongruentOn DEF m
<1>7. Congruent(n, v, m * m)
  BY <1>1, <1>6, CongruentBack
<1>8. n % (m * m) = v
  BY <1>1, <1>7, RestIs
<1> QED
  BY <1>8 DEF v, m

LEMMA DoubleParts ==
  ASSUME NEW a \in Word \X Word
  PROVE  /\ a[1] \in Word /\ a[2] \in Word /\ Len(a) = 2 /\ a = <<a[1], a[2]>>
  OBVIOUS

LEMMA FlagIs ==
  ASSUME NEW b
  PROVE  Flag(b) \in {0, 1}
  BY DEF Flag

(* add_64_bit.                                                             *)
LEMMA Add64Is ==
  ASSUME Powers, NEW a \in Word \X Word, NEW b \in Word \X Word
  PROVE  /\ Add64(a, b) \in Word \X Word
         /\ Unsigned(Add64(a, b)) = (Unsigned(a) + Unsigned(b)) % (Modulus * Modulus)
<1> DEFINE m  == Modulus
           c  == Flag(Carry(a[1], b[1]))
           lo == Add(a[1], b[1])
           hi == Add(Add(a[2], b[2]), c)
           h  == U(a[2]) + U(b[2]) + c
           n  == Unsigned(a) + Unsigned(b)
<1>1. /\ m \in Nat \ {0} /\ m = 2 * HighBit /\ HighBit \in Nat \ {0}
      /\ a[1] \in Word /\ a[2] \in Word /\ b[1] \in Word /\ b[2] \in Word
      /\ a = <<a[1], a[2]>> /\ b = <<b[1], b[2]>>
  BY WordSizes, DoubleParts
<1>2. /\ U(a[1]) \in Int /\ U(a[2]) \in Int /\ U(b[1]) \in Int /\ U(b[2]) \in Int
      /\ a[1] \in Int /\ a[2] \in Int /\ b[1] \in Int /\ b[2] \in Int
      /\ Congruent(a[2], U(a[2]), m) /\ Congruent(b[2], U(b[2]), m)
  BY <1>1, UnsignedOf
<1>3. c \in {0, 1} /\ c \in Int
  BY FlagIs
<1>4. lo \in Word /\ U(lo) \in Int
  <2>1. lo \in Word
    BY <1>2, WrapCongruent DEF Add
  <2> HIDE DEF lo
  <2> QED
    BY <2>1, UnsignedOf
<1>5. U(lo) + m * c = U(a[1]) + U(b[1])
  BY <1>1, CarryTells
<1> HIDE DEF c
<1>6. hi \in Word /\ Congruent(hi, h, m)
  <2> DEFINE t == a[2] + b[2]
  <2>1. t \in Int
    BY <1>2
  <2>2. hi = Wrap(Wrap(t) + c)
    BY DEF Add
  <2> HIDE DEF t
  <2>3. hi = Wrap(t + c) /\ t + c \in Int
    BY <1>3, <2>1, <2>2, WrapInside
  <2>4. hi \in Word /\ hi \in Int /\ Congruent(hi, t + c, m)
    BY <2>3, WrapCongruent
  <2>5. Congruent(t, U(a[2]) + U(b[2]), m)
    BY <1>1, <1>2, CongruentSums DEF t
  <2>6. Congruent(c, c, m)
    BY <1>1, <1>3, RestIsCongruent
  <2> DEFINE g == U(a[2]) + U(b[2])
  <2>7. g \in Int /\ h = g + c /\ Congruent(t, g, m)
    BY <1>2, <2>5
  <2>8. Congruent(t + c, h, m) /\ h \in Int
    <3> HIDE DEF g, h, m, hi
    <3>1. Congruent(t + c, g + c, m)
      BY <1>1, <1>3, <2>1, <2>6, <2>7, CongruentSums
    <3> QED
      BY <1>3, <2>7, <3>1
  <2> QED
    BY <1>1, <2>3, <2>4, <2>8, CongruentOn
<1>7. Unsigned(a) = U(a[1]) + m * U(a[2]) /\ Unsigned(b) = U(b[1]) + m * U(b[2])
  BY <1>1, UnsignedDouble
<1>8. h \in Int /\ n \in Int /\ U(lo) + m * h = n
  <2> HIDE DEF m, lo
  <2> QED
    BY <1>1, <1>2, <1>3, <1>4, <1>5, <1>7
<1>9. Congruent(U(lo) + m * h, n, m * m)
  <2>1. m * m \in Nat \ {0}
    BY <1>1
  <2> QED
    BY <1>8, <2>1, RestIsCongruent
<1> HIDE DEF h, n, hi, lo
<1>10. Unsigned(<<lo, hi>>) = n % (m * m)
  BY <1>4, <1>6, <1>8, <1>9, DoubleIs
<1>11. Add64(a, b) = <<lo, hi>>
  BY DEF Add64, lo, hi, c
<1> QED
  BY <1>4, <1>6, <1>10, <1>11 DEF n

-----------------------------------------------------------------------------
(* Constants, and the subtraction of two words.                            *)

(* Every constant that is set is -1 or a power of two, and a word.         *)
LEMMA InitialisedAre ==
  ASSUME Powers
  PROVE  /\ -1 \in Initialised /\ 1 \in Initialised /\ 2 \in Initialised
         /\ Byte \in Initialised /\ Half \in Initialised /\ 0 \notin Initialised
         /\ \A i \in 0 .. Bits - 2 : 2 ^ i \in Initialised
         /\ \A i \in 0 .. Bits - 1 : 2 ^ i \in Nat \ {0}
         /\ Initialised \subseteq Word
<1>1. /\ ByteBits \in Nat \ {0} /\ Bits = 4 * ByteBits /\ Bits \in Nat
      /\ 2 ^ 0 = 1 /\ 2 ^ ByteBits = Byte /\ 2 ^ (2 * ByteBits) = Half
      /\ HighBit \in Nat \ {0} /\ HighBit = 2 ^ (Bits - 1)
  BY ByteSize, BytePlace DEF Powers
<1>2. \A i \in 0 .. Bits - 1 : 2 ^ i \in Nat \ {0}
  <2> TAKE i \in 0 .. Bits - 1
  <2>1. i \in Nat
    BY <1>1
  <2> QED
    BY <2>1 DEF Powers
<1>3. 2 ^ 1 = 2
  <2>1. 2 ^ (0 + 1) = 2 * 2 ^ 0
    BY DEF Powers
  <2> QED
    BY <1>1, <2>1
<1>4. \A i \in 0 .. Bits - 2 : 2 ^ i \in Initialised
  BY Zenon DEF Initialised
<1>5. -1 \in Initialised
  BY DEF Initialised
<1>6. 0 \in 0 .. Bits - 2 /\ 1 \in 0 .. Bits - 2 /\ ByteBits \in 0 .. Bits - 2
      /\ 2 * ByteBits \in 0 .. Bits - 2
  BY <1>1
<1>7. 1 \in Initialised /\ 2 \in Initialised /\ Byte \in Initialised /\ Half \in Initialised
  BY <1>1, <1>3, <1>4, <1>6
<1>8. ASSUME NEW n \in Initialised
      PROVE  n \in Word /\ n # 0
  <2>1. CASE n = -1
    BY <1>1, <2>1 DEF Word
  <2>2. ASSUME NEW i \in 0 .. Bits - 2, n = 2 ^ i
        PROVE  n \in Word /\ n # 0
    <3>1. i \in Nat /\ Bits - 1 \in Nat /\ i < Bits - 1 /\ i \in 0 .. Bits - 1
      BY <1>1
    <3>2. PICK e \in Nat \ {0} : 2 ^ (Bits - 1) = (e * 2) * 2 ^ i
      BY <3>1, PowerFarAbove
    <3>3. 2 ^ i \in Nat \ {0}
      BY <1>2, <3>1
    <3> DEFINE p == 2 ^ i
    <3>4. HighBit = (e * 2) * p /\ p \in Nat \ {0}
      BY <1>1, <3>2, <3>3
    <3> HIDE DEF p
    <3>5. p < HighBit
      <4>1. (e * 2) * p = p * (e + e) /\ e + e >= 2
        BY <3>4
      <4>2. p * (e + e) >= p * 2
        BY <3>4, <4>1
      <4> QED
        BY <3>4, <4>1, <4>2
    <3> QED
      BY <1>1, <2>2, <3>4, <3>5 DEF Word, p
  <2> QED
    BY <2>1, <2>2 DEF Initialised
<1> QED
  BY <1>2, <1>4, <1>5, <1>7, <1>8

(* invert.                                                                 *)
LEMMA InvertIs ==
  ASSUME Powers, NEW w \in Word
  PROVE  Invert(w) \in Word /\ U(Invert(w)) = Modulus - 1 - U(w)
<1>1. /\ w \in Int /\ U(w) \in 0 .. Modulus - 1 /\ Congruent(w, U(w), Modulus)
      /\ Modulus \in Nat \ {0}
  BY UnsignedOf, WordSizes
<1>2. Invert(w) = Wrap(Wrap(w + 1) * (-1))
  BY InitialisedAre DEF Invert, TimesConst, Times, Add
<1>3. Wrap(Wrap(w + 1) * (-1)) = Wrap((w + 1) * (-1))
  <2>1. w + 1 \in Int /\ -1 \in Int
    BY <1>1
  <2> QED
    BY <2>1, WrapInside
<1> DEFINE n == -1 - w
           r == Modulus - 1 - U(w)
<1>4. n \in Int /\ r \in 0 .. Modulus - 1 /\ (w + 1) * (-1) = n
  BY <1>1
<1>5. Congruent(n, r, Modulus)
  <2>1. PICK k \in Int : w = U(w) + k * Modulus
    BY <1>1 DEF Congruent
  <2>2. n = r + ((-k) - 1) * Modulus /\ (-k) - 1 \in Int
    BY <1>1, <2>1
  <2> QED
    BY <2>2 DEF Congruent
<1> HIDE DEF n, r
<1>6. Wrap(n) \in Word /\ U(Wrap(n)) = r
  BY <1>4, <1>5, UnsignedIs, WrapCongruent
<1> QED
  BY <1>2, <1>3, <1>4, <1>6 DEF r

LEMMA WordsNearZero ==
  ASSUME Powers
  PROVE  /\ 0 \in Word /\ 1 \in Word /\ -1 \in Word /\ U(0) = 0 /\ U(1) = 1
         /\ \A w \in Word : Add(w, 0) = w
<1>1. /\ HighBit \in Nat \ {0} /\ 2 <= HighBit /\ Modulus = 2 * HighBit
  BY WordSizes
<1>2. 0 \in Word /\ 1 \in Word /\ -1 \in Word
  BY <1>1 DEF Word
<1>3. U(0) = 0 /\ U(1) = 1
  BY <1>1, <1>2, UnsignedWord
<1>4. ASSUME NEW w \in Word PROVE Add(w, 0) = w
  <2>1. w \in Int /\ w + 0 = w
    BY DEF Word
  <2> QED
    BY <2>1, WrapFacts DEF Add
<1> QED
  BY <1>2, <1>3, <1>4

(* The double word of 1 and 0 is added to the inverted words: no constant  *)
(* 0 is set, but nothing is what it adds.                                  *)
LEMMA Negate64Is ==
  ASSUME Powers, NEW b \in Word \X Word
  PROVE  /\ Negate64(b) \in Word \X Word
         /\ Unsigned(Negate64(b)) = (-Unsigned(b)) % (Modulus * Modulus)
<1> DEFINE m  == Modulus
           x  == <<Invert(b[1]), Invert(b[2])>>
           y  == <<1, 0>>
<1>1. /\ m \in Nat \ {0} /\ b[1] \in Word /\ b[2] \in Word /\ b = <<b[1], b[2]>>
  BY WordSizes, DoubleParts
<1>2. /\ Invert(b[1]) \in Word /\ Invert(b[2]) \in Word
      /\ U(Invert(b[1])) = m - 1 - U(b[1]) /\ U(Invert(b[2])) = m - 1 - U(b[2])
  BY <1>1, InvertIs
<1>3. Negate64(b) = Add64(x, y)
  <2>1. PlusConst(Invert(b[1]), 1) = Add(Invert(b[1]), 1)
    BY InitialisedAre DEF PlusConst
  <2>2. PlusConst(Invert(b[2]), 0) = Invert(b[2])
    BY InitialisedAre DEF PlusConst
  <2>3. Invert(b[2]) = Add(Invert(b[2]), 0)
    BY <1>2, WordsNearZero
  <2>4. Negate64(b) = <<Add(Invert(b[1]), 1),
                        Add(Add(Invert(b[2]), 0), Flag(Carry(Invert(b[1]), 1)))>>
    BY <2>1, <2>2, <2>3, Zenon DEF Negate64
  <2>5. x[1] = Invert(b[1]) /\ x[2] = Invert(b[2]) /\ y[1] = 1 /\ y[2] = 0
    OBVIOUS
  <2> HIDE DEF x, y
  <2> QED
    BY <2>4, <2>5, Zenon DEF Add64
<1>4. x \in Word \X Word /\ y \in Word \X Word
  BY <1>2, WordsNearZero
<1>5. Unsigned(b) = U(b[1]) + m * U(b[2]) /\ U(b[1]) \in Int /\ U(b[2]) \in Int
  BY <1>1, UnsignedDouble, UnsignedOf
<1>6. Unsigned(y) = 1
  <2>1. Unsigned(y) = U(1) + m * U(0)
    BY WordsNearZero, UnsignedDouble
  <2>2. U(1) = 1 /\ U(0) = 0
    BY WordsNearZero
  <2> HIDE DEF y, m
  <2> QED
    BY <1>1, <2>1, <2>2
<1>7. Unsigned(x) = m * m - 1 - Unsigned(b) /\ Unsigned(b) \in Int
  <2>1. Unsigned(x) = U(Invert(b[1])) + m * U(Invert(b[2]))
    BY <1>2, UnsignedDouble
  <2>2. Unsigned(x) = (m - 1 - U(b[1])) + m * (m - 1 - U(b[2]))
    BY <1>2, <2>1
  <2> HIDE DEF x, m
  <2> QED
    BY <1>1, <1>5, <2>2
<1> HIDE DEF x, y, m
<1>8. /\ Negate64(b) \in Word \X Word
      /\ Unsigned(Negate64(b)) = (Unsigned(x) + Unsigned(y)) % (m * m)
  BY <1>3, <1>4, Add64Is DEF m
<1>9. (Unsigned(x) + Unsigned(y)) % (m * m) = (-Unsigned(b)) % (m * m)
  <2> DEFINE s == Unsigned(x) + Unsigned(y)
             t == -Unsigned(b)
             mm == m * m
  <2>1. s = t + 1 * mm /\ s \in Int /\ t \in Int /\ 1 \in Int /\ mm \in Nat \ {0}
    BY <1>1, <1>6, <1>7
  <2> HIDE DEF s, t, mm
  <2>2. Congruent(s, t, mm)
    BY <2>1 DEF Congruent
  <2>3. s % mm = t % mm
    BY <2>1, <2>2, SameRest
  <2> QED
    BY <2>3 DEF s, t, mm
<1> QED
  BY <1>8, <1>9 DEF m

(* The subtraction of two words.                                           *)
LEMMA Sub64Is ==
  ASSUME Powers, NEW a \in Word \X Word, NEW b \in Word \X Word
  PROVE  /\ Add64(a, Negate64(b)) \in Word \X Word
         /\ Unsigned(Add64(a, Negate64(b))) = (Unsigned(a) - Unsigned(b)) % (Modulus * Modulus)
<1> DEFINE mm == Modulus * Modulus
           x  == Unsigned(a)
           y  == Unsigned(b)
           z  == Unsigned(Negate64(b))
<1>1. mm \in Nat \ {0}
  BY WordSizes
<1>2. x \in Int /\ y \in Int
  BY DoubleParts, UnsignedDouble
<1>3. Negate64(b) \in Word \X Word /\ z = (-y) % mm
  BY Negate64Is
<1>4. /\ Add64(a, Negate64(b)) \in Word \X Word
      /\ Unsigned(Add64(a, Negate64(b))) = (x + z) % mm
  BY <1>3, Add64Is
<1> HIDE DEF mm, x, y, z
<1>5. (x + z) % mm = (x - y) % mm
  <2> DEFINE ny == -y
  <2>0. ny \in Int
    BY <1>2
  <2>1. z \in Int /\ Congruent(z, ny, mm) /\ Congruent(x, x, mm)
    <3> HIDE DEF ny
    <3>1. z = ny % mm
      BY <1>3 DEF ny
    <3>2. (ny % mm) \in 0 .. mm - 1 /\ Congruent(ny % mm, ny, mm)
      BY <1>1, <2>0, RestIsCongruent
    <3>3. Congruent(x, x, mm)
      BY <1>1, <1>2, RestIsCongruent
    <3> QED
      BY <1>1, <3>1, <3>2, <3>3
  <2>2. Congruent(x + z, x + ny, mm)
    <3> HIDE DEF ny
    <3> QED
      BY <1>1, <1>2, <2>0, <2>1, CongruentSums
  <2>3. x + (-y) = x - y /\ x + z \in Int /\ x - y \in Int
    BY <1>2, <2>1
  <2> QED
    BY <1>1, <2>2, <2>3, SameRest
<1> QED
  BY <1>4, <1>5 DEF x, y, mm

-----------------------------------------------------------------------------
(* Sums and differences, of words and of bytes.                            *)

(* llvm.usub.with.overflow.i32: the value.                                 *)
LEMMA NegatedSum ==
  ASSUME Powers, NEW a \in Word, NEW b \in Word
  PROVE  Add(a, TimesConst(b, -1)) = Wrap(a - b)
<1>1. a \in Int /\ b \in Int /\ -1 \in Int
  BY DEF Word
<1>2. TimesConst(b, -1) = Wrap(b * (-1))
  BY InitialisedAre DEF TimesConst, Times
<1>3. b * (-1) \in Int
  BY <1>1
<1>4. Wrap(a + Wrap(b * (-1))) = Wrap(a + b * (-1))
  BY <1>1, <1>3, WrapInside
<1>5. a + b * (-1) = a - b
  BY <1>1
<1> QED
  BY <1>2, <1>4, <1>5 DEF Add

(* Sums of bytes stay words.                                               *)
LEMMA ByteSums ==
  ASSUME Powers, NEW a \in 0 .. Byte - 1, NEW b \in 0 .. Byte - 1
  PROVE  /\ a \in Word /\ b \in Word /\ U(a) = a /\ U(b) = b
         /\ Add(a, b) = a + b
         /\ ByteOf(Add(a, b), 0) = (a + b) % Byte
         /\ ByteOf(Add(a, b), 1) = Flag(a + b >= Byte)
         /\ ByteOf(Add(a, Add(TimesConst(b, -1), Byte)), 0) = (a - b) % Byte
<1>1. /\ HighBit \in Nat \ {0} /\ Byte \in Nat \ {0} /\ 2 <= Byte
      /\ 2 * Byte <= Half /\ 2 * Half <= HighBit /\ Half \in Nat \ {0}
  BY WordSizes
<1>2. a \in Word /\ b \in Word /\ a \in Int /\ b \in Int /\ 0 <= a /\ 0 <= b
  BY <1>1 DEF Word
<1>3. U(a) = a /\ U(b) = b
  BY <1>1, <1>2, UnsignedWord
<1>4. Add(a, b) = a + b /\ a + b \in Int
  <2>1. a + b \in Word
    BY <1>1, <1>2 DEF Word
  <2> QED
    BY <1>1, <1>2, <2>1, SumWraps
<1>5. /\ ByteOf(a + b, 0) = (a + b) % Byte
      /\ ByteOf(a + b, 1) = ((a + b) \div Byte) % Byte
  BY <1>4, BytesByDivision
<1>6. ((a + b) \div Byte) % Byte = Flag(a + b >= Byte)
  <2>1. CASE a + b >= Byte
    <3> DEFINE r == a + b - Byte
    <3>1. r \in 0 .. Byte - 1 /\ a + b = 1 * Byte + r /\ 1 \in Int
      BY <1>1, <1>2, <2>1
    <3> HIDE DEF r
    <3>2. (1 * Byte + r) \div Byte = 1
      BY <1>1, <3>1, DivUnique
    <3>3. 1 % Byte = 1
      BY <1>1, ModSmall
    <3> QED
      BY <2>1, <3>1, <3>2, <3>3 DEF Flag
  <2>2. CASE ~ (a + b >= Byte)
    <3> DEFINE r == a + b
    <3>1. r \in 0 .. Byte - 1 /\ r = 0 * Byte + r /\ 0 \in Int
      BY <1>1, <1>2, <2>2
    <3>2. (0 * Byte + r) \div Byte = 0
      <4> HIDE DEF r
      <4> QED
        BY <1>1, <3>1, DivUnique
    <3>3. 0 % Byte = 0
      BY <1>1, ModSmall
    <3> QED
      BY <2>2, <3>1, <3>2, <3>3 DEF Flag
  <2> QED
    BY <2>1, <2>2
<1>7. ByteOf(Add(a, Add(TimesConst(b, -1), Byte)), 0) = (a - b) % Byte
  <2> DEFINE s == a - b + Byte
  <2>1. TimesConst(b, -1) = Wrap(b * (-1))
    BY InitialisedAre DEF TimesConst, Times
  <2>2. Add(TimesConst(b, -1), Byte) = Wrap(b * (-1) + Byte)
    <3>1. b * (-1) \in Int /\ Byte \in Int
      BY <1>1, <1>2
    <3>2. Wrap(Wrap(b * (-1)) + Byte) = Wrap(b * (-1) + Byte)
      BY <3>1, WrapInside
    <3> QED
      BY <2>1, <3>2 DEF Add
  <2>3. Add(a, Wrap(b * (-1) + Byte)) = Wrap(s)
    <3>1. b * (-1) + Byte \in Int /\ a + (b * (-1) + Byte) = s
      BY <1>1, <1>2
    <3>2. Wrap(a + Wrap(b * (-1) + Byte)) = Wrap(a + (b * (-1) + Byte))
      BY <1>2, <3>1, WrapInside
    <3> QED
      BY <3>1, <3>2 DEF Add
  <2>4. s \in Word /\ s \in Int /\ s = (a - b) + 1 * Byte /\ a - b \in Int /\ 1 \in Int
    BY <1>1, <1>2 DEF Word
  <2> HIDE DEF s
  <2>5. Wrap(s) = s
    BY <2>4, WrapFacts
  <2>6. ByteOf(s, 0) = s % Byte
    BY <2>4, BytesByDivision
  <2> DEFINE d == a - b
  <2>7. s % Byte = d % Byte
    <3>1. s = d + 1 * Byte /\ d \in Int
      BY <2>4
    <3> HIDE DEF d
    <3>2. Congruent(s, d, Byte)
      BY <2>4, <3>1 DEF Congruent
    <3> QED
      BY <1>1, <2>4, <3>1, <3>2, SameRest
  <2> QED
    BY <2>2, <2>3, <2>5, <2>6, <2>7
<1> QED
  BY <1>2, <1>3, <1>4, <1>5, <1>6, <1>7

(* The first byte of a sum or difference of words, whatever these have     *)
(* above their first bytes.                                                *)
LEMMA FirstBytes ==
  ASSUME Powers, NEW a \in Word, NEW b \in Word
  PROVE  /\ ByteOf(Add(a, b), 0) = (U(a) + U(b)) % Byte
         /\ ByteOf(Add(a, Add(TimesConst(b, -1), Byte)), 0) = (U(a) - U(b)) % Byte
<1>1. /\ Byte \in Nat \ {0} /\ Byte \in Int /\ Modulus \in Int
      /\ Modulus = Byte * Byte * Byte * Byte
      /\ a \in Int /\ b \in Int /\ U(a) \in Int /\ U(b) \in Int
  BY WordSizes, BytePlace, UnsignedOf
<1>2. ASSUME NEW x \in Word PROVE Congruent(x, U(x), Byte)
  <2>1. PICK k \in Int : x = U(x) + k * Modulus
    BY UnsignedOf DEF Congruent
  <2> DEFINE j == k * (Byte * Byte * Byte)
  <2>2. j \in Int /\ j * Byte = k * Modulus
    BY <1>1, <2>1
  <2> HIDE DEF j
  <2> QED
    BY <2>1, <2>2 DEF Congruent
<1>3. ASSUME NEW n \in Int, NEW m \in Int, Congruent(n, m, Byte)
      PROVE  ByteOf(Wrap(n), 0) = m % Byte
  <2>1. ByteOf(Wrap(n), 0) = ByteOf(n, 0)
    BY WrapBytes
  <2> QED
    BY <1>1, <1>3, <2>1, BytesByDivision, SameRest
<1>4. /\ Congruent(a + b, U(a) + U(b), Byte) /\ Congruent(a - b, U(a) - U(b), Byte)
  BY <1>1, <1>2, CongruentSums
<1>5. ByteOf(Add(a, b), 0) = (U(a) + U(b)) % Byte
  <2>1. a + b \in Int /\ U(a) + U(b) \in Int
    BY <1>1
  <2> QED
    BY <1>3, <1>4, <2>1 DEF Add
<1>6. ByteOf(Add(a, Add(TimesConst(b, -1), Byte)), 0) = (U(a) - U(b)) % Byte
  <2> DEFINE d == a - b  s == d + Byte  u == U(a) - U(b)
  <2>1. TimesConst(b, -1) = Wrap(b * (-1))
    BY InitialisedAre DEF TimesConst, Times
  <2>2. /\ b * (-1) \in Int /\ b * (-1) + Byte \in Int /\ a + (b * (-1) + Byte) = s
        /\ d \in Int /\ s \in Int /\ u \in Int
    BY <1>1
  <2>3. Wrap(Wrap(b * (-1)) + Byte) = Wrap(b * (-1) + Byte)
    BY <1>1, <2>2, WrapInside
  <2>4. Wrap(a + Wrap(b * (-1) + Byte)) = Wrap(a + (b * (-1) + Byte))
    BY <1>1, <2>2, WrapInside
  <2>5. Add(a, Add(TimesConst(b, -1), Byte)) = Wrap(s)
    BY <2>1, <2>2, <2>3, <2>4 DEF Add
  <2>6. Congruent(d, u, Byte)
    BY <1>4
  <2> HIDE DEF d, u
  <2>7. Congruent(s, d, Byte)
    <3>1. s = d + 1 * Byte /\ 1 \in Int
      BY <1>1, <2>2
    <3> QED
      BY <3>1 DEF Congruent
  <2> HIDE DEF s
  <2>8. Congruent(s, u, Byte)
    BY <1>1, <2>2, <2>6, <2>7, CongruentOn
  <2>9. ByteOf(Wrap(s), 0) = u % Byte
    BY <1>3, <2>2, <2>8
  <2> QED
    BY <2>5, <2>9 DEF u
<1> QED
  BY <1>5, <1>6

-----------------------------------------------------------------------------
(* What SumsRight asks of an instruction with operands a and b, result d.  *)
Sums(op, a, b, d) ==
  LET modulus == 2 ^ (Bits * Len(d)) IN
  /\ op = "add" => Unsigned(d) = (Unsigned(a) + Unsigned(b)) % modulus
  /\ op = "sub" => Unsigned(d) = (Unsigned(a) - Unsigned(b)) % modulus
  /\ op = "usub.with.overflow" =>
       d[1] % 2 ^ Bits = (Unsigned(a) - Unsigned(b)) % 2 ^ Bits
  /\ op = "usub.byte" => d[1] = (Unsigned(a) - Unsigned(b)) % Byte
  /\ op = "uadd.byte" =>
       /\ d[1] = (Unsigned(a) + Unsigned(b)) % Byte
       /\ Clean(a[1], ByteBits) /\ Clean(b[1], ByteBits) =>
            d[2] = Flag(Unsigned(a) + Unsigned(b) >= Byte)

LEMMA WordSums ==
  ASSUME Powers, NEW a \in Word, NEW b \in Word
  PROVE  /\ Unsigned(<<Add(a, b)>>) = (Unsigned(<<a>>) + Unsigned(<<b>>)) % 2 ^ (Bits * 1)
         /\ Unsigned(<<Wrap(a - b)>>) = (Unsigned(<<a>>) - Unsigned(<<b>>)) % 2 ^ (Bits * 1)
         /\ Add(a, TimesConst(b, -1)) % 2 ^ Bits = (Unsigned(<<a>>) - Unsigned(<<b>>)) % 2 ^ Bits
<1>1. PowersOfTwo /\ 2 ^ Bits = Modulus /\ Bits * 1 = Bits /\ a \in Int /\ b \in Int
  BY WordSizes DEF Word
<1>2. Add(a, b) \in Word /\ Wrap(a - b) \in Word
  BY <1>1, WrapFacts DEF Add
<1>3. /\ Unsigned(<<a>>) = U(a) /\ Unsigned(<<b>>) = U(b)
      /\ Unsigned(<<Add(a, b)>>) = U(Add(a, b))
      /\ Unsigned(<<Wrap(a - b)>>) = U(Wrap(a - b))
  BY <1>1, <1>2, OneWord
<1>4. U(Wrap(a - b)) = Wrap(a - b) % 2 ^ Bits
  BY <1>1 DEF U, Modulus
<1> QED
  BY <1>1, <1>3, <1>4, UnsignedSums, NegatedSum

LEMMA SumSteps ==
  ASSUME Powers
  PROVE  /\ \A a, b \in Word : /\ Sums("add", <<a>>, <<b>>, <<Add(a, b)>>)
                               /\ Sums("sub", <<a>>, <<b>>, <<Wrap(a - b)>>)
                               /\ \A v : Sums("usub.with.overflow", <<a>>, <<b>>,
                                              <<Add(a, TimesConst(b, -1)), v>>)
         /\ \A a, b \in Word \X Word : /\ Sums("add", a, b, Add64(a, b))
                                       /\ Sums("sub", a, b, Add64(a, Negate64(b)))
         /\ \A a, b \in Word :
              /\ Sums("uadd.byte", <<a>>, <<b>>, <<ByteOf(Add(a, b), 0), ByteOf(Add(a, b), 1)>>)
              /\ \A v : Sums("usub.byte", <<a>>, <<b>>,
                             <<ByteOf(Add(a, Add(TimesConst(b, -1), Byte)), 0), v>>)
<1>1. ASSUME NEW a \in Word, NEW b \in Word, NEW v
      PROVE  /\ Sums("add", <<a>>, <<b>>, <<Add(a, b)>>)
             /\ Sums("sub", <<a>>, <<b>>, <<Wrap(a - b)>>)
             /\ Sums("usub.with.overflow", <<a>>, <<b>>, <<Add(a, TimesConst(b, -1)), v>>)
  <2>1. Len(<<Add(a, b)>>) = 1 /\ Len(<<Wrap(a - b)>>) = 1
    OBVIOUS
  <2>2. <<Add(a, TimesConst(b, -1)), v>>[1] = Add(a, TimesConst(b, -1))
    OBVIOUS
  <2> QED
    BY <2>1, <2>2, WordSums DEF Sums
<1>2. ASSUME NEW a \in Word \X Word, NEW b \in Word \X Word
      PROVE  /\ Sums("add", a, b, Add64(a, b)) /\ Sums("sub", a, b, Add64(a, Negate64(b)))
  <2>1. 2 ^ (Bits * 2) = Modulus * Modulus
    BY WordSizes
  <2>2. /\ Len(Add64(a, b)) = 2
        /\ Unsigned(Add64(a, b)) = (Unsigned(a) + Unsigned(b)) % (Modulus * Modulus)
    BY Add64Is, DoubleParts
  <2>3. /\ Len(Add64(a, Negate64(b))) = 2
        /\ Unsigned(Add64(a, Negate64(b))) = (Unsigned(a) - Unsigned(b)) % (Modulus * Modulus)
    BY Sub64Is, DoubleParts
  <2> QED
    BY <2>1, <2>2, <2>3 DEF Sums
<1>3. ASSUME NEW a \in Word, NEW b \in Word, NEW v
      PROVE  /\ Sums("uadd.byte", <<a>>, <<b>>, <<ByteOf(Add(a, b), 0), ByteOf(Add(a, b), 1)>>)
             /\ Sums("usub.byte", <<a>>, <<b>>,
                     <<ByteOf(Add(a, Add(TimesConst(b, -1), Byte)), 0), v>>)
  <2>1. Unsigned(<<a>>) = U(a) /\ Unsigned(<<b>>) = U(b)
    BY WordSizes, OneWord
  <2>2. /\ ByteOf(Add(a, b), 0) = (U(a) + U(b)) % Byte
        /\ ByteOf(Add(a, Add(TimesConst(b, -1), Byte)), 0) = (U(a) - U(b)) % Byte
    BY FirstBytes
  <2>3. Clean(a, ByteBits) /\ Clean(b, ByteBits) =>
          ByteOf(Add(a, b), 1) = Flag(U(a) + U(b) >= Byte)
    <3>1. SUFFICES ASSUME a \in 0 .. Byte - 1, b \in 0 .. Byte - 1
                   PROVE  ByteOf(Add(a, b), 1) = Flag(U(a) + U(b) >= Byte)
      BY BytePlace DEF Clean
    <3>2. U(a) = a /\ U(b) = b /\ ByteOf(Add(a, b), 1) = Flag(a + b >= Byte)
      BY <3>1, ByteSums
    <3> QED
      BY <3>2
  <2> DEFINE x == <<a>>  y == <<b>>
             v0 == ByteOf(Add(a, b), 0)  v1 == ByteOf(Add(a, b), 1)
             z == ByteOf(Add(a, Add(TimesConst(b, -1), Byte)), 0)
             d == <<v0, v1>>  e == <<z, v>>
  <2>4. x[1] = a /\ y[1] = b /\ d[1] = v0 /\ d[2] = v1 /\ e[1] = z
    OBVIOUS
  <2>5. v0 = (Unsigned(x) + Unsigned(y)) % Byte /\ z = (Unsigned(x) - Unsigned(y)) % Byte
    BY <2>1, <2>2
  <2>6. Clean(a, ByteBits) /\ Clean(b, ByteBits) => v1 = Flag(Unsigned(x) + Unsigned(y) >= Byte)
    BY <2>1, <2>3
  <2> HIDE DEF x, y, v0, v1, z, d, e
  <2>7. Sums("uadd.byte", x, y, d) /\ Sums("usub.byte", x, y, e)
    BY <2>4, <2>5, <2>6, Zenon DEF Sums
  <2> QED
    BY <2>7, Zenon DEF x, y, v0, v1, z, d, e
<1> QED
  BY <1>1, <1>2, <1>3

-----------------------------------------------------------------------------
(* Half-words, for the products of two words.                              *)
LEMMA OperationsCongruent ==
  ASSUME Powers, NEW a \in Int, NEW b \in Int, NEW x \in Int, NEW y \in Int,
         Congruent(a, x, Modulus), Congruent(b, y, Modulus)
  PROVE  /\ Add(a, b) \in Word /\ Times(a, b) \in Word
         /\ Add(a, b) \in Int /\ Times(a, b) \in Int
         /\ Congruent(Add(a, b), x + y, Modulus) /\ Congruent(Times(a, b), x * y, Modulus)
<1>1. Modulus \in Nat \ {0}
  BY WordSizes
<1>2. Congruent(a + b, x + y, Modulus) /\ Congruent(a * b, x * y, Modulus)
  BY <1>1, CongruentSums
<1>3. a + b \in Int /\ a * b \in Int /\ x + y \in Int /\ x * y \in Int
  OBVIOUS
<1>4. /\ Wrap(a + b) \in Word /\ Wrap(a + b) \in Int /\ Congruent(Wrap(a + b), a + b, Modulus)
      /\ Wrap(a * b) \in Word /\ Wrap(a * b) \in Int /\ Congruent(Wrap(a * b), a * b, Modulus)
  BY <1>3, WrapCongruent
<1>5. /\ Congruent(Wrap(a + b), x + y, Modulus) /\ Congruent(Wrap(a * b), x * y, Modulus)
  BY <1>1, <1>2, <1>3, <1>4, CongruentOn
<1> QED
  BY <1>4, <1>5 DEF Add, Times

(* A word is congruent to one number that is not negative and below 2^32.  *)
LEMMA UnsignedBy ==
  ASSUME Powers, NEW w \in Word, NEW r \in 0 .. Modulus - 1, Congruent(w, r, Modulus)
  PROVE  U(w) = r
<1>1. Modulus \in Nat \ {0} /\ w \in Int /\ U(w) = w % Modulus
  BY WordSizes, UnsignedOf DEF U
<1> QED
  BY <1>1, RestIs

(* The halves of a word.                                                   *)
LEMMA HalfSize ==
  ASSUME Powers
  PROVE  /\ Bits \div 2 = 2 * ByteBits /\ Bits - Bits \div 2 = 2 * ByteBits
         /\ Bits \div 2 \in 1 .. Bits - 1
         /\ 2 ^ (Bits \div 2) = Half /\ 2 ^ (2 * ByteBits) = Half
<1>1. ByteBits \in Nat \ {0} /\ Bits = 4 * ByteBits /\ 2 ^ (2 * ByteBits) = Half
  BY ByteSize, BytePlace
<1>2. Bits \div 2 = 2 * ByteBits
  BY <1>1
<1> QED
  BY <1>1, <1>2

LEMMA HalvesOf ==
  ASSUME Powers, NEW w \in Word
  PROVE  /\ Lshr(w, Bits \div 2) = U(w) \div Half /\ Mod(w, Half) = U(w) % Half
         /\ U(w) = (U(w) \div Half) * Half + (U(w) % Half)
         /\ U(w) \div Half \in 0 .. Half - 1 /\ (U(w) % Half) \in 0 .. Half - 1
<1>1. /\ Half \in Nat \ {0} /\ Half * Half = Modulus /\ Modulus \in Nat \ {0}
      /\ w \in Int /\ U(w) \in 0 .. Modulus - 1 /\ U(w) = w % Modulus
      /\ Congruent(w, U(w), Modulus)
  BY WordSizes, UnsignedOf DEF U
<1>2. Lshr(w, Bits \div 2) = U(w) \div Half
  BY <1>1, HalfSize, LshrIs
<1>3. w % Half = U(w) % Half
  <2>1. PICK k \in Int : w = U(w) + k * Modulus
    BY <1>1 DEF Congruent
  <2>2. w = U(w) + (k * Half) * Half /\ k * Half \in Int
    <3>1. k * Modulus = (k * Half) * Half
      BY <1>1
    <3> QED
      BY <1>1, <2>1, <3>1
  <2>3. Congruent(w, U(w), Half)
    BY <2>2 DEF Congruent
  <2> QED
    BY <1>1, <2>3, SameRest
<1>4. /\ U(w) = (U(w) \div Half) * Half + (U(w) % Half)
      /\ U(w) \div Half \in Int /\ (U(w) % Half) \in 0 .. Half - 1
  <2> DEFINE x == U(w)
  <2>1. x \in Int
    BY <1>1
  <2> HIDE DEF x
  <2>2. x \div Half \in Int /\ (x % Half) \in 0 .. Half - 1 /\ x = (x \div Half) * Half + (x % Half)
    BY <1>1, <2>1, DivIs
  <2> QED
    BY <2>2 DEF x
<1>5. U(w) \div Half \in 0 .. Half - 1
  BY <1>1, QuotientBelow
<1> QED
  BY <1>2, <1>3, <1>4, <1>5 DEF Mod

(* A quotient by 2^(j + k) is one by 2^k and then by 2^j.                   *)
LEMMA BitAbove ==
  ASSUME Powers, NEW x \in Int, NEW k \in Nat, NEW i \in Nat
  PROVE  Bit(x, k + i) = Bit(x \div 2 ^ k, i)
<1> DEFINE p == 2 ^ k
           q == 2 ^ i
<1>1. p \in Nat \ {0} /\ q \in Nat \ {0}
  BY DEF Powers
<1>2. 2 ^ (k + i) = p * q
  <2>1. PICK two \in Nat \ {0} : two = 2
    OBVIOUS
  <2>2. two ^ (k + i) = two ^ k * two ^ i
    BY PowerSum
  <2> QED
    BY <2>1, <2>2
<1> HIDE DEF p, q
<1>3. x \div (p * q) = (x \div p) \div q
  BY <1>1, DivTwice
<1> QED
  BY <1>2, <1>3 DEF Bit, p, q

LEMMA ZeroBits ==
  ASSUME Powers, NEW j \in Nat
  PROVE  Bit(0, j) = 0
<1>1. 2 ^ j \in Nat \ {0}
  BY DEF Powers
<1> DEFINE p == 2 ^ j
<1>2. 0 \div p = 0
  <2>1. p \in Nat \ {0} /\ 0 \in 0 .. p - 1 /\ 0 = 0 * p + 0 /\ 0 \in Int
    BY <1>1
  <2> HIDE DEF p
  <2>2. PICK z \in Int : z = 0
    OBVIOUS
  <2>3. z \in 0 .. p - 1 /\ z * p + z = z
    BY <2>1, <2>2
  <2>4. (z * p + z) \div p = z
    BY <2>1, <2>3, DivUnique
  <2> QED
    BY <2>2, <2>3, <2>4
<1>3. Bit(0, j) = 0 % 2
  BY <1>2 DEF Bit
<1> QED
  BY <1>3

(* The or that joins two half-words.                                       *)
LEMMA JoinedHalves ==
  ASSUME Powers, NEW w \in Word, NEW g \in 0 .. Half - 1, NEW l \in 0 .. Half - 1,
         U(w) = g * Half
  PROVE  /\ Bitwise({<<TRUE, TRUE>>, <<TRUE, FALSE>>, <<FALSE, TRUE>>}, w, l) \in Word
         /\ U(Bitwise({<<TRUE, TRUE>>, <<TRUE, FALSE>>, <<FALSE, TRUE>>}, w, l)) = g * Half + l
<1> DEFINE ones == {<<TRUE, TRUE>>, <<TRUE, FALSE>>, <<FALSE, TRUE>>}
           h == 2 * ByteBits
           c == g * Half + l
<1>1. /\ Half \in Nat \ {0} /\ Half * Half = Modulus /\ Modulus \in Nat \ {0}
      /\ w \in Int /\ U(w) = w % Modulus /\ h \in Nat /\ 2 ^ h = Half
      /\ 2 * Half <= HighBit /\ HighBit \in Nat \ {0}
  BY WordSizes, UnsignedOf, HalfSize, ByteSize DEF U
<1>2. /\ l \in Int /\ g \in Int /\ g * Half \in Int /\ c \in Int /\ l \in Word
  BY <1>1 DEF Word
<1>3. c \in 0 .. Modulus - 1
  <2>1. (g + 1) * Half <= Half * Half /\ (g + 1) * Half = g * Half + Half /\ 0 <= g * Half
    BY <1>1, <1>2
  <2> QED
    BY <1>1, <1>2, <2>1
<1>4. ASSUME NEW j \in 0 .. Bits - 1
      PROVE  Bit(c, j) = 1 <=> Bit(w, j) = 1 \/ Bit(l, j) = 1
  <2>1. j \in Nat /\ Bits \in Nat
    BY ByteSize
  <2>2. Bit(w, j) = Bit(g * Half, j)
    BY <1>1, WordBits
  <2>3. CASE j < h
    <3>1. Bit(l + g * 2 ^ h, j) = Bit(l, j)
      BY <1>1, <1>2, <2>1, <2>3, HighBits
    <3>2. Bit(0 + g * 2 ^ h, j) = 0
      <4>1. PICK z \in Int : z = 0
        OBVIOUS
      <4>2. Bit(z + g * 2 ^ h, j) = Bit(z, j)
        BY <1>1, <1>2, <2>1, <2>3, HighBits
      <4> QED
        BY <2>1, <4>1, <4>2, ZeroBits
    <3>3. l + g * 2 ^ h = c /\ 0 + g * 2 ^ h = g * Half
      BY <1>1, <1>2
    <3>4. Bit(c, j) = Bit(l, j) /\ Bit(w, j) = 0
      BY <2>2, <3>1, <3>2, <3>3
    <3> QED
      BY <3>4
  <2>4. CASE ~ (j < h)
    <3> DEFINE i == j - h
    <3>1. i \in Nat /\ j = h + i
      BY <1>1, <2>1, <2>4
    <3> HIDE DEF i, h
    <3>2. /\ Bit(c, j) = Bit(c \div Half, i)
          /\ Bit(l, j) = Bit(l \div Half, i)
          /\ Bit(g * Half, j) = Bit((g * Half) \div Half, i)
      <4> HIDE DEF c
      <4>1. ASSUME NEW x \in Int PROVE Bit(x, j) = Bit(x \div Half, i)
        BY <1>1, <3>1, BitAbove
      <4> QED
        BY <1>2, <4>1
    <3>3. c \div Half = g
      BY <1>1, <1>2, DivUnique
    <3>4. l \div Half = 0 /\ (g * Half) \div Half = g
      <4>1. PICK z \in Int : z = 0
        OBVIOUS
      <4>2. z * Half + l = l /\ g * Half + z = g * Half /\ z \in 0 .. Half - 1
        BY <1>1, <1>2, <4>1
      <4>3. (z * Half + l) \div Half = z
        BY <1>1, DivUnique
      <4>4. (g * Half + z) \div Half = g
        BY <1>1, <1>2, <4>2, DivUnique
      <4> QED
        BY <4>1, <4>2, <4>3, <4>4
    <3>5. Bit(l, j) = 0 /\ Bit(c, j) = Bit(w, j)
      BY <2>2, <3>1, <3>2, <3>3, <3>4, ZeroBits
    <3> QED
      BY <3>5
  <2> QED
    BY <2>3, <2>4
<1>5. \A j \in 0 .. Bits - 1 :
        Bit(c, j) = 1 <=> <<Bit(w, j) = 1, Bit(l, j) = 1>> \in ones
  <2> TAKE j \in 0 .. Bits - 1
  <2>1. <<Bit(w, j) = 1, Bit(l, j) = 1>> \in ones <=> Bit(w, j) = 1 \/ Bit(l, j) = 1
    <3> DEFINE x == Bit(w, j) = 1
               y == Bit(l, j) = 1
    <3>1. x \in BOOLEAN /\ y \in BOOLEAN
      OBVIOUS
    <3> HIDE DEF x, y
    <3>2. <<x, y>> \in ones <=> x \/ y
      BY <3>1, Zenon
    <3> QED
      BY <3>2 DEF x, y
  <2> QED
    BY <1>4, <2>1
<1> HIDE DEF ones, c
<1>6. Bitwise(ones, w, l) = Wrap(c)
  BY <1>2, <1>3, <1>5, BitwiseIs
<1>7. Wrap(c) \in Word /\ U(Wrap(c)) = c
  <2>1. Congruent(c, c, Modulus)
    BY <1>1, <1>2, RestIsCongruent
  <2> QED
    BY <1>2, <1>3, <2>1, WrapCongruent, UnsignedIs
<1> QED
  BY <1>6, <1>7 DEF ones, c

(* The arithmetic of intrinsic:mul_32_to_64.                               *)
LEMMA CrossProducts ==
  ASSUME NEW H \in Nat \ {0},
         NEW lA \in 0 .. H - 1, NEW hA \in 0 .. H - 1,
         NEW lB \in 0 .. H - 1, NEW hB \in 0 .. H - 1
  PROVE  /\ lB * lA \in 0 .. H * H - 1
         /\ \A d \in 0 .. H - 1 : /\ d + lB * hA \in 0 .. H * H - 1
                                  /\ d + hB * lA \in 0 .. H * H - 1
<1>1. ASSUME NEW x \in 0 .. H - 1, NEW y \in 0 .. H - 1, NEW d \in 0 .. H - 1
      PROVE  d + x * y \in 0 .. H * H - 1
  <2>1. x * y <= x * H /\ 0 <= x * y /\ x * y \in Int
    BY Z3
  <2>2. (x + 1) * H <= H * H /\ (x + 1) * H = x * H + H
    BY Z3
  <2>3. x * H \in Int /\ H * H \in Int
    OBVIOUS
  <2> QED
    BY <2>1, <2>2, <2>3
<1>2. 0 \in 0 .. H - 1
  OBVIOUS
<1>3. lB * lA \in 0 .. H * H - 1
  <2>1. 0 + lB * lA \in 0 .. H * H - 1
    BY <1>1, <1>2
  <2> QED
    BY <2>1
<1> QED
  BY <1>1, <1>3

LEMMA LongProduct ==
  ASSUME NEW H \in Int, NEW lA \in Int, NEW hA \in Int, NEW lB \in Int, NEW hB \in Int,
         NEW Ld \in Int, NEW Lm \in Int, NEW k1 \in Int, NEW m1 \in Int,
         NEW k2 \in Int, NEW m2 \in Int,
         lB * lA = Ld * H + Lm,
         Ld + lB * hA = k1 * H + m1,
         m1 + hB * lA = k2 * H + m2
  PROVE  (m2 * H + Lm) + (H * H) * (k1 + hB * hA + k2) = (lA + H * hA) * (lB + H * hB)
<1> DEFINE p == lB * hA
           q == hB * lA
           r == hB * hA
           s == lB * lA
<1>1. (lA + H * hA) * (lB + H * hB) = s + H * p + H * q + (H * H) * r
  <2>1. (lA + H * hA) * (lB + H * hB)
          = lA * lB + lA * (H * hB) + (H * hA) * lB + (H * hA) * (H * hB)
    BY Z3
  <2>2. lA * (H * hB) = H * q
    BY Z3
  <2>3. (H * hA) * lB = H * p
    BY Z3
  <2>4. (H * hA) * (H * hB) = (H * H) * r
    BY Z3
  <2>5. lA * lB = s
    BY Z3
  <2>6. s \in Int /\ H * p \in Int /\ H * q \in Int /\ (H * H) * r \in Int
    OBVIOUS
  <2> HIDE DEF p, q, r, s
  <2> QED
    BY <2>1, <2>2, <2>3, <2>4, <2>5, <2>6
<1>2. p = k1 * H + m1 - Ld /\ q = k2 * H + m2 - m1 /\ s = Ld * H + Lm /\ r \in Int
  OBVIOUS
<1>3. (m2 * H + Lm) + (H * H) * (k1 + hB * hA + k2)
        = (m2 * H + Lm) + ((H * H) * k1 + (H * H) * r + (H * H) * k2)
  <2>1. ASSUME NEW G \in Int PROVE G * (k1 + r + k2) = G * k1 + G * r + G * k2
    BY <1>2, Z3
  <2>2. H * H \in Int
    OBVIOUS
  <2> HIDE DEF p, q, s
  <2> QED
    BY <2>1, <2>2
<1> HIDE DEF p, q, r, s
<1>4. H * p = (H * H) * k1 + H * m1 - H * Ld
  BY <1>2, Z3
<1>5. H * q = (H * H) * k2 + H * m2 - H * m1
  BY <1>2, Z3
<1>6. s = H * Ld + Lm /\ m2 * H = H * m2
  BY <1>2, Z3
<1>7. /\ H * m1 \in Int /\ H * m2 \in Int /\ H * Ld \in Int
      /\ (H * H) * k1 \in Int /\ (H * H) * k2 \in Int /\ (H * H) * r \in Int
  BY <1>2
<1> QED
  BY <1>1, <1>3, <1>4, <1>5, <1>6, <1>7

LEMMA MulTwoWordsIs ==
  ASSUME Powers, NEW a \in Word, NEW b \in Word
  PROVE  /\ MulTwoWords(a, b) \in Word \X Word
         /\ \E h \in Int : /\ Congruent(MulTwoWords(a, b)[2], h, Modulus)
                           /\ U(MulTwoWords(a, b)[1]) + Modulus * h = U(a) * U(b)
<1> DEFINE H  == Half
           lA == Mod(a, Half)  hA == Lshr(a, Bits \div 2)
           lB == Mod(b, Half)  hB == Lshr(b, Bits \div 2)
           low  == Times(lB, lA)
           Ld == Lshr(low, Bits \div 2)  Lm == Mod(low, Half)
           mid1 == Add(Ld, Times(lB, hA))
           k1 == Lshr(mid1, Bits \div 2) m1 == Mod(mid1, Half)
           mid2 == Add(m1, Times(hB, lA))
           k2 == Lshr(mid2, Bits \div 2) m2 == Mod(mid2, Half)
           up == Times(mid2, Half)
           ones == {<<TRUE, TRUE>>, <<TRUE, FALSE>>, <<FALSE, TRUE>>}
           p1 == Bitwise(ones, up, Lm)
           p2 == Add(Add(k1, Times(hB, hA)), k2)
           h  == k1 + hB * hA + k2
<1>1. MulTwoWords(a, b) = <<p1, p2>>
  BY DEF MulTwoWords
<1>2. H \in Nat \ {0} /\ H * H = Modulus /\ Modulus \in Nat \ {0} /\ H = Half
      /\ 2 * H <= HighBit /\ HighBit \in Nat \ {0}
  BY WordSizes
<1>3. /\ lA \in 0 .. H - 1 /\ hA \in 0 .. H - 1 /\ U(a) = lA + H * hA
      /\ lB \in 0 .. H - 1 /\ hB \in 0 .. H - 1 /\ U(b) = lB + H * hB
  <2>1. ASSUME NEW w \in Word
        PROVE  /\ Mod(w, Half) \in 0 .. Half - 1 /\ Lshr(w, Bits \div 2) \in 0 .. Half - 1
               /\ U(w) = Mod(w, Half) + Half * Lshr(w, Bits \div 2)
    <3> DEFINE x == Mod(w, Half)
               y == Lshr(w, Bits \div 2)
    <3>1. x \in 0 .. Half - 1 /\ y \in 0 .. Half - 1 /\ U(w) = y * Half + x
      BY HalvesOf
    <3> HIDE DEF x, y
    <3>2. U(w) = x + Half * y
      BY <1>2, <3>1
    <3> QED
      BY <3>1, <3>2 DEF x, y
  <2> QED
    BY <2>1
<1> HIDE DEF lA, hA, lB, hB, H
(* No product of half-words, and a half-word more, leaves a word.          *)
<1>4. ASSUME NEW w \in Word, NEW n \in 0 .. Modulus - 1, Congruent(w, n, Modulus)
      PROVE  /\ Mod(w, Half) \in 0 .. H - 1 /\ Lshr(w, Bits \div 2) \in 0 .. H - 1
             /\ n = Lshr(w, Bits \div 2) * H + Mod(w, Half) /\ U(w) = n
  <2>1. U(w) = n
    BY <1>4, UnsignedBy
  <2> QED
    BY <1>2, <2>1, HalvesOf
<1>5. ASSUME NEW x \in 0 .. H - 1, NEW y \in 0 .. H - 1, NEW d \in 0 .. H - 1
      PROVE  /\ Times(x, y) \in Word /\ Congruent(Times(x, y), x * y, Modulus)
             /\ Add(d, Times(x, y)) \in Word /\ Congruent(Add(d, Times(x, y)), d + x * y, Modulus)
  <2>1. x \in Int /\ y \in Int /\ d \in Int /\ x * y \in Int
    BY <1>2
  <2>2. Congruent(x, x, Modulus) /\ Congruent(y, y, Modulus) /\ Congruent(d, d, Modulus)
    BY <1>2, <2>1, RestIsCongruent
  <2>3. Times(x, y) \in Word /\ Times(x, y) \in Int /\ Congruent(Times(x, y), x * y, Modulus)
    BY <2>1, <2>2, OperationsCongruent
  <2>4. Add(d, Times(x, y)) \in Word /\ Congruent(Add(d, Times(x, y)), d + x * y, Modulus)
    <3> DEFINE t == Times(x, y)
               v == x * y
    <3>1. t \in Int /\ Congruent(t, v, Modulus) /\ v \in Int
      BY <2>1, <2>3
    <3> HIDE DEF t, v
    <3>2. Add(d, t) \in Word /\ Congruent(Add(d, t), d + v, Modulus)
      BY <2>1, <2>2, <3>1, OperationsCongruent
    <3> QED
      BY <3>2 DEF t, v
  <2> QED
    BY <2>3, <2>4
<1>6. /\ lB * lA \in 0 .. Modulus - 1
      /\ \A d \in 0 .. H - 1 : /\ d + lB * hA \in 0 .. Modulus - 1
                               /\ d + hB * lA \in 0 .. Modulus - 1
  BY <1>2, <1>3, CrossProducts
<1>7. Ld \in 0 .. H - 1 /\ Lm \in 0 .. H - 1 /\ lB * lA = Ld * H + Lm
  <2>1. low \in Word /\ Congruent(low, lB * lA, Modulus)
    BY <1>3, <1>5
  <2> HIDE DEF low
  <2> QED
    BY <1>4, <1>6, <2>1
<1> HIDE DEF Ld, Lm, low
<1>8. k1 \in 0 .. H - 1 /\ m1 \in 0 .. H - 1 /\ Ld + lB * hA = k1 * H + m1
  <2>1. mid1 \in Word /\ Congruent(mid1, Ld + lB * hA, Modulus)
    BY <1>3, <1>5, <1>7
  <2> HIDE DEF mid1
  <2> QED
    BY <1>4, <1>6, <1>7, <2>1
<1> HIDE DEF k1, m1, mid1
<1>9. k2 \in 0 .. H - 1 /\ m2 \in 0 .. H - 1 /\ m1 + hB * lA = k2 * H + m2
      /\ mid2 \in Word /\ U(mid2) = k2 * H + m2
  <2>1. mid2 \in Word /\ Congruent(mid2, m1 + hB * lA, Modulus)
    BY <1>3, <1>5, <1>8
  <2> HIDE DEF mid2
  <2> QED
    BY <1>4, <1>6, <1>8, <2>1
<1> HIDE DEF k2, m2, mid2
(* The second half of mid2 goes up, its first half is lost.                *)
<1>10. up \in Word /\ U(up) = m2 * H
  <2>1. /\ mid2 \in Int /\ H \in Int /\ U(mid2) \in Int
        /\ Congruent(mid2, U(mid2), Modulus) /\ Congruent(H, H, Modulus)
    BY <1>2, <1>9, UnsignedOf, RestIsCongruent
  <2>2. up \in Word /\ up \in Int /\ Congruent(up, U(mid2) * H, Modulus)
    BY <1>2, <2>1, OperationsCongruent
  <2>3. U(mid2) * H = m2 * H + k2 * Modulus /\ m2 * H \in Int /\ k2 \in Int /\ U(mid2) * H \in Int
    <3>1. (k2 * H + m2) * H = m2 * H + k2 * (H * H)
      BY <1>2, <1>9, Z3
    <3> QED
      BY <1>2, <1>9, <2>1, <3>1
  <2>4. Congruent(U(mid2) * H, m2 * H, Modulus)
    BY <2>3 DEF Congruent
  <2> HIDE DEF up
  <2>5. Congruent(up, m2 * H, Modulus)
    BY <1>2, <2>2, <2>3, <2>4, CongruentOn
  <2>6. m2 * H \in 0 .. Modulus - 1
    <3>1. (m2 + 1) * H <= H * H /\ (m2 + 1) * H = m2 * H + H /\ 0 <= m2 * H
      BY <1>2, <1>9, Z3
    <3> QED
      BY <1>2, <2>3, <3>1
  <2> QED
    BY <2>2, <2>5, <2>6, UnsignedBy
<1> HIDE DEF up
<1>11. p1 \in Word /\ U(p1) = m2 * H + Lm
  BY <1>2, <1>7, <1>9, <1>10, JoinedHalves
<1>12. p2 \in Word /\ h \in Int /\ Congruent(p2, h, Modulus)
  <2> DEFINE s == Add(k1, Times(hB, hA))
             t == k1 + hB * hA
  <2>1. s \in Word /\ Congruent(s, t, Modulus)
    BY <1>3, <1>5, <1>8
  <2>2. s \in Int /\ t \in Int /\ k2 \in Int /\ h = t + k2
    <3>1. s \in Int
      <4> HIDE DEF s
      <4> QED
        BY <2>1, UnsignedOf
    <3>2. k1 \in Int /\ hB \in Int /\ hA \in Int /\ k2 \in Int
      BY <1>2, <1>3, <1>8, <1>9
    <3> QED
      BY <3>1, <3>2
  <2>3. p2 = Add(s, k2)
    OBVIOUS
  <2> HIDE DEF s, t, h, p2
  <2>4. Congruent(k2, k2, Modulus)
    BY <1>2, <2>2, RestIsCongruent
  <2>5. Add(s, k2) \in Word /\ Congruent(Add(s, k2), t + k2, Modulus)
    BY <2>1, <2>2, <2>4, OperationsCongruent
  <2> QED
    BY <2>2, <2>3, <2>5
<1>13. U(p1) + Modulus * h = U(a) * U(b)
  <2>1. (m2 * H + Lm) + (H * H) * (k1 + hB * hA + k2) = (lA + H * hA) * (lB + H * hB)
    <3>1. /\ H \in Int /\ lA \in Int /\ hA \in Int /\ lB \in Int /\ hB \in Int
          /\ Ld \in Int /\ Lm \in Int /\ k1 \in Int /\ m1 \in Int /\ k2 \in Int /\ m2 \in Int
      BY <1>2, <1>3, <1>7, <1>8, <1>9
    <3> QED
      BY <1>7, <1>8, <1>9, <3>1, LongProduct
  <2> QED
    BY <1>2, <1>3, <1>11, <2>1
<1> HIDE DEF p1, p2, h
<1>14. <<p1, p2>>[1] = p1 /\ <<p1, p2>>[2] = p2
  OBVIOUS
<1> QED
  BY <1>1, <1>11, <1>12, <1>13, <1>14

-----------------------------------------------------------------------------
(* Products and quotients.                                                 *)

(* mul_64_bit.                                                             *)
LEMMA Mul64Is ==
  ASSUME Powers, NEW a \in Word \X Word, NEW b \in Word \X Word
  PROVE  /\ Mul64(a, b) \in Word \X Word
         /\ Unsigned(Mul64(a, b)) = (Number(a) * Number(b)) % (Modulus * Modulus)
<1> DEFINE m  == Modulus
           p  == MulTwoWords(a[1], b[1])
           x  == U(a[1])
           y  == U(b[1])
           s  == Add(p[2], Times(a[1], b[2]))
           hi == Add(s, Times(b[1], a[2]))
<1>1. /\ m \in Nat \ {0} /\ 2 ^ Bits = m
      /\ a[1] \in Word /\ a[2] \in Word /\ b[1] \in Word /\ b[2] \in Word
      /\ Len(a) = 2 /\ Len(b) = 2
  BY WordSizes, DoubleParts
<1>2. /\ a[1] \in Int /\ a[2] \in Int /\ b[1] \in Int /\ b[2] \in Int /\ x \in Int /\ y \in Int
      /\ Congruent(a[1], x, m) /\ Congruent(b[1], y, m)
      /\ Congruent(a[2], a[2], m) /\ Congruent(b[2], b[2], m)
  BY <1>1, UnsignedOf, RestIsCongruent
<1>3. p \in Word \X Word
  BY <1>1, MulTwoWordsIs
<1>4. PICK h \in Int : Congruent(p[2], h, m) /\ U(p[1]) + m * h = x * y
  BY <1>1, MulTwoWordsIs
<1>5. p[1] \in Word /\ p[2] \in Word /\ p[2] \in Int /\ U(p[1]) \in Int
  <2>1. p[1] \in Word /\ p[2] \in Word
    BY <1>3, DoubleParts
  <2> HIDE DEF p
  <2> QED
    BY <2>1, UnsignedOf
<1>6. Number(a) = x + m * a[2] /\ Number(b) = y + m * b[2]
  <2>1. x = a[1] % m /\ y = b[1] % m
    BY DEF U, Modulus
  <2> QED
    BY <1>1, <2>1 DEF Number
<1>7. Mul64(a, b) = <<p[1], hi>>
  BY DEF Mul64
<1> HIDE DEF p, x, y, m
<1>8. /\ Times(a[1], b[2]) \in Int /\ Congruent(Times(a[1], b[2]), x * b[2], m)
      /\ Times(b[1], a[2]) \in Int /\ Congruent(Times(b[1], a[2]), y * a[2], m)
  BY <1>2, OperationsCongruent DEF m
<1>9. s \in Int /\ Congruent(s, h + x * b[2], m)
  <2> DEFINE t == Times(a[1], b[2])
             v == x * b[2]
  <2>1. t \in Int /\ v \in Int /\ Congruent(t, v, m)
    BY <1>2, <1>8
  <2> HIDE DEF t, v
  <2>2. Add(p[2], t) \in Int /\ Congruent(Add(p[2], t), h + v, m)
    BY <1>4, <1>5, <2>1, OperationsCongruent DEF m
  <2> QED
    BY <2>2 DEF t, v
<1> HIDE DEF s
<1>10. hi \in Word /\ Congruent(hi, h + x * b[2] + y * a[2], m)
  <2> DEFINE t == Times(b[1], a[2])
             v == y * a[2]
             u == h + x * b[2]
  <2>1. t \in Int /\ v \in Int /\ Congruent(t, v, m) /\ u \in Int /\ Congruent(s, u, m)
    BY <1>2, <1>4, <1>8, <1>9
  <2> HIDE DEF t, v, u, hi
  <2>2. Add(s, t) \in Word /\ Congruent(Add(s, t), u + v, m)
    BY <1>9, <2>1, OperationsCongruent DEF m
  <2> QED
    BY <2>2 DEF t, v, u, hi
<1> DEFINE g == h + x * b[2] + y * a[2]
           n == Number(a) * Number(b)
           k == a[2] * b[2]
<1>11. n = (U(p[1]) + m * g) + k * (m * m)
  <2> DEFINE c == a[2]
             d == b[2]
  <2>1. c \in Int /\ d \in Int /\ m \in Int
    BY <1>1, <1>2
  <2>2. n = (x + m * c) * (y + m * d)
    BY <1>6
  <2> HIDE DEF c, d, n
  <2>3. (x + m * c) * (y + m * d) = x * y + m * (x * d) + m * (y * c) + (m * m) * (c * d)
    BY <1>2, <2>1, Z3
  <2>4. m * (h + x * d + y * c) = m * h + m * (x * d) + m * (y * c)
    BY <1>2, <1>4, <2>1, Z3
  <2>5. /\ x * y \in Int /\ m * (x * d) \in Int /\ m * (y * c) \in Int /\ m * h \in Int
        /\ (m * m) * (c * d) \in Int
    BY <1>2, <1>4, <2>1
  <2>6. g = h + x * d + y * c /\ k * (m * m) = (m * m) * (c * d)
    <3>1. k = c * d
      BY DEF c, d
    <3>2. g = h + x * d + y * c
      BY DEF c, d
    <3>3. ASSUME NEW e \in Int, NEW f \in Int PROVE e * f = f * e
      BY Z3
    <3>4. c * d \in Int /\ m * m \in Int
      BY <2>1
    <3> HIDE DEF k, g
    <3> QED
      BY <3>1, <3>2, <3>3, <3>4
  <2> HIDE DEF g, k
  <2> QED
    BY <1>4, <1>5, <2>2, <2>3, <2>4, <2>5, <2>6
<1>12. g \in Int /\ n \in Int /\ k \in Int /\ U(p[1]) + m * g \in Int /\ m * m \in Nat \ {0}
  BY <1>1, <1>2, <1>4, <1>5, <1>6
<1> HIDE DEF g, n, k, hi
<1>13. Congruent(n, U(p[1]) + m * g, m * m)
  BY <1>11, <1>12 DEF Congruent
<1>14. Congruent(U(p[1]) + m * g, n, m * m)
  BY <1>12, <1>13, CongruentBack
<1>15. Unsigned(<<p[1], hi>>) = n % (m * m)
  BY <1>5, <1>10, <1>12, <1>14, DoubleIs DEF m, g
<1> QED
  BY <1>5, <1>7, <1>10, <1>15 DEF n, m

-----------------------------------------------------------------------------
(* What ProductsRight and DivisionsRight ask.                              *)
Products(op, a, b, d) ==
  op = "mul" => Unsigned(d) = (Number(a) * Number(b)) % 2 ^ (Bits * Len(d))

Divisions(op, as, bs, d, holds) ==
  /\ op = "sdiv" =>
       LET a == as[1]  b == bs[1]  rest == a - b * d[1]
       IN \/ rest = 0
          \/ (rest < 0) = (a < 0) /\ rest * rest < b * b
  /\ op = "srem" /\ as[1] >= 0 => d[1] = Unsigned(as) % Unsigned(bs)
  /\ op = "udiv" /\ holds => d[1] = Unsigned(as) \div Unsigned(bs)
  /\ op = "urem" /\ holds => d[1] = Unsigned(as) % Unsigned(bs)

LEMMA ProductSteps ==
  ASSUME Powers
  PROVE  /\ \A a, b \in Word : Products("mul", <<a>>, <<b>>, <<Times(a, b)>>)
         /\ \A a, b \in Word \X Word : Products("mul", a, b, Mul64(a, b))
<1>1. ASSUME NEW a \in Word, NEW b \in Word
      PROVE  Products("mul", <<a>>, <<b>>, <<Times(a, b)>>)
  <2>1. PowersOfTwo /\ 2 ^ Bits = Modulus /\ Bits * 1 = Bits /\ a \in Int /\ b \in Int
    BY WordSizes DEF Word
  <2>2. Times(a, b) \in Word
    <3>1. a * b \in Int
      BY <2>1
    <3> QED
      BY <3>1, WrapFacts DEF Times
  <2>3. Unsigned(<<Times(a, b)>>) = (a * b) % Modulus
    BY <2>1, <2>2, OneWord, UnsignedSums
  <2>4. Number(<<a>>) = a /\ Number(<<b>>) = b /\ Len(<<Times(a, b)>>) = 1
    BY DEF Number
  <2> QED
    BY <2>1, <2>3, <2>4 DEF Products
<1>2. ASSUME NEW a \in Word \X Word, NEW b \in Word \X Word
      PROVE  Products("mul", a, b, Mul64(a, b))
  <2>1. 2 ^ (Bits * 2) = Modulus * Modulus
    BY WordSizes
  <2>2. /\ Len(Mul64(a, b)) = 2
        /\ Unsigned(Mul64(a, b)) = (Number(a) * Number(b)) % (Modulus * Modulus)
    BY Mul64Is, DoubleParts
  <2> QED
    BY <2>1, <2>2 DEF Products
<1> QED
  BY <1>1, <1>2

-----------------------------------------------------------------------------
(* Quotients towards zero.                                                 *)
LEMMA QuotientSize ==
  ASSUME NEW n \in Nat, NEW d \in Nat \ {0}
  PROVE  n \div d \in 0 .. n /\ (d > 1 /\ n > 0 => n \div d < n)
<1> DEFINE q == n \div d
           r == n % d
<1>1. n = q * d + r /\ r \in 0 .. d - 1 /\ q \in Int
  BY DivIs
<1> HIDE DEF q, r
<1>2. q >= 0
  <2>1. q <= -1 => q * d <= -1 * d
    BY <1>1, Z3
  <2> QED
    BY <1>1, <2>1
<1>3. q <= q * d /\ q * d \in Int
  BY <1>1, <1>2, Z3
<1>4. d > 1 => q + q <= q * d
  <2>1. d > 1 => q * 2 <= q * d
    BY <1>1, <1>2, Z3
  <2> QED
    BY <1>1, <2>1
<1> QED
  BY <1>1, <1>2, <1>3, <1>4 DEF q

LEMMA OverTowardsZero ==
  ASSUME Powers, NEW a \in Word, NEW b \in Word, b # 0, ~ (a = -HighBit /\ b = -1)
  PROVE  LET rest == a - b * Over(a, b)
         IN rest = 0 \/ ((rest < 0) = (a < 0) /\ rest * rest < b * b)
<1> DEFINE n == IF a < 0 THEN -a ELSE a
           d == IF b < 0 THEN -b ELSE b
           q == n \div d
           r == n % d
           v == IF (a < 0) = (b < 0) THEN q ELSE -q
<1>1. /\ HighBit \in Nat \ {0} /\ a \in Int /\ b \in Int /\ -HighBit <= a /\ a < HighBit
      /\ -HighBit <= b /\ b < HighBit
  BY WordSizes DEF Word
<1>2. n \in Nat /\ n <= HighBit /\ d \in Nat \ {0}
  BY <1>1
<1>3. Over(a, b) = Wrap(v)
  BY DEF Over
<1>4. n = q * d + r /\ r \in 0 .. d - 1 /\ q \in 0 .. n /\ (d > 1 /\ n > 0 => q < n)
  <2> HIDE DEF n, d
  <2>1. n = q * d + r /\ r \in 0 .. d - 1
    BY <1>2, DivIs
  <2>2. q \in 0 .. n /\ (d > 1 /\ n > 0 => q < n)
    BY <1>2, QuotientSize
  <2> QED
    BY <2>1, <2>2
<1> HIDE DEF q, r
<1>5. v \in Word /\ v \in Int
  <2>1. q \in Int /\ 0 <= q /\ q <= n
    BY <1>2, <1>4
  <2>2. CASE q < HighBit
    BY <1>1, <2>1, <2>2 DEF Word
  <2>3. CASE q >= HighBit
    <3>1. n = HighBit /\ ~ (d > 1)
      BY <1>1, <1>2, <1>4, <2>1, <2>3
    <3>2. d = 1 /\ a = -HighBit
      BY <1>1, <1>2, <3>1
    <3>3. b = 1
      BY <1>1, <3>2
    <3>4. v = -q
      BY <1>1, <3>2, <3>3
    <3> QED
      BY <1>1, <2>1, <3>1, <3>4 DEF Word
  <2> QED
    BY <1>1, <2>1, <2>2, <2>3
<1>6. Over(a, b) = v
  <2> HIDE DEF v
  <2> QED
    BY <1>3, <1>5, WrapFacts
<1>7. a - b * v = IF a < 0 THEN -r ELSE r
  <2>1. q \in Int /\ r \in Int /\ q * d \in Int
    BY <1>2, <1>4
  <2>2. b * v = IF a < 0 THEN - (q * d) ELSE q * d
    BY <1>1, <2>1, Z3
  <2> HIDE DEF d
  <2> QED
    BY <1>1, <1>4, <2>1, <2>2
<1>8. r * r < b * b
  <2>1. 0 <= r /\ r < d /\ r \in Int
    BY <1>2, <1>4
  <2>2. b * b = d * d
    BY <1>1, Z3
  <2> HIDE DEF d
  <2>3. r * r <= r * d /\ r * d < d * d
    BY <1>2, <2>1, Z3
  <2> QED
    BY <1>2, <2>1, <2>2, <2>3
<1> DEFINE rest == a - b * v
<1>9. rest = 0 \/ ((rest < 0) = (a < 0) /\ rest * rest < b * b)
  <2>1. r \in Int /\ 0 <= r
    BY <1>2, <1>4
  <2>2. (-r) * (-r) = r * r
    BY <2>1, Z3
  <2>3. CASE a < 0
    <3>1. rest = -r
      BY <1>7, <2>3
    <3> HIDE DEF rest
    <3> QED
      BY <1>8, <2>1, <2>2, <2>3, <3>1
  <2>4. CASE ~ (a < 0)
    <3>1. rest = r
      BY <1>7, <2>4
    <3> HIDE DEF rest
    <3> QED
      BY <1>8, <2>1, <2>4, <3>1
  <2> QED
    BY <2>3, <2>4
<1> QED
  BY <1>6, <1>9

(* What DivisionsRight says of one division, and ArithmeticRight of all.   *)
LEMMA DivisionSteps ==
  ASSUME Powers, NEW a \in Word, NEW b \in Word, NEW p
  PROVE  /\ b # 0 /\ ~ (a = -HighBit /\ b = -1) =>
              /\ Divisions("sdiv", <<a>>, <<b>>, <<Over(a, b)>>, p)
              /\ Divisions("udiv", <<a>>, <<b>>, <<Over(a, b)>>, a >= 0 /\ b >= 0)
         /\ b > 0 => /\ Divisions("srem", <<a>>, <<b>>, <<Mod(a, b)>>, p)
                     /\ Divisions("urem", <<a>>, <<b>>, <<Mod(a, b)>>, a >= 0 /\ b >= 0)
<1>1. /\ PowersOfTwo /\ HighBit \in Nat \ {0} /\ a \in Int /\ b \in Int
      /\ a < HighBit /\ b < HighBit
  BY WordSizes DEF Word
<1>2. /\ Unsigned(<<a>>) = U(a) /\ Unsigned(<<b>>) = U(b)
      /\ a >= 0 => U(a) = a
      /\ b >= 0 => U(b) = b
  BY <1>1, OneWord, UnsignedWord
<1>3. <<a>>[1] = a /\ <<b>>[1] = b /\ <<Over(a, b)>>[1] = Over(a, b) /\ <<Mod(a, b)>>[1] = Mod(a, b)
  OBVIOUS
<1>4. ASSUME b # 0, ~ (a = -HighBit /\ b = -1)
      PROVE  Divisions("sdiv", <<a>>, <<b>>, <<Over(a, b)>>, p)
  <2>1. LET rest == a - b * Over(a, b)
        IN rest = 0 \/ ((rest < 0) = (a < 0) /\ rest * rest < b * b)
    BY <1>4, OverTowardsZero
  <2> QED
    BY <1>3, <2>1, Zenon DEF Divisions
<1>5. ASSUME b # 0
      PROVE  Divisions("udiv", <<a>>, <<b>>, <<Over(a, b)>>, a >= 0 /\ b >= 0)
  <2>1. a >= 0 /\ b >= 0 => Over(a, b) = a \div b
    BY <1>1, <1>5, OverIs
  <2> QED
    BY <1>2, <1>3, <2>1 DEF Divisions
<1>6. ASSUME b > 0
      PROVE  /\ Divisions("srem", <<a>>, <<b>>, <<Mod(a, b)>>, p)
             /\ Divisions("urem", <<a>>, <<b>>, <<Mod(a, b)>>, a >= 0 /\ b >= 0)
  <2>1. U(b) = b /\ Mod(a, b) = a % b
    BY <1>1, <1>2, <1>6 DEF Mod
  <2> QED
    BY <1>2, <1>3, <2>1 DEF Divisions
<1> QED
  BY <1>4, <1>5, <1>6

(* An instruction of another kind keeps to ArithmeticRight.                *)
Computes(op, a, b, d, p) == Sums(op, a, b, d) /\ Products(op, a, b, d) /\ Divisions(op, a, b, d, p)

LEMMA OtherComputes ==
  ASSUME NEW op, NEW a, NEW b, NEW d, NEW p
  PROVE  /\ op \notin SumOps => Computes(op, a, b, d, p)
         /\ op \in {"add", "sub", "usub.with.overflow", "uadd.byte", "usub.byte"} =>
              Products(op, a, b, d) /\ Divisions(op, a, b, d, p)
         /\ op = "mul" => Sums(op, a, b, d) /\ Divisions(op, a, b, d, p)
         /\ op \in {"sdiv", "srem", "udiv", "urem"} => Sums(op, a, b, d) /\ Products(op, a, b, d)
<1>1. op \notin {"add", "sub", "usub.with.overflow", "uadd.byte", "usub.byte"} => Sums(op, a, b, d)
  BY DEF Sums
<1>2. op # "mul" => Products(op, a, b, d)
  BY DEF Products
<1>3. op \notin {"sdiv", "srem", "udiv", "urem"} => Divisions(op, a, b, d, p)
  BY DEF Divisions
<1> QED
  BY <1>1, <1>2, <1>3 DEF Computes, SumOps

-----------------------------------------------------------------------------
(* Sums, differences, products, quotients and remainders of one and of two *)
(* words are those of the numbers, for words of any length: what           *)
(* compile_instr and the intrinsics make of signed words that wrap         *)
(* (ArithmeticRight, which run words checks for eight bits).               *)
THEOREM ArithmeticCorrect ==
  ASSUME Powers
  PROVE  Spec => []ArithmeticRight
<1> USE Powers
<1>1. Init => ArithmeticRight
  BY DEF Init, NoInstr, ArithmeticRight, SumsRight, ProductsRight, DivisionsRight
<1>2. ASSUME NEW op, NEW const, NEW bits, NEW a, NEW b, NEW s,
             Executes(op, const, bits, a, b, s)
      PROVE  /\ Computes(op, a, b, dest', passed') => ArithmeticRight'
             /\ op \notin SumOps => ArithmeticRight'
  <2>1. instr'.op = op /\ instr'.a = a /\ instr'.b = b
    BY <1>2 DEF Executes
  <2>2. SumsRight' <=> Sums(op, a, b, dest')
    BY <2>1, Zenon DEF SumsRight, Sums, UA, UB
  <2>3. ProductsRight' <=> Products(op, a, b, dest')
    BY <2>1, Zenon DEF ProductsRight, Products
  <2>4. DivisionsRight' <=> Divisions(op, a, b, dest', passed')
    BY <2>1, Zenon DEF DivisionsRight, Divisions, UA, UB
  <2>5. Computes(op, a, b, dest', passed') => ArithmeticRight'
    BY <2>2, <2>3, <2>4, Zenon DEF ArithmeticRight, Computes
  <2>6. op \notin SumOps => Computes(op, a, b, dest', passed')
    BY OtherComputes
  <2> QED
    BY <2>5, <2>6
<1>3. ASSUME NEW op, NEW a, NEW b, NEW cs, Operates(op, a, b, cs),
             Computes(op, a, b, dest', passed')
      PROVE  ArithmeticRight'
  BY <1>2, <1>3, Zenon DEF Operates
<1>4. Operands \subseteq Word /\ \A x \in Doubles : x \in Word \X Word
  BY OperandsAssumption DEF Doubles
<1>5. ASSUME AddWord \/ SubWord \/ USubOverflow PROVE ArithmeticRight'
  <2>1. PICK a \in Word, b \in Word :
          \/ Operates("add", <<a>>, <<b>>, {}) /\ dest' = <<Add(a, b)>>
          \/ Operates("sub", <<a>>, <<b>>, {}) /\ dest' = <<Wrap(a - b)>>
          \/ /\ Operates("usub.with.overflow", <<a>>, <<b>>, {-1})
             /\ dest' = <<Add(a, TimesConst(b, -1)), Flag(Carry(a, TimesConst(b, -1)))>>
    BY <1>4, <1>5 DEF AddWord, SubWord, USubOverflow
  <2>2. /\ Sums("add", <<a>>, <<b>>, <<Add(a, b)>>)
        /\ Sums("sub", <<a>>, <<b>>, <<Wrap(a - b)>>)
        /\ \A v : Sums("usub.with.overflow", <<a>>, <<b>>, <<Add(a, TimesConst(b, -1)), v>>)
    BY SumSteps
  <2>3. \E op \in {"add", "sub", "usub.with.overflow"} :
          /\ \E cs : Operates(op, <<a>>, <<b>>, cs)
          /\ Sums(op, <<a>>, <<b>>, dest')
    BY <2>1, <2>2, Zenon
  <2> QED
    BY <1>3, <2>3, OtherComputes DEF Computes
<1>6. ASSUME Add64Words \/ Sub64Words PROVE ArithmeticRight'
  <2>1. PICK a \in Word \X Word, b \in Word \X Word :
          \/ Operates("add", a, b, {}) /\ dest' = Add64(a, b)
          \/ Operates("sub", a, b, {-1, 0, 1}) /\ dest' = Add64(a, Negate64(b))
    BY <1>4, <1>6 DEF Add64Words, Sub64Words
  <2>2. Sums("add", a, b, Add64(a, b)) /\ Sums("sub", a, b, Add64(a, Negate64(b)))
    BY SumSteps
  <2>3. \E op \in {"add", "sub"} :
          (\E cs : Operates(op, a, b, cs)) /\ Sums(op, a, b, dest')
    BY <2>1, <2>2, Zenon
  <2> QED
    BY <1>3, <2>3, OtherComputes DEF Computes
<1>7. ASSUME UAddByte \/ USubByte PROVE ArithmeticRight'
  <2>1. PICK a \in Word, b \in Word :
          \/ /\ Operates("uadd.byte", <<a>>, <<b>>, {})
             /\ dest' = <<ByteOf(Add(a, b), 0), ByteOf(Add(a, b), 1)>>
          \/ /\ Operates("usub.byte", <<a>>, <<b>>, {-1})
             /\ dest' = <<ByteOf(Add(a, Add(TimesConst(b, -1), Byte)), 0),
                          ByteOf(Add(a, Add(TimesConst(b, -1), Byte)), 1)>>
    BY <1>4, <1>7 DEF UAddByte, USubByte
  <2>2. /\ Sums("uadd.byte", <<a>>, <<b>>, <<ByteOf(Add(a, b), 0), ByteOf(Add(a, b), 1)>>)
        /\ \A v : Sums("usub.byte", <<a>>, <<b>>,
                       <<ByteOf(Add(a, Add(TimesConst(b, -1), Byte)), 0), v>>)
    BY SumSteps
  <2>3. \E op \in {"uadd.byte", "usub.byte"} :
          (\E cs : Operates(op, <<a>>, <<b>>, cs)) /\ Sums(op, <<a>>, <<b>>, dest')
    BY <2>1, <2>2, Zenon
  <2> QED
    BY <1>3, <2>3, OtherComputes DEF Computes
<1>8. ASSUME MulWord \/ Mul64Words PROVE ArithmeticRight'
  <2>1. \E a, b, cs : Operates("mul", a, b, cs) /\ Products("mul", a, b, dest')
    <3>1. CASE MulWord
      <4>1. PICK a \in Word, b \in Word :
              Operates("mul", <<a>>, <<b>>, {}) /\ dest' = <<Times(a, b)>>
        BY <1>4, <3>1 DEF MulWord
      <4>2. Products("mul", <<a>>, <<b>>, dest')
        BY <4>1, ProductSteps
      <4> QED
        BY <4>1, <4>2, Zenon
    <3>2. CASE Mul64Words
      <4>1. PICK a \in Word \X Word, b \in Word \X Word :
              Operates("mul", a, b, {Half, -1}) /\ dest' = Mul64(a, b)
        BY <1>4, <3>2 DEF Mul64Words
      <4>2. Products("mul", a, b, dest')
        BY <4>1, ProductSteps
      <4> QED
        BY <4>1, <4>2, Zenon
    <3> QED
      BY <1>8, <3>1, <3>2
  <2> QED
    BY <1>3, <2>1, OtherComputes DEF Computes
<1>9. ASSUME SDiv \/ UDiv \/ SRem \/ URem PROVE ArithmeticRight'
  <2>1. PICK a \in Word, b \in Word :
          \/ /\ b # 0 /\ ~ (a = -HighBit /\ b = -1) /\ dest' = <<Over(a, b)>>
             /\ \/ Operates("sdiv", <<a>>, <<b>>, {})
                \/ Operates("udiv", <<a>>, <<b>>, {}) /\ passed' = (a >= 0 /\ b >= 0)
          \/ /\ b > 0 /\ dest' = <<Mod(a, b)>>
             /\ \/ Operates("srem", <<a>>, <<b>>, {})
                \/ Operates("urem", <<a>>, <<b>>, {}) /\ passed' = (a >= 0 /\ b >= 0)
    BY <1>4, <1>9 DEF SDiv, UDiv, SRem, URem
  <2>2. \E op \in {"sdiv", "srem", "udiv", "urem"} :
          /\ \E cs : Operates(op, <<a>>, <<b>>, cs)
          /\ Divisions(op, <<a>>, <<b>>, dest', passed')
    BY <2>1, DivisionSteps, Zenon
  <2> QED
    BY <1>3, <2>2, OtherComputes DEF Computes
<1>10. ASSUME ICmp \/ ICmp64 \/ ICmp48 PROVE ArithmeticRight'
  BY <1>2, <1>10, PredicatesOnly DEF Predicates, SumOps
<1>11. ASSUME NextShift \/ NextConversion \/ NextVector PROVE ArithmeticRight'
  <2>1. CASE NextShift
    BY <1>2, <2>1, ShiftOpsOnly DEF ShiftOps, SumOps
  <2>2. CASE NextConversion
    BY <1>2, <2>2, ConversionOpsOnly DEF ConversionOps, SumOps
  <2>3. CASE NextVector
    BY <1>2, <2>3, VectorOpsOnly DEF VectorOps, LaneOps, SumOps
  <2> QED
    BY <1>11, <2>1, <2>2, <2>3
<1>12. ASSUME ArithmeticRight, UNCHANGED vars PROVE ArithmeticRight'
  <2>1. instr' = instr /\ dest' = dest /\ passed' = passed
    BY <1>12 DEF vars
  <2>2. SumsRight => SumsRight'
    BY <2>1 DEF SumsRight, UA, UB, Unsigned
  <2>3. ProductsRight => ProductsRight'
    BY <2>1 DEF ProductsRight, Unsigned, Number
  <2>4. DivisionsRight => DivisionsRight'
    BY <2>1 DEF DivisionsRight, UA, UB, Unsigned
  <2> QED
    BY <1>12, <2>2, <2>3, <2>4 DEF ArithmeticRight
<1>13. ArithmeticRight /\ [Next]_vars => ArithmeticRight'
  BY <1>5, <1>6, <1>7, <1>8, <1>9, <1>10, <1>11, <1>12, Zenon DEF Next, NextArithmetic
<1> QED
  BY <1>1, <1>13, PTL DEF Spec

-----------------------------------------------------------------------------
(* A number of any bits.                                                   *)
LEMMA BitsExist ==
  ASSUME Powers, NEW T, NEW k \in Nat
  PROVE  \E c \in 0 .. 2 ^ k - 1 : \A j \in 0 .. k - 1 : Bit(c, j) = 1 <=> j \in T
<1> DEFINE S == {n \in Nat : \E c \in 0 .. 2 ^ n - 1 : \A j \in 0 .. n - 1 : Bit(c, j) = 1 <=> j \in T}
<1>1. 0 \in S
  <2>1. 2 ^ 0 = 1
    BY DEF Powers
  <2>2. \A j \in 0 .. 0 - 1 : Bit(0, j) = 1 <=> j \in T
    OBVIOUS
  <2>3. 0 \in 0 .. 2 ^ 0 - 1
    BY <2>1
  <2> QED
    BY <2>2, <2>3
<1>2. ASSUME NEW n \in Nat, n \in S
      PROVE  n + 1 \in S
  <2> DEFINE p == 2 ^ n
             q == IF n \in T THEN 1 ELSE 0
  <2>1. p \in Nat \ {0} /\ 2 ^ (n + 1) = 2 * p
    BY DEF Powers
  <2>2. PICK c \in 0 .. p - 1 : \A j \in 0 .. n - 1 : Bit(c, j) = 1 <=> j \in T
    BY <1>2
  <2> DEFINE d == c + q * p
  <2>3. q \in {0, 1} /\ q \in Int /\ c \in Int /\ (q = 1 <=> n \in T)
    BY <2>1, <2>2
  <2>4. ASSUME NEW j \in 0 .. n - 1
        PROVE  Bit(d, j) = 1 <=> j \in T
    <3>1. Bit(c + q * 2 ^ n, j) = Bit(c, j)
      <4> HIDE DEF p, q
      <4>1. j \in Nat /\ j < n
        OBVIOUS
      <4> QED
        BY <2>3, <4>1, HighBits
    <3> QED
      BY <2>2, <3>1
  <2>5. Bit(d, n) = q
    <3> HIDE DEF p, q
    <3>1. q * p + c = d
      BY <2>1, <2>3
    <3>2. (q * p + c) \div p = q
      BY <2>1, <2>2, <2>3, DivUnique
    <3>3. q % 2 = q
      BY <2>3
    <3>4. d \div p = q
      BY <3>1, <3>2
    <3> HIDE DEF d
    <3> QED
      BY <3>3, <3>4 DEF Bit, p
  <2>6. d \in 0 .. 2 ^ (n + 1) - 1
    <3> HIDE DEF p, q
    <3>1. CASE q = 0
      BY <2>1, <2>2, <3>1
    <3>2. CASE q = 1
      BY <2>1, <2>2, <3>2
    <3> QED
      BY <2>3, <3>1, <3>2
  <2> HIDE DEF d, p, q
  <2>7. \A j \in 0 .. (n + 1) - 1 : Bit(d, j) = 1 <=> j \in T
    <3> TAKE j \in 0 .. (n + 1) - 1
    <3>1. j \in 0 .. n - 1 \/ j = n
      OBVIOUS
    <3> QED
      BY <2>3, <2>4, <2>5, <3>1
  <2> QED
    BY <2>6, <2>7
<1> HIDE DEF S
<1>3. Nat \subseteq S
  BY <1>1, <1>2, Induction
<1> QED
  BY <1>3 DEF S

(* What the intrinsics and, or and xor return, whatever `ones` is.         *)
LEMMA BitwiseBits ==
  ASSUME Powers, NEW ones, NEW a \in Word, NEW b \in Word
  PROVE  /\ Bitwise(ones, a, b) \in Word
         /\ \A j \in 0 .. Bits - 1 :
              Bit(Bitwise(ones, a, b), j) = 1 <=> <<Bit(a, j) = 1, Bit(b, j) = 1>> \in ones
<1> DEFINE T == {j \in 0 .. Bits - 1 : <<Bit(a, j) = 1, Bit(b, j) = 1>> \in ones}
<1>1. Bits \in Nat /\ 2 ^ Bits = Modulus
  BY WordSizes
<1>2. PICK c \in 0 .. Modulus - 1 : \A j \in 0 .. Bits - 1 : Bit(c, j) = 1 <=> j \in T
  <2> HIDE DEF T
  <2>1. \E c \in 0 .. 2 ^ Bits - 1 : \A j \in 0 .. Bits - 1 : Bit(c, j) = 1 <=> j \in T
    BY <1>1, BitsExist
  <2> QED
    BY <1>1, <2>1
<1>3. \A j \in 0 .. Bits - 1 : Bit(c, j) = 1 <=> <<Bit(a, j) = 1, Bit(b, j) = 1>> \in ones
  BY <1>2
<1>4. Bitwise(ones, a, b) = Wrap(c)
  BY <1>3, BitwiseIs
<1>5. c \in Int /\ Wrap(c) \in Word
  BY <1>1, WrapFacts
<1>6. \A j \in 0 .. Bits - 1 : Bit(Wrap(c), j) = Bit(c, j)
  BY <1>5, WordBits
<1> QED
  BY <1>3, <1>4, <1>5, <1>6

LEMMA BitOfWord ==
  ASSUME Powers, NEW w \in Word, NEW j \in 0 .. Bits - 1
  PROVE  Bit(w, j) \in {0, 1} /\ Bit(Low(w), j) = Bit(w, j)
<1>1. w \in Int /\ j \in Nat /\ Bits \in Nat /\ Low(w) = w % Modulus
  BY WordSizes DEF Word, Low
<1> QED
  BY <1>1, BitIs, WordBits

LEMMA BitwiseTells ==
  ASSUME Powers, NEW a \in Word, NEW b \in Word, NEW j \in 0 .. Bits - 1
  PROVE  /\ Bit(And(a, b), j) = 1 <=> Bit(a, j) = 1 /\ Bit(b, j) = 1
         /\ Bit(Or(a, b), j) = 1 <=> Bit(a, j) = 1 \/ Bit(b, j) = 1
         /\ Bit(Xor(a, b), j) = 1 <=> ~ (Bit(a, j) = 1 <=> Bit(b, j) = 1)
         /\ And(a, b) \in Word /\ Or(a, b) \in Word /\ Xor(a, b) \in Word
<1> DEFINE x == Bit(a, j) = 1
           y == Bit(b, j) = 1
<1>1. x \in BOOLEAN /\ y \in BOOLEAN
  OBVIOUS
<1>2. /\ Bit(And(a, b), j) = 1 <=> <<x, y>> \in {<<TRUE, TRUE>>}
      /\ Bit(Or(a, b), j) = 1 <=> <<x, y>> \in {<<TRUE, TRUE>>, <<TRUE, FALSE>>, <<FALSE, TRUE>>}
      /\ Bit(Xor(a, b), j) = 1 <=> <<x, y>> \in {<<TRUE, FALSE>>, <<FALSE, TRUE>>}
  BY BitwiseBits DEF And, Or, Xor
<1>3. And(a, b) \in Word /\ Or(a, b) \in Word /\ Xor(a, b) \in Word
  BY BitwiseBits DEF And, Or, Xor
<1> HIDE DEF x, y
<1>4. /\ <<x, y>> \in {<<TRUE, TRUE>>} <=> x /\ y
      /\ <<x, y>> \in {<<TRUE, TRUE>>, <<TRUE, FALSE>>, <<FALSE, TRUE>>} <=> x \/ y
      /\ <<x, y>> \in {<<TRUE, FALSE>>, <<FALSE, TRUE>>} <=> ~ (x <=> y)
  <2>1. <<x, y>> \in {<<TRUE, TRUE>>} <=> x /\ y
    BY <1>1, Zenon
  <2>2. <<x, y>> \in {<<TRUE, TRUE>>, <<TRUE, FALSE>>, <<FALSE, TRUE>>} <=> x \/ y
    BY <1>1, Zenon
  <2>3. <<x, y>> \in {<<TRUE, FALSE>>, <<FALSE, TRUE>>} <=> ~ (x <=> y)
    BY <1>1, Zenon
  <2> QED
    BY <2>1, <2>2, <2>3
<1>5. /\ Bit(And(a, b), j) = 1 <=> x /\ y
      /\ Bit(Or(a, b), j) = 1 <=> x \/ y
      /\ Bit(Xor(a, b), j) = 1 <=> ~ (x <=> y)
  BY <1>2, <1>4, Zenon
<1> QED
  BY <1>3, <1>5 DEF x, y

-----------------------------------------------------------------------------
(* Sums of flags, each in its byte.                                        *)
LEMMA SmallNumbers ==
  ASSUME Powers
  PROVE  /\ Byte \in Nat \ {0} /\ 4 <= Byte /\ Byte ^ 0 = 1 /\ Byte ^ 1 = Byte
         /\ Byte ^ 2 = Byte * Byte /\ Byte ^ 3 = Byte * Byte * Byte
         /\ HighBit \in Nat \ {0} /\ 2 * (Byte * Byte * Byte) <= HighBit
         /\ Byte <= Byte * Byte /\ Byte * Byte <= Byte * Byte * Byte
         /\ 1 + Byte + Byte * Byte + Byte * Byte * Byte < HighBit
<1>1. /\ ByteBits \in Nat \ {0} /\ 2 ^ ByteBits = Byte
      /\ Byte ^ 0 = 1 /\ Byte ^ 1 = Byte
      /\ Byte ^ 2 = Byte * Byte /\ Byte ^ 3 = Byte * Byte * Byte
      /\ HighBit \in Nat \ {0} /\ 2 * HighBit = Byte * Byte * Byte * Byte
  BY ByteSize, BytePlace DEF Modulus
<1>2. Byte \in Nat \ {0} /\ 4 <= Byte
  <2>1. PICK n \in Nat : ByteBits = n + 1 + 1
    <3>1. ByteBits - 2 \in Nat /\ ByteBits = (ByteBits - 2) + 1 + 1
      BY <1>1, LengthAssumption
    <3> QED
      BY <3>1
  <2>2. 2 ^ (n + 1 + 1) = 2 * (2 * 2 ^ n) /\ 2 ^ n \in Nat \ {0}
    <3>1. n + 1 \in Nat
      OBVIOUS
    <3>2. 2 ^ (n + 1 + 1) = 2 * 2 ^ (n + 1) /\ 2 ^ (n + 1) = 2 * 2 ^ n /\ 2 ^ n \in Nat \ {0}
      BY <3>1 DEF Powers
    <3> QED
      BY <3>2
  <2> QED
    BY <1>1, <2>1, <2>2
<1> DEFINE s == Byte * Byte
           c == Byte * Byte * Byte
<1>3. s \in Nat /\ c \in Nat /\ c = s * Byte /\ 2 * HighBit = c * Byte
  BY <1>1, <1>2
<1>4. 4 * Byte <= s
  BY <1>2, Z3
<1> HIDE DEF s
<1>5. 4 * s <= c
  BY <1>2, <1>3, Z3
<1> HIDE DEF c
<1>6. 4 * c <= 2 * HighBit
  BY <1>2, <1>3, Z3
<1>7. 2 * c <= HighBit /\ Byte <= s /\ s <= c /\ 1 + Byte + s + c < HighBit
  BY <1>1, <1>2, <1>3, <1>4, <1>5, <1>6
<1> QED
  BY <1>1, <1>2, <1>7 DEF s, c

LEMMA ConstantIs ==
  ASSUME Powers, NEW w \in Int, NEW c \in Initialised
  PROVE  TimesConst(w, c) = Times(w, c) /\ ModConst(w, c) = w % c
  BY DEF TimesConst, ModConst, Mod

LEMMA TwoFlags ==
  ASSUME Powers, NEW f \in {0, 1}, NEW g \in {0, 1}
  PROVE  LET w == Add(Add(0, TimesConst(f, Byte ^ 0)), TimesConst(g, Byte ^ 1))
         IN  /\ w = f + g * Byte /\ w \in Word
             /\ ByteOf(w, 0) = f /\ ByteOf(w, 1) = g
<1>1. /\ Byte \in Nat \ {0} /\ 4 <= Byte /\ Byte ^ 0 = 1 /\ Byte ^ 1 = Byte
      /\ HighBit \in Nat \ {0} /\ 1 + Byte < HighBit
  <2> DEFINE s == Byte * Byte
             c == Byte * Byte * Byte
  <2>1. /\ Byte \in Nat \ {0} /\ 4 <= Byte /\ Byte ^ 0 = 1 /\ Byte ^ 1 = Byte
        /\ HighBit \in Nat \ {0} /\ Byte <= s /\ s <= c /\ 1 + Byte + s + c < HighBit
    BY SmallNumbers
  <2>2. s \in Int /\ c \in Int
    BY <2>1
  <2> HIDE DEF s, c
  <2> QED
    BY <2>1, <2>2
<1>2. 1 \in Initialised /\ Byte \in Initialised
  BY InitialisedAre
<1>3. TimesConst(f, 1) = f
  <2>1. f * 1 = f /\ f \in Int /\ f \in Word
    BY <1>1 DEF Word
  <2> QED
    BY <1>2, <2>1, ConstantIs, WrapFacts DEF Times
<1>4. TimesConst(g, Byte) = g * Byte /\ g * Byte \in Int
  <2>1. g * Byte \in Int /\ g * Byte \in Word /\ g \in Int
    BY <1>1 DEF Word
  <2> QED
    BY <1>2, <2>1, ConstantIs, WrapFacts DEF Times
<1>5. Add(0, f) = f
  <2>1. 0 + f = f /\ f \in Int /\ f \in Word
    BY <1>1 DEF Word
  <2> QED
    BY <2>1, WrapFacts DEF Add
<1> DEFINE v == f + g * Byte
<1>6. Add(f, g * Byte) = v /\ v \in Word /\ v \in Int
  <2>1. v \in Int /\ v \in Word
    BY <1>1 DEF Word
  <2> QED
    BY <2>1, WrapFacts DEF Add
<1>7. ByteOf(v, 0) = v % Byte /\ ByteOf(v, 1) = (v \div Byte) % Byte
  <2> HIDE DEF v
  <2> QED
    BY <1>6, BytesByDivision
<1>8. v % Byte = f /\ v \div Byte = g
  <2>1. v = g * Byte + f /\ g \in Int /\ f \in 0 .. Byte - 1
    BY <1>1
  <2>2. (g * Byte + f) \div Byte = g /\ (g * Byte + f) % Byte = f
    BY <1>1, <2>1, DivUnique
  <2> QED
    BY <2>1, <2>2
<1>9. g % Byte = g
  BY <1>1, ModSmall
<1> QED
  BY <1>1, <1>3, <1>4, <1>5, <1>6, <1>7, <1>8, <1>9

(* The word of four flags, and what a division leaves of it.               *)
LEMMA FlagsWordIs ==
  ASSUME Powers, NEW flags \in [1 .. 4 -> {0, 1}]
  PROVE  /\ FlagsWord(flags) \in 0 .. HighBit - 1 /\ FlagsWord(flags) \in Word
         /\ FlagsWord(flags) = Join(0, flags[1], flags[2], flags[3], flags[4])
         /\ \A i \in 0 .. 3 :
              /\ Byte ^ i \in Nat \ {0} /\ Byte ^ i \in Initialised
              /\ Over(FlagsWord(flags), Byte ^ i) = FlagsWord(flags) \div Byte ^ i
<1> DEFINE w == FlagsWord(flags)
           s == Byte * Byte
           c == Byte * Byte * Byte
<1>1. /\ flags[1] \in {0, 1} /\ flags[2] \in {0, 1} /\ flags[3] \in {0, 1} /\ flags[4] \in {0, 1}
  OBVIOUS
<1>2. /\ Byte \in Nat \ {0} /\ 4 <= Byte /\ Byte ^ 2 = s /\ Byte ^ 3 = c
      /\ HighBit \in Nat \ {0} /\ 1 + Byte + s + c < HighBit /\ s \in Nat /\ c \in Nat
  BY SmallNumbers
<1>3. w = flags[1] + flags[2] * Byte + flags[3] * s + flags[4] * c
  BY <1>2 DEF FlagsWord
<1>4. /\ flags[2] * Byte \in 0 .. Byte /\ flags[3] * s \in 0 .. s /\ flags[4] * c \in 0 .. c
  <2> HIDE DEF s, c
  <2>1. ASSUME NEW f \in {0, 1}, NEW n \in Nat PROVE f * n \in 0 .. n
    OBVIOUS
  <2> QED
    BY <1>1, <1>2, <2>1
<1>5. w = Join(0, flags[1], flags[2], flags[3], flags[4])
  <2>1. \A p, q, r, t \in Int : Join(0, p, q, r, t) = p + q * Byte + r * s + t * c
    BY <1>2, Z3 DEF Join
  <2> QED
    BY <1>1, <1>3, <2>1
<1>6. w \in 0 .. HighBit - 1
  <2> DEFINE x == flags[2] * Byte
             y == flags[3] * s
             z == flags[4] * c
  <2>1. w = flags[1] + x + y + z /\ x \in 0 .. Byte /\ y \in 0 .. s /\ z \in 0 .. c
    BY <1>3, <1>4
  <2> HIDE DEF w, s, c, x, y, z
  <2> QED
    BY <1>1, <1>2, <2>1
<1> HIDE DEF w, s, c
<1>7. w \in Word
  BY <1>2, <1>6 DEF Word
<1>8. ASSUME NEW i \in 0 .. 3
      PROVE  /\ Byte ^ i \in Nat \ {0} /\ Byte ^ i \in Initialised
             /\ Over(w, Byte ^ i) = w \div Byte ^ i
  <2>1. Byte ^ i \in Nat \ {0} /\ 2 ^ (i * ByteBits) = Byte ^ i /\ i * ByteBits \in Nat
    BY ByteUnits
  <2>2. i * ByteBits \in 0 .. Bits - 2
    <3>1. i * ByteBits <= 3 * ByteBits /\ Bits = 4 * ByteBits /\ ByteBits \in Nat
      BY ByteSize
    <3> QED
      BY <2>1, <3>1, LengthAssumption
  <2>3. Byte ^ i \in Initialised
    BY <2>1, <2>2, InitialisedAre
  <2>4. Over(w, Byte ^ i) = w \div Byte ^ i
    <3> DEFINE p == Byte ^ i
    <3>1. p \in Nat \ {0}
      BY <2>1
    <3> HIDE DEF p
    <3>2. Over(w, p) = w \div p
      BY <1>6, <3>1, OverIs
    <3> QED
      BY <3>2 DEF p
  <2> QED
    BY <2>1, <2>3, <2>4
<1> QED
  BY <1>5, <1>6, <1>7, <1>8 DEF w

-----------------------------------------------------------------------------
(* What VectorsRight asks.                                                 *)
LaneHolds(op, as, bs, s, d, i) ==
  LET a == Low(as[i])  b == Low(bs[i])
      flag == ByteOf(d[1], i - 1)
  IN /\ op = "v.add" => Low(d[i]) = Low(a + b)
     /\ op = "v.sub" => Low(d[i]) = Low(a - b)
     /\ op = "v.mul" => Low(d[i]) = Low(a * b)
     /\ \A n \in 0 .. Bits - 1 :
          /\ op = "v.and" => Bit(d[i], n) = Bit(a, n) * Bit(b, n)
          /\ op = "v.or"  => (Bit(d[i], n) = 0) = (Bit(a, n) + Bit(b, n) = 0)
          /\ op = "v.xor" => (Bit(d[i], n) = 0) = (Bit(a, n) = Bit(b, n))
     /\ s = 0 =>
          /\ op = "v.eq"  => flag = Flag(a = b)
          /\ op = "v.ne"  => flag = Flag(a # b)
          /\ op = "v.ult" => flag = Flag(a < b)
          /\ op = "v.ule" => flag = Flag(a <= b)
          /\ op = "v.uge" => flag = Flag(a >= b)
          /\ op = "v.ugt" => flag = Flag(a > b)

PartHolds(op, a, b, s, d) ==
  /\ op = "shuffle" => d = [i \in Lanes |-> (a \o b)[s[i] + 1]]
  /\ op = "extract.element" => d[1] = a[s + 1]
  /\ op = "insert.element" => d[s + 1] = b[1] /\ d[2 - s] = a[2 - s]
  /\ op = "extract.flag" /\ a[1] < Byte ^ (s + 1) => d[1] = ByteOf(a[1], s)

VectorHolds(op, a, b, s, d) ==
  /\ op \in LaneOps => \A i \in Lanes : LaneHolds(op, a, b, s, d, i)
  /\ PartHolds(op, a, b, s, d)

LEMMA OtherVectors ==
  ASSUME NEW op, NEW a, NEW b, NEW s, NEW d
  PROVE  /\ op \notin VectorOps => VectorHolds(op, a, b, s, d)
         /\ op \in LaneOps => PartHolds(op, a, b, s, d)
         /\ op \in VectorOps \ LaneOps /\ PartHolds(op, a, b, s, d) => VectorHolds(op, a, b, s, d)
  BY DEF VectorHolds, PartHolds, VectorOps, LaneOps

LEMMA LaneSums ==
  ASSUME Powers, NEW a \in Word, NEW b \in Word
  PROVE  /\ Low(Add(a, b)) = Low(Low(a) + Low(b))
         /\ Low(Wrap(a - b)) = Low(Low(a) - Low(b))
         /\ Low(Times(a, b)) = Low(Low(a) * Low(b))
<1>1. \A x : Low(x) = U(x) /\ U(x) = x % Modulus
  BY WordSizes DEF Low, U
<1>2. /\ U(Add(a, b)) = (U(a) + U(b)) % Modulus
      /\ U(Wrap(a - b)) = (U(a) - U(b)) % Modulus
      /\ U(Times(a, b)) = (U(a) * U(b)) % Modulus
  BY UnsignedSums
<1> QED
  BY <1>1, <1>2, Zenon

LEMMA ArithmeticLanesHold ==
  ASSUME Powers, NEW as, NEW bs, NEW s, NEW d, NEW i \in Lanes, NEW a \in Word, NEW b \in Word,
         NEW op \in {"v.add", "v.sub", "v.mul"}, as[i] = a, bs[i] = b,
         d[i] = CASE op = "v.add" -> Add(a, b)
                  [] op = "v.sub" -> Wrap(a - b)
                  [] op = "v.mul" -> Times(a, b)
  PROVE  LaneHolds(op, as, bs, s, d, i)
<1>1. CASE op = "v.add"
  BY <1>1, LaneSums DEF LaneHolds
<1>2. CASE op = "v.sub"
  BY <1>2, LaneSums DEF LaneHolds
<1>3. CASE op = "v.mul"
  BY <1>3, LaneSums DEF LaneHolds
<1> QED
  BY <1>1, <1>2, <1>3

LEMMA BitwiseLanesHold ==
  ASSUME Powers, NEW as, NEW bs, NEW s, NEW d, NEW i \in Lanes, NEW a \in Word, NEW b \in Word,
         NEW op \in {"v.and", "v.or", "v.xor"}, as[i] = a, bs[i] = b,
         d[i] = CASE op = "v.and" -> And(a, b)
                  [] op = "v.or"  -> Or(a, b)
                  [] op = "v.xor" -> Xor(a, b)
  PROVE  LaneHolds(op, as, bs, s, d, i)
<1>1. ASSUME NEW n \in 0 .. Bits - 1
      PROVE  LET x == Bit(Low(a), n)
                 y == Bit(Low(b), n)
             IN  /\ op = "v.and" => Bit(d[i], n) = x * y
                 /\ op = "v.or"  => (Bit(d[i], n) = 0) = (x + y = 0)
                 /\ op = "v.xor" => (Bit(d[i], n) = 0) = (x = y)
  <2>1. /\ Bit(Low(a), n) = Bit(a, n) /\ Bit(a, n) \in {0, 1}
        /\ Bit(Low(b), n) = Bit(b, n) /\ Bit(b, n) \in {0, 1}
    BY BitOfWord
  <2>2. /\ Bit(And(a, b), n) = 1 <=> Bit(a, n) = 1 /\ Bit(b, n) = 1
        /\ Bit(Or(a, b), n) = 1 <=> Bit(a, n) = 1 \/ Bit(b, n) = 1
        /\ Bit(Xor(a, b), n) = 1 <=> ~ (Bit(a, n) = 1 <=> Bit(b, n) = 1)
        /\ And(a, b) \in Word /\ Or(a, b) \in Word /\ Xor(a, b) \in Word
    BY BitwiseTells
  <2>3. /\ Bit(And(a, b), n) \in {0, 1} /\ Bit(Or(a, b), n) \in {0, 1}
        /\ Bit(Xor(a, b), n) \in {0, 1}
    BY <2>2, BitOfWord
  <2>4. CASE op = "v.and"
    BY <2>1, <2>2, <2>3, <2>4
  <2>5. CASE op = "v.or"
    BY <2>1, <2>2, <2>3, <2>5
  <2>6. CASE op = "v.xor"
    BY <2>1, <2>2, <2>3, <2>6
  <2> QED
    BY <2>4, <2>5, <2>6
<1> QED
  BY <1>1 DEF LaneHolds

LEMMA ICmpLanesHold ==
  ASSUME Powers, NEW a \in Word \X Word, NEW b \in Word \X Word, NEW old \in {0, 1},
         NEW pred \in DOMAIN LanePred, NEW i \in Lanes
  PROVE  LaneHolds(LanePred[pred], a, b, old,
                   <<Add(Add(old, TimesConst(Flag(Compare(pred, a[1], b[1])), Byte ^ (1 - 1))),
                         TimesConst(Flag(Compare(pred, a[2], b[2])), Byte ^ (2 - 1)))>>, i)
<1> DEFINE f(j) == Flag(Compare(pred, a[j], b[j]))
           w == Add(Add(old, TimesConst(f(1), Byte ^ (1 - 1))), TimesConst(f(2), Byte ^ (2 - 1)))
<1>1. /\ HighBit \in Nat \ {0}
      /\ a[1] \in Word /\ a[2] \in Word /\ b[1] \in Word /\ b[2] \in Word
      /\ a[i] \in Word /\ b[i] \in Word
  BY WordSizes, DoubleParts DEF Lanes
<1>2. old = 0 => ByteOf(w, i - 1) = f(i)
  <2>1. f(1) \in {0, 1} /\ f(2) \in {0, 1}
    BY FlagIs
  <2> HIDE DEF f
  <2>2. LET v == Add(Add(0, TimesConst(f(1), Byte ^ 0)), TimesConst(f(2), Byte ^ 1))
        IN ByteOf(v, 0) = f(1) /\ ByteOf(v, 1) = f(2)
    BY <2>1, TwoFlags
  <2>3. 1 - 1 = 0 /\ 2 - 1 = 1
    OBVIOUS
  <2> QED
    BY <2>2, <2>3 DEF Lanes
<1>3. /\ Compare("eq", a[i], b[i])  <=> Low(a[i]) = Low(b[i])
      /\ Compare("ne", a[i], b[i])  <=> Low(a[i]) # Low(b[i])
      /\ Compare("ult", a[i], b[i]) <=> Low(a[i]) < Low(b[i])
      /\ Compare("ule", a[i], b[i]) <=> Low(a[i]) <= Low(b[i])
      /\ Compare("uge", a[i], b[i]) <=> Low(a[i]) >= Low(b[i])
      /\ Compare("ugt", a[i], b[i]) <=> Low(a[i]) > Low(b[i])
  <2>1. Low(a[i]) = U(a[i]) /\ Low(b[i]) = U(b[i])
    BY WordSizes DEF Low, U
  <2> QED
    BY <1>1, <2>1, CompareTells
<1> HIDE DEF w
<1>4. DOMAIN LanePred = {"eq", "ne", "ult", "ule", "uge", "ugt"}
  BY DEF LanePred
<1>5. /\ LanePred["eq"] = "v.eq" /\ LanePred["ne"] = "v.ne" /\ LanePred["ult"] = "v.ult"
      /\ LanePred["ule"] = "v.ule" /\ LanePred["uge"] = "v.uge" /\ LanePred["ugt"] = "v.ugt"
  BY DEF LanePred
<1> DEFINE d == <<w>>
<1>6. d[1] = w
  OBVIOUS
<1> HIDE DEF d
<1>7. LaneHolds(LanePred[pred], a, b, old, d, i)
  <2>1. CASE pred = "eq"
    BY <1>2, <1>3, <1>5, <1>6, <2>1 DEF LaneHolds, Flag
  <2>2. CASE pred = "ne"
    BY <1>2, <1>3, <1>5, <1>6, <2>2 DEF LaneHolds, Flag
  <2>3. CASE pred = "ult"
    BY <1>2, <1>3, <1>5, <1>6, <2>3 DEF LaneHolds, Flag
  <2>4. CASE pred = "ule"
    BY <1>2, <1>3, <1>5, <1>6, <2>4 DEF LaneHolds, Flag
  <2>5. CASE pred = "uge"
    BY <1>2, <1>3, <1>5, <1>6, <2>5 DEF LaneHolds, Flag
  <2>6. CASE pred = "ugt"
    BY <1>2, <1>3, <1>5, <1>6, <2>6 DEF LaneHolds, Flag
  <2> QED
    BY <1>4, <2>1, <2>2, <2>3, <2>4, <2>5, <2>6
<1> QED
  BY <1>7 DEF d, w

(* A flag extracted, with none above it.                                   *)
LEMMA TopFlag ==
  ASSUME Powers, NEW flags \in [1 .. 4 -> {0, 1}], NEW i \in 0 .. 3,
         FlagsWord(flags) < Byte ^ (i + 1)
  PROVE  Over(FlagsWord(flags), Byte ^ i) = ByteOf(FlagsWord(flags), i)
<1> DEFINE w == FlagsWord(flags)
           p == Byte ^ i
<1>1. w \in Nat /\ p \in Nat \ {0} /\ Over(w, p) = w \div p
  BY FlagsWordIs
<1>2. Byte \in Nat \ {0} /\ Byte ^ (i + 1) = Byte * p
  <2>1. Byte \in Nat \ {0} /\ i \in Nat
    BY SmallNumbers
  <2> QED
    BY <2>1 DEF Powers
<1>3. w < Byte * p
  BY <1>2
<1> HIDE DEF w, p
<1>4. w \div p \in 0 .. Byte - 1
  BY <1>1, <1>2, <1>3, QuotientBelow
<1>5. (w \div p) % Byte = w \div p
  BY <1>2, <1>4, ModSmall
<1> QED
  BY <1>1, <1>5 DEF ByteOf, w, p

(* An index into two vectors of two elements.                              *)
LEMMA JoinedDoubles ==
  ASSUME NEW a \in Word \X Word, NEW b \in Word \X Word
  PROVE (a \o b)[1] = a[1] /\ (a \o b)[2] = a[2] /\ (a \o b)[4] = b[2]
<1> DEFINE s == <<a[1], a[2]>>
           t == <<b[1], b[2]>>
           f == s \o t
<1>1. a = s /\ b = t
  OBVIOUS
<1>2. s \in Seq(Word) /\ t \in Seq(Word) /\ Len(s) = 2 /\ Len(t) = 2
  OBVIOUS
<1> HIDE DEF s, t
<1>3. \A i \in 1 .. Len(s) + Len(t) : f[i] = IF i <= Len(s) THEN s[i] ELSE t[i - Len(s)]
  BY <1>2, ConcatProperties
<1> HIDE DEF f
<1>4. f[1] = s[1] /\ f[2] = s[2] /\ f[4] = t[2]
  BY <1>2, <1>3
<1> QED
  BY <1>1, <1>4 DEF f

LEMMA ShuffledIs ==
  ASSUME NEW a \in Word \X Word, NEW b \in Word \X Word, NEW m \in {0, 1, 3}
  PROVE (a \o b)[m + 1] = IF m > 2 THEN b[m - 1] ELSE a[m + 1]
<1> DEFINE f == a \o b
<1>1. f[1] = a[1] /\ f[2] = a[2] /\ f[4] = b[2]
  BY JoinedDoubles
<1> HIDE DEF f
<1>2. f[m + 1] = IF m > 2 THEN b[m - 1] ELSE a[m + 1]
  BY <1>1
<1> QED
  BY <1>2 DEF f

LEMMA LaneRightIs ==
  ASSUME NEW i
  PROVE  /\ LaneRight(i) = LaneHolds(instr.op, instr.a, instr.b, instr.s, dest, i)
         /\ LaneRight(i)' = LaneHolds(instr'.op, instr'.a, instr'.b, instr'.s, dest', i)
<1>1. LaneRight(i) = LaneHolds(instr.op, instr.a, instr.b, instr.s, dest, i)
  BY SMT DEF LaneRight, LaneHolds, Bit
<1>2. LaneRight(i)' = LaneHolds(instr'.op, instr'.a, instr'.b, instr'.s, dest', i)
  BY SMT DEF LaneRight, LaneHolds, Bit
<1> QED
  BY <1>1, <1>2

(* Every element of a vector is computed as a word is, whatever the others *)
(* are, and what is moved arrives where it should, for words of any length *)
(* (VectorsRight, which run words checks for eight bits).                  *)
THEOREM VectorsCorrect ==
  ASSUME Powers
  PROVE  Spec => []VectorsRight
<1> USE Powers
<1>1. Init => VectorsRight
  BY DEF Init, NoInstr, VectorsRight
<1>2. ASSUME NEW op, NEW const, NEW bits, NEW a, NEW b, NEW s,
             Executes(op, const, bits, a, b, s)
      PROVE  /\ VectorHolds(op, a, b, s, dest') => VectorsRight'
             /\ op \notin VectorOps => VectorsRight'
  <2>1. instr'.op = op /\ instr'.a = a /\ instr'.b = b /\ instr'.s = s
    BY <1>2 DEF Executes
  <2>2. \A i : LaneRight(i)' = LaneHolds(op, a, b, s, dest', i)
    BY <2>1, LaneRightIs
  <2>3. PartHolds(op, a, b, s, dest') =>
          /\ instr'.op = "shuffle" =>
               dest' = [i \in Lanes |-> (instr'.a \o instr'.b)[instr'.s[i] + 1]]
          /\ instr'.op = "extract.element" => dest'[1] = instr'.a[instr'.s + 1]
          /\ instr'.op = "insert.element" =>
               /\ dest'[instr'.s + 1] = instr'.b[1]
               /\ dest'[2 - instr'.s] = instr'.a[2 - instr'.s]
          /\ instr'.op = "extract.flag" /\ instr'.a[1] < Byte ^ (instr'.s + 1) =>
               dest'[1] = ByteOf(instr'.a[1], instr'.s)
    BY <2>1, Zenon DEF PartHolds
  <2>4. VectorHolds(op, a, b, s, dest') => VectorsRight'
    BY <2>1, <2>2, <2>3, Zenon DEF VectorHolds, VectorsRight, LaneOps
  <2>5. op \notin VectorOps => VectorHolds(op, a, b, s, dest')
    BY OtherVectors
  <2> QED
    BY <2>4, <2>5
<1>3. ASSUME NEW op, NEW a, NEW b, NEW s, NEW cs, OnVectors(op, a, b, s, cs),
             VectorHolds(op, a, b, s, dest')
      PROVE  VectorsRight'
  BY <1>2, <1>3, Zenon DEF OnVectors
<1>4. Operands \subseteq Word /\ (\A x \in Doubles : x \in Word \X Word) /\ Lanes = {1, 2}
  BY OperandsAssumption DEF Doubles, Lanes
<1>5. ASSUME ArithmeticLanes PROVE VectorsRight'
  <2>1. PICK a \in Doubles, w \in Operands, op \in {"v.add", "v.sub", "v.mul"} :
          /\ OnVectors(op, a, <<w, a[1]>>, 0, {})
          /\ dest' = [i \in Lanes |-> CASE op = "v.add" -> Add(a[i], <<w, a[1]>>[i])
                                        [] op = "v.sub" -> Wrap(a[i] - <<w, a[1]>>[i])
                                        [] op = "v.mul" -> Times(a[i], <<w, a[1]>>[i])]
    BY <1>5, Zenon DEF ArithmeticLanes
  <2> DEFINE b == <<w, a[1]>>
  <2>2. a[1] \in Word /\ a[2] \in Word /\ b[1] \in Word /\ b[2] \in Word
    BY <1>4, DoubleParts
  <2>3. OnVectors(op, a, b, 0, {})
    BY <2>1
  <2>4. \A i \in Lanes : dest'[i] = CASE op = "v.add" -> Add(a[i], b[i])
                                      [] op = "v.sub" -> Wrap(a[i] - b[i])
                                      [] op = "v.mul" -> Times(a[i], b[i])
    BY <2>1, Zenon
  <2> HIDE DEF b
  <2>5. \A i \in Lanes : LaneHolds(op, a, b, 0, dest', i)
    <3> TAKE i \in Lanes
    <3>1. a[i] \in Word /\ b[i] \in Word
      BY <1>4, <2>2
    <3> QED
      BY <2>4, <3>1, ArithmeticLanesHold
  <2>6. op \in LaneOps
    BY DEF LaneOps
  <2> QED
    BY <1>3, <2>3, <2>5, <2>6, OtherVectors DEF VectorHolds
<1>6. ASSUME BitwiseLanes PROVE VectorsRight'
  <2>1. PICK a \in Doubles, w \in Operands, op \in {"v.and", "v.or", "v.xor"} :
          /\ OnVectors(op, a, <<w, a[1]>>, 0, {})
          /\ dest' = [i \in Lanes |-> CASE op = "v.and" -> And(a[i], <<w, a[1]>>[i])
                                        [] op = "v.or"  -> Or(a[i], <<w, a[1]>>[i])
                                        [] op = "v.xor" -> Xor(a[i], <<w, a[1]>>[i])]
    BY <1>6, Zenon DEF BitwiseLanes
  <2> DEFINE b == <<w, a[1]>>
  <2>2. a[1] \in Word /\ a[2] \in Word /\ b[1] \in Word /\ b[2] \in Word
    BY <1>4, DoubleParts
  <2>3. OnVectors(op, a, b, 0, {})
    BY <2>1
  <2>4. \A i \in Lanes : dest'[i] = CASE op = "v.and" -> And(a[i], b[i])
                                      [] op = "v.or"  -> Or(a[i], b[i])
                                      [] op = "v.xor" -> Xor(a[i], b[i])
    BY <2>1, Zenon
  <2> HIDE DEF b
  <2>5. \A i \in Lanes : LaneHolds(op, a, b, 0, dest', i)
    <3> TAKE i \in Lanes
    <3>1. a[i] \in Word /\ b[i] \in Word
      BY <1>4, <2>2
    <3> QED
      BY <2>4, <3>1, BitwiseLanesHold
  <2>6. op \in LaneOps
    BY DEF LaneOps
  <2> QED
    BY <1>3, <2>3, <2>5, <2>6, OtherVectors DEF VectorHolds
<1>7. ASSUME ICmpLanes PROVE VectorsRight'
  <2>1. PICK a \in Doubles, w \in Operands, old \in {0, 1}, pred \in DOMAIN LanePred :
          LET b == <<w, a[1]>>
              flag(i) == TimesConst(Flag(Compare(pred, a[i], b[i])), Byte ^ (i - 1))
          IN  /\ OnVectors(LanePred[pred], a, b, old, {1, Byte})
              /\ dest' = <<Add(Add(old, flag(1)), flag(2))>>
    BY <1>7, Zenon DEF ICmpLanes
  <2> DEFINE b == <<w, a[1]>>
  <2>2. a \in Word \X Word /\ b \in Word \X Word
    BY <1>4, DoubleParts
  <2>3. OnVectors(LanePred[pred], a, b, old, {1, Byte})
    BY <2>1
  <2>4. dest' = <<Add(Add(old, TimesConst(Flag(Compare(pred, a[1], b[1])), Byte ^ (1 - 1))),
                      TimesConst(Flag(Compare(pred, a[2], b[2])), Byte ^ (2 - 1)))>>
    BY <2>1, Zenon
  <2> HIDE DEF b
  <2>5. \A i \in Lanes : LaneHolds(LanePred[pred], a, b, old, dest', i)
    BY <2>2, <2>4, ICmpLanesHold
  <2>6. LanePred[pred] \in LaneOps
    BY DEF LaneOps, LanePred
  <2> QED
    BY <1>3, <2>3, <2>5, <2>6, OtherVectors DEF VectorHolds
<1>8. ASSUME ShuffleWords PROVE VectorsRight'
  <2>1. PICK a \in Doubles, b \in Doubles, m \in {0, 1, 3}, n \in {0, 1, 3} :
          LET mask == <<m, n>>
          IN  /\ OnVectors("shuffle", a, b, mask, {})
              /\ dest' = [i \in Lanes |-> IF mask[i] > 2 THEN b[mask[i] - 1] ELSE a[mask[i] + 1]]
    <3>1. PICK a \in Doubles, b \in Doubles :
            \E mask \in {<<m, n>> : m, n \in {0, 1, 3}} :
              /\ OnVectors("shuffle", a, b, mask, {})
              /\ dest' = [i \in Lanes |-> IF mask[i] > 2 THEN b[mask[i] - 1] ELSE a[mask[i] + 1]]
      BY <1>8 DEF ShuffleWords
    <3> DEFINE P(mask) ==
                 /\ OnVectors("shuffle", a, b, mask, {})
                 /\ dest' = [i \in Lanes |-> IF mask[i] > 2 THEN b[mask[i] - 1] ELSE a[mask[i] + 1]]
    <3>2. \E mask \in {<<m, n>> : m, n \in {0, 1, 3}} : P(mask)
      BY <3>1
    <3> HIDE DEF P
    <3>3. \E m \in {0, 1, 3}, n \in {0, 1, 3} : P(<<m, n>>)
      BY <3>2
    <3> QED
      BY <3>3 DEF P
  <2> DEFINE mask == <<m, n>>
  <2>2. OnVectors("shuffle", a, b, mask, {})
    BY <2>1
  <2>3. dest' = [i \in Lanes |-> IF mask[i] > 2 THEN b[mask[i] - 1] ELSE a[mask[i] + 1]]
    BY <2>1
  <2>4. a \in Word \X Word /\ b \in Word \X Word
    BY <1>4
  <2>5. \A i \in Lanes : mask[i] \in {0, 1, 3}
    BY <1>4
  <2> HIDE DEF mask
  <2>6. ASSUME NEW i \in Lanes
        PROVE  (a \o b)[mask[i] + 1] = IF mask[i] > 2 THEN b[mask[i] - 1] ELSE a[mask[i] + 1]
    BY <2>4, <2>5, ShuffledIs
  <2>7. dest' = [i \in Lanes |-> (a \o b)[mask[i] + 1]]
    BY <2>3, <2>6
  <2>8. VectorHolds("shuffle", a, b, mask, dest')
    BY <2>7 DEF VectorHolds, PartHolds, LaneOps
  <2> QED
    BY <1>3, <2>2, <2>8
<1>9. ASSUME ExtractElement PROVE VectorsRight'
  <2>1. PICK a \in Doubles, i \in {0, 1} :
          OnVectors("extract.element", a, <<>>, i, {}) /\ dest' = <<a[i + 1]>>
    BY <1>9 DEF ExtractElement
  <2>2. VectorHolds("extract.element", a, <<>>, i, dest')
    BY <2>1 DEF VectorHolds, PartHolds, LaneOps
  <2> QED
    BY <1>3, <2>1, <2>2
<1>10. ASSUME ExtractFlag PROVE VectorsRight'
  <2>1. PICK flags \in [1 .. 4 -> {0, 1}], i \in 0 .. 3 :
          /\ OnVectors("extract.flag", <<FlagsWord(flags)>>, <<>>, i, {Byte ^ i})
          /\ dest' = <<Over(FlagsWord(flags), Byte ^ i)>>
    BY <1>10, Zenon DEF ExtractFlag
  <2>2. VectorHolds("extract.flag", <<FlagsWord(flags)>>, <<>>, i, dest')
    BY <2>1, TopFlag DEF VectorHolds, PartHolds, LaneOps
  <2> QED
    BY <1>3, <2>1, <2>2
<1>11. ASSUME InsertElement PROVE VectorsRight'
  <2>1. PICK a \in Doubles, e \in Operands, i \in {0, 1} :
          OnVectors("insert.element", a, <<e>>, i, {}) /\ dest' = Inserted(a, i, e)
    BY <1>11 DEF InsertElement
  <2>2. VectorHolds("insert.element", a, <<e>>, i, dest')
    <3>1. a \in Word \X Word
      BY <1>4
    <3>2. dest' = [a EXCEPT ![i + 1] = e] /\ <<e>>[1] = e
      BY <2>1 DEF Inserted
    <3>3. dest'[i + 1] = e /\ dest'[2 - i] = a[2 - i]
      <4>1. CASE i = 0
        BY <3>1, <3>2, <4>1
      <4>2. CASE i = 1
        BY <3>1, <3>2, <4>2
      <4> QED
        BY <4>1, <4>2
    <3> QED
      BY <3>2, <3>3 DEF VectorHolds, PartHolds, LaneOps
  <2> QED
    BY <1>3, <2>1, <2>2
<1>12. ASSUME NextShift \/ NextArithmetic \/ NextConversion PROVE VectorsRight'
  <2>1. CASE NextShift
    BY <1>2, <2>1, ShiftOpsOnly DEF ShiftOps, VectorOps, LaneOps
  <2>2. CASE NextConversion
    BY <1>2, <2>2, ConversionOpsOnly DEF ConversionOps, VectorOps, LaneOps
  <2>3. CASE NextArithmetic
    <3>1. CASE ICmp \/ ICmp64 \/ ICmp48
      BY <1>2, <3>1, PredicatesOnly DEF Predicates, VectorOps, LaneOps
    <3>2. CASE \/ AddWord \/ SubWord \/ MulWord \/ SDiv \/ SRem \/ UDiv \/ URem
               \/ Add64Words \/ Sub64Words \/ Mul64Words
               \/ USubOverflow \/ UAddByte \/ USubByte
      BY <1>2, <3>2, SumOpsOnly DEF SumOps, VectorOps, LaneOps
    <3> QED
      BY <2>3, <3>1, <3>2 DEF NextArithmetic
  <2> QED
    BY <1>12, <2>1, <2>2, <2>3
<1>13. ASSUME VectorsRight, UNCHANGED vars PROVE VectorsRight'
  <2>1. instr' = instr /\ dest' = dest
    BY <1>13 DEF vars
  <2>2. \A i : LaneRight(i)' = LaneRight(i)
    BY <2>1, LaneRightIs
  <2> QED
    BY <1>13, <2>1, <2>2 DEF VectorsRight
<1>14. VectorsRight /\ [Next]_vars => VectorsRight'
  BY <1>5, <1>6, <1>7, <1>8, <1>9, <1>10, <1>11, <1>12, <1>13, Zenon DEF Next, NextVector
<1> QED
  BY <1>1, <1>14, PTL DEF Spec

-----------------------------------------------------------------------------
(* The remainder by a constant, a power of two that divides 2^32.          *)
LEMMA NarrowSizes ==
  ASSUME Powers, NEW n \in 0 .. Bits - 2
  PROVE  /\ 2 ^ n \in Nat \ {0} /\ 2 ^ n \in Initialised /\ 2 ^ n < HighBit
         /\ \E g \in Nat \ {0} : Modulus = g * 2 ^ n
<1>1. Bits \in Nat /\ n \in Nat /\ n <= Bits /\ 2 ^ Bits = Modulus /\ HighBit \in Nat \ {0}
  BY WordSizes
<1>2. \E g \in Nat \ {0} : 2 ^ Bits = g * 2 ^ n
  BY <1>1, PowerAbove
<1>3. 2 ^ n \in Nat \ {0} /\ 2 ^ n \in Initialised /\ Initialised \subseteq Word
  <2>1. n \in 0 .. Bits - 1
    BY <1>1
  <2> QED
    BY <2>1, InitialisedAre
<1>4. 2 ^ n < HighBit
  BY <1>1, <1>3 DEF Word
<1> QED
  BY <1>1, <1>2, <1>3, <1>4

LEMMA NarrowRest ==
  ASSUME Powers, NEW w \in Word, NEW k \in Int, NEW n \in 0 .. Bits - 2
  PROVE  /\ ModConst(w, 2 ^ n) = w % 2 ^ n
         /\ (w % 2 ^ n) \in 0 .. 2 ^ n - 1 /\ w % 2 ^ n \in Word /\ U(w % 2 ^ n) = w % 2 ^ n
         /\ (U(w) + Modulus * k) % 2 ^ n = w % 2 ^ n /\ U(w) % 2 ^ n = w % 2 ^ n
<1> DEFINE p == 2 ^ n
<1>1. p \in Nat \ {0} /\ p \in Initialised /\ p < HighBit
  BY NarrowSizes
<1>2. PICK g \in Nat \ {0} : Modulus = g * p
  BY NarrowSizes
<1>3. /\ HighBit \in Nat \ {0} /\ Modulus \in Nat \ {0} /\ w \in Int /\ U(w) \in Int
      /\ Congruent(w, U(w), Modulus)
  BY WordSizes, UnsignedOf
<1> HIDE DEF p
<1>4. ModConst(w, p) = w % p
  BY <1>1, <1>3, ConstantIs
<1>5. (w % p) \in 0 .. p - 1
  BY <1>1, <1>3, DivIs
<1>6. w % p \in Word /\ U(w % p) = w % p
  <2> DEFINE r == w % p
  <2>1. r \in Word /\ r >= 0
    BY <1>1, <1>3, <1>5 DEF Word
  <2> HIDE DEF r
  <2>2. U(r) = r
    BY <1>3, <2>1, UnsignedWord
  <2> QED
    BY <2>1, <2>2 DEF r
<1>7. ASSUME NEW i \in Int PROVE (U(w) + Modulus * i) % p = w % p
  <2>1. PICK j \in Int : w = U(w) + j * Modulus
    BY <1>3 DEF Congruent
  <2> DEFINE v == U(w) + Modulus * i
  <2>2. v \in Int
    BY <1>3
  <2>3. (i - j) * g \in Int /\ v = w + ((i - j) * g) * p
    <3>1. ((i - j) * g) * p = (i - j) * (g * p)
      BY <1>1, <1>2, Z3
    <3>2. (i - j) * Modulus = Modulus * i - j * Modulus
      BY <1>3, Z3
    <3>3. Modulus * i \in Int /\ j * Modulus \in Int
      BY <1>3
    <3> QED
      BY <1>2, <1>3, <2>1, <3>1, <3>2, <3>3
  <2> HIDE DEF v
  <2>4. Congruent(v, w, p)
    BY <2>3 DEF Congruent
  <2>5. v % p = w % p
    BY <1>1, <1>3, <2>2, <2>4, SameRest
  <2> QED
    BY <2>5 DEF v
<1>8. U(w) % p = w % p
  <2>1. U(w) + Modulus * 0 = U(w)
    BY <1>3
  <2>2. PICK z \in Int : z = 0
    OBVIOUS
  <2>3. (U(w) + Modulus * z) % p = w % p
    BY <1>7
  <2> QED
    BY <2>1, <2>2, <2>3
<1> QED
  BY <1>4, <1>5, <1>6, <1>7, <1>8 DEF p

LEMMA NarrowWidths ==
  ASSUME Powers
  PROVE  /\ \A n \in NarrowBits : n \in 0 .. Bits - 2 /\ n \in 1 .. Bits - 2
         /\ 2 ^ 1 = 2 /\ 2 ^ ByteBits = Byte /\ 2 ^ (2 * ByteBits) = Half
         /\ Byte ^ 1 = Byte /\ Byte ^ 2 = Half
<1>1. /\ ByteBits \in Nat \ {0} /\ ByteBits > 1 /\ Bits = 4 * ByteBits
      /\ 2 ^ ByteBits = Byte /\ 2 ^ (2 * ByteBits) = Half
      /\ Byte ^ 1 = Byte /\ Byte ^ 2 = Half
  BY ByteSize, BytePlace, LengthAssumption
<1>2. \A n \in NarrowBits : n \in 0 .. Bits - 2 /\ n \in 1 .. Bits - 2
  BY <1>1 DEF NarrowBits
<1>3. 2 ^ 1 = 2
  <2>1. 2 ^ (0 + 1) = 2 * 2 ^ 0 /\ 2 ^ 0 = 1
    BY DEF Powers
  <2> QED
    BY <2>1
<1> QED
  BY <1>1, <1>2, <1>3

(* What stands for a number as a holder does stands for it in its bits.    *)
LEMMA HolderIs ==
  ASSUME Powers, NEW n \in NarrowBits \union {Bits}
  PROVE  /\ 2 ^ n \in Nat \ {0} /\ 2 ^ (n - 1) \in Nat \ {0} /\ 2 ^ n = 2 * 2 ^ (n - 1)
         /\ \A w : Clean(w, n) => w \in Nat /\ w % 2 ^ n = w
         /\ \A w : SignExtended(w, n) =>
              /\ w \in Int /\ -(2 ^ (n - 1)) <= w /\ w < 2 ^ (n - 1)
              /\ w % 2 ^ n = IF w < 0 THEN w + 2 ^ n ELSE w
              /\ Signed(w % 2 ^ n, n) = w
<1> DEFINE k == n - 1
           p == 2 ^ n
           h == 2 ^ k
<1>1. n \in Nat \ {0} /\ k \in Nat /\ k + 1 = n
  BY NarrowWidths, WordSizes
<1>2. p \in Nat \ {0} /\ h \in Nat \ {0} /\ p = 2 * h
  <2> HIDE DEF k
  <2>1. 2 ^ k \in Nat \ {0} /\ 2 ^ (k + 1) = 2 * 2 ^ k
    BY <1>1 DEF Powers
  <2> QED
    BY <1>1, <2>1
<1>3. ASSUME NEW w, Clean(w, n) PROVE w \in Nat /\ w % p = w
  <2>1. w \in 0 .. p - 1
    BY <1>3 DEF Clean
  <2> HIDE DEF p
  <2> QED
    BY <1>2, <2>1, ModSmall
<1>4. ASSUME NEW w, SignExtended(w, n)
      PROVE  /\ w \in Int /\ -h <= w /\ w < h
             /\ w % p = IF w < 0 THEN w + p ELSE w
             /\ Signed(w % p, n) = w
  <2>1. w \in -h .. h - 1
    BY <1>4 DEF SignExtended
  <2>2. \A v : Signed(v, n) = IF v < h THEN v ELSE v - p
    BY DEF Signed
  <2> HIDE DEF p, h
  <2>3. w \in Int /\ -h <= w /\ w < h
    BY <1>2, <2>1
  <2>4. CASE w < 0
    <3>1. -p <= w
      BY <1>2, <2>3
    <3>2. w % p = w + p
      BY <1>2, <2>3, <2>4, <3>1, ModBelow
    <3> QED
      BY <1>2, <2>2, <2>3, <2>4, <3>2
  <2>5. CASE ~ (w < 0)
    <3>1. 0 <= w /\ w < p
      BY <1>2, <2>3, <2>5
    <3>2. w % p = w
      BY <1>2, <2>3, <3>1, ModSmall
    <3> QED
      BY <2>2, <2>3, <2>5, <3>2
  <2> QED
    BY <2>4, <2>5, <2>3
<1> QED
  BY <1>2, <1>3, <1>4

(* What a conversion sees of its operand.                                  *)
LEMMA SeenBits ==
  ASSUME Powers, NEW n \in 0 .. Bits - 2
  PROVE  /\ \A w \in Word : Unsigned(<<w>>) % 2 ^ n = w % 2 ^ n
         /\ \A a \in Word \X Word : Unsigned(a) % 2 ^ n = a[1] % 2 ^ n
<1>1. ASSUME NEW w \in Word PROVE Unsigned(<<w>>) % 2 ^ n = w % 2 ^ n
  <2>1. Unsigned(<<w>>) = U(w)
    BY WordSizes, OneWord
  <2>2. PICK z \in Int : z = 0
    OBVIOUS
  <2> QED
    BY <2>1, <2>2, NarrowRest
<1>2. ASSUME NEW a \in Word \X Word PROVE Unsigned(a) % 2 ^ n = a[1] % 2 ^ n
  <2>1. a[1] \in Word /\ a[2] \in Word /\ a = <<a[1], a[2]>>
    BY DoubleParts
  <2>2. Unsigned(a) = U(a[1]) + Modulus * U(a[2])
    BY <2>1, UnsignedDouble
  <2>3. U(a[2]) \in Int
    BY <2>1, UnsignedOf
  <2>4. (U(a[1]) + Modulus * U(a[2])) % 2 ^ n = a[1] % 2 ^ n
    BY <2>1, <2>3, NarrowRest
  <2> QED
    BY <2>2, <2>4
<1> QED
  BY <1>1, <1>2

LEMMA TruncatedIs ==
  ASSUME Powers
  PROVE  /\ \A n \in 0 .. Bits - 2 : \A w \in Word :
              Unsigned(<<ModConst(w, 2 ^ n)>>) = w % 2 ^ n
         /\ \A a \in Word \X Word : Unsigned(<<a[1]>>) = Unsigned(a) % 2 ^ Bits
<1>1. ASSUME NEW n \in 0 .. Bits - 2, NEW w \in Word
      PROVE  Unsigned(<<ModConst(w, 2 ^ n)>>) = w % 2 ^ n
  <2>1. PICK z \in Int : z = 0
    OBVIOUS
  <2>2. ModConst(w, 2 ^ n) = w % 2 ^ n /\ w % 2 ^ n \in Word /\ U(w % 2 ^ n) = w % 2 ^ n
    BY <2>1, NarrowRest
  <2>3. Unsigned(<<w % 2 ^ n>>) = U(w % 2 ^ n)
    BY <2>2, WordSizes, OneWord
  <2> QED
    BY <2>2, <2>3
<1>2. ASSUME NEW a \in Word \X Word PROVE Unsigned(<<a[1]>>) = Unsigned(a) % 2 ^ Bits
  <2>1. a[1] \in Word /\ a[2] \in Word /\ a = <<a[1], a[2]>>
    BY DoubleParts
  <2>2. Unsigned(a) = U(a[1]) + Modulus * U(a[2]) /\ Unsigned(a) \in Int
    BY <2>1, UnsignedDouble
  <2>3. /\ U(a[1]) \in 0 .. Modulus - 1 /\ U(a[1]) \in Int /\ U(a[2]) \in Int
        /\ Modulus \in Nat \ {0} /\ 2 ^ Bits = Modulus
    BY <2>1, UnsignedOf, WordSizes
  <2> DEFINE x == U(a[1])
             y == U(a[2])
             v == Unsigned(a)
  <2>4. v = x + y * Modulus
    BY <2>2, <2>3
  <2> HIDE DEF x, y, v
  <2>5. Congruent(v, x, Modulus)
    BY <2>3, <2>4 DEF Congruent, x, y
  <2>6. v % Modulus = x
    BY <2>2, <2>3, <2>5, RestIs DEF x, v
  <2>7. Unsigned(<<a[1]>>) = x
    BY <2>1, WordSizes, OneWord DEF x
  <2> QED
    BY <2>3, <2>6, <2>7 DEF v
<1> QED
  BY <1>1, <1>2

(* zext, of one word and of two.                                           *)
LEMMA PairOf ==
  ASSUME NEW a \in Word, NEW b \in Word
  PROVE  <<a>> \o <<b>> = <<a, b>> /\ <<a>> \o <<>> = <<a>>
<1>1. <<a>> \in Seq(Word) /\ <<b>> \in Seq(Word) /\ <<a, b>> \in Seq(Word)
  OBVIOUS
<1> DEFINE s == <<a>>
           t == <<b>>
           p == <<a, b>>
           f == s \o t
<1>2. /\ s \in Seq(Word) /\ t \in Seq(Word) /\ p \in Seq(Word)
      /\ Len(s) = 1 /\ Len(t) = 1 /\ Len(p) = 2
      /\ s[1] = a /\ t[1] = b /\ p[1] = a /\ p[2] = b
  OBVIOUS
<1>3. s \o <<>> = s
  <2> HIDE DEF s
  <2> QED
    BY <1>2, ConcatEmptySeq
<1> HIDE DEF s, t, p
<1>4. /\ f \in Seq(Word) /\ Len(f) = Len(s) + Len(t)
      /\ \A i \in 1 .. Len(s) + Len(t) : f[i] = IF i <= Len(s) THEN s[i] ELSE t[i - Len(s)]
  BY <1>2, ConcatProperties
<1> HIDE DEF f
<1>5. f[1] = a /\ f[2] = b /\ Len(f) = 2
  BY <1>2, <1>4
<1>6. f = p
  BY <1>2, <1>4, <1>5
<1> QED
  BY <1>3, <1>6 DEF s, t, p, f

LEMMA ZeroAbove ==
  ASSUME Powers, NEW w \in Word
  PROVE  Unsigned(<<w, 0>>) = U(w) /\ Unsigned(<<w>>) = U(w)
<1>1. 0 \in Word /\ U(0) = 0 /\ Modulus \in Nat /\ U(w) \in Int
  BY WordsNearZero, WordSizes, UnsignedOf
<1>2. Unsigned(<<w, 0>>) = U(w) + Modulus * U(0)
  BY <1>1, UnsignedDouble
<1>3. Unsigned(<<w>>) = U(w)
  BY WordSizes, OneWord
<1>4. Modulus * U(0) = 0
  BY <1>1
<1> QED
  BY <1>1, <1>2, <1>3, <1>4

(* ZExt.                                                                   *)
LEMMA ZExtIs ==
  ASSUME Powers
  PROVE  /\ \A n \in 0 .. Bits - 2 : \A w \in Word : \A wide \in BOOLEAN :
              Unsigned(<<ModConst(w, 2 ^ n)>> \o (IF wide THEN <<0>> ELSE <<>>))
                = Unsigned(<<w>>) % 2 ^ n
         /\ \A w \in Word : Unsigned(<<w, 0>>) = Unsigned(<<w>>) % 2 ^ Bits
         /\ \A a \in Word \X Word :
              Unsigned(<<a[1], ModConst(a[2], Half)>>) = Unsigned(a) % 2 ^ (6 * ByteBits)
<1>1. ASSUME NEW n \in 0 .. Bits - 2, NEW w \in Word, NEW wide \in BOOLEAN
      PROVE  Unsigned(<<ModConst(w, 2 ^ n)>> \o (IF wide THEN <<0>> ELSE <<>>))
               = Unsigned(<<w>>) % 2 ^ n
  <2> DEFINE r == ModConst(w, 2 ^ n)
  <2>1. PICK z \in Int : z = 0
    OBVIOUS
  <2>2. r = w % 2 ^ n /\ r \in Word /\ U(r) = r
    BY <2>1, NarrowRest
  <2>3. Unsigned(<<w>>) % 2 ^ n = w % 2 ^ n
    BY SeenBits
  <2>4. 0 \in Word
    BY WordsNearZero
  <2> HIDE DEF r
  <2>5. <<r>> \o <<0>> = <<r, 0>> /\ <<r>> \o <<>> = <<r>>
    BY <2>2, <2>4, PairOf
  <2>6. Unsigned(<<r, 0>>) = r /\ Unsigned(<<r>>) = r
    BY <2>2, ZeroAbove
  <2>7. CASE wide
    BY <2>2, <2>3, <2>5, <2>6, <2>7 DEF r
  <2>8. CASE ~ wide
    BY <2>2, <2>3, <2>5, <2>6, <2>8 DEF r
  <2> QED
    BY <2>7, <2>8
<1>2. ASSUME NEW w \in Word PROVE Unsigned(<<w, 0>>) = Unsigned(<<w>>) % 2 ^ Bits
  <2>1. U(w) \in 0 .. Modulus - 1 /\ U(w) \in Int /\ Modulus \in Nat \ {0} /\ 2 ^ Bits = Modulus
    BY UnsignedOf, WordSizes
  <2>2. U(w) % Modulus = U(w)
    <3> DEFINE x == U(w)
    <3>1. x \in Int /\ 0 <= x /\ x < Modulus
      BY <2>1
    <3> HIDE DEF x
    <3>2. x % Modulus = x
      BY <2>1, <3>1, ModSmall
    <3> QED
      BY <3>2 DEF x
  <2> QED
    BY <2>1, <2>2, ZeroAbove
<1>3. ASSUME NEW a \in Word \X Word
      PROVE  Unsigned(<<a[1], ModConst(a[2], Half)>>) = Unsigned(a) % 2 ^ (6 * ByteBits)
  <2> DEFINE x == U(a[1])
             y == U(a[2])
             r == ModConst(a[2], Half)
             q == y \div Half
             m == Modulus
  <2>1. a[1] \in Word /\ a[2] \in Word /\ a = <<a[1], a[2]>>
    BY DoubleParts
  <2>2. /\ ByteBits \in Nat \ {0} /\ Bits = 4 * ByteBits /\ 2 ^ (2 * ByteBits) = Half
        /\ m \in Nat \ {0} /\ Half \in Nat \ {0} /\ 2 ^ Bits = m
    BY ByteSize, BytePlace, WordSizes
  <2>3. r \in Word /\ U(r) = r /\ r \in 0 .. Half - 1 /\ r = y % Half
    <3> DEFINE n == 2 * ByteBits
    <3>1. n \in 0 .. Bits - 2
      BY <2>2
    <3>2. PICK z \in Int : z = 0
      OBVIOUS
    <3> HIDE DEF n
    <3>3. /\ ModConst(a[2], 2 ^ n) = a[2] % 2 ^ n /\ (a[2] % 2 ^ n) \in 0 .. 2 ^ n - 1
          /\ a[2] % 2 ^ n \in Word /\ U(a[2] % 2 ^ n) = a[2] % 2 ^ n
          /\ U(a[2]) % 2 ^ n = a[2] % 2 ^ n
      BY <2>1, <3>1, <3>2, NarrowRest
    <3>4. 2 ^ n = Half
      BY <2>2 DEF n
    <3> QED
      BY <3>3, <3>4
  <2>4. 2 ^ (6 * ByteBits) = m * Half
    <3>1. PICK two \in Nat \ {0} : two = 2
      OBVIOUS
    <3>2. Bits \in Nat /\ 2 * ByteBits \in Nat /\ Bits + 2 * ByteBits = 6 * ByteBits
      BY <2>2
    <3>3. two ^ (Bits + 2 * ByteBits) = two ^ Bits * two ^ (2 * ByteBits)
      BY <3>2, PowerSum
    <3> QED
      BY <2>2, <3>1, <3>2, <3>3
  <2>5. Unsigned(a) = x + m * y
    BY <2>1, UnsignedDouble
  <2>6. Unsigned(<<a[1], r>>) = x + m * r
    <3> HIDE DEF r, x, m
    <3>1. Unsigned(<<a[1], r>>) = U(a[1]) + Modulus * U(r)
      BY <2>1, <2>3, UnsignedDouble
    <3> QED
      BY <2>3, <3>1 DEF x, m
  <2>7. x \in 0 .. m - 1 /\ x \in Int /\ y \in Int /\ q \in Int
    BY <2>1, <2>2, UnsignedOf
  <2>8. y = q * Half + r
    <3>1. y = (y \div Half) * Half + (y % Half)
      <4> HIDE DEF y
      <4> QED
        BY <2>2, <2>7, DivIs
    <3> QED
      BY <2>3, <3>1
  <2> HIDE DEF x, y, r, q, m
  <2>9. x + m * r \in 0 .. m * Half - 1
    <3>1. ASSUME NEW g \in Nat \ {0}, NEW h \in Nat \ {0}, NEW e \in 0 .. h - 1
          PROVE  g * (e + 1) <= g * h /\ g * (e + 1) = g * e + g /\ 0 <= g * e
      BY Z3
    <3>2. m * (r + 1) <= m * Half /\ m * (r + 1) = m * r + m /\ 0 <= m * r
      BY <2>2, <2>3, <3>1
    <3>3. m * r \in Int /\ m * Half \in Int
      BY <2>2, <2>3
    <3> QED
      BY <2>2, <2>3, <2>7, <3>2, <3>3
  <2>10. x + m * y = (x + m * r) + q * (m * Half)
    <3>1. m * y = m * (q * Half) + m * r
      BY <2>2, <2>3, <2>7, <2>8, Z3
    <3>2. m * (q * Half) = q * (m * Half)
      BY <2>2, <2>7, Z3
    <3>3. m * r \in Int /\ q * (m * Half) \in Int
      BY <2>2, <2>3, <2>7
    <3> QED
      BY <2>7, <3>1, <3>2, <3>3
  <2> DEFINE u == x + m * y
             v == x + m * r
             k == m * Half
  <2>11. u \in Int /\ v \in Int /\ k \in Nat \ {0} /\ v \in 0 .. k - 1 /\ u = v + q * k
    BY <2>2, <2>3, <2>7, <2>9, <2>10
  <2> HIDE DEF u, v, k
  <2>12. Congruent(u, v, k)
    BY <2>7, <2>11 DEF Congruent
  <2>13. u % k = v
    BY <2>11, <2>12, RestIs
  <2> QED
    BY <2>4, <2>5, <2>6, <2>13 DEF u, v, k, r
<1> QED
  BY <1>1, <1>2, <1>3

(* SExt: the upper half of what is below 2^n stands for negative numbers.  *)
LEMMA SignExtendIs ==
  ASSUME Powers, NEW n \in 1 .. Bits - 2, NEW w \in Word
  PROVE  SignExtend(w, 2 ^ n) \in Word /\ SignExtend(w, 2 ^ n) = Signed(w % 2 ^ n, n)
<1> DEFINE m == 2 ^ n
           h == 2 ^ (n - 1)
           r == w % m
<1>1. n \in 0 .. Bits - 2 /\ n - 1 \in Nat /\ (n - 1) + 1 = n
  BY WordSizes
<1>2. m \in Nat \ {0} /\ m < HighBit /\ HighBit \in Nat \ {0}
  BY <1>1, NarrowSizes, WordSizes
<1>3. h \in Nat \ {0} /\ m = 2 * h
  BY <1>1 DEF Powers
<1>4. ModConst(w, m) = r /\ r \in 0 .. m - 1
  <2>1. PICK z \in Int : z = 0
    OBVIOUS
  <2> QED
    BY <1>1, <2>1, NarrowRest
<1> HIDE DEF m, h, r
<1>5. m \div 2 = h
  BY <1>3
<1>6. Add(r, -m) = r - m /\ r - m \in Word /\ r \in Word
  <2>1. r - m \in Word /\ r + (-m) = r - m /\ r - m \in Int /\ r \in Word
    BY <1>2, <1>4 DEF Word
  <2> QED
    BY <2>1, WrapFacts DEF Add
<1>7. SignExtend(w, m) = IF r \in h .. m - 1 THEN r - m ELSE r
  BY <1>4, <1>5, <1>6 DEF SignExtend
<1>8. Signed(r, n) = IF r < h THEN r ELSE r - m
  BY DEF Signed, m, h
<1>9. SignExtend(w, m) \in Word /\ SignExtend(w, m) = Signed(r, n)
  BY <1>3, <1>4, <1>6, <1>7, <1>8
<1> QED
  BY <1>9 DEF m, r

LEMMA SignWordIs ==
  ASSUME Powers, NEW w \in Word
  PROVE  /\ SignWord(w) \in Word /\ Number(<<w, SignWord(w)>>) = w /\ Number(<<w>>) = w
         /\ w = Signed(Unsigned(<<w>>) % 2 ^ Bits, Bits)
<1>1. /\ HighBit \in Nat \ {0} /\ Modulus = 2 * HighBit /\ 2 ^ Bits = Modulus
      /\ HighBit = 2 ^ (Bits - 1) /\ w \in Int /\ -HighBit <= w /\ w < HighBit
      /\ 0 \in Word /\ -1 \in Word
  BY WordSizes, BytePlace, WordsNearZero DEF Word
<1>2. U(w) = (IF w >= 0 THEN w ELSE w + Modulus) /\ U(w) = w % 2 ^ Bits
  BY <1>1, UnsignedWord DEF U
<1>3. SignWord(w) = IF w < 0 THEN -1 ELSE 0
  BY <1>1 DEF SignWord
<1>4. Number(<<w, SignWord(w)>>) = U(w) + Modulus * SignWord(w)
  <2> DEFINE d == <<w, SignWord(w)>>
  <2>1. Len(d) = 2 /\ d[1] = w /\ d[2] = SignWord(w)
    OBVIOUS
  <2> HIDE DEF d
  <2>2. Number(d) = (w % 2 ^ Bits) + 2 ^ Bits * SignWord(w)
    BY <2>1 DEF Number
  <2> QED
    BY <1>1, <1>2, <2>2 DEF d
<1>5. U(w) + Modulus * SignWord(w) = w
  BY <1>1, <1>2, <1>3
<1>6. Number(<<w>>) = w
  BY DEF Number
<1>7. w = Signed(Unsigned(<<w>>) % 2 ^ Bits, Bits)
  <2>1. Unsigned(<<w>>) = U(w)
    BY WordSizes, OneWord
  <2>2. U(w) % 2 ^ Bits = U(w)
    <3> DEFINE x == U(w)
    <3>1. x \in Int /\ 0 <= x /\ x < Modulus /\ Modulus \in Nat \ {0}
      BY <1>1, UnsignedOf
    <3> HIDE DEF x
    <3>2. x % Modulus = x
      BY <3>1, ModSmall
    <3> QED
      BY <1>1, <3>2 DEF x
  <2>3. Signed(U(w), Bits) = IF U(w) < HighBit THEN U(w) ELSE U(w) - Modulus
    BY <1>1 DEF Signed
  <2>4. (IF U(w) < HighBit THEN U(w) ELSE U(w) - Modulus) = w
    <3> DEFINE x == U(w)
    <3>1. x = IF w >= 0 THEN w ELSE w + Modulus
      BY <1>2
    <3> HIDE DEF x
    <3>2. (IF x < HighBit THEN x ELSE x - Modulus) = w
      BY <1>1, <3>1
    <3> QED
      BY <3>2 DEF x
  <2> QED
    BY <2>1, <2>2, <2>3, <2>4
<1>8. SignWord(w) \in Word
  BY <1>1, <1>3
<1> QED
  BY <1>4, <1>5, <1>6, <1>7, <1>8

LEMMA FlagSigned ==
  ASSUME Powers, NEW f \in {0, 1}
  PROVE  LET d == <<IF f = 1 THEN -1 ELSE 0>>
         IN  Number(d) = Signed(Unsigned(<<f>>) % 2 ^ 1, 1)
<1>1. 2 ^ 1 = 2 /\ 2 ^ 0 = 1 /\ 1 - 1 = 0
  BY NarrowWidths DEF Powers
<1>2. f \in Word /\ 1 \in 0 .. Bits - 2
  BY WordsNearZero, NarrowWidths DEF NarrowBits
<1>3. Unsigned(<<f>>) % 2 ^ 1 = f
  <2>1. Unsigned(<<f>>) = U(f)
    BY <1>2, WordSizes, OneWord
  <2>2. U(f) = f
    BY WordsNearZero
  <2>3. f % 2 = f
    OBVIOUS
  <2> QED
    BY <1>1, <2>1, <2>2, <2>3
<1>4. Signed(f, 1) = IF f < 1 THEN f ELSE f - 2
  BY <1>1 DEF Signed
<1>5. \A v : Number(<<v>>) = v
  BY DEF Number
<1> QED
  BY <1>3, <1>4, <1>5

-----------------------------------------------------------------------------
(* Divisions by 256, one after the other.                                  *)
LEMMA DividedFlags ==
  ASSUME Powers, NEW w \in 0 .. HighBit - 1, NEW n \in 0 .. 3
  PROVE  DivideByByte(w, n) = w \div Byte ^ n
<1> DEFINE q == [i \in 0 .. n |-> w \div Byte ^ i]
           E(f, i) == IF i = 0 THEN w ELSE Over(f[i - 1], Byte)
           F == CHOOSE f : f = [i \in 0 .. n |-> E(f, i)]
<1>1. Byte \in Nat \ {0} /\ Byte ^ 0 = 1 /\ w \in Int /\ n \in Nat /\ 0 \in 0 .. n /\ n \in 0 .. n
  BY SmallNumbers
<1>2. ASSUME NEW i \in 0 .. n, i # 0
      PROVE  Over(w \div Byte ^ (i - 1), Byte) = w \div Byte ^ i
  <2> DEFINE p == Byte ^ (i - 1)
             v == w \div p
  <2>1. i - 1 \in Nat /\ (i - 1) + 1 = i
    BY <1>1, <1>2
  <2>2. p \in Nat \ {0} /\ Byte ^ i = Byte * p
    BY <1>1, <2>1 DEF Powers
  <2> HIDE DEF p
  <2>3. v \in 0 .. w
    BY <1>1, <2>2, QuotientSize
  <2>4. v \in 0 .. HighBit - 1
    BY <2>3, WordSizes
  <2>5. w \div (p * Byte) = v \div Byte
    BY <1>1, <2>2, DivTwice
  <2>6. p * Byte = Byte * p
    BY <1>1, <2>2
  <2> HIDE DEF v
  <2>7. Over(v, Byte) = v \div Byte
    BY <1>1, <2>4, OverIs
  <2> QED
    BY <2>2, <2>5, <2>6, <2>7 DEF v, p
<1>3. \A i \in 0 .. n : q[i] = E(q, i)
  <2> TAKE i \in 0 .. n
  <2>1. CASE i = 0
    <3>1. w \div 1 = w
      BY <1>1
    <3> QED
      BY <1>1, <2>1, <3>1
  <2>2. CASE i # 0
    <3>1. i - 1 \in 0 .. n
      BY <1>1, <2>2
    <3>2. q[i - 1] = w \div Byte ^ (i - 1) /\ q[i] = w \div Byte ^ i
      BY <3>1
    <3> HIDE DEF q
    <3> QED
      BY <1>2, <2>2, <3>2
  <2> QED
    BY <2>1, <2>2
<1>4. q = [i \in 0 .. n |-> E(q, i)]
  <2>1. q = [i \in 0 .. n |-> q[i]]
    OBVIOUS
  <2> HIDE DEF q, E
  <2> QED
    BY <1>3, <2>1
<1>5. DivideByByte(w, n) = F[n]
  BY DEF DivideByByte
<1>6. F = [i \in 0 .. n |-> E(F, i)]
  <2> HIDE DEF q, E
  <2> QED
    BY <1>4
<1> HIDE DEF F
<1> DEFINE S == {i \in 0 .. n : F[i] = q[i]}
<1>7. 0 \in S
  <2>1. F[0] = E(F, 0) /\ q[0] = E(q, 0)
    BY <1>1, <1>3, <1>6
  <2> QED
    BY <1>1, <2>1
<1>8. ASSUME NEW i \in 0 .. n - 1, i \in S PROVE i + 1 \in S
  <2>1. i + 1 \in 0 .. n /\ (i + 1) - 1 = i /\ i + 1 # 0
    BY <1>1
  <2>2. F[i] = q[i]
    BY <1>8
  <2> HIDE DEF q
  <2>3. E(F, i + 1) = E(q, i + 1)
    BY <2>1, <2>2
  <2>4. F[i + 1] = E(F, i + 1)
    <3> HIDE DEF E
    <3> QED
      BY <1>6, <2>1
  <2>5. q[i + 1] = E(q, i + 1)
    BY <1>3, <2>1
  <2> QED
    BY <2>1, <2>3, <2>4, <2>5
<1> HIDE DEF S
<1>9. 0 .. n \subseteq S
  BY <1>1, <1>7, <1>8, BoundedInduction
<1>10. F[n] = q[n]
  BY <1>1, <1>9 DEF S
<1> QED
  BY <1>1, <1>5, <1>10

LEMMA FlagOut ==
  ASSUME Powers, NEW flags \in [1 .. 4 -> {0, 1}], NEW i \in 1 .. 4
  PROVE  /\ ModConst(DivideByByte(FlagsWord(flags), i - 1), 2) = ByteOf(FlagsWord(flags), i - 1)
         /\ ByteOf(FlagsWord(flags), i - 1) = flags[i]
<1> DEFINE w == FlagsWord(flags)
           v == w \div Byte ^ (i - 1)
<1>1. /\ w \in 0 .. HighBit - 1 /\ w \in Nat
      /\ w = Join(0, flags[1], flags[2], flags[3], flags[4])
      /\ i - 1 \in 0 .. 3 /\ Byte ^ (i - 1) \in Nat \ {0}
      /\ Byte \in Nat \ {0} /\ 4 <= Byte
  BY FlagsWordIs, SmallNumbers
<1>2. ByteOf(w, i - 1) = flags[i]
  <2>1. /\ flags[1] \in {0, 1} /\ flags[2] \in {0, 1} /\ flags[3] \in {0, 1} /\ flags[4] \in {0, 1}
    OBVIOUS
  <2>2. /\ flags[1] \in 0 .. Byte - 1 /\ flags[2] \in 0 .. Byte - 1
        /\ flags[3] \in 0 .. Byte - 1 /\ flags[4] \in 0 .. Byte - 1
    BY <1>1, <2>1
  <2>3. PICK z \in Int : z = 0
    OBVIOUS
  <2> DEFINE b0 == flags[1]  b1 == flags[2]  b2 == flags[3]  b3 == flags[4]
  <2>4. w = Join(z, b0, b1, b2, b3)
    BY <1>1, <2>3
  <2> HIDE DEF b0, b1, b2, b3, w
  <2>5. /\ ByteOf(w, 0) = b0 /\ ByteOf(w, 1) = b1 /\ ByteOf(w, 2) = b2 /\ ByteOf(w, 3) = b3
    BY <2>2, <2>4, BytesOfJoin DEF b0, b1, b2, b3
  <2>6. CASE i = 1
    BY <2>5, <2>6 DEF b0
  <2>7. CASE i = 2
    BY <2>5, <2>7 DEF b1
  <2>8. CASE i = 3
    BY <2>5, <2>8 DEF b2
  <2>9. CASE i = 4
    BY <2>5, <2>9 DEF b3
  <2> QED
    BY <2>6, <2>7, <2>8, <2>9
<1>3. DivideByByte(w, i - 1) = v
  <2> HIDE DEF w
  <2> QED
    BY <1>1, DividedFlags
<1>4. v \in Nat /\ ByteOf(w, i - 1) = v % Byte
  <2> DEFINE p == Byte ^ (i - 1)
  <2>1. p \in Nat \ {0}
    BY <1>1
  <2> HIDE DEF p, w
  <2>2. w \div p \in 0 .. w
    BY <1>1, <2>1, QuotientSize
  <2> QED
    BY <1>1, <2>2 DEF ByteOf, p
<1> HIDE DEF v, w
(* Bytes are even: the first bit is that of the byte.                      *)
<1>5. v % 2 = v % Byte
  <2>1. PICK h \in Nat \ {0} : Byte = h * 2
    <3>1. ByteBits \in Nat \ {0} /\ 2 ^ ByteBits = Byte /\ 2 ^ 1 = 2
      BY BytePlace, ByteSize, NarrowWidths
    <3>2. PICK one \in Nat : one = 1
      OBVIOUS
    <3>3. one <= ByteBits /\ 2 ^ one = 2
      BY <3>1, <3>2
    <3>4. \E g \in Nat \ {0} : 2 ^ ByteBits = g * 2 ^ one
      BY <3>1, <3>2, <3>3, PowerAbove
    <3> QED
      BY <3>1, <3>3, <3>4
  <2>2. v = (v \div Byte) * Byte + (v % Byte) /\ v \div Byte \in Int
    <3>1. v \in Int /\ Byte \in Nat \ {0}
      BY <1>1, <1>4
    <3> QED
      BY <3>1, Z3
  <2>3. v % Byte \in {0, 1}
    BY <1>2, <1>4
  <2> DEFINE q == v \div Byte
             r == v % Byte
  <2>4. v = (q * h) * 2 + r /\ q * h \in Int /\ r \in {0, 1}
    <3>1. q * (h * 2) = (q * h) * 2
      BY <2>1, <2>2
    <3> QED
      BY <2>1, <2>2, <2>3, <3>1
  <2> HIDE DEF q, r
  <2>5. v % 2 = r
    BY <2>4
  <2> QED
    BY <2>5 DEF r
<1>6. ModConst(v, 2) = v % 2
  BY <1>4, InitialisedAre, ConstantIs
<1> QED
  BY <1>2, <1>3, <1>4, <1>5, <1>6 DEF w

-----------------------------------------------------------------------------
(* A byte put into a word.                                                 *)
LEMMA BytesUnsigned ==
  ASSUME Powers, NEW w \in Word
  PROVE  Wrap(U(w)) = w /\ \A i \in 0 .. 3 : ByteOf(U(w), i) = ByteOf(w, i)
<1>1. U(w) \in Int /\ Congruent(U(w), w, Modulus)
  BY UnsignedOf
<1>2. PICK k \in Int : U(w) = w + k * Modulus
  BY <1>1 DEF Congruent
<1>3. w \in Int /\ Modulus \in Nat
  BY WordSizes, UnsignedOf
<1>4. U(w) = k * Modulus + w
  BY <1>2, <1>3
<1>5. Wrap(U(w)) = w
  BY <1>4, WrapWord
<1> QED
  BY <1>1, <1>5, WrapBytes

LEMMA InsertedByte ==
  ASSUME Powers, NEW w \in Word, NEW e \in 0 .. Byte - 1
  PROVE  /\ ZeroLowBytes(w, 1) \in Word /\ Add(ZeroLowBytes(w, 1), e) \in Word
         /\ \A i \in 0 .. 3 :
              ByteOf(Add(ZeroLowBytes(w, 1), e), i) = IF i = 0 THEN e ELSE ByteOf(w, i)
<1> DEFINE u == U(w)
           q == u \div Byte
           x == q * Byte
           k == u \div Modulus
           b0 == ByteOf(u, 0)
           b1 == ByteOf(u, 1)
           b2 == ByteOf(u, 2)
           b3 == ByteOf(u, 3)
<1>1. /\ u \in Int /\ Byte \in Nat \ {0} /\ Byte ^ 1 = Byte /\ 2 ^ ByteBits = Byte
      /\ ByteBits \in 1 .. Bits - 1 /\ Half \in Int
  BY UnsignedOf, ByteSize, BytePlace, WordSizes
<1>2. Lshr(w, 1 * ByteBits) = q
  <2>1. 1 * ByteBits = ByteBits
    BY <1>1
  <2>2. Lshr(w, ByteBits) = (w % Modulus) \div 2 ^ ByteBits
    BY <1>1, LshrIs
  <2>3. u = w % Modulus
    BY DEF U, Modulus
  <2> HIDE DEF u
  <2>4. Lshr(w, ByteBits) = u \div Byte
    BY <1>1, <2>2, <2>3
  <2> QED
    BY <2>1, <2>4
<1>3. q \in Int /\ u = q * Byte + (u % Byte) /\ b0 = u % Byte
  <2> HIDE DEF u
  <2> QED
    BY <1>1, DivIs, BytesByDivision
<1>4. u = Join(k, b0, b1, b2, b3) /\ k \in Int
  <2> HIDE DEF u
  <2> QED
    BY <1>1, JoinOfBytes
<1>5. b0 \in 0 .. Byte - 1 /\ b1 \in 0 .. Byte - 1 /\ b2 \in 0 .. Byte - 1 /\ b3 \in 0 .. Byte - 1
  <2> HIDE DEF u
  <2>1. \A i \in 0 .. 3 : ByteOf(u, i) \in 0 .. Byte - 1
    BY <1>1, BytesByDivision
  <2>2. 0 \in 0 .. 3 /\ 1 \in 0 .. 3 /\ 2 \in 0 .. 3 /\ 3 \in 0 .. 3
    OBVIOUS
  <2> QED
    BY <2>1, <2>2, Zenon
<1>6. ZeroLowBytes(w, 1) = Wrap(x)
  BY <1>1, <1>2 DEF ZeroLowBytes, Times
<1> HIDE DEF u, q, k, b0, b1, b2, b3
<1>7. x \in Int /\ x = u - b0
  BY <1>1, <1>3
<1>8. x + e = Join(k, e, b1, b2, b3)
  <2> DEFINE rest == Join(k, 0, b1, b2, b3)
  <2>1. ASSUME NEW f \in Int
        PROVE  Join(k, f, b1, b2, b3) = rest + f /\ rest \in Int
    <3>1. /\ b1 * Byte \in Int /\ b2 * Byte ^ 2 \in Int /\ b3 * Byte ^ 3 \in Int
          /\ k * Modulus \in Int /\ f \in Int
      BY <1>1, <1>4, <1>5, ByteSize, WordSizes
    <3> QED
      BY <2>1, <3>1, <1>1, <1>4, <1>5, ByteSize, WordSizes DEF Join
  <2>2. u = rest + b0 /\ rest \in Int
    BY <1>4, <1>5, <2>1
  <2>3. Join(k, e, b1, b2, b3) = rest + e
    BY <2>1
  <2> HIDE DEF rest
  <2> QED
    BY <1>5, <1>7, <2>2, <2>3
<1>9. Add(ZeroLowBytes(w, 1), e) = Wrap(x + e)
  <2> HIDE DEF x
  <2>1. Wrap(Wrap(x) + e) = Wrap(x + e)
    BY <1>7, WrapInside
  <2> QED
    BY <1>6, <2>1 DEF Add
<1> DEFINE n == x + e
<1>10. n \in Int /\ e \in 0 .. Byte - 1
  BY <1>7
<1>11. n = Join(k, e, b1, b2, b3)
  BY <1>8
<1> HIDE DEF n, x
<1>12. ByteOf(n, 0) = e /\ ByteOf(n, 1) = b1 /\ ByteOf(n, 2) = b2 /\ ByteOf(n, 3) = b3
  BY <1>4, <1>5, <1>10, <1>11, BytesOfJoin
<1>13. \A i \in 0 .. 3 : ByteOf(Wrap(n), i) = ByteOf(n, i)
  BY <1>10, WrapBytes
<1>14. ASSUME NEW i \in 0 .. 3
       PROVE  ByteOf(Wrap(n), i) = IF i = 0 THEN e ELSE ByteOf(w, i)
  <2>1. ByteOf(u, i) = ByteOf(w, i)
    BY BytesUnsigned DEF u
  <2> QED
    BY <1>12, <1>13, <2>1 DEF b1, b2, b3
<1>15. Wrap(x) \in Word /\ Wrap(n) \in Word
  BY <1>7, <1>10, WrapFacts
<1> QED
  BY <1>6, <1>9, <1>14, <1>15 DEF n

(* A holder with more than the byte still gives the byte itself.           *)
LEMMA InsertedHolder ==
  ASSUME Powers, NEW w \in Word, NEW e \in Word
  PROVE  /\ Add(ZeroLowBytes(w, 1), e) \in Word
         /\ ByteOf(Add(ZeroLowBytes(w, 1), e), 0) = ByteOf(e, 0)
<1> DEFINE q == Lshr(w, 1 * ByteBits)
           x == q * Byte
           n == x + e
<1>1. /\ Byte \in Nat \ {0} /\ Byte ^ 1 = Byte /\ ByteBits \in 1 .. Bits - 1
      /\ 1 * ByteBits = ByteBits /\ e \in Int /\ U(w) \in Int /\ 2 ^ ByteBits = Byte
  BY UnsignedOf, ByteSize, BytePlace, WordSizes
<1>2. q \in Int
  <2> DEFINE u == w % Modulus
  <2>1. Lshr(w, ByteBits) = u \div 2 ^ ByteBits
    BY <1>1, LshrIs
  <2>2. u \in Int
    BY <1>1 DEF U, Modulus
  <2> HIDE DEF u
  <2>3. u \div Byte \in Int
    BY <1>1, <2>2
  <2> QED
    BY <1>1, <2>1, <2>3
<1>3. ZeroLowBytes(w, 1) = Wrap(x)
  BY <1>1 DEF ZeroLowBytes, Times
<1> HIDE DEF q
<1>4. x \in Int /\ n \in Int
  BY <1>1, <1>2
<1>5. Add(ZeroLowBytes(w, 1), e) = Wrap(n)
  <2>1. Wrap(Wrap(x) + e) = Wrap(x + e)
    BY <1>1, <1>4, WrapInside
  <2> QED
    BY <1>3, <2>1 DEF Add
<1>6. n % Byte = e % Byte
  <2>1. n = e + q * Byte
    BY <1>1, <1>2
  <2>2. (e + q * Byte) % Byte = e % Byte
    BY <1>1, <1>2, Shifted
  <2> HIDE DEF n, x
  <2> QED
    BY <2>1, <2>2
<1> HIDE DEF n
<1>7. ByteOf(Wrap(n), 0) = n % Byte /\ ByteOf(e, 0) = e % Byte
  <2>1. ByteOf(Wrap(n), 0) = ByteOf(n, 0)
    BY <1>4, WrapBytes
  <2> QED
    BY <1>1, <1>4, <2>1, BytesByDivision
<1> QED
  BY <1>4, <1>5, <1>6, <1>7, WrapFacts

LEMMA LastByte ==
  ASSUME Powers, NEW w \in Word, NEW e \in Word
  PROVE  Add(TruncateTo(w, 0), e) = e
<1>1. Byte ^ 0 = 1 /\ w \in Int /\ 1 <= Bits /\ Bits \in Int
  BY ByteSize, WordSizes, UnsignedOf
<1>2. 0 * ByteBits = 0
  BY ByteSize
<1>3. Lshr(w, 0) = w
  BY <1>1 DEF Lshr
<1>4. ZeroLowBytes(w, 0) = w
  BY <1>1, <1>2, <1>3, WrapFacts DEF ZeroLowBytes, Times
<1>5. TruncateTo(w, 0) = 0
  <2>1. w - w = 0 /\ 0 \in Int /\ 0 \in Word
    BY <1>1, WordsNearZero
  <2>2. PICK z \in Int : z = 0
    OBVIOUS
  <2>3. Wrap(z) = z
    BY <2>1, <2>2, WrapFacts
  <2> QED
    BY <1>4, <2>1, <2>2, <2>3 DEF TruncateTo
<1>6. 0 + e = e /\ e \in Int
  BY UnsignedOf
<1>7. Wrap(e) = e
  BY <1>6, WrapFacts
<1> QED
  BY <1>5, <1>6, <1>7 DEF Add

-----------------------------------------------------------------------------
(* What ConversionsRight says of one instruction.                          *)
Widths(op, a, bits, s, d) ==
  /\ op = "trunc" => Unsigned(d) = Unsigned(a) % 2 ^ s
  /\ op = "bitcast" => d = a
  /\ op = "zext" => Unsigned(d) = Unsigned(a) % 2 ^ bits
  /\ op = "sext" => Number(d) = Signed(Unsigned(a) % 2 ^ bits, bits)
  /\ op = "zext.flags" => \A i \in 1 .. 4 : d[i] = ByteOf(a[1], i - 1)

Parts(op, a, b, s, d) ==
  /\ op = "select" => d = IF s = 1 THEN a ELSE b
  /\ op = "extract" => d = <<a[s]>>
  /\ op \in {"insert", "insert.last"} => d[s] = b[1] /\ d[3 - s] = a[3 - s]
  /\ op = "insert.byte" =>
       /\ ByteOf(d[1], 0) = ByteOf(b[1], 0)
       /\ Clean(b[1], ByteBits) =>
            \A i \in 1 .. 3 : ByteOf(d[1], i) = ByteOf(a[1], i)

LEMMA OtherConversions ==
  ASSUME NEW op, NEW a, NEW b, NEW bits, NEW s, NEW d
  PROVE  /\ op \notin {"trunc", "bitcast", "zext", "sext", "zext.flags"} =>
              Widths(op, a, bits, s, d)
         /\ op \notin {"select", "extract", "insert", "insert.last", "insert.byte"} =>
              Parts(op, a, b, s, d)
<1>1. op \notin {"trunc", "bitcast", "zext", "sext", "zext.flags"} => Widths(op, a, bits, s, d)
  BY Zenon DEF Widths
<1>2. op \notin {"select", "extract", "insert", "insert.last", "insert.byte"} =>
        Parts(op, a, b, s, d)
  BY Zenon DEF Parts
<1> QED
  BY <1>1, <1>2

LEMMA TruncSteps ==
  ASSUME Powers
  PROVE  /\ \A a \in Word \X Word : Widths("trunc", a, 2 * Bits, Bits, <<a[1]>>)
         /\ \A w \in Word, n \in NarrowBits :
              Widths("trunc", <<w>>, Bits, n, <<ModConst(w, 2 ^ n)>>)
         /\ \A a \in Word \X Word, n \in NarrowBits :
              Widths("trunc", a, 2 * Bits, n, <<ModConst(a[1], 2 ^ n)>>)
         /\ \A a, n, m : Widths("bitcast", a, n, m, a)
<1>1. ASSUME NEW a, NEW n, NEW m, NEW d, Unsigned(d) = Unsigned(a) % 2 ^ m
      PROVE  Widths("trunc", a, n, m, d)
  BY <1>1, Zenon DEF Widths
<1>2. ASSUME NEW a \in Word \X Word PROVE Widths("trunc", a, 2 * Bits, Bits, <<a[1]>>)
  BY <1>1, TruncatedIs, Zenon
<1>3. ASSUME NEW n \in NarrowBits, NEW w \in Word
      PROVE  /\ Unsigned(<<ModConst(w, 2 ^ n)>>) = w % 2 ^ n
             /\ Unsigned(<<w>>) % 2 ^ n = w % 2 ^ n
             /\ \A a \in Word \X Word : Unsigned(a) % 2 ^ n = a[1] % 2 ^ n
  <2>1. n \in 0 .. Bits - 2
    BY NarrowWidths
  <2> QED
    BY <2>1, TruncatedIs, SeenBits
<1>4. ASSUME NEW n \in NarrowBits, NEW w \in Word
      PROVE  Widths("trunc", <<w>>, Bits, n, <<ModConst(w, 2 ^ n)>>)
  <2>1. Unsigned(<<ModConst(w, 2 ^ n)>>) = Unsigned(<<w>>) % 2 ^ n
    BY <1>3
  <2> QED
    BY <1>1, <2>1, Zenon
<1>5. ASSUME NEW n \in NarrowBits, NEW a \in Word \X Word
      PROVE  Widths("trunc", a, 2 * Bits, n, <<ModConst(a[1], 2 ^ n)>>)
  <2>1. a[1] \in Word
    BY DoubleParts
  <2>2. Unsigned(<<ModConst(a[1], 2 ^ n)>>) = Unsigned(a) % 2 ^ n
    BY <1>3, <2>1
  <2> QED
    BY <1>1, <2>2, Zenon
<1>6. \A a, n, m : Widths("bitcast", a, n, m, a)
  BY Zenon DEF Widths
<1> QED
  BY <1>2, <1>4, <1>5, <1>6

LEMMA SExtSteps ==
  ASSUME Powers
  PROVE  /\ \A f \in {0, 1} : Widths("sext", <<f>>, 1, Bits, <<IF f = 1 THEN -1 ELSE 0>>)
         /\ \A w \in Word, n \in {1, 2} :
              Widths("sext", <<w>>, n * ByteBits, Bits, <<SignExtend(w, Byte ^ n)>>)
         /\ \A w \in Word : Widths("sext", <<w>>, Bits, 2 * Bits, <<w, SignWord(w)>>)
         /\ \A w \in Word :
              Widths("sext", <<w>>, ByteBits, 2 * Bits,
                     <<SignExtend(w, Byte), SignWord(SignExtend(w, Byte))>>)
<1>1. ASSUME NEW a, NEW n, NEW m, NEW d, Number(d) = Signed(Unsigned(a) % 2 ^ n, n)
      PROVE  Widths("sext", a, n, m, d)
  BY <1>1, Zenon DEF Widths
<1>2. ASSUME NEW f \in {0, 1}
      PROVE  Widths("sext", <<f>>, 1, Bits, <<IF f = 1 THEN -1 ELSE 0>>)
  <2>1. Number(<<IF f = 1 THEN -1 ELSE 0>>) = Signed(Unsigned(<<f>>) % 2 ^ 1, 1)
    BY FlagSigned, Zenon
  <2> QED
    BY <1>1, <2>1, Zenon
<1>3. ASSUME NEW n \in NarrowBits, NEW w \in Word, NEW p, p = 2 ^ n
      PROVE  /\ SignExtend(w, p) \in Word
             /\ Number(<<SignExtend(w, p)>>) = Signed(Unsigned(<<w>>) % 2 ^ n, n)
             /\ Number(<<SignExtend(w, p), SignWord(SignExtend(w, p))>>)
                  = Signed(Unsigned(<<w>>) % 2 ^ n, n)
  <2>1. n \in 0 .. Bits - 2 /\ n \in 1 .. Bits - 2
    BY NarrowWidths
  <2>2. Unsigned(<<w>>) % 2 ^ n = w % 2 ^ n
    BY <2>1, SeenBits
  <2> DEFINE v == SignExtend(w, p)
  <2>3. v \in Word /\ v = Signed(w % 2 ^ n, n)
    BY <1>3, <2>1, SignExtendIs
  <2> HIDE DEF v
  <2>4. Number(<<v>>) = v /\ Number(<<v, SignWord(v)>>) = v
    BY <2>3, SignWordIs
  <2> QED
    BY <2>2, <2>3, <2>4 DEF v
<1>4. /\ ByteBits \in NarrowBits /\ 1 * ByteBits = ByteBits /\ 2 * ByteBits \in NarrowBits
      /\ Byte = 2 ^ ByteBits /\ Byte ^ 1 = 2 ^ ByteBits /\ Byte ^ 2 = 2 ^ (2 * ByteBits)
  BY NarrowWidths, ByteSize DEF NarrowBits
<1>5. ASSUME NEW w \in Word, NEW n \in {1, 2}
      PROVE  Widths("sext", <<w>>, n * ByteBits, Bits, <<SignExtend(w, Byte ^ n)>>)
  <2>1. n * ByteBits \in NarrowBits /\ Byte ^ n = 2 ^ (n * ByteBits)
    BY <1>4
  <2>2. Number(<<SignExtend(w, Byte ^ n)>>)
          = Signed(Unsigned(<<w>>) % 2 ^ (n * ByteBits), n * ByteBits)
    BY <1>3, <2>1
  <2> QED
    BY <1>1, <2>2, Zenon
<1>6. ASSUME NEW w \in Word
      PROVE  Widths("sext", <<w>>, Bits, 2 * Bits, <<w, SignWord(w)>>)
  <2>1. Number(<<w, SignWord(w)>>) = Signed(Unsigned(<<w>>) % 2 ^ Bits, Bits)
    BY SignWordIs
  <2> QED
    BY <1>1, <2>1, Zenon
<1>7. ASSUME NEW w \in Word
      PROVE  Widths("sext", <<w>>, ByteBits, 2 * Bits,
                    <<SignExtend(w, Byte), SignWord(SignExtend(w, Byte))>>)
  <2>1. Number(<<SignExtend(w, Byte), SignWord(SignExtend(w, Byte))>>)
          = Signed(Unsigned(<<w>>) % 2 ^ ByteBits, ByteBits)
    BY <1>3, <1>4
  <2> QED
    BY <1>1, <2>1, Zenon
<1> QED
  BY <1>2, <1>5, <1>6, <1>7

LEMMA ZExtSteps ==
  ASSUME Powers
  PROVE  /\ \A w \in Word, n \in NarrowBits : \A wide \in BOOLEAN : \A m :
              Widths("zext", <<w>>, n, m,
                     <<ModConst(w, 2 ^ n)>> \o (IF wide THEN <<0>> ELSE <<>>))
         /\ \A w \in Word : Widths("zext", <<w>>, Bits, 2 * Bits, <<w, 0>>)
         /\ \A a \in Word \X Word :
              Widths("zext", a, 6 * ByteBits, 2 * Bits, <<a[1], ModConst(a[2], Half)>>)
         /\ \A flags \in [1 .. 4 -> {0, 1}] :
              Widths("zext.flags", <<FlagsWord(flags)>>, 1, Bits,
                     [i \in 1 .. 4 |-> ModConst(DivideByByte(FlagsWord(flags), i - 1), 2)])
<1>1. ASSUME NEW a, NEW n, NEW m, NEW d, Unsigned(d) = Unsigned(a) % 2 ^ n
      PROVE  Widths("zext", a, n, m, d)
  BY <1>1, Zenon DEF Widths
<1>2. ASSUME NEW w \in Word, NEW n \in NarrowBits, NEW wide \in BOOLEAN, NEW m
      PROVE  Widths("zext", <<w>>, n, m,
                    <<ModConst(w, 2 ^ n)>> \o (IF wide THEN <<0>> ELSE <<>>))
  <2>1. n \in 0 .. Bits - 2
    BY NarrowWidths
  <2>2. Unsigned(<<ModConst(w, 2 ^ n)>> \o (IF wide THEN <<0>> ELSE <<>>))
          = Unsigned(<<w>>) % 2 ^ n
    BY <2>1, ZExtIs, Zenon
  <2> QED
    BY <1>1, <2>2, Zenon
<1>3. ASSUME NEW w \in Word PROVE Widths("zext", <<w>>, Bits, 2 * Bits, <<w, 0>>)
  BY <1>1, ZExtIs, Zenon
<1>4. ASSUME NEW a \in Word \X Word
      PROVE  Widths("zext", a, 6 * ByteBits, 2 * Bits, <<a[1], ModConst(a[2], Half)>>)
  BY <1>1, ZExtIs, Zenon
<1>5. ASSUME NEW flags \in [1 .. 4 -> {0, 1}]
      PROVE  Widths("zext.flags", <<FlagsWord(flags)>>, 1, Bits,
                    [i \in 1 .. 4 |-> ModConst(DivideByByte(FlagsWord(flags), i - 1), 2)])
  <2> DEFINE w == FlagsWord(flags)
             d == [i \in 1 .. 4 |-> ModConst(DivideByByte(w, i - 1), 2)]
  <2>1. \A i \in 1 .. 4 : d[i] = ByteOf(w, i - 1)
    <3> TAKE i \in 1 .. 4
    <3>1. d[i] = ModConst(DivideByByte(w, i - 1), 2)
      OBVIOUS
    <3>2. ModConst(DivideByByte(w, i - 1), 2) = ByteOf(w, i - 1)
      BY FlagOut
    <3> QED
      BY <3>1, <3>2, Zenon
  <2> HIDE DEF d, w
  <2>2. <<w>>[1] = w
    OBVIOUS
  <2>3. Widths("zext.flags", <<w>>, 1, Bits, d)
    BY <2>1, <2>2, Zenon DEF Widths
  <2> QED
    BY <2>3 DEF d, w
<1> QED
  BY <1>2, <1>3, <1>4, <1>5

LEMMA PartSteps ==
  ASSUME Powers
  PROVE  /\ \A c, a, b : Parts("select", a, b, c, IF c = 1 THEN a ELSE b)
         /\ \A a, i : Parts("extract", a, <<>>, i, <<a[i]>>)
         /\ \A a \in Word \X Word, e \in Word, i \in {1, 2} :
              Parts("insert", a, <<e>>, i, [a EXCEPT ![i] = e])
         /\ \A w \in Word, e \in Word :
              Parts("insert.byte", <<w>>, <<e>>, 1,
                    [<<w>> EXCEPT ![1] = Add(ZeroLowBytes(<<w>>[1], 1), e)])
         /\ \A a \in Word \X Word, e \in Word :
              Parts("insert.last", a, <<e>>, 2, [a EXCEPT ![2] = Add(TruncateTo(a[2], 0), e)])
<1>1. \A c, a, b : Parts("select", a, b, c, IF c = 1 THEN a ELSE b)
  BY Zenon DEF Parts
<1>2. \A a, i : Parts("extract", a, <<>>, i, <<a[i]>>)
  BY Zenon DEF Parts
<1>3. ASSUME NEW a \in Word \X Word, NEW e, NEW i \in {1, 2}, NEW op \in {"insert", "insert.last"}
      PROVE  Parts(op, a, <<e>>, i, [a EXCEPT ![i] = e])
  <2> DEFINE d == [a EXCEPT ![i] = e]
  <2>1. d[i] = e /\ d[3 - i] = a[3 - i] /\ <<e>>[1] = e
    OBVIOUS
  <2> HIDE DEF d
  <2>2. Parts(op, a, <<e>>, i, d)
    BY <2>1, Zenon DEF Parts
  <2> QED
    BY <2>2 DEF d
<1>4. ASSUME NEW w \in Word, NEW e \in Word
      PROVE  Parts("insert.byte", <<w>>, <<e>>, 1,
                   [<<w>> EXCEPT ![1] = Add(ZeroLowBytes(<<w>>[1], 1), e)])
  <2> DEFINE v == Add(ZeroLowBytes(w, 1), e)
             d == [<<w>> EXCEPT ![1] = v]
  <2>1. /\ ByteOf(v, 0) = ByteOf(e, 0)
        /\ Clean(e, ByteBits) => \A i \in 1 .. 3 : ByteOf(v, i) = ByteOf(w, i)
    <3>1. ASSUME e \in 0 .. Byte - 1 PROVE \A i \in 1 .. 3 : ByteOf(v, i) = ByteOf(w, i)
      <4>1. \A i \in 0 .. 3 : ByteOf(v, i) = IF i = 0 THEN e ELSE ByteOf(w, i)
        BY <3>1, InsertedByte
      <4> HIDE DEF v
      <4> QED
        BY <4>1
    <3>2. Clean(e, ByteBits) => e \in 0 .. Byte - 1
      BY BytePlace DEF Clean
    <3> QED
      BY <3>1, <3>2, InsertedHolder
  <2>2. <<w>>[1] = w /\ <<e>>[1] = e
    OBVIOUS
  <2> HIDE DEF v
  <2>3. d[1] = v
    OBVIOUS
  <2> HIDE DEF d
  <2>4. Parts("insert.byte", <<w>>, <<e>>, 1, d)
    BY <2>1, <2>2, <2>3, Zenon DEF Parts
  <2> QED
    BY <2>2, <2>4 DEF d, v
<1>5. ASSUME NEW a \in Word \X Word, NEW e \in Word
      PROVE  Parts("insert.last", a, <<e>>, 2, [a EXCEPT ![2] = Add(TruncateTo(a[2], 0), e)])
  <2>1. Add(TruncateTo(a[2], 0), e) = e
    BY DoubleParts, LastByte
  <2> QED
    BY <1>3, <2>1
<1> QED
  BY <1>1, <1>2, <1>3, <1>4, <1>5

(* Whatever a holder has above the bits of its type, trunc, sext, zext and *)
(* bitcast give the number LLVM means.  Select, extractvalue of a word and *)
(* insertvalue move the part that is meant, and change no other unless the *)
(* part is a byte from a holder that has more than the byte: for words of  *)
(* any length (ConversionsRight, which run words checks for eight bits).   *)
THEOREM ConversionsCorrect ==
  ASSUME Powers
  PROVE  Spec => []ConversionsRight
<1> USE Powers
<1>1. Init => ConversionsRight
  BY DEF Init, NoInstr, ConversionsRight, WidthsRight, PartsRight
<1>2. ASSUME NEW op, NEW const, NEW bits, NEW a, NEW b, NEW s,
             Executes(op, const, bits, a, b, s)
      PROVE  /\ Widths(op, a, bits, s, dest') /\ Parts(op, a, b, s, dest') => ConversionsRight'
             /\ op \notin ConversionOps => ConversionsRight'
  <2>1. instr'.op = op /\ instr'.a = a /\ instr'.b = b /\ instr'.bits = bits /\ instr'.s = s
    BY <1>2 DEF Executes
  <2>2. WidthsRight' <=> Widths(op, a, bits, s, dest')
    BY <2>1, Zenon DEF WidthsRight, Widths, OfBits
  <2>3. PartsRight' <=> Parts(op, a, b, s, dest')
    BY <2>1, Zenon DEF PartsRight, Parts
  <2>4. Widths(op, a, bits, s, dest') /\ Parts(op, a, b, s, dest') => ConversionsRight'
    BY <2>2, <2>3, Zenon DEF ConversionsRight
  <2>5. op \notin ConversionOps => Widths(op, a, bits, s, dest') /\ Parts(op, a, b, s, dest')
    BY OtherConversions, Zenon DEF ConversionOps
  <2> QED
    BY <2>4, <2>5
(* A conversion of the first kind, and one of the second.                  *)
<1>3. ASSUME NEW op \in {"trunc", "bitcast", "zext", "sext", "zext.flags"},
             NEW a, NEW from, NEW to, NEW cs, Converts(op, a, from, to, cs),
             Widths(op, a, from, to, dest')
      PROVE  ConversionsRight'
  <2>1. Executes(op, FALSE, from, a, <<>>, to)
    BY <1>3, Zenon DEF Converts
  <2>2. Parts(op, a, <<>>, to, dest')
    BY OtherConversions
  <2> QED
    BY <1>2, <1>3, <2>1, <2>2
<1>4. ASSUME NEW op \in {"select", "extract", "insert", "insert.last", "insert.byte"},
             NEW bits, NEW a, NEW b, NEW s, Executes(op, FALSE, bits, a, b, s),
             Parts(op, a, b, s, dest')
      PROVE  ConversionsRight'
  <2>1. Widths(op, a, bits, s, dest')
    BY OtherConversions
  <2> QED
    BY <1>2, <1>4, <2>1
<1>5. /\ Operands \subseteq Word
      /\ \A x \in Doubles : x \in Word \X Word
      /\ \A x \in Singles : \E w \in Word : x = <<w>>
      /\ \A w \in Word : Bits * Len(<<w>>) = Bits
      /\ \A a \in Word \X Word : Bits * Len(a) = 2 * Bits /\ a[1] \in Word
  <2>1. Bits \in Nat
    BY WordSizes
  <2>2. Operands \subseteq Word
    BY OperandsAssumption
  <2>3. \A x \in Doubles : x \in Word \X Word
    BY <2>2 DEF Doubles
  <2>4. \A x \in Singles : \E w \in Word : x = <<w>>
    BY <2>2, Zenon DEF Singles
  <2>5. \A w \in Word : Bits * Len(<<w>>) = Bits
    BY <2>1
  <2>6. ASSUME NEW a \in Word \X Word PROVE Bits * Len(a) = 2 * Bits /\ a[1] \in Word
    <3>1. Len(a) = 2 /\ a[1] \in Word
      BY DoubleParts
    <3>2. Bits * 2 = 2 * Bits
      BY <2>1
    <3> QED
      BY <3>1, <3>2
  <2> QED
    BY <2>2, <2>3, <2>4, <2>5, <2>6
<1>6. ASSUME TruncToWord \/ TruncNarrow \/ BitCast PROVE ConversionsRight'
  <2>1. CASE TruncToWord
    <3>1. PICK a \in Word \X Word :
            Converts("trunc", a, 2 * Bits, Bits, {}) /\ dest' = <<a[1]>>
      BY <1>5, <2>1 DEF TruncToWord
    <3>2. Widths("trunc", a, 2 * Bits, Bits, dest')
      BY <3>1, TruncSteps
    <3> QED
      BY <1>3, <3>1, <3>2
  <2>2. CASE TruncNarrow
    <3>1. PICK a \in Singles \cup Doubles, to \in NarrowBits :
            /\ Converts("trunc", a, Bits * Len(a), to, {2 ^ to})
            /\ dest' = <<ModConst(a[1], 2 ^ to)>>
      BY <2>2 DEF TruncNarrow
    <3>2. CASE a \in Singles
      <4>1. PICK w \in Word : a = <<w>>
        BY <1>5, <3>2
      <4>2. a[1] = w /\ Bits * Len(a) = Bits
        BY <1>5, <4>1
      <4>3. Widths("trunc", a, Bits * Len(a), to, dest')
        BY <3>1, <4>1, <4>2, TruncSteps
      <4> QED
        BY <1>3, <3>1, <4>3
    <3>3. CASE a \in Doubles
      <4>1. a \in Word \X Word /\ Bits * Len(a) = 2 * Bits
        BY <1>5, <3>3
      <4>2. Widths("trunc", a, Bits * Len(a), to, dest')
        BY <3>1, <4>1, TruncSteps
      <4> QED
        BY <1>3, <3>1, <4>2
    <3> QED
      BY <3>2, <3>3
  <2>3. CASE BitCast
    <3>1. PICK a : Converts("bitcast", a, Bits, Bits, {}) /\ dest' = a
      BY <2>3 DEF BitCast
    <3>2. Widths("bitcast", a, Bits, Bits, dest')
      BY <3>1, TruncSteps
    <3> QED
      BY <1>3, <3>1, <3>2
  <2> QED
    BY <1>6, <2>1, <2>2, <2>3
<1>7. ASSUME SExtFlag \/ SExtToWord \/ SExtTo64 PROVE ConversionsRight'
  <2>1. CASE SExtFlag
    <3>1. PICK f \in {0, 1} :
            Converts("sext", <<f>>, 1, Bits, {}) /\ dest' = <<IF f = 1 THEN -1 ELSE 0>>
      BY <2>1, Zenon DEF SExtFlag
    <3>2. Widths("sext", <<f>>, 1, Bits, dest')
      BY <3>1, SExtSteps
    <3> QED
      BY <1>3, <3>1, <3>2
  <2>2. CASE SExtToWord
    <3>1. PICK w \in Word, n \in {1, 2} :
            /\ Converts("sext", <<w>>, n * ByteBits, Bits, {Byte ^ n})
            /\ dest' = <<SignExtend(w, Byte ^ n)>>
      BY <1>5, <2>2, Zenon DEF SExtToWord
    <3>2. Widths("sext", <<w>>, n * ByteBits, Bits, dest')
      BY <3>1, SExtSteps
    <3> QED
      BY <1>3, <3>1, <3>2
  <2>3. CASE SExtTo64
    <3>1. PICK w \in Word :
            \/ /\ Converts("sext", <<w>>, Bits, 2 * Bits, {})
               /\ dest' = <<w, SignWord(w)>>
            \/ /\ Converts("sext", <<w>>, ByteBits, 2 * Bits, {Byte})
               /\ dest' = <<SignExtend(w, Byte), SignWord(SignExtend(w, Byte))>>
      BY <1>5, <2>3, Zenon DEF SExtTo64
    <3>2. /\ Widths("sext", <<w>>, Bits, 2 * Bits, <<w, SignWord(w)>>)
          /\ Widths("sext", <<w>>, ByteBits, 2 * Bits,
                    <<SignExtend(w, Byte), SignWord(SignExtend(w, Byte))>>)
      BY SExtSteps, Zenon
    <3>3. \E from, cs : /\ Converts("sext", <<w>>, from, 2 * Bits, cs)
                        /\ Widths("sext", <<w>>, from, 2 * Bits, dest')
      BY <3>1, <3>2, Zenon
    <3> QED
      BY <1>3, <3>3
  <2> QED
    BY <1>7, <2>1, <2>2, <2>3
<1>8. ASSUME ZExtNarrow \/ ZExtWord \/ ZExt48 \/ ZExtFlags PROVE ConversionsRight'
  <2>1. CASE ZExtNarrow
    <3>1. PICK w \in Word, n \in NarrowBits, to \in {Bits, 2 * Bits} :
            /\ Converts("zext", <<w>>, n, to, {2 ^ n})
            /\ dest' = <<ModConst(w, 2 ^ n)>> \o (IF to > Bits THEN <<0>> ELSE <<>>)
      BY <1>5, <2>1, Zenon DEF ZExtNarrow
    <3>2. \A wide \in BOOLEAN :
            Widths("zext", <<w>>, n, to, <<ModConst(w, 2 ^ n)>> \o (IF wide THEN <<0>> ELSE <<>>))
      BY ZExtSteps, Zenon
    <3>3. (to > Bits) \in BOOLEAN
      BY WordSizes
    <3>4. Widths("zext", <<w>>, n, to, dest')
      BY <3>1, <3>2, <3>3, Zenon
    <3> QED
      BY <1>3, <3>1, <3>4
  <2>2. CASE ZExtWord
    <3>1. PICK w \in Word : Converts("zext", <<w>>, Bits, 2 * Bits, {}) /\ dest' = <<w, 0>>
      BY <1>5, <2>2, Zenon DEF ZExtWord
    <3>2. Widths("zext", <<w>>, Bits, 2 * Bits, dest')
      BY <3>1, ZExtSteps, Zenon
    <3> QED
      BY <1>3, <3>1, <3>2
  <2>3. CASE ZExt48
    <3>1. PICK a \in Word \X Word :
            /\ Converts("zext", a, 6 * ByteBits, 2 * Bits, {Half})
            /\ dest' = <<a[1], ModConst(a[2], Half)>>
      BY <1>5, <2>3, Zenon DEF ZExt48
    <3>2. Widths("zext", a, 6 * ByteBits, 2 * Bits, dest')
      BY <3>1, ZExtSteps, Zenon
    <3> QED
      BY <1>3, <3>1, <3>2
  <2>4. CASE ZExtFlags
    <3>1. PICK flags \in [1 .. 4 -> {0, 1}] :
            /\ Converts("zext.flags", <<FlagsWord(flags)>>, 1, Bits, {2, Byte})
            /\ dest' = [i \in 1 .. 4 |-> ModConst(DivideByByte(FlagsWord(flags), i - 1), 2)]
      BY <2>4, Zenon DEF ZExtFlags
    <3>2. Widths("zext.flags", <<FlagsWord(flags)>>, 1, Bits, dest')
      BY <3>1, ZExtSteps, Zenon
    <3> QED
      BY <1>3, <3>1, <3>2
  <2> QED
    BY <1>8, <2>1, <2>2, <2>3, <2>4
<1>9. ASSUME Select PROVE ConversionsRight'
  <2>1. PICK c, a, b : /\ Executes("select", FALSE, Bits, a, b, c)
                       /\ dest' = IF c = 1 THEN a ELSE b
    BY <1>9, Zenon DEF Select
  <2>2. Parts("select", a, b, c, dest')
    BY <2>1, PartSteps, Zenon
  <2> QED
    BY <1>4, <2>1, <2>2
<1>10. ASSUME ExtractWord \/ ExtractByte PROVE ConversionsRight'
  <2>1. CASE ExtractWord
    <3>1. PICK a, i : Executes("extract", FALSE, Bits, a, <<>>, i) /\ dest' = <<a[i]>>
      BY <2>1, Zenon DEF ExtractWord, Converts
    <3>2. Parts("extract", a, <<>>, i, dest')
      BY <3>1, PartSteps, Zenon
    <3> QED
      BY <1>4, <3>1, <3>2
  <2>2. CASE ExtractByte
    <3>1. PICK a, offset : Executes("extract.byte", FALSE, ByteBits, a, <<>>, offset)
      BY <2>2, Zenon DEF ExtractByte, Converts
    <3>2. /\ Widths("extract.byte", a, ByteBits, offset, dest')
          /\ Parts("extract.byte", a, <<>>, offset, dest')
      BY OtherConversions
    <3> QED
      BY <1>2, <3>1, <3>2
  <2> QED
    BY <1>10, <2>1, <2>2
<1>11. ASSUME InsertWord \/ InsertFirstByte \/ InsertLastByte PROVE ConversionsRight'
  <2>1. CASE InsertWord
    <3>1. PICK a \in Word \X Word, e \in Word, i \in {1, 2} :
            Executes("insert", FALSE, Bits, a, <<e>>, i) /\ dest' = [a EXCEPT ![i] = e]
      BY <1>5, <2>1, Zenon DEF InsertWord
    <3> QED
      BY <1>4, <3>1, PartSteps
  <2>2. CASE InsertFirstByte
    <3>1. PICK a \in Singles, e \in Word :
            /\ Executes("insert.byte", FALSE, ByteBits, a, <<e>>, 1)
            /\ dest' = [a EXCEPT ![1] = Add(ZeroLowBytes(a[1], 1), e)]
      BY <1>5, <2>2 DEF InsertFirstByte, InsertByte
    <3>2. PICK w \in Word : a = <<w>>
      BY <1>5
    <3>3. Parts("insert.byte", a, <<e>>, 1, dest')
      BY <3>1, <3>2, PartSteps
    <3> QED
      BY <1>4, <3>1, <3>3
  <2>3. CASE InsertLastByte
    <3>1. PICK a \in Word \X Word, e \in Word :
            /\ Executes("insert.last", FALSE, ByteBits, a, <<e>>, 2)
            /\ dest' = [a EXCEPT ![2] = Add(TruncateTo(a[2], 0), e)]
      BY <1>5, <2>3 DEF InsertLastByte, InsertByte
    <3>2. Parts("insert.last", a, <<e>>, 2, dest')
      BY <3>1, PartSteps
    <3> QED
      BY <1>4, <3>1, <3>2
  <2> QED
    BY <1>11, <2>1, <2>2, <2>3
<1>12. ASSUME NextShift \/ NextVector PROVE ConversionsRight'
  <2>1. CASE NextShift
    BY <1>2, <2>1, ShiftOpsOnly DEF ShiftOps, ConversionOps
  <2>2. CASE NextVector
    BY <1>2, <2>2, VectorOpsOnly DEF VectorOps, LaneOps, ConversionOps
  <2> QED
    BY <1>12, <2>1, <2>2
<1>13. ASSUME NextArithmetic PROVE ConversionsRight'
  <2>1. CASE ICmp \/ ICmp64 \/ ICmp48
    BY <1>2, <2>1, PredicatesOnly DEF Predicates, ConversionOps
  <2>2. CASE ~ (ICmp \/ ICmp64 \/ ICmp48)
    BY <1>2, <1>13, <2>2, SumOpsOnly DEF SumOps, ConversionOps, NextArithmetic
  <2> QED
    BY <2>1, <2>2
<1>14. ASSUME ConversionsRight, UNCHANGED vars PROVE ConversionsRight'
  <2>1. instr' = instr /\ dest' = dest
    BY <1>14 DEF vars
  <2>2. WidthsRight => WidthsRight'
    BY <2>1, Zenon DEF WidthsRight, OfBits
  <2>3. PartsRight => PartsRight'
    BY <2>1, Zenon DEF PartsRight
  <2> QED
    BY <1>14, <2>2, <2>3 DEF ConversionsRight
<1>15. ConversionsRight /\ [Next]_vars => ConversionsRight'
  BY <1>6, <1>7, <1>8, <1>9, <1>10, <1>11, <1>12, <1>13, <1>14, Zenon DEF Next, NextConversion
<1> QED
  BY <1>1, <1>15, PTL DEF Spec

-----------------------------------------------------------------------------
(* intrinsic:shl: what s doublings make of a word.                         *)
LEMMA ShlIs ==
  ASSUME Powers, NEW a \in Word, NEW s \in Int
  PROVE  /\ s \in Nat => Shl(a, s) = Wrap(a * 2 ^ s)
         /\ s <= 0 => Shl(a, s) = a
         /\ Shl(a, s) \in Word
<1> DEFINE k == IF s > 0 THEN s ELSE 0
           q == [n \in 0 .. k |-> Wrap(a * 2 ^ n)]
           E(f, n) == IF n = 0 THEN a ELSE Times(f[n - 1], 2)
           F == CHOOSE f : f = [n \in 0 .. k |-> E(f, n)]
<1>1. k \in Nat /\ 0 \in 0 .. k /\ k \in 0 .. k /\ (s \in Nat => k = s) /\ (s <= 0 => k = 0)
  OBVIOUS
<1>2. Shl(a, s) = F[k]
  BY DEF Shl
<1> HIDE DEF k
<1>3. a \in Int /\ 2 ^ 0 = 1 /\ a * 1 = a /\ Wrap(a) = a
  BY UnsignedOf, WrapFacts DEF Powers
<1>4. ASSUME NEW n \in 0 .. k, n # 0
      PROVE  Times(Wrap(a * 2 ^ (n - 1)), 2) = Wrap(a * 2 ^ n)
  <2>1. n - 1 \in Nat /\ (n - 1) + 1 = n
    BY <1>1, <1>4
  <2> DEFINE p == 2 ^ (n - 1)
  <2>2. p \in Nat \ {0} /\ 2 ^ n = 2 * p
    <3>1. 2 ^ ((n - 1) + 1) = 2 * 2 ^ (n - 1) /\ 2 ^ (n - 1) \in Nat \ {0}
      BY <2>1 DEF Powers
    <3> QED
      BY <2>1, <3>1
  <2> HIDE DEF p
  <2> DEFINE x == a * p
  <2>3. x \in Int /\ x * 2 = a * (2 * p)
    BY <1>3, <2>2
  <2> HIDE DEF x
  <2>4. Wrap(Wrap(x) * 2) = Wrap(x * 2)
    <3>1. PICK two \in Int : two = 2
      OBVIOUS
    <3>2. Wrap(Wrap(x) * two) = Wrap(x * two)
      BY <2>3, WrapInside
    <3> QED
      BY <3>1, <3>2
  <2> QED
    BY <2>2, <2>3, <2>4 DEF x, p, Times
<1>5. \A n \in 0 .. k : q[n] = E(q, n)
  <2> TAKE n \in 0 .. k
  <2>1. CASE n = 0
    BY <1>3, <2>1
  <2>2. CASE n # 0
    <3>1. n - 1 \in 0 .. k
      BY <1>1, <2>2
    <3>2. q[n - 1] = Wrap(a * 2 ^ (n - 1)) /\ q[n] = Wrap(a * 2 ^ n)
      BY <3>1
    <3> HIDE DEF q
    <3> QED
      BY <1>4, <2>2, <3>2
  <2> QED
    BY <2>1, <2>2
<1>6. q = [n \in 0 .. k |-> E(q, n)]
  <2>1. q = [n \in 0 .. k |-> q[n]]
    OBVIOUS
  <2> HIDE DEF q, E
  <2> QED
    BY <1>5, <2>1
<1>7. F = [n \in 0 .. k |-> E(F, n)]
  <2> HIDE DEF q, E
  <2> QED
    BY <1>6
<1> HIDE DEF F
<1> DEFINE S == {n \in 0 .. k : F[n] = q[n]}
<1>8. 0 \in S
  <2>1. F[0] = E(F, 0) /\ q[0] = E(q, 0)
    BY <1>1, <1>5, <1>7
  <2> QED
    BY <1>1, <2>1
<1>9. ASSUME NEW n \in 0 .. k - 1, n \in S PROVE n + 1 \in S
  <2>1. n + 1 \in 0 .. k /\ (n + 1) - 1 = n /\ n + 1 # 0
    BY <1>1
  <2>2. F[n] = q[n]
    BY <1>9
  <2> HIDE DEF q
  <2>3. E(F, n + 1) = E(q, n + 1)
    BY <2>1, <2>2
  <2>4. F[n + 1] = E(F, n + 1)
    <3> HIDE DEF E
    <3> QED
      BY <1>7, <2>1
  <2>5. q[n + 1] = E(q, n + 1)
    BY <1>5, <2>1
  <2> QED
    BY <2>1, <2>3, <2>4, <2>5
<1> HIDE DEF S
<1>10. 0 .. k \subseteq S
  BY <1>1, <1>8, <1>9, BoundedInduction
<1>11. F[k] = Wrap(a * 2 ^ k)
  BY <1>1, <1>10 DEF S
<1>12. Wrap(a * 2 ^ k) \in Word
  <2>1. 2 ^ k \in Nat
    BY <1>1 DEF Powers
  <2>2. a * 2 ^ k \in Int
    BY <1>3, <2>1
  <2> QED
    BY <2>2, WrapFacts
<1>13. s <= 0 => Wrap(a * 2 ^ k) = a
  BY <1>1, <1>3
<1> QED
  BY <1>1, <1>2, <1>11, <1>12, <1>13

(* The constants of a shift: 2^s, but for 1 << 31.                         *)
LEMMA OneIs ==
  ASSUME Powers, NEW s \in 0 .. Bits - 1
  PROVE  /\ 2 ^ s \in Nat \ {0} /\ 2 ^ (Bits - s) \in Nat \ {0}
         /\ Modulus = 2 ^ (Bits - s) * 2 ^ s
         /\ Congruent(One(s), 2 ^ s, Modulus) /\ One(s) \in Int
         /\ s < Bits - 1 => One(s) = 2 ^ s /\ One(s) \in Initialised
         /\ One(s) \in Initialised => s < Bits - 1
<1>1. Bits \in Nat /\ s \in Nat /\ Bits - s \in Nat /\ 2 ^ Bits = Modulus /\ HighBit \in Nat \ {0}
  BY WordSizes
<1>2. /\ 2 ^ s \in Nat \ {0} /\ 2 ^ (Bits - s) \in Nat \ {0}
      /\ Modulus = 2 ^ (Bits - s) * 2 ^ s
  <2>1. PICK two \in Nat \ {0} : two = 2
    OBVIOUS
  <2>2. /\ two ^ ((Bits - s) + s) = two ^ (Bits - s) * two ^ s
        /\ two ^ s \in Nat \ {0} /\ two ^ (Bits - s) \in Nat \ {0}
    BY <1>1, PowerSum
  <2>3. (Bits - s) + s = Bits
    BY <1>1
  <2> QED
    BY <1>1, <2>1, <2>2, <2>3
<1>3. Congruent(One(s), 2 ^ s, Modulus) /\ One(s) \in Int
  BY <1>2, WrapCongruent DEF One, Power
<1>4. s < Bits - 1 => One(s) = 2 ^ s /\ One(s) \in Initialised
  <2> HAVE s < Bits - 1
  <2>1. s \in 0 .. Bits - 2
    BY <1>1
  <2>2. 2 ^ s \in Initialised /\ 2 ^ s \in Word
    BY <2>1, NarrowSizes, InitialisedAre
  <2>3. 2 ^ s \in Int
    BY <1>2
  <2>4. Wrap(2 ^ s) = 2 ^ s
    BY <2>2, <2>3, WrapFacts
  <2> QED
    BY <2>2, <2>4 DEF One, Power
<1>5. One(s) \in Initialised => s < Bits - 1
  <2> SUFFICES ASSUME ~ (s < Bits - 1) PROVE One(s) \notin Initialised
    OBVIOUS
  <2>1. s = Bits - 1
    BY <1>1
  <2>2. 2 ^ s = HighBit
    BY <2>1, BytePlace
  <2>3. Wrap(HighBit) = -HighBit
    <3>1. HighBit = 1 * Modulus + (-HighBit) /\ -HighBit \in Word
      BY <1>1, WordSizes DEF Word
    <3>2. PICK one \in Int : one = 1
      OBVIOUS
    <3> DEFINE w == -HighBit
    <3>3. w \in Word /\ HighBit = one * Modulus + w
      BY <3>1, <3>2
    <3> HIDE DEF w
    <3>4. Wrap(one * Modulus + w) = w
      BY <3>3, WrapWord
    <3> QED
      BY <3>3, <3>4 DEF w
  <2>4. One(s) = -HighBit
    BY <2>2, <2>3 DEF One, Power
  <2>5. 2 <= HighBit
    BY WordSizes
  <2>6. -HighBit < 0 /\ -HighBit # -1
    BY <1>1, <2>5
  <2>7. \A c \in Initialised : c = -1 \/ c \in Nat
    <3>1. \A i \in 0 .. Bits - 2 : 2 ^ i \in Nat
      BY NarrowSizes
    <3> QED
      BY <3>1 DEF Initialised
  <2> QED
    BY <1>1, <2>4, <2>6, <2>7
<1> QED
  BY <1>1, <1>2, <1>3, <1>4, <1>5

(* One word, shifted.                                                      *)
LEMMA ShlWord ==
  ASSUME Powers, NEW a \in Word, NEW s \in Nat
  PROVE  /\ Shl(a, s) \in Word /\ 2 ^ s \in Nat \ {0}
         /\ Congruent(Shl(a, s), a * 2 ^ s, Modulus)
         /\ Congruent(Shl(a, s), U(a) * 2 ^ s, Modulus)
         /\ U(Shl(a, s)) = (U(a) * 2 ^ s) % Modulus
<1> DEFINE p == 2 ^ s
           r == Shl(a, s)
           v == U(a)
<1>1. /\ s \in Int /\ p \in Nat \ {0} /\ Modulus \in Nat \ {0} /\ a \in Int /\ v \in Int
      /\ Congruent(a, v, Modulus)
  BY WordSizes, UnsignedOf DEF Powers
<1>2. r = Wrap(a * p) /\ r \in Word
  BY <1>1, ShlIs
<1> HIDE DEF p, v, r
<1>3. a * p \in Int /\ v * p \in Int
  BY <1>1
<1>4. Congruent(p, p, Modulus)
  BY <1>1, RestIsCongruent
<1>5. Congruent(a * p, v * p, Modulus)
  BY <1>1, <1>4, CongruentSums
<1>6. Congruent(r, a * p, Modulus) /\ r \in Int /\ U(r) = (a * p) % Modulus
  BY <1>2, <1>3, WrapCongruent
<1>7. Congruent(r, v * p, Modulus)
  <2> DEFINE x == a * p
             y == v * p
  <2> HIDE DEF x, y
  <2>1. Congruent(r, x, Modulus) /\ Congruent(x, y, Modulus) /\ x \in Int /\ y \in Int
    BY <1>3, <1>5, <1>6 DEF x, y
  <2>2. Congruent(r, y, Modulus)
    BY <1>1, <1>6, <2>1, CongruentOn
  <2> QED
    BY <2>2 DEF y
<1>8. (a * p) % Modulus = (v * p) % Modulus
  BY <1>1, <1>3, <1>5, SameRest
<1> QED
  BY <1>1, <1>2, <1>6, <1>7, <1>8 DEF p, v, r

LEMMA LshrWord ==
  ASSUME Powers, NEW a \in Word, NEW s \in 0 .. Bits
  PROVE  /\ Lshr(a, s) \in Word /\ 2 ^ s \in Nat \ {0}
         /\ U(Lshr(a, s)) = U(a) \div 2 ^ s
         /\ U(a) \div 2 ^ s \in 0 .. Modulus - 1
         /\ s > 0 => Lshr(a, s) = U(a) \div 2 ^ s
         /\ s = 0 => Lshr(a, s) = a
<1> DEFINE v == U(a)
<1>1. /\ Bits \in Nat \ {0} /\ s \in Nat /\ 2 ^ s \in Nat \ {0} /\ Modulus \in Nat \ {0}
      /\ v \in 0 .. Modulus - 1 /\ HighBit \in Nat \ {0} /\ 2 ^ Bits = Modulus /\ 2 ^ 0 = 1
      /\ Modulus = 2 * HighBit
  BY WordSizes, UnsignedOf DEF Powers
<1>2. v \div 2 ^ s \in 0 .. v
  <2> DEFINE p == 2 ^ s
  <2>1. p \in Nat \ {0} /\ v \in Nat
    BY <1>1
  <2> HIDE DEF p, v
  <2>2. v \div p \in 0 .. v
    BY <2>1, QuotientSize
  <2> QED
    BY <2>2 DEF p
<1>3. CASE s = 0
  <2>1. v \div 1 = v
    BY <1>1
  <2>2. Lshr(a, s) = a
    BY <1>1, <1>3 DEF Lshr
  <2> QED
    BY <1>1, <1>3, <2>1, <2>2
<1>4. CASE s = Bits
  <2>1. Lshr(a, s) = 0
    BY <1>1, <1>4 DEF Lshr
  <2>2. v \div Modulus = 0
    <3> HIDE DEF v
    <3>1. PICK z \in Int : z = 0
      OBVIOUS
    <3>2. (z * Modulus + v) \div Modulus = z
      BY <1>1, <3>1, DivUnique
    <3>3. z * Modulus + v = v
      BY <1>1, <3>1
    <3> QED
      BY <3>1, <3>2, <3>3
  <2>3. 0 \in Word /\ U(0) = 0
    BY WordsNearZero
  <2> QED
    BY <1>1, <1>2, <1>4, <2>1, <2>2, <2>3
<1>5. CASE s \in 1 .. Bits - 1
  <2> DEFINE r == v \div 2 ^ s
  <2>1. Lshr(a, s) = r
    <3>1. Lshr(a, s) = (a % Modulus) \div 2 ^ s
      BY <1>5, LshrIs
    <3>2. v = a % Modulus
      BY DEF U, Modulus
    <3> QED
      BY <3>1, <3>2
  <2>2. r \in 0 .. HighBit - 1
    <3> DEFINE p == 2 ^ s
               g == 2 ^ (Bits - 1 - s)
    <3>1. s \in 0 .. Bits - 1
      BY <1>5
    <3>2. p \in Nat \ {0} /\ g \in Nat \ {0} /\ HighBit = g * p /\ p >= 2
      <4>1. p \in Nat \ {0} /\ g \in Nat \ {0} /\ HighBit = g * p
        BY <3>1, HighHalf
      <4>2. s - 1 \in Nat /\ (s - 1) + 1 = s
        BY <1>5
      <4>3. p = 2 * 2 ^ (s - 1) /\ 2 ^ (s - 1) \in Nat \ {0}
        BY <4>2 DEF Powers
      <4> QED
        BY <4>1, <4>3
    <3> HIDE DEF p, g, v
    <3>3. 2 * HighBit = (2 * g) * p /\ 2 * g \in Nat \ {0}
      BY <3>2
    <3>4. v \in 0 .. (2 * g) * p - 1
      BY <1>1, <3>3
    <3>5. v \div p \in 0 .. 2 * g - 1
      <4> DEFINE m == 2 * g
      <4>1. m \in Nat \ {0} /\ v \in 0 .. m * p - 1
        BY <3>3, <3>4
      <4> HIDE DEF m
      <4>2. v \div p \in 0 .. m - 1
        BY <3>2, <4>1, QuotientBelow
      <4> QED
        BY <4>2 DEF m
    <3>6. 2 * g <= HighBit
      BY <3>2
    <3>7. v \div p \in 0 .. HighBit - 1
      BY <1>1, <3>2, <3>5, <3>6
    <3> QED
      BY <3>7 DEF p
  <2> HIDE DEF r
  <2>3. r \in Word /\ r >= 0 /\ r \in Int
    BY <1>1, <2>2 DEF Word
  <2>4. U(r) = r
    BY <1>1, <2>3, UnsignedWord
  <2>5. Lshr(a, s) \in Word /\ U(Lshr(a, s)) = r /\ r \in 0 .. Modulus - 1
    BY <1>1, <2>1, <2>2, <2>3, <2>4
  <2>6. s # 0
    BY <1>5
  <2> QED
    BY <1>1, <2>1, <2>5, <2>6 DEF r
<1> QED
  BY <1>1, <1>3, <1>4, <1>5

(* The bits that a shift by s to the left moves out of a word: what a shift*)
(* by what is left of the word leaves.                                     *)
LEMMA MovedOut ==
  ASSUME Powers, NEW x \in Int, NEW s \in 0 .. Bits
  PROVE  /\ 2 ^ s \in Nat \ {0} /\ 2 ^ (Bits - s) \in Nat \ {0}
         /\ Modulus = 2 ^ (Bits - s) * 2 ^ s /\ Modulus = 2 ^ s * 2 ^ (Bits - s)
         /\ x \div 2 ^ (Bits - s) \in Int
         /\ x * 2 ^ s = ((x * 2 ^ s) % Modulus) + Modulus * (x \div 2 ^ (Bits - s))
<1> DEFINE p == 2 ^ s
           g == 2 ^ (Bits - s)
           q == x \div g
           r == x % g
<1>1. p \in Nat \ {0} /\ g \in Nat \ {0} /\ Modulus = g * p
  <2>1. Bits \in Nat /\ s \in Nat /\ Bits - s \in Nat /\ (Bits - s) + s = Bits /\ 2 ^ Bits = Modulus
    BY WordSizes
  <2>2. PICK two \in Nat \ {0} : two = 2
    OBVIOUS
  <2>3. two ^ ((Bits - s) + s) = two ^ (Bits - s) * two ^ s
    BY <2>1, <2>2, PowerSum
  <2>4. two ^ (Bits - s) \in Nat \ {0} /\ two ^ s \in Nat \ {0}
    BY <2>1, <2>2, PowerSum
  <2> QED
    BY <2>1, <2>2, <2>3, <2>4
<1> HIDE DEF p, g
<1>2. q \in Int /\ r \in 0 .. g - 1 /\ x = q * g + r
  BY <1>1, DivIs
<1> HIDE DEF q, r
<1>3. x * p = q * Modulus + r * p
  <2>1. (q * g) * p = q * (g * p)
    BY <1>1, <1>2, Z3
  <2>2. (q * g + r) * p = (q * g) * p + r * p
    BY <1>1, <1>2, Z3
  <2> QED
    BY <1>1, <1>2, <2>1, <2>2
<1>4. r * p \in 0 .. Modulus - 1
  <2>1. ASSUME NEW e \in 0 .. g - 1
        PROVE  0 <= e * p /\ e * p + p <= g * p
    <3>1. (e + 1) * p = e * p + p /\ e + 1 <= g
      BY <1>1, Z3
    <3>2. (e + 1) * p <= g * p /\ 0 <= e * p
      BY <1>1, <3>1, Z3
    <3> QED
      BY <3>1, <3>2
  <2>2. r * p \in Int
    BY <1>1, <1>2
  <2> QED
    BY <1>1, <1>2, <2>1, <2>2
<1> DEFINE t == r * p
           y == x * p
<1>5. t \in 0 .. Modulus - 1 /\ y = q * Modulus + t /\ Modulus \in Nat \ {0}
  BY <1>3, <1>4, WordSizes
<1> HIDE DEF t, y
<1>6. y % Modulus = t
  BY <1>2, <1>5, DivUnique
<1>7. y = (y % Modulus) + Modulus * q
  BY <1>2, <1>5, <1>6
<1>8. Modulus = p * g
  BY <1>1
<1> QED
  BY <1>1, <1>2, <1>7, <1>8 DEF p, g, q, y

-----------------------------------------------------------------------------
(* Two words, shifted, from what their low and their high word are.        *)
LEMMA LeftDouble ==
  ASSUME Powers, NEW lo \in Word, NEW hi \in Word, NEW s \in 0 .. Bits,
         NEW l \in Word, NEW h \in Word,
         Congruent(l, U(lo) * 2 ^ s, Modulus),
         Congruent(h, U(hi) * 2 ^ s + (U(lo) \div 2 ^ (Bits - s)), Modulus)
  PROVE  Unsigned(<<l, h>>) = (Unsigned(<<lo, hi>>) * 2 ^ s) % (Modulus * Modulus)
<1> DEFINE x == U(lo)
           y == U(hi)
           p == 2 ^ s
           c == x \div 2 ^ (Bits - s)
           m == Modulus
           t == x * p
           g == y * p + c
           n == (x + m * y) * p
<1>1. /\ x \in Int /\ y \in Int /\ m \in Nat \ {0} /\ l \in Int
      /\ Unsigned(<<lo, hi>>) = x + m * y
  BY UnsignedOf, UnsignedDouble, WordSizes
<1>2. p \in Nat \ {0} /\ c \in Int /\ t = (t % m) + m * c
  <2> HIDE DEF x
  <2> QED
    BY <1>1, MovedOut
<1> HIDE DEF x, y, p, c, m
<1>3. t \in Int /\ g \in Int /\ n \in Int /\ Congruent(l, t, m) /\ Congruent(h, g, m)
  BY <1>1, <1>2 DEF x, y, p, c, m
<1>4. U(l) = t % m
  <2> HIDE DEF t
  <2>1. l % m = t % m
    BY <1>1, <1>3, SameRest
  <2> QED
    BY <2>1 DEF U, m, Modulus
<1>5. U(l) + m * g = n
  <2>1. (x + m * y) * p = t + m * (y * p)
    BY <1>1, <1>2, Z3
  <2>2. m * (y * p + c) = m * (y * p) + m * c
    BY <1>1, <1>2, Z3
  <2>3. m * (y * p) \in Int /\ m * c \in Int /\ t % m \in Int
    <3> HIDE DEF t
    <3> QED
      BY <1>1, <1>2, <1>3, DivIs
  <2> HIDE DEF t
  <2> QED
    BY <1>2, <1>3, <1>4, <2>1, <2>2, <2>3
<1> HIDE DEF g, n
<1>6. Congruent(U(l) + m * g, n, m * m)
  <2>1. m * m \in Nat \ {0}
    BY <1>1
  <2> DEFINE d == m * m
  <2> HIDE DEF d
  <2>2. Congruent(n, n, d)
    BY <1>3, <2>1, RestIsCongruent DEF d
  <2> QED
    BY <1>5, <2>2 DEF d
<1>7. Unsigned(<<l, h>>) = n % (Modulus * Modulus)
  BY <1>3, <1>6, DoubleIs DEF m
<1> QED
  BY <1>1, <1>7 DEF n, p

LEMMA RightDouble ==
  ASSUME Powers, NEW lo \in Word, NEW hi \in Word, NEW s \in 0 .. Bits,
         NEW l \in Word,
         Congruent(l, (U(lo) \div 2 ^ s) + U(hi) * 2 ^ (Bits - s), Modulus)
  PROVE  /\ U(l) = (Unsigned(<<lo, hi>>) \div 2 ^ s) % Modulus
         /\ \A h \in Word : U(h) = U(hi) \div 2 ^ s =>
              Unsigned(<<l, h>>) = Unsigned(<<lo, hi>>) \div 2 ^ s
<1> DEFINE x == U(lo)
           y == U(hi)
           p == 2 ^ s
           g == 2 ^ (Bits - s)
           m == Modulus
           v == x + m * y
           n == v \div p
<1>1. /\ x \in 0 .. m - 1 /\ x \in Int /\ y \in Int /\ m \in Nat \ {0} /\ l \in Int
      /\ Unsigned(<<lo, hi>>) = v
  BY UnsignedOf, UnsignedDouble, WordSizes
<1>2. p \in Nat \ {0} /\ g \in Nat \ {0} /\ m = g * p /\ m = p * g
  <2>1. PICK z \in Int : z = 0
    OBVIOUS
  <2> QED
    BY <2>1, MovedOut
<1> HIDE DEF x, y, p, g, m
<1>3. v \in Int /\ v = x + (y * g) * p /\ y * g \in Int
  <2>1. y * (g * p) = (y * g) * p
    BY <1>1, <1>2, Z3
  <2> QED
    BY <1>1, <1>2, <2>1
<1>4. n = (x \div p) + y * g
  <2> DEFINE q == y * g
  <2>1. q \in Int /\ v = x + q * p
    BY <1>3
  <2> HIDE DEF q
  <2>2. (x + q * p) \div p = (x \div p) + q
    BY <1>1, <1>2, <2>1, Shifted
  <2> QED
    BY <2>1, <2>2 DEF q
<1>5. v \div m = y
  <2>1. v = y * m + x
    BY <1>1
  <2> HIDE DEF v
  <2> QED
    BY <1>1, <2>1, DivUnique
<1>6. n \div m = y \div p
  <2> HIDE DEF v
  <2>1. v \div (p * m) = (v \div p) \div m /\ v \div (m * p) = (v \div m) \div p
    BY <1>1, <1>2, <1>3, DivTwice
  <2>2. p * m = m * p
    BY <1>1, <1>2
  <2> QED
    BY <1>5, <2>1, <2>2
<1>7. n \in Int
  <2> HIDE DEF v
  <2> QED
    BY <1>2, <1>3, DivIs
<1> HIDE DEF n, v
<1>8. U(l) = n % m
  <2>1. Congruent(l, n, m)
    BY <1>4 DEF x, y, p, g, m
  <2>2. l % m = n % m
    BY <1>1, <1>7, <2>1, SameRest
  <2> QED
    BY <2>2 DEF U, m, Modulus
<1>9. n = (n \div m) * m + (n % m) /\ n \div m \in Int /\ n % m \in Int
  BY <1>1, <1>7, DivIs
<1>10. ASSUME NEW h \in Word, U(h) = y \div p PROVE Unsigned(<<l, h>>) = n
  <2>1. Unsigned(<<l, h>>) = U(l) + m * U(h)
    BY UnsignedDouble DEF m
  <2>2. m * U(h) = (n \div m) * m
    BY <1>1, <1>6, <1>9, <1>10
  <2> QED
    BY <1>1, <1>8, <1>9, <2>1, <2>2
<1> QED
  BY <1>1, <1>8, <1>10 DEF n, m, y, p

-----------------------------------------------------------------------------
(* What ShlShifts says of one shift to the left.                           *)
Lefts(bits, a, s, d) == Unsigned(d) = (Unsigned(a) * 2 ^ s) % 2 ^ bits

LEMMA NarrowAre ==
  ASSUME Powers
  PROVE  \A n \in Narrow : /\ n \in NarrowBits /\ n \in 0 .. Bits - 2 /\ n < Bits
                           /\ One(n) = 2 ^ n /\ 2 ^ n \in Nat \ {0}
<1>1. \A n \in Narrow : n \in NarrowBits
  BY DEF Narrow, NarrowBits
<1> SUFFICES ASSUME NEW n \in Narrow
             PROVE  n \in 0 .. Bits - 2 /\ n < Bits /\ One(n) = 2 ^ n /\ 2 ^ n \in Nat \ {0}
  BY <1>1
<1>2. n \in 0 .. Bits - 2 /\ Bits \in Nat
  BY <1>1, NarrowWidths, WordSizes
<1>3. n \in 0 .. Bits - 1 /\ n < Bits - 1
  BY <1>2
<1> QED
  BY <1>2, <1>3, OneIs

LEMMA ShlVariableIs ==
  ASSUME Powers, NEW bits \in Narrow \union {Bits}, NEW a \in Word, NEW s \in Nat
  PROVE  Lefts(bits, <<a>>, s,
               <<IF bits < Bits THEN ModConst(Shl(a, s), One(bits)) ELSE Shl(a, s)>>)
<1> DEFINE w == Shl(a, s)
           t == U(a) * 2 ^ s
<1>1. w \in Word /\ U(w) = t % Modulus /\ 2 ^ s \in Nat
  BY ShlWord
<1>2. U(a) \in Int /\ Modulus \in Nat \ {0} /\ 2 ^ Bits = Modulus /\ Bits \in Nat
  BY WordSizes, UnsignedOf
<1>3. t \in Int
  BY <1>1, <1>2
<1>4. Unsigned(<<a>>) = U(a) /\ Unsigned(<<w>>) = U(w)
  BY <1>1, ZeroAbove
<1> HIDE DEF w, t
<1>5. CASE bits \in Narrow
  <2>1. bits \in 0 .. Bits - 2 /\ bits < Bits /\ One(bits) = 2 ^ bits
    BY <1>5, NarrowAre
  <2>2. t = (t \div Modulus) * Modulus + (t % Modulus) /\ t \div Modulus \in Int
    BY <1>2, <1>3, DivIs
  <2> DEFINE k == t \div Modulus
  <2> HIDE DEF k
  <2>3. k \in Int /\ t = U(w) + Modulus * k
    <3>1. U(w) \in Int
      BY <1>1, UnsignedOf
    <3> QED
      BY <1>1, <1>2, <2>2, <3>1 DEF k
  <2>4. /\ ModConst(w, 2 ^ bits) = w % 2 ^ bits /\ w % 2 ^ bits \in Word
        /\ U(w % 2 ^ bits) = w % 2 ^ bits /\ (U(w) + Modulus * k) % 2 ^ bits = w % 2 ^ bits
    BY <1>1, <2>1, <2>3, NarrowRest
  <2>5. Unsigned(<<w % 2 ^ bits>>) = w % 2 ^ bits
    BY <2>4, ZeroAbove
  <2> QED
    BY <1>4, <2>1, <2>3, <2>4, <2>5 DEF Lefts, w, t
<1>6. CASE bits = Bits
  <2>1. ~ (bits < Bits)
    BY <1>2, <1>6
  <2> QED
    BY <1>1, <1>2, <1>4, <1>6, <2>1 DEF Lefts, w, t
<1> QED
  BY <1>5, <1>6

(* A multiplication by 2^s keeps every bit of a narrow type that its       *)
(* assertion finds inside it: a product of at most 31 bits does not wrap.  *)
LEMMA ShlConstIs ==
  ASSUME Powers, NEW bits \in {ByteBits, 2 * ByteBits, Bits}, NEW s \in 0 .. bits - 1,
         NEW a \in Word, bits = Bits \/ a \in 0 .. 2 ^ bits - 1,
         One(s) \in Initialised,
         bits < Bits => TimesConst(a, One(s)) <= 2 ^ bits - 1
  PROVE  Lefts(bits, <<a>>, s, <<TimesConst(a, One(s))>>)
<1> DEFINE w == TimesConst(a, One(s))
           p == 2 ^ s
<1>1. /\ ByteBits \in Nat \ {0} /\ Bits = 4 * ByteBits /\ Bits \in Nat
      /\ Modulus \in Nat \ {0} /\ 2 ^ Bits = Modulus /\ Modulus = 2 * HighBit
      /\ HighBit \in Nat \ {0} /\ HighBit = 2 ^ (Bits - 1)
  BY WordSizes, ByteSize, BytePlace
<1>2. s \in 0 .. Bits - 1 /\ s \in Nat
  BY <1>1
<1>3. One(s) = p /\ p \in Nat \ {0}
  BY <1>1, <1>2, OneIs
<1>4. a \in Int /\ U(a) \in Int
  BY UnsignedOf
<1>5. w = Wrap(a * p)
  <2>1. TimesConst(a, One(s)) = Times(a, One(s))
    BY <1>4, ConstantIs
  <2> QED
    BY <1>3, <2>1 DEF Times
<1>6. Unsigned(<<a>>) = U(a)
  BY ZeroAbove
<1>7. CASE bits = Bits
  <2>1. w = Shl(a, s) /\ w \in Word
    BY <1>2, <1>5, ShlIs
  <2> HIDE DEF w
  <2>2. U(w) = (U(a) * p) % Modulus
    BY <1>2, <2>1, ShlWord
  <2>3. Unsigned(<<w>>) = U(w)
    BY <2>1, ZeroAbove
  <2> QED
    BY <1>1, <1>6, <1>7, <2>2, <2>3 DEF Lefts, w
<1>8. CASE bits < Bits
  <2> DEFINE m == 2 ^ bits
             h == 2 ^ (bits - 1)
             t == a * p
  <2>1. bits \in Nat \ {0} /\ bits - 1 \in Nat /\ (bits - 1) + 1 = bits /\ 2 * bits <= Bits
    BY <1>1, <1>8
  <2>2. m \in Nat \ {0} /\ h \in Nat \ {0} /\ m = 2 * h
    <3> DEFINE k == bits - 1
    <3>1. k \in Nat /\ k + 1 = bits
      BY <2>1
    <3> HIDE DEF k
    <3>2. 2 ^ k \in Nat \ {0} /\ 2 ^ (k + 1) = 2 * 2 ^ k
      BY <3>1 DEF Powers
    <3> QED
      BY <3>1, <3>2 DEF k
  <2>3. p <= h
    <3>1. s <= bits - 1 /\ s \in Nat
      BY <1>2, <2>1
    <3>2. PICK g \in Nat \ {0} : 2 ^ (bits - 1) = g * 2 ^ s
      BY <2>1, <3>1, PowerAbove
    <3>3. g * p >= p
      BY <1>3
    <3> QED
      BY <3>2, <3>3
  <2>4. m * h <= HighBit
    <3>1. PICK two \in Nat \ {0} : two = 2
      OBVIOUS
    <3>2. two ^ (bits + (bits - 1)) = two ^ bits * two ^ (bits - 1)
      BY <2>1, <3>1, PowerSum
    <3>3. bits + (bits - 1) \in Nat /\ Bits - 1 \in Nat /\ bits + (bits - 1) <= Bits - 1
      BY <1>1, <2>1
    <3> DEFINE e == bits + (bits - 1)
               f == Bits - 1
    <3> HIDE DEF e, f
    <3>4. \E g \in Nat \ {0} : 2 ^ f = g * 2 ^ e
      BY <3>3, PowerAbove DEF e, f
    <3>5. PICK g \in Nat \ {0} : HighBit = g * 2 ^ e
      BY <1>1, <3>4 DEF f
    <3>6. 2 ^ e = m * h
      BY <3>1, <3>2 DEF e
    <3>7. 2 ^ e \in Nat
      BY <3>3 DEF Powers, e
    <3>8. g * 2 ^ e >= 2 ^ e
      BY <3>7
    <3> QED
      BY <3>5, <3>6, <3>8
  <2>5. a \in 0 .. m - 1
    BY <1>8, <1>1
  <2> HIDE DEF m, h
  <2>6. t \in 0 .. HighBit - 1
    <3> HIDE DEF p
    <3>1. ASSUME NEW x \in 0 .. m - 1 PROVE x * p <= (m - 1) * h /\ 0 <= x * p
      <4>1. x * p <= x * h /\ 0 <= x * p
        BY <1>3, <2>2, <2>3, Z3
      <4>2. x * h <= (m - 1) * h
        BY <2>2, Z3
      <4> QED
        BY <1>3, <2>2, <4>1, <4>2
    <3>2. (m - 1) * h = m * h - h
      BY <2>2, Z3
    <3>3. m * h \in Int /\ (m - 1) * h \in Int /\ t \in Int
      BY <1>3, <1>4, <2>2
    <3> QED
      BY <1>1, <2>2, <2>4, <2>5, <3>1, <3>2, <3>3
  <2>7. t \in Word /\ t \in Int /\ t >= 0
    BY <1>1, <2>6 DEF Word
  <2> HIDE DEF t
  <2>8. w = t
    BY <1>5, <2>7, WrapFacts DEF t
  <2>9. t \in 0 .. m - 1
    <3>1. t <= m - 1
      BY <1>8, <2>8 DEF m
    <3> QED
      BY <2>2, <2>7, <3>1
  <2>10. U(t) = t /\ U(a) = a
    <3>1. a \in Int /\ a >= 0
      BY <2>5
    <3> QED
      BY <1>1, <2>7, <3>1, UnsignedWord
  <2>11. t % m = t
    BY <2>2, <2>9, ModSmall
  <2>12. Unsigned(<<t>>) = t
    BY <2>7, <2>10, ZeroAbove
  <2> QED
    BY <1>6, <2>8, <2>10, <2>11, <2>12 DEF Lefts, m, t
<1> QED
  BY <1>1, <1>7, <1>8

(* Of any holder, the bits of the type are those of the product.           *)
LEMMA ShlConstLow ==
  ASSUME Powers, NEW bits \in Narrow, NEW s \in 0 .. bits - 1, NEW a \in Word,
         One(s) \in Initialised
  PROVE  TimesConst(a, One(s)) % 2 ^ bits = (Unsigned(<<a>>) * 2 ^ s) % 2 ^ bits
<1> DEFINE w == Shl(a, s)
           r == w % 2 ^ bits
<1>1. bits \in 0 .. Bits - 2 /\ bits < Bits /\ One(bits) = 2 ^ bits /\ bits \in Nat /\ s \in Nat
  BY NarrowAre, WordSizes
<1>2. TimesConst(a, One(s)) = w
  <2>1. s \in 0 .. Bits - 1 /\ a \in Int
    BY <1>1, UnsignedOf, WordSizes
  <2>2. One(s) = 2 ^ s
    <3>1. s < Bits - 1
      BY <1>1, WordSizes
    <3> QED
      BY <2>1, <3>1, OneIs
  <2>3. TimesConst(a, One(s)) = Times(a, One(s))
    BY <2>1, ConstantIs
  <2>4. w = Wrap(a * 2 ^ s)
    BY <1>1, ShlIs
  <2> QED
    BY <2>2, <2>3, <2>4 DEF Times
<1>3. w \in Word
  BY <1>1, ShlWord
<1>4. Lefts(bits, <<a>>, s, <<ModConst(w, One(bits))>>)
  BY <1>1, ShlVariableIs
<1> HIDE DEF w
<1>5. ModConst(w, 2 ^ bits) = r /\ r \in Word /\ U(r) = r
  <2>1. PICK z \in Int : z = 0
    OBVIOUS
  <2> QED
    BY <1>1, <1>3, <2>1, NarrowRest
<1>6. Unsigned(<<r>>) = r
  BY <1>5, ZeroAbove
<1> QED
  BY <1>1, <1>2, <1>4, <1>5, <1>6 DEF Lefts

(* The sum of what is shifted in and what is shifted over.                 *)
LEMMA LeftDoubleIs ==
  ASSUME Powers, NEW lo \in Word, NEW hi \in Word, NEW s \in 0 .. Bits,
         NEW l \in Word, NEW x \in Word, NEW y \in Word,
         Congruent(l, U(lo) * 2 ^ s, Modulus),
         Congruent(x, U(hi) * 2 ^ s, Modulus),
         Congruent(y, U(lo) \div 2 ^ (Bits - s), Modulus)
  PROVE  Lefts(2 * Bits, <<lo, hi>>, s, <<l, Add(x, y)>>)
<1> DEFINE u == U(hi) * 2 ^ s
           v == U(lo) \div 2 ^ (Bits - s)
           h == Add(x, y)
<1>1. x \in Int /\ y \in Int /\ u \in Int /\ v \in Int
  <2>1. x \in Int /\ y \in Int /\ U(lo) \in Int /\ U(hi) \in Int
    BY UnsignedOf
  <2>2. 2 ^ s \in Nat \ {0} /\ v \in Int
    BY <2>1, MovedOut
  <2> QED
    BY <2>1, <2>2
<1> HIDE DEF u, v
<1>2. h \in Word /\ Congruent(h, u + v, Modulus)
  BY <1>1, OperationsCongruent DEF u, v
<1> HIDE DEF h
<1>3. Unsigned(<<l, h>>) = (Unsigned(<<lo, hi>>) * 2 ^ s) % (Modulus * Modulus)
  BY <1>2, LeftDouble DEF u, v
<1>4. 2 ^ (2 * Bits) = Modulus * Modulus
  <2>1. Bits * 2 = 2 * Bits
    BY WordSizes
  <2> QED
    BY <2>1, WordSizes
<1> QED
  BY <1>3, <1>4 DEF Lefts, h

LEMMA Shl64Is ==
  ASSUME Powers, NEW lo \in Word, NEW hi \in Word, NEW s \in 0 .. Bits
  PROVE  Lefts(2 * Bits, <<lo, hi>>, s, Shl64(lo, hi, s))
<1>1. s \in Nat /\ Bits - s \in 0 .. Bits
  BY WordSizes
<1> DEFINE l == Shl(lo, s)
           x == Shl(hi, s)
           y == Lshr(lo, Bits - s)
<1>2. /\ l \in Word /\ Congruent(l, U(lo) * 2 ^ s, Modulus)
      /\ x \in Word /\ Congruent(x, U(hi) * 2 ^ s, Modulus)
  BY <1>1, ShlWord
<1>3. y \in Word /\ Congruent(y, U(lo) \div 2 ^ (Bits - s), Modulus)
  <2>1. y \in Word /\ U(y) = U(lo) \div 2 ^ (Bits - s)
    BY <1>1, LshrWord
  <2> HIDE DEF y
  <2>2. Congruent(y, U(y), Modulus)
    BY <2>1, UnsignedOf
  <2> QED
    BY <2>1, <2>2
<1> HIDE DEF l, x, y
<1>4. Lefts(2 * Bits, <<lo, hi>>, s, <<l, Add(x, y)>>)
  BY <1>2, <1>3, LeftDoubleIs
<1> QED
  BY <1>4 DEF Shl64, l, x, y

LEMMA TimesOne ==
  ASSUME Powers, NEW a \in Word, NEW s \in 0 .. Bits - 1
  PROVE  Times(a, One(s)) \in Word /\ Congruent(Times(a, One(s)), U(a) * 2 ^ s, Modulus)
<1> DEFINE c == One(s)
           p == 2 ^ s
           v == U(a)
<1>1. c \in Int /\ p \in Int /\ Congruent(c, p, Modulus)
  BY OneIs
<1>2. a \in Int /\ v \in Int /\ Congruent(a, v, Modulus)
  BY UnsignedOf
<1> HIDE DEF c, p, v
<1>3. Times(a, c) \in Word /\ Congruent(Times(a, c), v * p, Modulus)
  BY <1>1, <1>2, OperationsCongruent
<1> QED
  BY <1>3 DEF c, p, v

LEMMA ShlNearIs ==
  ASSUME Powers, NEW lo \in Word, NEW hi \in Word, NEW s \in 1 .. Bits - 1, lo >= 0
  PROVE  Lefts(2 * Bits, <<lo, hi>>, s,
               <<Times(lo, One(s)), Add(Times(hi, One(s)), Over(lo, One(Bits - s)))>>)
<1>1. /\ s \in 0 .. Bits /\ s \in 0 .. Bits - 1 /\ Bits - s \in 0 .. Bits - 1
      /\ HighBit \in Nat \ {0} /\ lo \in Int
  BY WordSizes, UnsignedOf
<1>2. lo \in 0 .. HighBit - 1 /\ U(lo) = lo
  BY <1>1, UnsignedWord DEF Word
<1> DEFINE l == Times(lo, One(s))
           x == Times(hi, One(s))
           y == Over(lo, One(Bits - s))
<1>3. /\ l \in Word /\ Congruent(l, U(lo) * 2 ^ s, Modulus)
      /\ x \in Word /\ Congruent(x, U(hi) * 2 ^ s, Modulus)
  BY <1>1, TimesOne
<1>4. y \in Word /\ Congruent(y, U(lo) \div 2 ^ (Bits - s), Modulus)
  <2> DEFINE k == Bits - s
             p == 2 ^ k
  <2>1. y = lo \div p
    <3>1. k \in 0 .. Bits - 1
      BY <1>1
    <3> HIDE DEF k
    <3>2. Over(lo, Power(k)) = lo \div 2 ^ k
      BY <1>2, <3>1, OverPower
    <3> QED
      BY <3>2 DEF One, k
  <2>2. p \in Nat \ {0}
    BY <1>1, OneIs
  <2> HIDE DEF p, y
  <2>3. lo \div p \in 0 .. lo /\ lo \in Nat
    BY <1>2, <2>2, QuotientSize
  <2>4. y \in Word /\ y \in Int
    BY <1>1, <1>2, <2>1, <2>3 DEF Word
  <2>5. Congruent(y, y, Modulus)
    BY <2>4, WordSizes, RestIsCongruent
  <2> QED
    BY <1>2, <2>1, <2>4, <2>5 DEF p
<1> HIDE DEF l, x, y
<1>5. Lefts(2 * Bits, <<lo, hi>>, s, <<l, Add(x, y)>>)
  BY <1>1, <1>3, <1>4, LeftDoubleIs
<1> QED
  BY <1>5 DEF l, x, y

LEMMA PowerAboveWord ==
  ASSUME Powers, NEW k \in Nat
  PROVE  2 ^ k \in Nat \ {0} /\ 2 ^ (Bits + k) = Modulus * 2 ^ k
<1>1. PICK two \in Nat \ {0} : two = 2
  OBVIOUS
<1>2. Bits \in Nat
  BY WordSizes
<1>3. two ^ (Bits + k) = two ^ Bits * two ^ k /\ two ^ k \in Nat \ {0}
  BY <1>2, PowerSum
<1> QED
  BY <1>1, <1>3, WordSizes

LEMMA ShlFarIs ==
  ASSUME Powers, NEW lo \in Word, NEW hi \in Word, NEW s \in Bits .. 2 * Bits - 1
  PROVE  Lefts(2 * Bits, <<lo, hi>>, s, <<0, Times(lo, One(s - Bits))>>)
<1> DEFINE k == s - Bits
           p == 2 ^ k
           w == Times(lo, One(k))
           x == U(lo)
           y == U(hi)
           m == Modulus
           h == x * p
           n == (x + m * y) * 2 ^ s
<1>1. /\ Bits \in Nat /\ k \in 0 .. Bits - 1 /\ k \in Nat /\ Bits + k = s
      /\ x \in Int /\ y \in Int /\ m \in Nat \ {0} /\ 2 ^ (Bits * 2) = m * m /\ Bits * 2 = 2 * Bits
  BY WordSizes, UnsignedOf
<1>2. p \in Nat \ {0} /\ 2 ^ s = m * p
  <2> HIDE DEF k
  <2>1. 2 ^ k \in Nat \ {0} /\ 2 ^ (Bits + k) = Modulus * 2 ^ k
    BY <1>1, PowerAboveWord
  <2> QED
    BY <1>1, <2>1
<1>3. w \in Word /\ Congruent(w, h, Modulus)
  <2> HIDE DEF k
  <2> QED
    BY <1>1, TimesOne
<1>4. 0 \in Word /\ U(0) = 0 /\ Unsigned(<<lo, hi>>) = x + m * y
  BY WordsNearZero, UnsignedDouble
<1> HIDE DEF k, p, w, x, y, m
<1>5. h \in Int /\ n \in Int /\ n = m * h + (y * p) * (m * m) /\ y * p \in Int
  <2>1. (x + m * y) * (m * p) = m * (x * p) + (y * p) * (m * m)
    BY <1>1, <1>2, Z3
  <2>2. (x + m * y) * (m * p) \in Int
    BY <1>1, <1>2
  <2> QED
    BY <1>1, <1>2, <2>1, <2>2
<1>6. Congruent(U(0) + m * h, n, m * m)
  <2> DEFINE d == m * m
             v == m * h
             e == y * p
  <2>1. v \in Int /\ n = v + e * d /\ e \in Int /\ d \in Nat \ {0} /\ n \in Int
    BY <1>1, <1>5
  <2> HIDE DEF d, v, e, n
  <2>2. Congruent(n, v, d)
    BY <2>1 DEF Congruent
  <2>3. Congruent(v, n, d)
    BY <2>1, <2>2, CongruentBack
  <2>4. U(0) + v = v
    BY <1>4, <2>1
  <2> QED
    BY <2>3, <2>4 DEF d, v
<1> HIDE DEF h, n
<1> DEFINE z == 0
<1>7. z \in Word /\ Congruent(U(z) + m * h, n, m * m)
  BY <1>4, <1>6
<1> HIDE DEF z
<1>8. Unsigned(<<z, w>>) = n % (Modulus * Modulus)
  BY <1>3, <1>5, <1>7, DoubleIs DEF m
<1> QED
  BY <1>1, <1>4, <1>8 DEF Lefts, z, w, k, n, m

-----------------------------------------------------------------------------
(* An i48, and shifts to the right.                                        *)
LEMMA Width48 ==
  ASSUME Powers
  PROVE  /\ 2 ^ (6 * ByteBits) = Modulus * Half
         /\ \A n \in 1 .. 3 : /\ n * ByteBits \in Nat /\ 2 ^ (n * ByteBits) = Byte ^ n
                              /\ Byte ^ n \in Nat \ {0} /\ Byte ^ (4 - n) \in Nat \ {0}
                              /\ Byte ^ n * Byte ^ (4 - n) = Modulus
<1>1. 2 ^ (6 * ByteBits) = Modulus * Half
  <2>1. ByteBits \in Nat /\ Bits = 4 * ByteBits /\ 2 ^ (2 * ByteBits) = Half
    BY ByteSize, BytePlace
  <2>2. 2 * ByteBits \in Nat /\ Bits + 2 * ByteBits = 6 * ByteBits
    BY <2>1
  <2>3. 2 ^ (Bits + 2 * ByteBits) = Modulus * 2 ^ (2 * ByteBits)
    BY <2>2, PowerAboveWord
  <2> QED
    BY <2>1, <2>2, <2>3
<1>2. ASSUME NEW n \in 1 .. 3
      PROVE  /\ n * ByteBits \in Nat /\ 2 ^ (n * ByteBits) = Byte ^ n
             /\ Byte ^ n \in Nat \ {0} /\ Byte ^ (4 - n) \in Nat \ {0}
             /\ Byte ^ n * Byte ^ (4 - n) = Modulus
  <2>1. n \in 0 .. 3 /\ n \in Nat /\ 4 - n \in Nat /\ n + (4 - n) = 4
    OBVIOUS
  <2>2. Byte \in Nat \ {0} /\ Byte ^ 3 = Byte * Byte * Byte /\ Modulus = Byte * Byte * Byte * Byte
    BY ByteSize, BytePlace
  <2>3. Byte ^ 4 = Modulus
    <3>1. PICK b \in Nat \ {0} : b = Byte
      BY <2>2
    <3>2. b ^ (3 + 1) = b * b ^ 3
      BY DEF Powers
    <3> QED
      BY <2>2, <3>1, <3>2
  <2>4. /\ Byte ^ (n + (4 - n)) = Byte ^ n * Byte ^ (4 - n)
        /\ Byte ^ n \in Nat \ {0} /\ Byte ^ (4 - n) \in Nat \ {0}
    <3> DEFINE k == 4 - n
    <3>1. k \in Nat /\ n \in Nat
      BY <2>1
    <3> HIDE DEF k
    <3>2. /\ Byte ^ (n + k) = Byte ^ n * Byte ^ k
          /\ Byte ^ n \in Nat \ {0} /\ Byte ^ k \in Nat \ {0}
      BY <2>2, <3>1, PowerSum
    <3> QED
      BY <3>2 DEF k
  <2>5. n * ByteBits \in Nat /\ 2 ^ (n * ByteBits) = Byte ^ n
    BY <2>1, ByteUnits
  <2> QED
    BY <2>1, <2>3, <2>4, <2>5
<1> QED
  BY <1>1, <1>2

LEMMA NotNegative ==
  ASSUME Powers, NEW w \in Word, w >= 0
  PROVE  U(w) = w
BY UnsignedWord, WordSizes

(* An i48, by whole bytes, that does not leave its low word.               *)
LEMMA Shl48Is ==
  ASSUME Powers, NEW lo \in Word, NEW n \in 1 .. 4,
         lo \in 0 .. (IF n = 4 THEN Byte ELSE Byte ^ (4 - n)) - 1
  PROVE  Lefts(6 * ByteBits, <<lo, 0>>, n * ByteBits,
               IF n = 4 THEN <<0, lo>> ELSE <<Times(lo, Byte ^ n), 0>>)
<1> DEFINE m == Modulus
<1>1. /\ 2 ^ (6 * ByteBits) = m * Half /\ m \in Nat \ {0} /\ Half \in Nat \ {0}
      /\ Byte \in Nat \ {0} /\ Byte <= Half /\ HighBit \in Nat /\ 0 \in Word /\ U(0) = 0
      /\ Bits = 4 * ByteBits /\ 2 ^ Bits = m /\ lo \in Int
  BY Width48, WordSizes, ByteSize, WordsNearZero, UnsignedOf
<1> HIDE DEF m
<1>2. ASSUME NEW t \in Int, 0 <= t, t < m * Half PROVE t % (m * Half) = t
  <2> DEFINE d == m * Half
  <2>1. d \in Nat \ {0} /\ t \in 0 .. d - 1
    BY <1>1, <1>2
  <2> HIDE DEF d
  <2>2. t % d = t
    BY <2>1, ModSmall
  <2> QED
    BY <2>2 DEF d
<1>3. lo >= 0
  OBVIOUS
<1>4. U(lo) = lo /\ Unsigned(<<lo, 0>>) = lo
  <2>1. U(lo) = lo
    BY <1>3, NotNegative
  <2>2. Unsigned(<<lo, 0>>) = U(lo)
    BY ZeroAbove
  <2> QED
    BY <2>1, <2>2
<1>5. CASE n = 4
  <2>1. lo < Half
    BY <1>1, <1>5
  <2>2. Unsigned(<<0, lo>>) = 0 + m * lo
    BY <1>1, <1>4, UnsignedDouble DEF m
  <2>3. lo * m \in Int /\ 0 <= lo * m /\ lo * m < m * Half
    <3>1. (Half - lo) * m > 0 /\ 0 <= lo * m
      BY <1>1, <1>3, <2>1, Z3
    <3>2. (Half - lo) * m = m * Half - lo * m
      BY <1>1, Z3
    <3>3. lo * m \in Int /\ m * Half \in Int
      BY <1>1
    <3> QED
      BY <3>1, <3>2, <3>3
  <2>4. (lo * m) % (m * Half) = lo * m
    BY <1>2, <2>3
  <2>5. 2 ^ (n * ByteBits) = m /\ m * lo = lo * m /\ 0 + m * lo = m * lo
    BY <1>1, <1>5
  <2> QED
    BY <1>1, <1>4, <1>5, <2>2, <2>4, <2>5 DEF Lefts
<1>6. CASE n \in 1 .. 3
  <2> DEFINE p == Byte ^ n
             q == Byte ^ (4 - n)
             t == lo * p
  <2>1. p \in Nat \ {0} /\ q \in Nat \ {0} /\ p * q = m /\ 2 ^ (n * ByteBits) = p
    BY <1>6, Width48 DEF m
  <2>2. lo < q
    BY <1>6, <2>1
  <2> HIDE DEF p, q
  <2>3. t \in Int /\ 0 <= t /\ t < m
    <3>1. (q - lo) * p > 0 /\ 0 <= lo * p
      BY <1>1, <1>3, <2>1, <2>2, Z3
    <3>2. (q - lo) * p = p * q - lo * p
      BY <1>1, <2>1, Z3
    <3>3. lo * p \in Int /\ p * q \in Int
      BY <1>1, <2>1
    <3> QED
      BY <2>1, <3>1, <3>2, <3>3
  <2> HIDE DEF t
  <2>4. Wrap(t) \in Word /\ U(Wrap(t)) = t
    <3>1. t \in 0 .. m - 1
      BY <1>1, <2>3
    <3>2. t % m = t
      BY <1>1, <3>1, ModSmall
    <3> QED
      BY <2>3, <3>2, WrapCongruent DEF m
  <2>5. Unsigned(<<Wrap(t), 0>>) = t
    BY <2>4, ZeroAbove
  <2>6. t < m * Half
    <3>1. m <= m * Half
      BY <1>1, Z3
    <3>2. m * Half \in Int
      BY <1>1
    <3> QED
      BY <1>1, <2>3, <3>1, <3>2
  <2>7. t % (m * Half) = t
    BY <1>2, <2>3, <2>6
  <2>8. n # 4
    BY <1>6
  <2> QED
    BY <1>1, <1>4, <2>1, <2>5, <2>7, <2>8 DEF Lefts, Times, p, t
<1> QED
  BY <1>5, <1>6

-----------------------------------------------------------------------------
(* To the right.                                                           *)
Rights(a, s, d) == Unsigned(d) = Unsigned(a) \div 2 ^ s

LEMMA LshrIsRight ==
  ASSUME Powers, NEW a \in Word, NEW s \in 0 .. Bits
  PROVE  Rights(<<a>>, s, <<Lshr(a, s)>>)
<1> DEFINE w == Lshr(a, s)
<1>1. w \in Word /\ U(w) = U(a) \div 2 ^ s
  BY LshrWord
<1> HIDE DEF w
<1>2. Unsigned(<<w>>) = U(w) /\ Unsigned(<<a>>) = U(a)
  BY <1>1, ZeroAbove
<1> QED
  BY <1>1, <1>2 DEF Rights, w

(* What comes down from the high word, by a word that is as many times     *)
(* the high word as there are numbers of the bits that are left.           *)
LEMMA LowerWord ==
  ASSUME Powers, NEW lo \in Word, NEW hi \in Word, NEW s \in 0 .. Bits,
         NEW x \in Word, Congruent(x, U(hi) * 2 ^ (Bits - s), Modulus)
  PROVE  /\ Add(Lshr(lo, s), x) \in Word
         /\ U(Add(Lshr(lo, s), x)) = (Unsigned(<<lo, hi>>) \div 2 ^ s) % Modulus
         /\ \A h \in Word : U(h) = U(hi) \div 2 ^ s =>
              Rights(<<lo, hi>>, s, <<Add(Lshr(lo, s), x), h>>)
<1> DEFINE y == Lshr(lo, s)
           u == U(lo) \div 2 ^ s
           v == U(hi) * 2 ^ (Bits - s)
           l == Add(y, x)
<1>1. y \in Word /\ U(y) = u /\ u \in Int
  BY LshrWord
<1>2. v \in Int
  <2>1. U(hi) \in Int
    BY UnsignedOf
  <2>2. 2 ^ (Bits - s) \in Nat \ {0}
    BY <2>1, MovedOut
  <2> QED
    BY <2>1, <2>2
<1> HIDE DEF y, u, v
<1>3. y \in Int /\ x \in Int /\ Congruent(y, u, Modulus) /\ Congruent(x, v, Modulus)
  BY <1>1, UnsignedOf DEF v
<1>4. l \in Word /\ Congruent(l, u + v, Modulus)
  BY <1>1, <1>2, <1>3, OperationsCongruent
<1> HIDE DEF l
<1>5. /\ U(l) = (Unsigned(<<lo, hi>>) \div 2 ^ s) % Modulus
      /\ \A h \in Word : U(h) = U(hi) \div 2 ^ s =>
           Unsigned(<<l, h>>) = Unsigned(<<lo, hi>>) \div 2 ^ s
  BY <1>4, RightDouble DEF u, v
<1> QED
  BY <1>4, <1>5 DEF Rights, l, y

LEMMA Lshr64Is ==
  ASSUME Powers, NEW lo \in Word, NEW hi \in Word, NEW s \in 0 .. Bits
  PROVE  Rights(<<lo, hi>>, s, Lshr64(lo, hi, s))
<1> DEFINE x == Shl(hi, Bits - s)
           h == Lshr(hi, s)
<1>1. Bits - s \in Nat
  BY WordSizes
<1>2. x \in Word /\ Congruent(x, U(hi) * 2 ^ (Bits - s), Modulus)
  BY <1>1, ShlWord
<1>3. h \in Word /\ U(h) = U(hi) \div 2 ^ s
  BY LshrWord
<1> HIDE DEF x, h
<1>4. Rights(<<lo, hi>>, s, <<Add(Lshr(lo, s), x), h>>)
  BY <1>2, <1>3, LowerWord
<1> QED
  BY <1>4 DEF Lshr64, x, h

(* lshr_64_bit_const, by the constants 1 << s and 1 << (32 - s).           *)
LEMMA LshrNearIs ==
  ASSUME Powers, NEW lo \in Word, NEW hi \in Word, NEW s \in 1 .. Bits - 1,
         One(s) \in Initialised, One(Bits - s) \in Initialised
  PROVE  Rights(<<lo, hi>>, s,
                <<Add(Lshr(lo, s), TimesConst(ModConst(hi, One(s)), One(Bits - s))),
                  Lshr(hi, s)>>)
<1> DEFINE p == 2 ^ s
           g == 2 ^ (Bits - s)
           q == hi \div p
           r == hi % p
           x == TimesConst(ModConst(hi, One(s)), One(Bits - s))
           h == Lshr(hi, s)
<1>1. s \in 0 .. Bits - 1 /\ Bits - s \in 0 .. Bits - 1 /\ s \in 0 .. Bits
  BY WordSizes
<1>2. /\ One(s) = p /\ p \in Nat \ {0} /\ Modulus = g * p
      /\ One(Bits - s) = g /\ g \in Nat \ {0}
  BY <1>1, OneIs
<1>3. hi \in Int /\ U(hi) \in Int /\ Congruent(hi, U(hi), Modulus) /\ Modulus \in Nat \ {0}
  BY UnsignedOf, WordSizes
<1>4. p \in Initialised /\ g \in Initialised
  BY <1>2
<1> HIDE DEF p, g
<1>5. q \in Int /\ r \in Int /\ hi = q * p + r
  <2>1. hi \in Int /\ p \in Nat \ {0}
    BY <1>2, <1>3
  <2>2. hi \div p \in Int /\ (hi % p) \in 0 .. p - 1 /\ hi = (hi \div p) * p + (hi % p)
    BY <2>1, DivIs
  <2> QED
    BY <2>1, <2>2
<1>6. x = Wrap(r * g)
  <2>1. ModConst(hi, p) = r
    BY <1>3, <1>4, ConstantIs
  <2> HIDE DEF r
  <2>2. TimesConst(r, g) = Times(r, g)
    BY <1>4, <1>5, ConstantIs
  <2> QED
    BY <1>2, <2>1, <2>2 DEF Times
<1> HIDE DEF q, r, x
<1>7. Congruent(r * g, U(hi) * g, Modulus)
  <2> DEFINE t == r * g
             u == hi * g
             v == U(hi) * g
  <2>1. t \in Int /\ u \in Int /\ v \in Int
    BY <1>2, <1>3, <1>5
  <2>2. t = u + (-q) * Modulus /\ -q \in Int
    <3>1. (q * p + r) * g = q * (g * p) + r * g
      BY <1>2, <1>5, Z3
    <3>2. (-q) * Modulus = -(q * Modulus) /\ q * Modulus \in Int
      BY <1>3, <1>5
    <3> QED
      BY <1>2, <1>3, <1>5, <2>1, <3>1, <3>2
  <2>3. Congruent(g, g, Modulus)
    BY <1>2, <1>3, RestIsCongruent
  <2>4. Congruent(u, v, Modulus)
    BY <1>2, <1>3, <2>3, CongruentSums
  <2> HIDE DEF t, u, v
  <2>5. Congruent(t, u, Modulus)
    BY <2>2 DEF Congruent
  <2>6. Congruent(t, v, Modulus)
    BY <1>3, <2>1, <2>4, <2>5, CongruentOn
  <2> QED
    BY <2>6 DEF t, v
<1>8. x \in Word /\ Congruent(x, U(hi) * g, Modulus)
  <2> DEFINE t == r * g
             v == U(hi) * g
  <2>1. t \in Int /\ v \in Int /\ Congruent(t, v, Modulus) /\ x = Wrap(t)
    BY <1>2, <1>3, <1>5, <1>6, <1>7
  <2> HIDE DEF t, v
  <2>2. x \in Word /\ x \in Int /\ Congruent(x, t, Modulus)
    BY <2>1, WrapCongruent
  <2>3. Congruent(x, v, Modulus)
    BY <1>3, <2>1, <2>2, CongruentOn
  <2> QED
    BY <2>2, <2>3 DEF v
<1>9. h \in Word /\ U(h) = U(hi) \div 2 ^ s
  BY <1>1, LshrWord
<1> HIDE DEF h
<1>10. Rights(<<lo, hi>>, s, <<Add(Lshr(lo, s), x), h>>)
  BY <1>1, <1>8, <1>9, LowerWord DEF g
<1> QED
  BY <1>10 DEF x, h

LEMMA LshrFarIs ==
  ASSUME Powers, NEW lo \in Word, NEW hi \in Word, NEW s \in Bits .. 2 * Bits - 1
  PROVE  Rights(<<lo, hi>>, s, <<IF s > Bits THEN Lshr(hi, s - Bits) ELSE hi, 0>>)
<1> DEFINE k == s - Bits
           w == Lshr(hi, k)
           x == U(lo)
           y == U(hi)
           p == 2 ^ k
           m == Modulus
           v == x + m * y
<1>1. k \in 0 .. Bits /\ k \in Nat /\ Bits + k = s /\ Bits \in Nat
  BY WordSizes
<1>2. w = IF s > Bits THEN Lshr(hi, s - Bits) ELSE hi
  <2>1. CASE k = 0
    BY <1>1, <2>1, LshrWord
  <2>2. CASE k # 0
    BY <1>1, <2>2
  <2> QED
    BY <2>1, <2>2
<1>3. w \in Word /\ U(w) = y \div p
  <2> HIDE DEF k
  <2> QED
    BY <1>1, LshrWord
<1>4. p \in Nat \ {0} /\ 2 ^ s = m * p
  <2> HIDE DEF k
  <2>1. 2 ^ k \in Nat \ {0} /\ 2 ^ (Bits + k) = Modulus * 2 ^ k
    BY <1>1, PowerAboveWord
  <2> QED
    BY <1>1, <2>1
<1>5. /\ x \in 0 .. m - 1 /\ x \in Int /\ y \in Int /\ m \in Nat \ {0}
      /\ Unsigned(<<lo, hi>>) = v
  BY UnsignedOf, UnsignedDouble, WordSizes
<1> HIDE DEF w, x, y, p, m
<1>6. v \div m = y /\ v \in Int
  <2>1. v = y * m + x /\ v \in Int
    BY <1>5
  <2> HIDE DEF v
  <2> QED
    BY <1>5, <2>1, DivUnique
<1> HIDE DEF v
<1>7. v \div (m * p) = y \div p
  <2>1. v \div (m * p) = (v \div m) \div p
    BY <1>4, <1>5, <1>6, DivTwice
  <2> QED
    BY <1>6, <2>1
<1>8. Unsigned(<<w, 0>>) = U(w)
  BY <1>3, ZeroAbove
<1>9. Rights(<<lo, hi>>, s, <<w, 0>>)
  BY <1>3, <1>4, <1>5, <1>7, <1>8 DEF Rights
<1> QED
  BY <1>2, <1>9

(* Rounded down, though the division of the interpreter rounds towards 0.  *)
LEMMA AshrIs ==
  ASSUME Powers, NEW a \in Word, NEW s \in 0 .. Bits - 2, a - (2 ^ s - 1) \in Word
  PROVE  Ashr(a, s) = Wrap(a \div 2 ^ s)
<1> DEFINE p == 2 ^ s
           q == a \div p
           r == a % p
<1>1. s \in 0 .. Bits - 1 /\ s < Bits - 1 /\ a \in Int /\ HighBit \in Nat \ {0}
  BY WordSizes, UnsignedOf
<1>2. Power(s) = p /\ p \in Nat \ {0}
  BY <1>1, OneIs DEF One
<1>3. a - (p - 1) \in Word
  OBVIOUS
<1> HIDE DEF p
<1>4. q \in Int /\ r \in 0 .. p - 1 /\ a = q * p + r
  BY <1>1, <1>2, DivIs
<1>5. CASE a >= 0
  <2>1. a \in 0 .. HighBit - 1
    BY <1>1, <1>5 DEF Word
  <2>2. Over(a, p) = a \div p /\ a \div p \in 0 .. a
    BY <1>2, <2>1, OverIs
  <2>3. q \in Word
    BY <1>1, <2>1, <2>2 DEF Word
  <2> HIDE DEF q
  <2>4. Wrap(q) = q
    BY <1>4, <2>3, WrapFacts
  <2>5. ~ (a < 0)
    BY <1>1, <1>5
  <2> QED
    BY <1>2, <2>2, <2>4, <2>5 DEF Ashr, p, q
<1>6. CASE a < 0
  <2> DEFINE b == a - (p - 1)
             e == p - 1 - r
  <2>1. Add(a, -(p - 1)) = b
    <3>1. a + (-(p - 1)) = b /\ b \in Word /\ b \in Int
      BY <1>1, <1>2, <1>3
    <3> QED
      BY <3>1, WrapFacts DEF Add
  <2>2. b < 0 /\ b \in Int /\ e \in 0 .. p - 1 /\ -b = (-q) * p + e /\ -q \in Int
    <3>1. (-q) * p = -(q * p) /\ q * p \in Int
      BY <1>2, <1>4
    <3> HIDE DEF q, r
    <3> QED
      BY <1>1, <1>2, <1>4, <1>6, <3>1
  <2> HIDE DEF b, e, q, r
  <2> DEFINE n == -q
  <2>3. n \in Int /\ -b = n * p + e
    BY <2>2
  <2> HIDE DEF n
  <2>4. (-b) \div p = n
    BY <1>2, <2>2, <2>3, DivUnique
  <2>5. -n = q
    BY <1>4 DEF n
  <2>6. Over(b, p) = Wrap(q)
    <3>1. b < 0 /\ ~ (p < 0)
      BY <1>2, <2>2
    <3>2. Over(b, p) = Wrap(-((-b) \div p))
      BY <3>1 DEF Over
    <3> QED
      BY <2>4, <2>5, <3>2
  <2> QED
    BY <1>2, <1>6, <2>1, <2>6 DEF Ashr, q, p
<1> QED
  BY <1>1, <1>5, <1>6

LEMMA FshrIs ==
  ASSUME Powers, NEW a \in Word, NEW b \in Word, NEW s \in Word
  PROVE  /\ Fshr(a, b, s) \in Word
         /\ U(Fshr(a, b, s)) = (Unsigned(<<b, a>>) \div 2 ^ (s % Bits)) % Modulus
<1> DEFINE t == s % Bits
<1>1. s \in Int /\ Bits \in Nat \ {0} /\ Bits \in Initialised /\ Modulus \in Nat \ {0}
  BY UnsignedOf, WordSizes, LengthAssumption
<1>2. ModConst(s, Bits) = t /\ t \in 0 .. Bits - 1
  BY <1>1, ConstantIs, DivIs
<1> HIDE DEF t
<1>3. CASE t = 0
  <2> DEFINE x == U(b)
             y == U(a)
             v == Unsigned(<<b, a>>)
  <2>1. x \in 0 .. Modulus - 1 /\ x \in Int /\ y \in Int /\ v = x + Modulus * y
    BY UnsignedOf, UnsignedDouble
  <2>2. Fshr(a, b, s) = b
    BY <1>2, <1>3 DEF Fshr
  <2> HIDE DEF x, y, v
  <2>3. v = y * Modulus + x /\ v \in Int
    BY <1>1, <2>1
  <2>4. v % Modulus = x
    BY <1>1, <2>1, <2>3, DivUnique
  <2>5. 2 ^ t = 1 /\ v \div 1 = v
    BY <1>3, <2>3 DEF Powers
  <2> QED
    BY <2>2, <2>4, <2>5 DEF x, v, t
<1>4. CASE t # 0
  <2> DEFINE x == Shl(a, Bits - t)
             y == Lshr(b, t)
  <2>1. Bits - t \in Nat /\ t \in 0 .. Bits
    BY <1>1, <1>2
  <2>2. x \in Word /\ Congruent(x, U(a) * 2 ^ (Bits - t), Modulus)
    BY <2>1, ShlWord
  <2>3. y \in Word
    BY <2>1, LshrWord
  <2>4. Fshr(a, b, s) = Add(x, y)
    BY <1>2, <1>4, Zenon DEF Fshr
  <2> HIDE DEF x, y
  <2>5. Add(x, y) = Add(y, x)
    <3>1. x + y = y + x
      BY <2>2, <2>3, UnsignedOf
    <3> QED
      BY <3>1 DEF Add
  <2>6. /\ Add(Lshr(b, t), x) \in Word
        /\ U(Add(Lshr(b, t), x)) = (Unsigned(<<b, a>>) \div 2 ^ t) % Modulus
    BY <2>1, <2>2, LowerWord
  <2> QED
    BY <2>4, <2>5, <2>6 DEF y, t
<1> QED
  BY <1>3, <1>4

-----------------------------------------------------------------------------
(* intrinsic:llvm_ctlz_i32: the sign bit of a word that is doubled n times *)
(* is the bit n of it from above.                                          *)
LEMMA DoubledSign ==
  ASSUME Powers, NEW a \in Word, a >= 0, NEW n \in 0 .. Bits - 1, a < 2 ^ (Bits - n)
  PROVE  Shl(a, n) >= 0 <=> a < 2 ^ (Bits - n - 1)
<1> DEFINE p == 2 ^ n
           g == 2 ^ (Bits - n - 1)
           h == 2 ^ (Bits - n)
           t == a * p
           w == Wrap(t)
<1>1. /\ n \in Nat /\ n \in 0 .. Bits /\ a \in Int /\ HighBit \in Nat \ {0}
      /\ Modulus = 2 * HighBit /\ Modulus \in Nat \ {0}
  BY WordSizes, UnsignedOf
<1>2. p \in Nat \ {0} /\ h \in Nat \ {0} /\ Modulus = h * p
  BY <1>1, MovedOut
<1>3. g \in Nat \ {0} /\ HighBit = g * p
  <2>1. Bits - 1 - n = Bits - n - 1
    BY WordSizes
  <2> QED
    BY <2>1, HighHalf
<1>4. Shl(a, n) = w
  BY <1>1, ShlIs
<1>5. a < h
  OBVIOUS
<1> HIDE DEF p, g, h
<1>6. t \in Int /\ 0 <= t /\ t < Modulus
  <2>1. (h - a) * p > 0 /\ 0 <= a * p
    BY <1>1, <1>2, <1>5, Z3
  <2>2. (h - a) * p = h * p - a * p /\ h * p \in Int /\ a * p \in Int
    BY <1>1, <1>2, Z3
  <2> QED
    BY <1>2, <2>1, <2>2
<1>7. t < HighBit <=> a < g
  <2>1. a < g => (g - a) * p > 0
    BY <1>1, <1>2, <1>3, Z3
  <2>2. a >= g => (a - g) * p >= 0
    BY <1>1, <1>2, <1>3, Z3
  <2>3. /\ (g - a) * p = g * p - a * p /\ (a - g) * p = a * p - g * p
        /\ g * p \in Int /\ a * p \in Int
    BY <1>1, <1>2, <1>3, Z3
  <2> QED
    BY <1>1, <1>2, <1>3, <2>1, <2>2, <2>3
<1> HIDE DEF t
<1>8. w \in Word /\ U(w) = t
  <2>1. t \in 0 .. Modulus - 1
    BY <1>1, <1>6
  <2>2. t % Modulus = t
    BY <1>1, <2>1, ModSmall
  <2> QED
    BY <1>6, <2>2, WrapCongruent
<1> HIDE DEF w
<1>9. w >= 0 <=> t < HighBit
  <2>1. /\ w >= 0 => t = w
        /\ w < 0 => t = w + 2 * HighBit
    BY <1>1, <1>8, UnsignedWord
  <2>2. w \in Int /\ -HighBit <= w /\ w < HighBit
    BY <1>1, <1>8 DEF Word
  <2> QED
    BY <1>1, <2>1, <2>2
<1> QED
  BY <1>4, <1>7, <1>9 DEF g

Goes(a, n) == n < Bits /\ Shl(a, n) >= 0

(* A loop that ends has a solution.                                        *)
LEMMA LoopEnds ==
  ASSUME Powers, NEW a
  PROVE  \E f : f = [n \in 1 .. Bits |-> IF Goes(a, n) THEN f[n + 1] ELSE n]
<1> DEFINE Ends(n, m) == /\ m \in n .. Bits /\ ~ Goes(a, m)
                         /\ \A j \in n .. m - 1 : Goes(a, j)
           End(n) == CHOOSE m \in Nat : Ends(n, m)
           f == [n \in 1 .. Bits |-> End(n)]
<1>1. Bits \in Nat
  BY WordSizes
<1>2. ASSUME NEW n \in 1 .. Bits PROVE \E m \in Nat : Ends(n, m)
  <2> DEFINE S == {m \in n .. Bits : ~ Goes(a, m)}
  <2>1. S \in SUBSET Nat /\ Bits \in S
    BY <1>1 DEF Goes
  <2>2. PICK m \in S : \A j \in S : m <= j
    <3> HIDE DEF S
    <3> QED
      BY <2>1, LeastNumber
  <2>3. \A j \in n .. m - 1 : Goes(a, j)
    <3> TAKE j \in n .. m - 1
    <3>1. j \in n .. Bits /\ ~ (m <= j)
      BY <1>1
    <3> QED
      BY <2>2, <3>1
  <2> QED
    BY <2>1, <2>3
<1>3. ASSUME NEW n \in 1 .. Bits, NEW m \in Nat, NEW k \in Nat, Ends(n, m), Ends(n, k)
      PROVE  m = k
  <2>1. ~ (m < k)
    <3> SUFFICES ASSUME m < k PROVE FALSE
      OBVIOUS
    <3>1. m \in n .. k - 1
      BY <1>1, <1>3
    <3> QED
      BY <1>3, <3>1
  <2>2. ~ (k < m)
    <3> SUFFICES ASSUME k < m PROVE FALSE
      OBVIOUS
    <3>1. k \in n .. m - 1
      BY <1>1, <1>3
    <3> QED
      BY <1>3, <3>1
  <2> QED
    BY <2>1, <2>2
<1>4. ASSUME NEW n \in 1 .. Bits PROVE End(n) \in Nat /\ Ends(n, End(n))
  <2> HIDE DEF Ends
  <2> QED
    BY <1>2
<1>5. ASSUME NEW n \in 1 .. Bits, NEW m \in Nat, Ends(n, m) PROVE End(n) = m
  <2> HIDE DEF Ends, End
  <2> QED
    BY <1>3, <1>4, <1>5
<1>6. ASSUME NEW n \in 1 .. Bits
      PROVE  f[n] = IF Goes(a, n) THEN f[n + 1] ELSE n
  <2>1. CASE Goes(a, n)
    <3>1. n + 1 \in 1 .. Bits
      BY <1>1, <2>1 DEF Goes
    <3> DEFINE m == End(n + 1)
    <3>2. m \in Nat /\ Ends(n + 1, m)
      BY <1>4, <3>1
    <3> HIDE DEF m
    <3>3. Ends(n, m)
      <4>1. m \in n .. Bits /\ ~ Goes(a, m)
        BY <1>1, <3>2
      <4>2. \A j \in n .. m - 1 : Goes(a, j)
        <5> TAKE j \in n .. m - 1
        <5>1. j = n \/ j \in n + 1 .. m - 1
          BY <1>1
        <5> QED
          BY <2>1, <3>2, <5>1
      <4> QED
        BY <4>1, <4>2
    <3>4. End(n) = m
      <4> HIDE DEF Ends, End
      <4> QED
        BY <1>5, <3>2, <3>3
    <3> HIDE DEF End
    <3> QED
      BY <2>1, <3>1, <3>4 DEF m
  <2>2. CASE ~ Goes(a, n)
    <3>1. Ends(n, n)
      BY <1>1, <2>2
    <3>2. End(n) = n
      <4>1. n \in Nat
        BY <1>1
      <4> HIDE DEF Ends, End
      <4> QED
        BY <1>5, <3>1, <4>1
    <3> HIDE DEF End
    <3> QED
      BY <2>2, <3>2
  <2> QED
    BY <2>1, <2>2
<1>7. f = [n \in 1 .. Bits |-> IF Goes(a, n) THEN f[n + 1] ELSE n]
  <2>1. f = [n \in 1 .. Bits |-> f[n]]
    OBVIOUS
  <2> HIDE DEF f, End
  <2> QED
    BY <1>6, <2>1
<1> QED
  BY <1>7

LEMMA CtlzIs ==
  ASSUME Powers, NEW a \in Word
  PROVE  /\ Ctlz(a) \in 0 .. Bits
         /\ Ctlz(a) > 0 => U(a) < 2 ^ (Bits - Ctlz(a))
         /\ Ctlz(a) < Bits => U(a) >= 2 ^ (Bits - Ctlz(a) - 1)
<1> DEFINE E(f, n) == IF Goes(a, n) THEN f[n + 1] ELSE n
           F == CHOOSE f : f = [n \in 1 .. Bits |-> E(f, n)]
<1>1. /\ Bits \in Nat \ {0} /\ HighBit \in Nat \ {0} /\ HighBit = 2 ^ (Bits - 1)
      /\ a \in Int /\ a < HighBit /\ 2 ^ 0 = 1 /\ -HighBit <= a
  BY WordSizes, BytePlace DEF Word, Powers
<1>2. CASE a < 0
  <2>1. Ctlz(a) = 0
    BY <1>2 DEF Ctlz
  <2>2. U(a) = a + 2 * HighBit
    BY <1>1, <1>2, UnsignedWord
  <2>3. Bits - 0 - 1 = Bits - 1
    BY <1>1
  <2> QED
    BY <1>1, <1>2, <2>1, <2>2, <2>3
<1>3. CASE a >= 0
  <2>1. U(a) = a
    BY <1>3, NotNegative
  <2>2. Ctlz(a) = F[1]
    <3>1. ~ (a < 0)
      BY <1>1, <1>3
    <3> QED
      BY <3>1, Zenon DEF Ctlz, Goes
  <2>3. F = [n \in 1 .. Bits |-> E(F, n)]
    BY LoopEnds, Zenon
  <2> HIDE DEF F
  <2> DEFINE Holds(n) == /\ F[n] \in n .. Bits /\ a < 2 ^ (Bits - F[n])
                         /\ F[n] < Bits => a >= 2 ^ (Bits - F[n] - 1)
             S == {k \in 0 .. Bits - 1 : a < 2 ^ k => Holds(Bits - k)}
  <2>4. ASSUME NEW n \in 1 .. Bits, a < 2 ^ (Bits - n),
               Goes(a, n) => (a < 2 ^ (Bits - n - 1) => Holds(n + 1))
        PROVE  Holds(n)
    <3>1. F[n] = E(F, n)
      <4> HIDE DEF E
      <4> QED
        BY <2>3
    <3>2. CASE Goes(a, n)
      <4>1. n < Bits /\ Shl(a, n) >= 0 /\ n \in 0 .. Bits - 1
        BY <1>1, <3>2 DEF Goes
      <4>2. a < 2 ^ (Bits - n - 1)
        BY <1>3, <2>4, <4>1, DoubledSign
      <4>3. F[n] = F[n + 1]
        BY <3>1, <3>2
      <4>4. Holds(n + 1)
        BY <2>4, <3>2, <4>2
      <4>5. F[n] \in n .. Bits
        BY <1>1, <4>3, <4>4
      <4> QED
        BY <4>3, <4>4, <4>5
    <3>3. CASE ~ Goes(a, n)
      <4>1. F[n] = n
        BY <3>1, <3>3
      <4>2. n < Bits => a >= 2 ^ (Bits - n - 1)
        <5> HAVE n < Bits
        <5>1. n \in 0 .. Bits - 1 /\ ~ (Shl(a, n) >= 0)
          BY <1>1, <3>3 DEF Goes
        <5>2. ~ (a < 2 ^ (Bits - n - 1))
          BY <1>3, <2>4, <5>1, DoubledSign
        <5>3. 2 ^ (Bits - n - 1) \in Nat
          <6> DEFINE k == Bits - n - 1
          <6>1. k \in Nat
            BY <1>1, <5>1
          <6> HIDE DEF k
          <6>2. 2 ^ k \in Nat
            BY <6>1 DEF Powers
          <6> QED
            BY <6>2 DEF k
        <5> QED
          BY <1>1, <5>2, <5>3
      <4>3. n \in n .. Bits
        BY <1>1
      <4> QED
        BY <2>4, <4>1, <4>2, <4>3
    <3> QED
      BY <3>2, <3>3
  <2> HIDE DEF Holds
  <2>5. 0 \in S
    <3>1. Bits - 0 = Bits /\ Bits \in 1 .. Bits /\ Bits - Bits = 0 /\ ~ Goes(a, Bits)
      BY <1>1 DEF Goes
    <3>2. a < 2 ^ 0 => Holds(Bits)
      <4> HAVE a < 2 ^ 0
      <4> DEFINE n == Bits
      <4>1. n \in 1 .. Bits /\ a < 2 ^ (Bits - n) /\ ~ Goes(a, n)
        BY <3>1
      <4> HIDE DEF n
      <4>2. Holds(n)
        BY <2>4, <4>1
      <4> QED
        BY <4>2 DEF n
    <3> QED
      BY <1>1, <3>1, <3>2
  <2>6. ASSUME NEW k \in 0 .. (Bits - 1) - 1, k \in S PROVE k + 1 \in S
    <3> DEFINE n == Bits - (k + 1)
    <3>1. /\ n \in 1 .. Bits /\ Bits - n = k + 1 /\ Bits - n - 1 = k /\ n + 1 = Bits - k
          /\ k + 1 \in 0 .. Bits - 1
      BY <1>1
    <3> HIDE DEF n
    <3>2. a < 2 ^ k => Holds(n + 1)
      BY <2>6, <3>1
    <3>3. a < 2 ^ (k + 1) => Holds(n)
      BY <2>4, <3>1, <3>2
    <3> QED
      BY <3>1, <3>3 DEF n
  <2> HIDE DEF S
  <2>7. 0 .. Bits - 1 \subseteq S
    <3> DEFINE k == Bits - 1
    <3>1. k \in Nat
      BY <1>1
    <3> HIDE DEF k
    <3> QED
      BY <2>5, <2>6, <3>1, BoundedInduction DEF k
  <2>8. Holds(1)
    <3>1. Bits - 1 \in 0 .. Bits - 1 /\ Bits - (Bits - 1) = 1
      BY <1>1
    <3> QED
      BY <1>1, <2>7, <3>1 DEF S
  <2>9. F[1] \in 0 .. Bits
    BY <1>1, <2>8 DEF Holds
  <2> QED
    BY <2>1, <2>2, <2>8, <2>9 DEF Holds
<1> QED
  BY <1>1, <1>2, <1>3

-----------------------------------------------------------------------------
(* The bits of the results of and, or and xor.                             *)
BitOf(op, x, y) ==
  CASE op = "and" -> (x + y) \div 2
    [] op = "or"  -> ((x + y) + 1) \div 2
    [] op = "xor" -> (x + y) % 2

LEMMA BitOfIs ==
  ASSUME NEW x \in {0, 1}, NEW y \in {0, 1}, NEW z \in {0, 1}
  PROVE  /\ (z = 1 <=> x = 1 /\ y = 1) => z = BitOf("and", x, y)
         /\ (z = 1 <=> x = 1 \/ y = 1) => z = BitOf("or", x, y)
         /\ (z = 1 <=> ~ (x = 1 <=> y = 1)) => z = BitOf("xor", x, y)
<1>1. /\ (0 + 0) \div 2 = 0 /\ (0 + 1) \div 2 = 0 /\ (1 + 0) \div 2 = 0 /\ (1 + 1) \div 2 = 1
      /\ ((0 + 0) + 1) \div 2 = 0 /\ ((0 + 1) + 1) \div 2 = 1
      /\ ((1 + 0) + 1) \div 2 = 1 /\ ((1 + 1) + 1) \div 2 = 1
      /\ (0 + 0) % 2 = 0 /\ (0 + 1) % 2 = 1 /\ (1 + 0) % 2 = 1 /\ (1 + 1) % 2 = 0
  OBVIOUS
<1>2. /\ BitOf("and", x, y) = (x + y) \div 2
      /\ BitOf("or", x, y) = ((x + y) + 1) \div 2
      /\ BitOf("xor", x, y) = (x + y) % 2
  BY DEF BitOf
<1>3. CASE x = 0 /\ y = 0
  BY <1>1, <1>2, <1>3
<1>4. CASE x = 0 /\ y = 1
  BY <1>1, <1>2, <1>4
<1>5. CASE x = 1 /\ y = 0
  BY <1>1, <1>2, <1>5
<1>6. CASE x = 1 /\ y = 1
  BY <1>1, <1>2, <1>6
<1> QED
  BY <1>3, <1>4, <1>5, <1>6

LEMMA BitOpIs ==
  ASSUME Powers, NEW a \in Word, NEW b \in Word, NEW op \in {"and", "or", "xor"}
  PROVE  /\ BitOp(op, a, b) \in Word
         /\ \A i \in 0 .. Bits - 1 :
              Bit(BitOp(op, a, b), i) = BitOf(op, Bit(a, i), Bit(b, i))
<1>1. /\ BitOp("and", a, b) = And(a, b) /\ BitOp("or", a, b) = Or(a, b)
      /\ BitOp("xor", a, b) = Xor(a, b)
  BY DEF BitOp
<1>2. Bits \in Nat \ {0}
  BY WordSizes
<1>3. And(a, b) \in Word /\ Or(a, b) \in Word /\ Xor(a, b) \in Word
  <2>1. 0 \in 0 .. Bits - 1
    BY <1>2
  <2>2. PICK z \in 0 .. Bits - 1 : z = 0
    BY <2>1
  <2> QED
    BY <2>2, BitwiseTells
<1>4. ASSUME NEW i \in 0 .. Bits - 1
      PROVE  Bit(BitOp(op, a, b), i) = BitOf(op, Bit(a, i), Bit(b, i))
  <2> DEFINE x == Bit(a, i)
             y == Bit(b, i)
  <2>1. /\ x \in {0, 1} /\ y \in {0, 1}
        /\ Bit(And(a, b), i) \in {0, 1} /\ Bit(Or(a, b), i) \in {0, 1}
        /\ Bit(Xor(a, b), i) \in {0, 1}
    BY <1>3, BitOfWord
  <2>2. /\ Bit(And(a, b), i) = 1 <=> x = 1 /\ y = 1
        /\ Bit(Or(a, b), i) = 1 <=> x = 1 \/ y = 1
        /\ Bit(Xor(a, b), i) = 1 <=> ~ (x = 1 <=> y = 1)
    BY BitwiseTells
  <2> HIDE DEF x, y
  <2>3. /\ Bit(And(a, b), i) = BitOf("and", x, y)
        /\ Bit(Or(a, b), i) = BitOf("or", x, y)
        /\ Bit(Xor(a, b), i) = BitOf("xor", x, y)
    BY <2>1, <2>2, BitOfIs
  <2> QED
    BY <1>1, <2>3 DEF x, y
<1>5. BitOp(op, a, b) \in Word
  BY <1>1, <1>3
<1> QED
  BY <1>4, <1>5

LEMMA FlagBits ==
  ASSUME Powers, NEW f \in {0, 1}, NEW i \in 0 .. Bits - 1
  PROVE  Bit(f, i) = IF i = 0 THEN f ELSE 0
<1>1. i \in Nat /\ Bits \in Nat
  BY WordSizes
<1>2. CASE f = 0
  BY <1>1, <1>2, ZeroBits
<1>3. CASE f = 1 /\ i = 0
  <2>1. 2 ^ 0 = 1 /\ 1 \div 1 = 1 /\ 1 % 2 = 1
    BY DEF Powers
  <2> QED
    BY <1>3, <2>1 DEF Bit
<1>4. CASE f = 1 /\ i # 0
  <2> DEFINE p == 2 ^ i
  <2>1. p \in Nat \ {0} /\ p > 1
    <3> DEFINE k == i - 1
    <3>1. k \in Nat /\ k + 1 = i
      BY <1>1, <1>4
    <3> HIDE DEF k
    <3>2. 2 ^ k \in Nat \ {0} /\ 2 ^ (k + 1) = 2 * 2 ^ k
      BY <3>1 DEF Powers
    <3> QED
      BY <3>1, <3>2
  <2> HIDE DEF p
  <2>2. PICK one \in Nat : one = 1
    OBVIOUS
  <2>3. one \div p \in 0 .. one /\ one \div p < one
    BY <2>1, <2>2, QuotientSize
  <2>4. one \div p = 0
    BY <2>2, <2>3
  <2>5. Bit(f, i) = (one \div p) % 2
    <3>1. f = one
      BY <1>4, <2>2
    <3> QED
      BY <3>1, Zenon DEF Bit, p
  <2>6. 0 % 2 = 0
    OBVIOUS
  <2> QED
    BY <1>4, <2>4, <2>5, <2>6
<1> QED
  BY <1>2, <1>3, <1>4

LEMMA FlagOpIs ==
  ASSUME Powers, NEW f \in {0, 1}, NEW g \in {0, 1}, NEW op \in {"and", "or", "xor"}
  PROVE  /\ FlagOp(op, f, g) \in {0, 1}
         /\ \A i \in 0 .. Bits - 1 :
              Bit(FlagOp(op, f, g), i) = BitOf(op, Bit(f, i), Bit(g, i))
<1> DEFINE h == FlagOp(op, f, g)
<1>1. /\ FlagOp("and", f, g) = (IF f = 1 /\ g = 1 THEN 1 ELSE 0)
      /\ FlagOp("or", f, g) = (IF f = 0 /\ g = 0 THEN 0 ELSE 1)
      /\ FlagOp("xor", f, g) = (IF (f = 1 /\ g = 0) \/ (f = 0 /\ g = 1) THEN 1 ELSE 0)
  BY DEF FlagOp
<1>2. h \in {0, 1}
  BY <1>1
<1>3. h = BitOf(op, f, g)
  <2> DEFINE x == FlagOp("and", f, g)
             y == FlagOp("or", f, g)
             z == FlagOp("xor", f, g)
  <2>1. /\ x \in {0, 1} /\ y \in {0, 1} /\ z \in {0, 1}
        /\ (x = 1 <=> f = 1 /\ g = 1) /\ (y = 1 <=> f = 1 \/ g = 1)
        /\ (z = 1 <=> ~ (f = 1 <=> g = 1))
    BY <1>1
  <2> HIDE DEF x, y, z
  <2>2. x = BitOf("and", f, g) /\ y = BitOf("or", f, g) /\ z = BitOf("xor", f, g)
    BY <2>1, BitOfIs
  <2> QED
    BY <2>2 DEF x, y, z
<1>4. BitOf(op, 0, 0) = 0
  <2>1. (0 + 0) \div 2 = 0 /\ ((0 + 0) + 1) \div 2 = 0 /\ (0 + 0) % 2 = 0
    OBVIOUS
  <2>2. /\ BitOf("and", 0, 0) = (0 + 0) \div 2
        /\ BitOf("or", 0, 0) = ((0 + 0) + 1) \div 2
        /\ BitOf("xor", 0, 0) = (0 + 0) % 2
    BY DEF BitOf
  <2> QED
    BY <2>1, <2>2
<1> HIDE DEF h
<1>5. ASSUME NEW i \in 0 .. Bits - 1
      PROVE  Bit(h, i) = BitOf(op, Bit(f, i), Bit(g, i))
  <2>1. /\ Bit(h, i) = (IF i = 0 THEN h ELSE 0) /\ Bit(f, i) = (IF i = 0 THEN f ELSE 0)
        /\ Bit(g, i) = (IF i = 0 THEN g ELSE 0)
    BY <1>2, FlagBits
  <2>2. CASE i = 0
    BY <1>3, <2>1, <2>2
  <2>3. CASE i # 0
    BY <1>4, <2>1, <2>3
  <2> QED
    BY <2>2, <2>3
<1> QED
  BY <1>2, <1>5 DEF h

-----------------------------------------------------------------------------
(* What ShiftsRight says of one instruction.                               *)
LeftHolds(op, const, bits, a, s, d, c, ok) ==
  /\ op = "shl"
  /\ ~ const => s <= Bits
  /\ const => /\ ok /\ c \subseteq Initialised /\ bits # 3 * ByteBits
              /\ bits < Bits => Clean(a[1], bits)
              /\ ~ (bits = 2 * Bits /\ s < Bits /\ a[1] < 0)
  => Lefts(bits, a, s, d)

LowHolds(op, const, bits, a, s, d, c) ==
  op = "shl" /\ const /\ bits < Bits /\ c \subseteq Initialised
  => d[1] % 2 ^ bits = (Unsigned(a) * 2 ^ s) % 2 ^ bits

RightHolds(op, const, bits, a, s, d, c) ==
  /\ /\ op = "lshr" /\ c \subseteq Initialised
     /\ const \/ s <= Bits
     /\ bits < Bits => Clean(a[1], bits)
     => Rights(a, s, d)
  /\ /\ op = "ashr" /\ SignExtended(a[1], bits)
     /\ s < Bits - 1 /\ a[1] - (2 ^ s - 1) \in Word
     => d[1] = Signed(a[1] % 2 ^ bits, bits) \div 2 ^ s

BitsHold(op, a, b, s, d) ==
  /\ op = "fshr" => Unsigned(d) = (Unsigned(<<b[1], a[1]>>) \div 2 ^ (s % Bits)) % 2 ^ Bits
  /\ op = "ctlz" =>
       /\ d[1] \in 0 .. Bits
       /\ d[1] > 0 => Unsigned(a) < 2 ^ (Bits - d[1])
       /\ d[1] < Bits => Unsigned(a) >= 2 ^ (Bits - d[1] - 1)
  /\ op \in {"and", "or", "xor"} =>
       \A i \in 0 .. Bits - 1 : Bit(d[1], i) = BitOf(op, Bit(a[1], i), Bit(b[1], i))

LEMMA OtherShifts ==
  ASSUME NEW op, NEW const, NEW bits, NEW a, NEW b, NEW s, NEW d, NEW c, NEW ok
  PROVE  /\ op # "shl" => LeftHolds(op, const, bits, a, s, d, c, ok)
         /\ op # "shl" \/ ~ const \/ ~ (bits < Bits) => LowHolds(op, const, bits, a, s, d, c)
         /\ op \notin {"lshr", "ashr"} => RightHolds(op, const, bits, a, s, d, c)
         /\ op \notin {"fshr", "ctlz", "and", "or", "xor"} => BitsHold(op, a, b, s, d)
<1>1. op # "shl" => LeftHolds(op, const, bits, a, s, d, c, ok)
  BY Zenon DEF LeftHolds
<1>2. op \notin {"lshr", "ashr"} => RightHolds(op, const, bits, a, s, d, c)
  BY Zenon DEF RightHolds
<1>3. op \notin {"fshr", "ctlz", "and", "or", "xor"} => BitsHold(op, a, b, s, d)
  BY Zenon DEF BitsHold
<1>4. op # "shl" \/ ~ const \/ ~ (bits < Bits) => LowHolds(op, const, bits, a, s, d, c)
  BY Zenon DEF LowHolds
<1> QED
  BY <1>1, <1>2, <1>3, <1>4

(* A quotient is no further from zero than its dividend.                   *)
LEMMA QuotientInside ==
  ASSUME NEW n \in Int, NEW p \in Nat \ {0}, NEW h \in Nat \ {0}, -h <= n, n < h
  PROVE  n \div p \in -h .. h - 1
<1> DEFINE d == n \div p
           r == n % p
<1>1. d \in Int /\ r \in 0 .. p - 1 /\ n = d * p + r
  BY DivIs
<1> HIDE DEF d, r
<1>2. ASSUME NEW x \in Int, x >= h PROVE x * p >= h
  <2>1. PICK k \in Nat : x = h + k
    BY <1>2
  <2>2. (h + k) * p >= h + k
    BY <2>1, Z3
  <2> QED
    BY <2>1, <2>2
<1>3. ASSUME NEW x \in Int, x < -h PROVE (x + 1) * p <= -h
  <2>1. -(x + 1) \in Int /\ -(x + 1) >= h
    BY <1>3
  <2>2. (-(x + 1)) * p >= h
    BY <1>2, <2>1
  <2>3. (-(x + 1)) * p = -((x + 1) * p)
    BY <2>1, Z3
  <2>4. (x + 1) * p \in Int
    BY <2>1
  <2> QED
    BY <2>2, <2>3, <2>4
<1>4. d * p \in Int /\ (d + 1) * p = d * p + p
  BY <1>1, Z3
<1>5. ~ (d >= h)
  BY <1>1, <1>2, <1>4
<1>6. ~ (d < -h)
  BY <1>1, <1>3, <1>4
<1> QED
  BY <1>1, <1>5, <1>6 DEF d

LEMMA AshrStep ==
  ASSUME Powers, NEW a \in Word, NEW s \in Nat, NEW bits \in Narrow \union {Bits},
         NEW const, NEW c
  PROVE  RightHolds("ashr", const, bits, <<a>>, s, <<Ashr(a, s)>>, c)
<1> SUFFICES ASSUME SignExtended(a, bits), s < Bits - 1, a - (2 ^ s - 1) \in Word
             PROVE  Ashr(a, s) = Signed(a % 2 ^ bits, bits) \div 2 ^ s
  <2>1. <<a>>[1] = a /\ <<Ashr(a, s)>>[1] = Ashr(a, s)
    OBVIOUS
  <2> QED
    BY <2>1, Zenon DEF RightHolds
<1> DEFINE q == a \div 2 ^ s
           w == Ashr(a, s)
<1>1. /\ Bits \in Nat \ {0} /\ s \in 0 .. Bits - 2 /\ 2 ^ Bits = Modulus
      /\ HighBit = 2 ^ (Bits - 1) /\ HighBit \in Nat \ {0} /\ a \in Int /\ a < HighBit
  BY WordSizes, BytePlace DEF Word
<1>2. w = Wrap(q)
  BY <1>1, AshrIs
<1>3. q \in Word
  <2> DEFINE p == 2 ^ s
  <2>1. p \in Nat \ {0}
    BY <1>1, NarrowSizes
  <2> HIDE DEF p
  <2>2. a \div p \in -HighBit .. HighBit - 1
    <3>1. -HighBit <= a /\ a < HighBit
      BY <1>1 DEF Word
    <3> QED
      BY <1>1, <2>1, <3>1, QuotientInside
  <2> QED
    BY <2>2 DEF p, Word
<1>4. Signed(a % 2 ^ bits, bits) = a
  <2>1. bits \in NarrowBits \union {Bits}
    BY NarrowAre
  <2> QED
    BY <2>1, HolderIs
<1>5. Wrap(q) = q
  <2>1. q \in Int
    BY <1>3 DEF Word
  <2> HIDE DEF q
  <2> QED
    BY <1>3, <2>1, WrapFacts
<1> QED
  BY <1>2, <1>4, <1>5

LEMMA BitSteps ==
  ASSUME Powers
  PROVE  /\ \A a, b, s \in Word : BitsHold("fshr", <<a>>, <<b>>, s, <<Fshr(a, b, s)>>)
         /\ \A a \in Word : \A s : BitsHold("ctlz", <<a>>, <<>>, s, <<Ctlz(a)>>)
         /\ \A op \in {"and", "or", "xor"} :
              /\ \A a, b \in Word : BitsHold(op, <<a>>, <<b>>, 0, <<BitOp(op, a, b)>>)
              /\ \A f, g \in {0, 1} : BitsHold(op, <<f>>, <<g>>, 0, <<FlagOp(op, f, g)>>)
<1>1. \A x : <<x>>[1] = x
  OBVIOUS
<1>2. ASSUME NEW a \in Word, NEW b \in Word, NEW s \in Word
      PROVE  BitsHold("fshr", <<a>>, <<b>>, s, <<Fshr(a, b, s)>>)
  <2>1. 2 ^ Bits = Modulus
    BY WordSizes
  <2> DEFINE w == Fshr(a, b, s)
  <2>2. w \in Word /\ U(w) = (Unsigned(<<b, a>>) \div 2 ^ (s % Bits)) % Modulus
    BY FshrIs
  <2> HIDE DEF w
  <2>3. Unsigned(<<w>>) = U(w)
    BY <2>2, ZeroAbove
  <2>4. BitsHold("fshr", <<a>>, <<b>>, s, <<w>>)
    BY <1>1, <2>1, <2>2, <2>3, Zenon DEF BitsHold
  <2> QED
    BY <2>4 DEF w
<1>3. ASSUME NEW a \in Word, NEW s PROVE BitsHold("ctlz", <<a>>, <<>>, s, <<Ctlz(a)>>)
  <2> DEFINE w == Ctlz(a)
  <2>1. /\ w \in 0 .. Bits
        /\ w > 0 => U(a) < 2 ^ (Bits - w)
        /\ w < Bits => U(a) >= 2 ^ (Bits - w - 1)
    BY CtlzIs
  <2> HIDE DEF w
  <2>2. Unsigned(<<a>>) = U(a)
    BY ZeroAbove
  <2>3. BitsHold("ctlz", <<a>>, <<>>, s, <<w>>)
    BY <1>1, <2>1, <2>2, Zenon DEF BitsHold
  <2> QED
    BY <2>3 DEF w
<1>4. ASSUME NEW op \in {"and", "or", "xor"}, NEW a, NEW b, NEW w,
             \A i \in 0 .. Bits - 1 : Bit(w, i) = BitOf(op, Bit(a, i), Bit(b, i))
      PROVE  BitsHold(op, <<a>>, <<b>>, 0, <<w>>)
  BY <1>1, <1>4, Zenon DEF BitsHold
<1>5. ASSUME NEW op \in {"and", "or", "xor"}, NEW a \in Word, NEW b \in Word
      PROVE  BitsHold(op, <<a>>, <<b>>, 0, <<BitOp(op, a, b)>>)
  BY <1>4, BitOpIs
<1>6. ASSUME NEW op \in {"and", "or", "xor"}, NEW f \in {0, 1}, NEW g \in {0, 1}
      PROVE  BitsHold(op, <<f>>, <<g>>, 0, <<FlagOp(op, f, g)>>)
  BY <1>4, FlagOpIs
<1> QED
  BY <1>2, <1>3, <1>5, <1>6

(* Every shift, from a byte to two words, by a variable distance of at most*)
(* one word, even where two are shifted, or by a constant whose assertions *)
(* hold, and every and, or, xor, fshr and ctlz, is that of the numbers, for*)
(* words of any length: what the loops, multiplications and signed         *)
(* divisions of the intrinsics make of bit patterns.  Of a narrow holder   *)
(* lshr needs that it is clean and ashr that it has its sign; shl is right *)
(* in its bits whatever it has above them (ShiftsRight, which run words    *)
(* checks for eight bits).                                                 *)
THEOREM ShiftsCorrect ==
  ASSUME Powers
  PROVE  Spec => []ShiftsRight
<1> USE Powers
<1>1. Init => ShiftsRight
  BY DEF Init, NoInstr, ShiftsRight, ShlShifts, ShrShifts, BitsRight
<1>2. ASSUME NEW op, NEW const, NEW bits, NEW a, NEW b, NEW s,
             Executes(op, const, bits, a, b, s)
      PROVE  /\ /\ LeftHolds(op, const, bits, a, s, dest', cited', passed')
                /\ LowHolds(op, const, bits, a, s, dest', cited')
                /\ RightHolds(op, const, bits, a, s, dest', cited')
                /\ BitsHold(op, a, b, s, dest')
                => ShiftsRight'
             /\ op \notin ShiftOps => ShiftsRight'
  <2>1. /\ instr'.op = op /\ instr'.a = a /\ instr'.b = b
        /\ instr'.bits = bits /\ instr'.s = s /\ instr'.const = const
    BY <1>2 DEF Executes
  <2>2. ShlShifts' <=> /\ LeftHolds(op, const, bits, a, s, dest', cited', passed')
                       /\ LowHolds(op, const, bits, a, s, dest', cited')
    BY <2>1, Zenon DEF ShlShifts, LeftHolds, LowHolds, Lefts, ShiftedLeft
  <2>3. ShrShifts' <=> RightHolds(op, const, bits, a, s, dest', cited')
    BY <2>1, Zenon DEF ShrShifts, RightHolds, Rights, ShiftedRight
  <2>4. BitsRight' <=> BitsHold(op, a, b, s, dest')
    BY <2>1, Zenon DEF BitsRight, BitsHold, Bit, BitOf
  <2>5. /\ LeftHolds(op, const, bits, a, s, dest', cited', passed')
        /\ LowHolds(op, const, bits, a, s, dest', cited')
        /\ RightHolds(op, const, bits, a, s, dest', cited')
        /\ BitsHold(op, a, b, s, dest')
        => ShiftsRight'
    BY <2>2, <2>3, <2>4, Zenon DEF ShiftsRight
  <2>6. op \notin ShiftOps =>
          /\ LeftHolds(op, const, bits, a, s, dest', cited', passed')
          /\ LowHolds(op, const, bits, a, s, dest', cited')
          /\ RightHolds(op, const, bits, a, s, dest', cited')
          /\ BitsHold(op, a, b, s, dest')
    BY OtherShifts, Zenon DEF ShiftOps
  <2> QED
    BY <2>5, <2>6
(* One instruction of each of the three kinds.                             *)
<1>3. ASSUME NEW const, NEW bits, NEW a, NEW s,
             Executes("shl", const, bits, a, <<>>, s),
             LeftHolds("shl", const, bits, a, s, dest', cited', passed'),
             const /\ bits < Bits => LowHolds("shl", const, bits, a, s, dest', cited')
      PROVE  ShiftsRight'
  <2>1. RightHolds("shl", const, bits, a, s, dest', cited') /\ BitsHold("shl", a, <<>>, s, dest')
    BY OtherShifts
  <2>2. LowHolds("shl", const, bits, a, s, dest', cited')
    BY <1>3, Zenon DEF LowHolds
  <2> QED
    BY <1>2, <1>3, <2>1, <2>2
<1>4. ASSUME NEW op \in {"lshr", "ashr"}, NEW const, NEW bits, NEW a, NEW s,
             Executes(op, const, bits, a, <<>>, s),
             RightHolds(op, const, bits, a, s, dest', cited')
      PROVE  ShiftsRight'
  BY <1>2, <1>4, OtherShifts
<1>5. ASSUME NEW op \in {"fshr", "ctlz", "and", "or", "xor"}, NEW bits, NEW a, NEW b, NEW s,
             Executes(op, FALSE, bits, a, b, s), BitsHold(op, a, b, s, dest')
      PROVE  ShiftsRight'
  BY <1>2, <1>5, OtherShifts
<1>6. ASSUME NEW const, NEW bits, NEW a, NEW s, NEW d, NEW c, NEW ok, Lefts(bits, a, s, d)
      PROVE  LeftHolds("shl", const, bits, a, s, d, c, ok)
  BY <1>6, Zenon DEF LeftHolds
<1>7. ASSUME NEW const, NEW bits, NEW a, NEW s, NEW d, NEW c, Rights(a, s, d)
      PROVE  RightHolds("lshr", const, bits, a, s, d, c)
  BY <1>7, Zenon DEF RightHolds
<1>8. /\ Operands \subseteq Word /\ Bits \in Nat \ {0} /\ ByteBits \in Nat \ {0}
      /\ Bits = 4 * ByteBits /\ ~ (2 * Bits < Bits) /\ ~ (6 * ByteBits < Bits)
      /\ \A n \in Narrow \union {Bits} : n \in Nat /\ n <= Bits
  <2>1. Operands \subseteq Word /\ Bits \in Nat \ {0} /\ ByteBits \in Nat \ {0} /\ Bits = 4 * ByteBits
    BY OperandsAssumption, WordSizes, ByteSize
  <2>2. \A n \in Narrow \union {Bits} : n \in Nat /\ n <= Bits
    BY <2>1 DEF Narrow
  <2>3. ~ (2 * Bits < Bits) /\ ~ (6 * ByteBits < Bits)
    BY <2>1
  <2> QED
    BY <2>1, <2>2, <2>3
<1>9. ASSUME ShlVariable PROVE ShiftsRight'
  <2>1. PICK bits \in Narrow \union {Bits} : \E a \in Operands, s \in 0 .. bits - 1 :
          /\ Executes("shl", FALSE, bits, <<a>>, <<>>, s)
          /\ dest' = <<IF bits < Bits THEN ModConst(Shl(a, s), One(bits)) ELSE Shl(a, s)>>
    BY <1>9, Zenon DEF ShlVariable
  <2>2. PICK a \in Operands, s \in 0 .. bits - 1 :
          /\ Executes("shl", FALSE, bits, <<a>>, <<>>, s)
          /\ dest' = <<IF bits < Bits THEN ModConst(Shl(a, s), One(bits)) ELSE Shl(a, s)>>
    BY <2>1, Zenon
  <2>3. a \in Word /\ s \in Nat
    BY <1>8
  <2>4. Lefts(bits, <<a>>, s, dest')
    BY <2>2, <2>3, ShlVariableIs
  <2> QED
    BY <1>3, <1>6, <2>2, <2>4
<1>10. ASSUME ShlConst PROVE ShiftsRight'
  <2> DEFINE X(bits, a, s) ==
               /\ Executes("shl", TRUE, bits, <<a>>, <<>>, s)
               /\ dest' = <<TimesConst(a, One(s))>>
               /\ cited' = {One(s)}
               /\ passed' = (bits < Bits => dest'[1] <= Largest(bits))
  <2>1. PICK bits \in Narrow \union {Bits} :
          \E a \in Operands, s \in 0 .. bits - 1 : X(bits, a, s)
    BY <1>10, Zenon DEF ShlConst
  <2>2. PICK a \in Operands, s \in 0 .. bits - 1 : X(bits, a, s)
    BY <2>1, Zenon
  <2>3. a \in Word /\ s \in Nat
    BY <1>8
  <2>4. LeftHolds("shl", TRUE, bits, <<a>>, s, dest', cited', passed')
    <3>0. <<a>>[1] = a
      OBVIOUS
    <3> SUFFICES ASSUME passed', cited' \subseteq Initialised, bits # 3 * ByteBits,
                        bits < Bits => Clean(a, bits)
                 PROVE  Lefts(bits, <<a>>, s, dest')
      BY <3>0, Zenon DEF LeftHolds
    <3>1. One(s) \in Initialised
      BY <2>2
    <3>2. bits \in {ByteBits, 2 * ByteBits, Bits}
      BY <2>1 DEF Narrow
    <3>3. Largest(bits) = 2 ^ bits - 1
      BY DEF Largest
    <3>4. dest'[1] = TimesConst(a, One(s))
      BY <2>2
    <3>5. bits < Bits => TimesConst(a, One(s)) <= 2 ^ bits - 1
      BY <2>2, <3>3, <3>4
    <3>6. bits = Bits \/ a \in 0 .. 2 ^ bits - 1
      BY <1>8, <3>2 DEF Clean
    <3>7. Lefts(bits, <<a>>, s, <<TimesConst(a, One(s))>>)
      BY <2>3, <3>1, <3>2, <3>5, <3>6, ShlConstIs
    <3> QED
      BY <2>2, <3>7
  <2>5. bits < Bits => LowHolds("shl", TRUE, bits, <<a>>, s, dest', cited')
    <3> SUFFICES ASSUME bits < Bits, cited' \subseteq Initialised
                 PROVE  dest'[1] % 2 ^ bits = (Unsigned(<<a>>) * 2 ^ s) % 2 ^ bits
      BY Zenon DEF LowHolds
    <3>1. bits \in Narrow /\ One(s) \in Initialised /\ dest'[1] = TimesConst(a, One(s))
      BY <1>8, <2>2
    <3> QED
      BY <2>3, <3>1, ShlConstLow
  <2> QED
    BY <1>3, <2>2, <2>4, <2>5
<1>11. ASSUME Shl64Variable PROVE ShiftsRight'
  <2>1. PICK lo \in Word, hi \in Word, s \in 0 .. 2 * Bits - 1 :
          Executes("shl", FALSE, 2 * Bits, <<lo, hi>>, <<>>, s) /\ dest' = Shl64(lo, hi, s)
    BY <1>8, <1>11 DEF Shl64Variable
  <2>2. LeftHolds("shl", FALSE, 2 * Bits, <<lo, hi>>, s, dest', cited', passed')
    <3> SUFFICES ASSUME s <= Bits PROVE Lefts(2 * Bits, <<lo, hi>>, s, dest')
      BY Zenon DEF LeftHolds
    <3>1. s \in 0 .. Bits
      BY <1>8, <2>1
    <3> QED
      BY <2>1, <3>1, Shl64Is
  <2> QED
    BY <1>3, <2>1, <2>2
<1>12. ASSUME Shl64ConstNear PROVE ShiftsRight'
  <2>1. PICK lo \in Word, hi \in Word, s \in 1 .. Bits - 1 :
          /\ Executes("shl", TRUE, 2 * Bits, <<lo, hi>>, <<>>, s)
          /\ dest' = <<Times(lo, One(s)), Add(Times(hi, One(s)), Over(lo, One(Bits - s)))>>
    BY <1>8, <1>12, Zenon DEF Shl64ConstNear
  <2>2. LeftHolds("shl", TRUE, 2 * Bits, <<lo, hi>>, s, dest', cited', passed')
    <3>1. <<lo, hi>>[1] = lo
      OBVIOUS
    <3> SUFFICES ASSUME ~ (2 * Bits = 2 * Bits /\ s < Bits /\ lo < 0)
                 PROVE  Lefts(2 * Bits, <<lo, hi>>, s, dest')
      BY <3>1, Zenon DEF LeftHolds
    <3>2. lo >= 0
      BY <1>8, UnsignedOf
    <3> QED
      BY <2>1, <3>2, ShlNearIs
  <2> QED
    BY <1>3, <1>8, <2>1, <2>2
<1>13. ASSUME Shl64ConstFar PROVE ShiftsRight'
  <2>1. PICK lo \in Word, hi \in Word, s \in Bits .. 2 * Bits - 1 :
          /\ Executes("shl", TRUE, 2 * Bits, <<lo, hi>>, <<>>, s)
          /\ dest' = <<0, Times(lo, One(s - Bits))>>
    BY <1>8, <1>13, Zenon DEF Shl64ConstFar
  <2>2. Lefts(2 * Bits, <<lo, hi>>, s, dest')
    BY <2>1, ShlFarIs
  <2> QED
    BY <1>3, <1>6, <1>8, <2>1, <2>2
<1>14. ASSUME Shl48 PROVE ShiftsRight'
  <2>1. PICK lo \in Word, hi \in Word, n \in 1 .. 4 :
          /\ Executes("shl", TRUE, 6 * ByteBits, <<lo, hi>>, <<>>, n * ByteBits)
          /\ dest' = IF n = 4 THEN <<0, lo>> ELSE <<Times(lo, Byte ^ n), 0>>
          /\ passed' = (hi = 0 /\ lo \in 0 .. (IF n = 4 THEN Byte ELSE Byte ^ (4 - n)) - 1)
    BY <1>8, <1>14, Zenon DEF Shl48
  <2>2. LeftHolds("shl", TRUE, 6 * ByteBits, <<lo, hi>>, n * ByteBits, dest', cited', passed')
    <3> SUFFICES ASSUME passed'
                 PROVE  Lefts(6 * ByteBits, <<lo, hi>>, n * ByteBits, dest')
      BY Zenon DEF LeftHolds
    <3>1. hi = 0 /\ lo \in 0 .. (IF n = 4 THEN Byte ELSE Byte ^ (4 - n)) - 1
      BY <2>1
    <3> QED
      BY <2>1, <3>1, Shl48Is
  <2> QED
    BY <1>3, <1>8, <2>1, <2>2
<1>15. ASSUME LshrVariable PROVE ShiftsRight'
  <2>1. PICK bits \in Narrow \union {Bits}, a \in Word, s \in Nat :
          /\ s <= Bits
          /\ Executes("lshr", FALSE, bits, <<a>>, <<>>, s) /\ dest' = <<Lshr(a, s)>>
    <3>1. PICK bits \in Narrow \union {Bits} : \E a \in Operands, s \in 0 .. bits - 1 :
            Executes("lshr", FALSE, bits, <<a>>, <<>>, s) /\ dest' = <<Lshr(a, s)>>
      BY <1>15, Zenon DEF LshrVariable
    <3>2. \A s \in 0 .. bits - 1 : s \in Nat /\ s <= Bits
      BY <1>8
    <3> QED
      BY <1>8, <3>1, <3>2
  <2>2. s \in 0 .. Bits
    BY <1>8, <2>1
  <2>3. Rights(<<a>>, s, dest')
    BY <2>1, <2>2, LshrIsRight
  <2> QED
    BY <1>4, <1>7, <2>1, <2>3
<1>16. ASSUME Lshr64Variable PROVE ShiftsRight'
  <2>1. PICK lo \in Word, hi \in Word, s \in 0 .. 2 * Bits - 1 :
          Executes("lshr", FALSE, 2 * Bits, <<lo, hi>>, <<>>, s) /\ dest' = Lshr64(lo, hi, s)
    BY <1>8, <1>16 DEF Lshr64Variable
  <2>2. RightHolds("lshr", FALSE, 2 * Bits, <<lo, hi>>, s, dest', cited')
    <3> SUFFICES ASSUME s <= Bits PROVE Rights(<<lo, hi>>, s, dest')
      BY Zenon DEF RightHolds
    <3>1. s \in 0 .. Bits
      BY <1>8, <2>1
    <3> QED
      BY <2>1, <3>1, Lshr64Is
  <2> QED
    BY <1>4, <2>1, <2>2
<1>17. ASSUME Lshr64ConstNear PROVE ShiftsRight'
  <2>1. PICK lo \in Word, hi \in Word, s \in 1 .. Bits - 1 :
          /\ Executes("lshr", TRUE, 2 * Bits, <<lo, hi>>, <<>>, s)
          /\ dest' = <<Add(Lshr(lo, s), TimesConst(ModConst(hi, One(s)), One(Bits - s))),
                       Lshr(hi, s)>>
          /\ cited' = {One(s), One(Bits - s), -1}
    BY <1>8, <1>17, Zenon DEF Lshr64ConstNear
  <2>2. RightHolds("lshr", TRUE, 2 * Bits, <<lo, hi>>, s, dest', cited')
    <3> SUFFICES ASSUME cited' \subseteq Initialised PROVE Rights(<<lo, hi>>, s, dest')
      BY Zenon DEF RightHolds
    <3>1. One(s) \in Initialised /\ One(Bits - s) \in Initialised
      BY <2>1
    <3> QED
      BY <2>1, <3>1, LshrNearIs
  <2> QED
    BY <1>4, <2>1, <2>2
<1>18. ASSUME Lshr64ConstFar PROVE ShiftsRight'
  <2>1. PICK lo \in Word, hi \in Word, s \in Bits .. 2 * Bits - 1 :
          /\ Executes("lshr", TRUE, 2 * Bits, <<lo, hi>>, <<>>, s)
          /\ dest' = <<IF s > Bits THEN Lshr(hi, s - Bits) ELSE hi, 0>>
    BY <1>8, <1>18, Zenon DEF Lshr64ConstFar
  <2>2. Rights(<<lo, hi>>, s, dest')
    BY <2>1, LshrFarIs
  <2> QED
    BY <1>4, <1>7, <2>1, <2>2
<1>19. ASSUME AshrVariable PROVE ShiftsRight'
  <2>1. PICK bits \in Narrow \union {Bits} : \E a \in Operands, s \in 0 .. bits - 1 :
          Executes("ashr", FALSE, bits, <<a>>, <<>>, s) /\ dest' = <<Ashr(a, s)>>
    BY <1>19, Zenon DEF AshrVariable
  <2>2. PICK a \in Operands, s \in 0 .. bits - 1 :
          Executes("ashr", FALSE, bits, <<a>>, <<>>, s) /\ dest' = <<Ashr(a, s)>>
    BY <2>1, Zenon
  <2>3. a \in Word /\ s \in Nat
    BY <1>8
  <2>4. RightHolds("ashr", FALSE, bits, <<a>>, s, dest', cited')
    BY <2>2, <2>3, AshrStep
  <2> QED
    BY <1>4, <2>2, <2>4
<1>20. ASSUME FunnelShift \/ CountZeros PROVE ShiftsRight'
  <2>1. CASE FunnelShift
    <3>1. PICK a \in Word, b \in Word, s \in Word :
            Executes("fshr", FALSE, Bits, <<a>>, <<b>>, s) /\ dest' = <<Fshr(a, b, s)>>
      BY <1>8, <2>1 DEF FunnelShift
    <3>2. BitsHold("fshr", <<a>>, <<b>>, s, dest')
      BY <3>1, BitSteps
    <3> QED
      BY <1>5, <3>1, <3>2
  <2>2. CASE CountZeros
    <3>1. PICK a \in Word :
            Executes("ctlz", FALSE, Bits, <<a>>, <<>>, 0) /\ dest' = <<Ctlz(a)>>
      BY <1>8, <2>2 DEF CountZeros
    <3>2. BitsHold("ctlz", <<a>>, <<>>, 0, dest')
      BY <3>1, BitSteps
    <3> QED
      BY <1>5, <3>1, <3>2
  <2> QED
    BY <1>20, <2>1, <2>2
<1>21. ASSUME BitwiseWord \/ BitwiseFlag PROVE ShiftsRight'
  <2>1. CASE BitwiseWord
    <3>1. PICK op \in {"and", "or", "xor"}, a \in Word, b \in Word :
            Executes(op, FALSE, Bits, <<a>>, <<b>>, 0) /\ dest' = <<BitOp(op, a, b)>>
      BY <1>8, <2>1, Zenon DEF BitwiseWord
    <3>2. BitsHold(op, <<a>>, <<b>>, 0, dest')
      BY <3>1, BitSteps, Zenon
    <3>3. op \in {"fshr", "ctlz", "and", "or", "xor"}
      OBVIOUS
    <3> QED
      BY <1>5, <3>1, <3>2, <3>3
  <2>2. CASE BitwiseFlag
    <3>1. PICK op \in {"and", "or", "xor"}, f \in {0, 1}, g \in {0, 1} :
            Executes(op, FALSE, 1, <<f>>, <<g>>, 0) /\ dest' = <<FlagOp(op, f, g)>>
      BY <2>2, Zenon DEF BitwiseFlag
    <3>2. BitsHold(op, <<f>>, <<g>>, 0, dest')
      BY <3>1, BitSteps, Zenon
    <3>3. op \in {"fshr", "ctlz", "and", "or", "xor"}
      OBVIOUS
    <3> QED
      BY <1>5, <3>1, <3>2, <3>3
  <2> QED
    BY <1>21, <2>1, <2>2
<1>22. ASSUME NextVector \/ NextConversion PROVE ShiftsRight'
  <2>1. CASE NextVector
    BY <1>2, <2>1, VectorOpsOnly DEF VectorOps, LaneOps, ShiftOps
  <2>2. CASE NextConversion
    BY <1>2, <2>2, ConversionOpsOnly DEF ConversionOps, ShiftOps
  <2> QED
    BY <1>22, <2>1, <2>2
<1>23. ASSUME NextArithmetic PROVE ShiftsRight'
  <2>1. CASE ICmp \/ ICmp64 \/ ICmp48
    BY <1>2, <2>1, PredicatesOnly DEF Predicates, ShiftOps
  <2>2. CASE ~ (ICmp \/ ICmp64 \/ ICmp48)
    BY <1>2, <1>23, <2>2, SumOpsOnly DEF SumOps, ShiftOps, NextArithmetic
  <2> QED
    BY <2>1, <2>2
<1>24. ASSUME ShiftsRight, UNCHANGED vars PROVE ShiftsRight'
  <2>1. instr' = instr /\ dest' = dest /\ cited' = cited /\ passed' = passed
    BY <1>24 DEF vars
  <2>2. ShlShifts => ShlShifts'
    BY <2>1, Zenon DEF ShlShifts, ShiftedLeft
  <2>3. ShrShifts => ShrShifts'
    BY <2>1, Zenon DEF ShrShifts, ShiftedRight
  <2>4. BitsRight => BitsRight'
    BY <2>1, Zenon DEF BitsRight
  <2> QED
    BY <1>24, <2>2, <2>3, <2>4 DEF ShiftsRight
<1>25. NextShift => ShiftsRight'
  BY <1>9, <1>10, <1>11, <1>12, <1>13, <1>14, <1>15, <1>16, <1>17, <1>18, <1>19, <1>20, <1>21,
     Zenon DEF NextShift
<1>26. ShiftsRight /\ [Next]_vars => ShiftsRight'
  BY <1>22, <1>23, <1>24, <1>25, Zenon DEF Next
<1> QED
  BY <1>1, <1>26, PTL DEF Spec

-----------------------------------------------------------------------------
(* What ComparisonsRight says of one comparison, of n bits.                *)
Alike(n, a, b) ==
  Len(a) = 1 =>
    \/ Clean(a[1], n) /\ Clean(b[1], n)
    \/ SignExtended(a[1], n) /\ SignExtended(b[1], n)

Signs(n, a, b) ==
  IF Len(a) = 1
  THEN SignExtended(a[1], n) /\ SignExtended(b[1], n)
  ELSE /\ (a[2] < Half \div 2) = (b[2] < Half \div 2)
       /\ \/ a[2] # b[2]
          \/ (a[1] < 0) = (b[1] < 0)

Told(pred, n, a, b, r) ==
  pred \in Predicates =>
    IF pred \in {"slt", "sle", "sge", "sgt"}
    THEN Signs(n, a, b) => r = Flag(Tells(pred, Signed(Unsigned(a) % 2 ^ n, n),
                                                Signed(Unsigned(b) % 2 ^ n, n)))
    ELSE Alike(n, a, b) => r = Flag(Tells(pred, Unsigned(a) % 2 ^ n, Unsigned(b) % 2 ^ n))

LEMMA Relations ==
  ASSUME NEW x, NEW y
  PROVE  /\ Tells("eq", x, y) <=> x = y
         /\ Tells("ne", x, y) <=> x # y
         /\ Tells("slt", x, y) <=> x < y
         /\ Tells("ult", x, y) <=> x < y
         /\ Tells("sle", x, y) <=> x <= y
         /\ Tells("ule", x, y) <=> x <= y
         /\ Tells("sge", x, y) <=> x >= y
         /\ Tells("uge", x, y) <=> x >= y
         /\ Tells("sgt", x, y) <=> x > y
         /\ Tells("ugt", x, y) <=> x > y
<1>1. \A pred : Tells(pred, x, y) =
        CASE pred = "eq" -> x = y
          [] pred = "ne" -> x # y
          [] pred \in {"slt", "ult"} -> x < y
          [] pred \in {"sle", "ule"} -> x <= y
          [] pred \in {"sge", "uge"} -> x >= y
          [] pred \in {"sgt", "ugt"} -> x > y
  BY DEF Tells
<1> QED
  BY <1>1

(* A comparison that holds exactly when its relation does.                 *)
LEMMA ToldUnsigned ==
  ASSUME NEW pred \in Predicates \ {"slt", "sle", "sge", "sgt"}, NEW n, NEW a, NEW b,
         NEW c, NEW x \in Int, NEW y \in Int,
         Unsigned(a) % 2 ^ n = x, Unsigned(b) % 2 ^ n = y,
         Alike(n, a, b) => /\ pred = "eq"  => (c <=> x = y)
                           /\ pred = "ne"  => (c <=> x # y)
                           /\ pred = "ult" => (c <=> x < y)
                           /\ pred = "ule" => (c <=> x <= y)
                           /\ pred = "uge" => (c <=> x >= y)
                           /\ pred = "ugt" => (c <=> x > y)
  PROVE  Told(pred, n, a, b, Flag(c))
<1> SUFFICES ASSUME Alike(n, a, b) PROVE Flag(c) = Flag(Tells(pred, x, y))
  BY Zenon DEF Told
<1>0. /\ Tells("eq", x, y) <=> x = y
      /\ Tells("ne", x, y) <=> x # y
      /\ Tells("ult", x, y) <=> x < y
      /\ Tells("ule", x, y) <=> x <= y
      /\ Tells("uge", x, y) <=> x >= y
      /\ Tells("ugt", x, y) <=> x > y
  BY Relations
<1>1. pred \in {"eq", "ne", "ult", "ule", "uge", "ugt"}
  BY DEF Predicates
<1>2. c <=> Tells(pred, x, y)
  BY <1>0, <1>1
<1> QED
  BY <1>2, Zenon DEF Flag

LEMMA ToldSigned ==
  ASSUME NEW pred \in {"slt", "sle", "sge", "sgt"}, NEW n, NEW a, NEW b,
         NEW c, NEW x \in Int, NEW y \in Int,
         Signs(n, a, b) => /\ Signed(Unsigned(a) % 2 ^ n, n) = x
                           /\ Signed(Unsigned(b) % 2 ^ n, n) = y
                           /\ pred = "slt" => (c <=> x < y)
                           /\ pred = "sle" => (c <=> x <= y)
                           /\ pred = "sge" => (c <=> x >= y)
                           /\ pred = "sgt" => (c <=> x > y)
  PROVE  Told(pred, n, a, b, Flag(c))
<1> SUFFICES ASSUME Signs(n, a, b) PROVE Flag(c) = Flag(Tells(pred, x, y))
  BY Zenon DEF Told
<1>0. /\ Tells("slt", x, y) <=> x < y
      /\ Tells("sle", x, y) <=> x <= y
      /\ Tells("sge", x, y) <=> x >= y
      /\ Tells("sgt", x, y) <=> x > y
  BY Relations
<1>1. c <=> Tells(pred, x, y)
  BY <1>0
<1> QED
  BY <1>1, Zenon DEF Flag

(* One word, of a type of any width.                                       *)
LEMMA WordTold ==
  ASSUME Powers, NEW a \in Word, NEW b \in Word, NEW n \in NarrowBits \union {Bits},
         NEW pred \in Predicates
  PROVE  Told(pred, n, <<a>>, <<b>>, Flag(Compare(pred, a, b)))
<1> DEFINE p == 2 ^ n
           h == 2 ^ (n - 1)
           x == a % p
           y == b % p
           c == Compare(pred, a, b)
<1>1. /\ p \in Nat \ {0} /\ h \in Nat \ {0} /\ p = 2 * h
      /\ Clean(a, n) => a \in Nat /\ x = a
      /\ Clean(b, n) => b \in Nat /\ y = b
      /\ SignExtended(a, n) => /\ -h <= a /\ a < h /\ Signed(x, n) = a
                               /\ x = IF a < 0 THEN a + p ELSE a
      /\ SignExtended(b, n) => /\ -h <= b /\ b < h /\ Signed(y, n) = b
                               /\ y = IF b < 0 THEN b + p ELSE b
  BY HolderIs
<1>2. Unsigned(<<a>>) % p = x /\ Unsigned(<<b>>) % p = y
  <2>1. CASE n \in NarrowBits
    <3>1. n \in 0 .. Bits - 2
      BY <2>1, NarrowWidths
    <3> QED
      BY <3>1, SeenBits
  <2>2. CASE n = Bits
    <3>1. p = Modulus /\ Modulus \in Nat \ {0} /\ Modulus = 2 * HighBit
      BY <2>2, WordSizes
    <3> HIDE DEF p
    <3>2. ASSUME NEW w \in Word PROVE Unsigned(<<w>>) % p = w % p
      <4>1. Unsigned(<<w>>) = U(w) /\ U(w) \in 0 .. Modulus - 1 /\ U(w) = w % Modulus
        BY <3>1, ZeroAbove, UnsignedOf DEF U
      <4>2. U(w) % Modulus = U(w)
        BY <3>1, <4>1, ModSmall
      <4> QED
        BY <3>1, <4>1, <4>2
    <3> QED
      BY <3>2
  <2> QED
    BY <2>1, <2>2
<1>3. /\ a \in Int /\ b \in Int /\ HighBit \in Nat \ {0}
      /\ -HighBit <= a /\ a < HighBit /\ -HighBit <= b /\ b < HighBit
      /\ U(a) = IF a >= 0 THEN a ELSE a + 2 * HighBit
      /\ U(b) = IF b >= 0 THEN b ELSE b + 2 * HighBit
  BY WordSizes, UnsignedWord DEF Word
<1>4. x \in Int /\ y \in Int
  <2> HIDE DEF p
  <2>1. ASSUME NEW w \in Int PROVE w % p \in Int
    BY <1>1
  <2> QED
    BY <1>3, <2>1
<1>5. /\ Compare("eq", a, b)  <=> U(a) = U(b)
      /\ Compare("ne", a, b)  <=> U(a) # U(b)
      /\ Compare("ult", a, b) <=> U(a) < U(b)
      /\ Compare("ule", a, b) <=> U(a) <= U(b)
      /\ Compare("uge", a, b) <=> U(a) >= U(b)
      /\ Compare("ugt", a, b) <=> U(a) > U(b)
      /\ Compare("slt", a, b) <=> a < b
      /\ Compare("sge", a, b) <=> ~ (a < b)
      /\ Compare("sgt", a, b) <=> a > b
      /\ Compare("sle", a, b) <=> ~ (a > b)
  BY <1>3, CompareTells
<1>7. Len(<<a>>) = 1 /\ <<a>>[1] = a /\ <<b>>[1] = b
  OBVIOUS
<1> HIDE DEF p, h, x, y
<1>8. CASE pred \in {"slt", "sle", "sge", "sgt"}
  <2>1. Signs(n, <<a>>, <<b>>) => SignExtended(a, n) /\ SignExtended(b, n)
    BY <1>7, Zenon DEF Signs
  <2>2. /\ pred = "slt" => (c <=> a < b)
        /\ pred = "sle" => (c <=> a <= b)
        /\ pred = "sge" => (c <=> a >= b)
        /\ pred = "sgt" => (c <=> a > b)
    BY <1>3, <1>5
  <2>3. Signs(n, <<a>>, <<b>>) =>
          /\ Signed(Unsigned(<<a>>) % 2 ^ n, n) = a /\ Signed(Unsigned(<<b>>) % 2 ^ n, n) = b
    BY <1>1, <1>2, <2>1 DEF p
  <2> HIDE DEF c
  <2> QED
    BY <1>3, <1>8, <2>2, <2>3, ToldSigned DEF c
<1>9. CASE pred \notin {"slt", "sle", "sge", "sgt"}
  <2>1. Alike(n, <<a>>, <<b>>) =>
          \/ Clean(a, n) /\ Clean(b, n)
          \/ SignExtended(a, n) /\ SignExtended(b, n)
    BY <1>7, Zenon DEF Alike
  <2>2. Alike(n, <<a>>, <<b>>) => (U(a) < U(b) <=> x < y) /\ (U(a) = U(b) <=> x = y)
    <3>1. Clean(a, n) /\ Clean(b, n) => U(a) = x /\ U(b) = y
      BY <1>1, <1>3
    <3>2. SignExtended(a, n) /\ SignExtended(b, n) =>
            (U(a) < U(b) <=> x < y) /\ (U(a) = U(b) <=> x = y)
      BY <1>1, <1>3
    <3> QED
      BY <2>1, <3>1, <3>2
  <2>3. U(a) \in Int /\ U(b) \in Int
    BY UnsignedOf
  <2>4. Alike(n, <<a>>, <<b>>) => /\ pred = "eq"  => (c <=> x = y)
                                  /\ pred = "ne"  => (c <=> x # y)
                                  /\ pred = "ult" => (c <=> x < y)
                                  /\ pred = "ule" => (c <=> x <= y)
                                  /\ pred = "uge" => (c <=> x >= y)
                                  /\ pred = "ugt" => (c <=> x > y)
    BY <1>4, <1>5, <2>2, <2>3
  <2> HIDE DEF c
  <2> QED
    BY <1>2, <1>4, <1>9, <2>4, ToldUnsigned DEF p, c
<1> QED
  BY <1>8, <1>9

(* Two words are ordered by the high one first.                            *)
LEMMA DoubleOrder ==
  ASSUME Powers, NEW a \in Word \X Word, NEW b \in Word \X Word
  PROVE  LET l1 == U(a[1])  h1 == U(a[2])  l2 == U(b[1])  h2 == U(b[2])
             x  == Unsigned(a)  y == Unsigned(b)
         IN /\ x = l1 + Modulus * h1 /\ y = l2 + Modulus * h2 /\ x \in Nat /\ y \in Nat
            /\ x < Modulus * Modulus /\ y < Modulus * Modulus
            /\ x < y <=> (h1 < h2 \/ (h1 = h2 /\ l1 < l2))
            /\ y < x <=> (h2 < h1 \/ (h2 = h1 /\ l2 < l1))
            /\ x = y <=> (h1 = h2 /\ l1 = l2)
            /\ a[1] = b[1] <=> l1 = l2
            /\ a[2] = b[2] <=> h1 = h2
<1> DEFINE l1 == U(a[1])  h1 == U(a[2])  l2 == U(b[1])  h2 == U(b[2])
           x  == Unsigned(a)  y == Unsigned(b)
<1>1. /\ a[1] \in Word /\ a[2] \in Word /\ b[1] \in Word /\ b[2] \in Word
      /\ a = <<a[1], a[2]>> /\ b = <<b[1], b[2]>>
      /\ Modulus \in Nat \ {0} /\ HighBit \in Nat \ {0}
  BY DoubleParts, WordSizes
<1>2. /\ x = l1 + Modulus * h1 /\ y = l2 + Modulus * h2
      /\ x \in 0 .. Modulus * Modulus - 1 /\ y \in 0 .. Modulus * Modulus - 1
      /\ l1 \in 0 .. Modulus - 1 /\ h1 \in 0 .. Modulus - 1
      /\ l2 \in 0 .. Modulus - 1 /\ h2 \in 0 .. Modulus - 1
  <2>1. \A lo, hi \in Word :
          /\ Unsigned(<<lo, hi>>) = U(lo) + Modulus * U(hi)
          /\ Unsigned(<<lo, hi>>) \in 0 .. Modulus * Modulus - 1
          /\ U(lo) \in 0 .. Modulus - 1 /\ U(hi) \in 0 .. Modulus - 1
    BY UnsignedDouble
  <2> QED
    BY <1>1, <2>1
<1>3. /\ a[1] = b[1] <=> l1 = l2
      /\ a[2] = b[2] <=> h1 = h2
  BY <1>1, UnsignedLessTells
<1> HIDE DEF l1, l2, h1, h2, x, y
<1>4. /\ x < y <=> (h1 < h2 \/ (h1 = h2 /\ l1 < l2))
      /\ y < x <=> (h2 < h1 \/ (h2 = h1 /\ l2 < l1))
      /\ x = y <=> (h1 = h2 /\ l1 = l2)
  <2>1. h1 \in Nat /\ h2 \in Nat
    BY <1>1, <1>2
  <2> QED
    BY <1>1, <1>2, <2>1, TwoDigits
<1>5. x \in Nat /\ y \in Nat /\ x < Modulus * Modulus /\ y < Modulus * Modulus
  <2>1. Modulus * Modulus \in Nat
    BY <1>1
  <2> QED
    BY <1>2, <2>1
<1> QED
  BY <1>2, <1>3, <1>4, <1>5 DEF l1, l2, h1, h2, x, y

(* An i64.                                                                 *)
LEMMA Told64 ==
  ASSUME Powers, NEW a \in Word \X Word, NEW b \in Word \X Word,
         NEW pred \in {"eq", "ne", "ugt", "ult"}
  PROVE  Told(pred, 2 * Bits, a, b, Flag(Compare64(pred, a, b)))
<1> DEFINE l1 == U(a[1])  h1 == U(a[2])  l2 == U(b[1])  h2 == U(b[2])
           x  == Unsigned(a)  y == Unsigned(b)
           c  == Compare64(pred, a, b)
<1>1. /\ x \in Nat /\ y \in Nat /\ x < Modulus * Modulus /\ y < Modulus * Modulus
      /\ x < y <=> (h1 < h2 \/ (h1 = h2 /\ l1 < l2))
      /\ y < x <=> (h2 < h1 \/ (h2 = h1 /\ l2 < l1))
      /\ x = y <=> (h1 = h2 /\ l1 = l2)
      /\ a[1] = b[1] <=> l1 = l2
      /\ a[2] = b[2] <=> h1 = h2
  BY DoubleOrder
<1>2. /\ HighBit \in Nat \ {0} /\ Modulus \in Nat \ {0} /\ 2 ^ (2 * Bits) = Modulus * Modulus
      /\ a[1] \in Word /\ a[2] \in Word /\ b[1] \in Word /\ b[2] \in Word
  <2>1. 2 * Bits = Bits * 2
    BY WordSizes
  <2> QED
    BY <2>1, WordSizes, DoubleParts
<1>3. /\ l1 \in Int /\ h1 \in Int /\ l2 \in Int /\ h2 \in Int
      /\ Compare("ult", a[1], b[1]) <=> l1 < l2
      /\ Compare("ugt", a[1], b[1]) <=> l1 > l2
      /\ Compare("ult", a[2], b[2]) <=> h1 < h2
      /\ Compare("ugt", a[2], b[2]) <=> h1 > h2
  BY <1>2, CompareTells, UnsignedOf
<1> HIDE DEF l1, h1, l2, h2, x, y
<1>4. /\ pred = "eq"  => (c <=> x = y)
      /\ pred = "ne"  => (c <=> x # y)
      /\ pred = "ult" => (c <=> x < y)
      /\ pred = "ugt" => (c <=> x > y)
  BY <1>1, <1>3 DEF Compare64
<1>6. pred \in Predicates \ {"slt", "sle", "sge", "sgt"} /\ pred # "ule" /\ pred # "uge"
  BY DEF Predicates
<1>7. x % 2 ^ (2 * Bits) = x /\ y % 2 ^ (2 * Bits) = y
  <2> DEFINE m == Modulus * Modulus
  <2>1. m \in Nat \ {0}
    BY <1>2
  <2> HIDE DEF m
  <2>2. x < m /\ y < m
    BY <1>1 DEF m
  <2> QED
    BY <1>1, <1>2, <2>1, <2>2, ModSmall DEF m
<1> DEFINE n == 2 * Bits
<1> HIDE DEF c, n
<1>8. Told(pred, n, a, b, Flag(c))
  BY <1>1, <1>4, <1>6, <1>7, ToldUnsigned DEF x, y, n
<1> QED
  BY <1>8 DEF c, n

(* The bits of an i48.                                                     *)
LEMMA Sign48 ==
  ASSUME Powers, NEW l \in 0 .. Modulus - 1, NEW h \in 0 .. Half - 1,
         NEW v, v = l + Modulus * h
  PROVE  /\ v % 2 ^ (6 * ByteBits) = v
         /\ Signed(v, 6 * ByteBits) = IF h < Half \div 2 THEN v ELSE v - Modulus * Half
<1> DEFINE m == Modulus
           e == 6 * ByteBits - 1
           q == 2 ^ (ByteBits - 1) * Byte
           x == l + m * h
           s == m * Half
<1>1. /\ m \in Nat \ {0} /\ Half \in Nat \ {0} /\ Byte \in Nat \ {0} /\ Half = Byte * Byte
      /\ 2 ^ (6 * ByteBits) = s /\ ByteBits \in Nat \ {0} /\ 2 ^ ByteBits = Byte
      /\ l \in Int /\ h \in Int /\ 0 <= l /\ l < m /\ 0 <= h /\ h < Half
  BY Width48, WordSizes, ByteSize, BytePlace
<1>2. q \in Nat \ {0} /\ Half = 2 * q
  <2> DEFINE k == ByteBits - 1
             g == 2 ^ k
  <2>1. k \in Nat /\ k + 1 = ByteBits
    BY <1>1
  <2> HIDE DEF k
  <2>2. g \in Nat \ {0} /\ 2 ^ (k + 1) = 2 * g
    BY <2>1 DEF Powers
  <2>3. Byte = 2 * g
    BY <1>1, <2>1, <2>2
  <2> HIDE DEF g
  <2>4. \A b \in Nat \ {0} : g * b \in Nat \ {0} /\ (2 * g) * b = 2 * (g * b)
    BY <2>2, Z3
  <2> QED
    BY <1>1, <2>3, <2>4 DEF g, k
<1> HIDE DEF q, m
<1>3. Half \div 2 = q
  BY <1>2
<1>4. 2 ^ e = m * q /\ s = 2 * (m * q) /\ m * q \in Nat \ {0} /\ s \in Nat \ {0}
  <2>1. e \in Nat /\ e + 1 = 6 * ByteBits
    BY <1>1
  <2> HIDE DEF e
  <2>2. 2 ^ e \in Nat \ {0} /\ 2 ^ (e + 1) = 2 * 2 ^ e
    BY <2>1 DEF Powers
  <2>3. s = 2 * (m * q) /\ m * q \in Nat \ {0}
    BY <1>1, <1>2, Z3
  <2> QED
    BY <1>1, <2>1, <2>2, <2>3
<1>5. m * h \in Nat /\ x \in Nat
  BY <1>1, Z3
<1>6. x < s
  <2>1. m * h <= m * (Half - 1)
    BY <1>1, Z3
  <2>2. m * (Half - 1) = s - m
    BY <1>1, Z3
  <2> QED
    BY <1>1, <1>4, <1>5, <2>1, <2>2
<1>7. x < m * q <=> h < q
  <2>1. CASE h < q
    <3>1. m * h <= m * (q - 1)
      BY <1>1, <1>2, <2>1, Z3
    <3>2. m * (q - 1) = m * q - m
      BY <1>1, <1>2, Z3
    <3> QED
      BY <1>1, <1>4, <1>5, <2>1, <3>1, <3>2
  <2>2. CASE ~ (h < q)
    <3>1. m * h >= m * q
      BY <1>1, <1>2, <2>2, Z3
    <3> QED
      BY <1>1, <1>4, <1>5, <2>2, <3>1
  <2> QED
    BY <2>1, <2>2
<1>8. Signed(x, 6 * ByteBits) = IF x < 2 ^ e THEN x ELSE x - 2 ^ (6 * ByteBits)
  BY DEF Signed
<1> HIDE DEF x, s, e
<1>9. x % s = x
  BY <1>4, <1>5, <1>6, ModSmall
<1>10. Signed(x, 6 * ByteBits) = IF h < Half \div 2 THEN x ELSE x - s
  BY <1>1, <1>3, <1>4, <1>7, <1>8
<1>11. v = x /\ s = Modulus * Half
  BY DEF x, s, m
<1>12. /\ v % s = v
       /\ Signed(v, 6 * ByteBits) = IF h < Half \div 2 THEN v ELSE v - s
  BY <1>9, <1>10, <1>11, Zenon
<1>13. 2 ^ (6 * ByteBits) = s
  BY <1>1
<1>14. v % 2 ^ (6 * ByteBits) = v
  BY <1>12, <1>13, Zenon
<1> QED
  BY <1>11, <1>12, <1>14, Zenon

(* An i48: every predicate.                                                *)
LEMMA Told48 ==
  ASSUME Powers, NEW a \in Word \X Word, NEW b \in Word \X Word,
         a[2] \in 0 .. Half - 1, b[2] \in 0 .. Half - 1, NEW pred \in Predicates
  PROVE  Told(pred, 6 * ByteBits, a, b, Flag(Compare48(pred, a, b)))
<1> DEFINE l1 == U(a[1])  h1 == U(a[2])  l2 == U(b[1])  h2 == U(b[2])
           x  == Unsigned(a)  y == Unsigned(b)
           n  == 6 * ByteBits
           s  == Modulus * Half
           c  == Compare48(pred, a, b)
           q  == Half \div 2
<1>1. /\ x = l1 + Modulus * h1 /\ y = l2 + Modulus * h2 /\ x \in Nat /\ y \in Nat
      /\ x < y <=> (h1 < h2 \/ (h1 = h2 /\ l1 < l2))
      /\ y < x <=> (h2 < h1 \/ (h2 = h1 /\ l2 < l1))
      /\ x = y <=> (h1 = h2 /\ l1 = l2)
      /\ a[1] = b[1] <=> l1 = l2
      /\ a[2] = b[2] <=> h1 = h2
  BY DoubleOrder
<1>2. /\ HighBit \in Nat \ {0} /\ Half \in Nat \ {0}
      /\ a[1] \in Word /\ a[2] \in Word /\ b[1] \in Word /\ b[2] \in Word
      /\ a[1] \in Int /\ b[1] \in Int /\ a[2] \in Nat /\ b[2] \in Nat
      /\ a = <<a[1], a[2]>>
  BY WordSizes, DoubleParts DEF Word
<1>3. /\ l1 \in 0 .. Modulus - 1 /\ l2 \in 0 .. Modulus - 1 /\ l1 \in Int /\ l2 \in Int
      /\ h1 = a[2] /\ h2 = b[2]
      /\ (a[1] < 0) = (b[1] < 0) => (a[1] < b[1] <=> l1 < l2)
  <2>1. /\ l1 = IF a[1] >= 0 THEN a[1] ELSE a[1] + 2 * HighBit
        /\ l2 = IF b[1] >= 0 THEN b[1] ELSE b[1] + 2 * HighBit
        /\ h1 = a[2] /\ h2 = b[2]
    BY <1>2, UnsignedWord
  <2>2. l1 \in 0 .. Modulus - 1 /\ l2 \in 0 .. Modulus - 1 /\ l1 \in Int /\ l2 \in Int
    BY <1>2, UnsignedOf
  <2> QED
    BY <1>2, <2>1, <2>2
<1>4. /\ x % 2 ^ n = x /\ y % 2 ^ n = y /\ s \in Nat
      /\ Signed(x, n) = IF a[2] < q THEN x ELSE x - s
      /\ Signed(y, n) = IF b[2] < q THEN y ELSE y - s
  <2>1. s \in Nat /\ \A l \in 0 .. Modulus - 1, h \in 0 .. Half - 1 : \A v :
          v = l + Modulus * h => /\ v % 2 ^ n = v
                                 /\ Signed(v, n) = IF h < q THEN v ELSE v - s
    <3>1. s \in Nat
      BY WordSizes
    <3>2. ASSUME NEW l \in 0 .. Modulus - 1, NEW h \in 0 .. Half - 1,
                 NEW v, v = l + Modulus * h
          PROVE  v % 2 ^ n = v /\ Signed(v, n) = IF h < q THEN v ELSE v - s
      BY <3>2, Sign48
    <3> QED
      BY <3>1, <3>2, Zenon
  <2>2. PICK g1 \in 0 .. Half - 1, g2 \in 0 .. Half - 1 : g1 = a[2] /\ g2 = b[2]
    OBVIOUS
  <2>3. x = l1 + Modulus * g1 /\ y = l2 + Modulus * g2
    BY <1>1, <1>3, <2>2
  <2> HIDE DEF s, q, n, l1, l2, x, y, h1, h2
  <2>4. l1 \in 0 .. Modulus - 1 /\ l2 \in 0 .. Modulus - 1
    BY <1>3
  <2>5. /\ x % 2 ^ n = x /\ y % 2 ^ n = y
        /\ Signed(x, n) = IF g1 < q THEN x ELSE x - s
        /\ Signed(y, n) = IF g2 < q THEN y ELSE y - s
    BY <2>1, <2>3, <2>4, Zenon
  <2> QED
    BY <2>1, <2>2, <2>5
<1>5. /\ Compare("eq", a[1], b[1])  <=> l1 = l2
      /\ Compare("ne", a[1], b[1])  <=> l1 # l2
      /\ Compare("ult", a[1], b[1]) <=> l1 < l2
      /\ Compare("ule", a[1], b[1]) <=> l1 <= l2
      /\ Compare("uge", a[1], b[1]) <=> l1 >= l2
      /\ Compare("ugt", a[1], b[1]) <=> l1 > l2
      /\ Compare("slt", a[1], b[1]) <=> a[1] < b[1]
      /\ Compare("sge", a[1], b[1]) <=> ~ (a[1] < b[1])
      /\ Compare("sgt", a[1], b[1]) <=> a[1] > b[1]
      /\ Compare("sle", a[1], b[1]) <=> ~ (a[1] > b[1])
  BY <1>2, CompareTells
<1>6. /\ Compare("eq", a[2], b[2])  <=> h1 = h2
      /\ Compare("ne", a[2], b[2])  <=> h1 # h2
      /\ Compare("ult", a[2], b[2]) <=> h1 < h2
      /\ Compare("ule", a[2], b[2]) <=> h1 <= h2
      /\ Compare("uge", a[2], b[2]) <=> h1 >= h2
      /\ Compare("ugt", a[2], b[2]) <=> h1 > h2
      /\ Compare("slt", a[2], b[2]) <=> a[2] < b[2]
      /\ Compare("sge", a[2], b[2]) <=> ~ (a[2] < b[2])
      /\ Compare("sgt", a[2], b[2]) <=> a[2] > b[2]
      /\ Compare("sle", a[2], b[2]) <=> ~ (a[2] > b[2])
  BY <1>2, CompareTells
<1>9. c = IF a[2] = b[2] THEN Compare(pred, a[1], b[1]) ELSE Compare(pred, a[2], b[2])
  BY DEF Compare48
<1> HIDE DEF l1, h1, l2, h2, x, y, c, n, s, q
<1>10. CASE pred \in {"slt", "sle", "sge", "sgt"}
  <2> DEFINE v == Signed(x, n)
             w == Signed(y, n)
  <2>1. v \in Int /\ w \in Int
    BY <1>1, <1>4
  <2>2. Signs(n, a, b) => /\ (a[2] < q) = (b[2] < q)
                          /\ a[2] # b[2] \/ (a[1] < 0) = (b[1] < 0)
    <3>1. Len(a) # 1
      BY <1>2
    <3> QED
      BY <3>1, Zenon DEF Signs, q
  <2>3. Signs(n, a, b) => (v < w <=> x < y) /\ (v > w <=> x > y)
    BY <1>1, <1>2, <1>4, <2>2
  <2>4. Signs(n, a, b) => /\ a[2] = b[2] => (a[1] < b[1] <=> l1 < l2) /\ (a[1] > b[1] <=> l1 > l2)
    BY <1>1, <1>2, <1>3, <2>2
  <2> HIDE DEF v, w
  <2>5. Signs(n, a, b) => /\ pred = "slt" => (c <=> x < y)
                          /\ pred = "sle" => (c <=> ~ (x > y))
                          /\ pred = "sge" => (c <=> ~ (x < y))
                          /\ pred = "sgt" => (c <=> x > y)
    BY <1>1, <1>2, <1>3, <1>5, <1>6, <1>9, <2>4
  <2>6. Signs(n, a, b) => /\ pred = "slt" => (c <=> v < w)
                          /\ pred = "sle" => (c <=> v <= w)
                          /\ pred = "sge" => (c <=> v >= w)
                          /\ pred = "sgt" => (c <=> v > w)
    BY <2>1, <2>3, <2>5
  <2>7. Signed(Unsigned(a) % 2 ^ n, n) = v /\ Signed(Unsigned(b) % 2 ^ n, n) = w
    BY <1>4 DEF v, w, x, y
  <2>8. Told(pred, n, a, b, Flag(c))
    BY <1>10, <2>1, <2>6, <2>7, ToldSigned
  <2> QED
    BY <2>8 DEF n, c
<1>11. CASE pred \notin {"slt", "sle", "sge", "sgt"}
  <2>1. /\ pred = "eq"  => (c <=> x = y)
        /\ pred = "ne"  => (c <=> x # y)
        /\ pred = "ult" => (c <=> x < y)
        /\ pred = "ule" => (c <=> x <= y)
        /\ pred = "uge" => (c <=> x >= y)
        /\ pred = "ugt" => (c <=> x > y)
    BY <1>1, <1>2, <1>3, <1>5, <1>6, <1>9
  <2>2. Told(pred, n, a, b, Flag(c))
    BY <1>1, <1>4, <1>11, <2>1, ToldUnsigned DEF x, y
  <2> QED
    BY <2>2 DEF n, c
<1> QED
  BY <1>10, <1>11

(* Every comparison that the compiler emits, of one word of any width, of  *)
(* an i64 and of an i48, by every predicate it has for the type, is right  *)
(* for words of any length wherever its operands are held alike, or, if it *)
(* is signed, with their signs (ComparisonsRight, which run words checks   *)
(* for eight bits).                                                        *)
THEOREM ComparisonsCorrect ==
  ASSUME Powers
  PROVE  Spec => []ComparisonsRight
<1> USE Powers
<1>1. Init => ComparisonsRight
  BY DEF Init, NoInstr, ComparisonsRight, Predicates
<1>2. ASSUME NEW op, NEW const, NEW bits, NEW a, NEW b, NEW s,
             Executes(op, const, bits, a, b, s)
      PROVE  /\ Told(op, bits, a, b, dest'[1]) => ComparisonsRight'
             /\ op \notin Predicates => ComparisonsRight'
  <2>1. instr'.op = op /\ instr'.a = a /\ instr'.b = b /\ instr'.bits = bits
    BY <1>2 DEF Executes
  <2>2. (HeldAlike' <=> Alike(bits, a, b)) /\ (SignsHeld' <=> Signs(bits, a, b))
    BY <2>1, Zenon DEF HeldAlike, Alike, SignsHeld, Signs
  <2>3. LowA' = Unsigned(a) % 2 ^ bits /\ LowB' = Unsigned(b) % 2 ^ bits
    BY <2>1, Zenon DEF LowA, LowB, UA, UB
  <2>4. ComparisonsRight' <=> Told(op, bits, a, b, dest'[1])
    BY <2>1, <2>2, <2>3, Zenon DEF ComparisonsRight, Told
  <2>5. op \notin Predicates => Told(op, bits, a, b, dest'[1])
    BY Zenon DEF Told
  <2> QED
    BY <2>4, <2>5
<1>3. ASSUME ICmp PROVE ComparisonsRight'
  <2>1. PICK a \in Operands, b \in Operands, pred \in Predicates, bits \in NarrowBits \union {Bits} :
          Compares(pred, bits, <<a>>, <<b>>) /\ dest' = <<Flag(Compare(pred, a, b))>>
    BY <1>3, Zenon DEF ICmp
  <2>2. a \in Word /\ b \in Word /\ dest'[1] = Flag(Compare(pred, a, b))
    BY <2>1, OperandsAssumption
  <2>3. Told(pred, bits, <<a>>, <<b>>, dest'[1])
    BY <2>2, WordTold
  <2> QED
    BY <2>1, <2>3, <1>2 DEF Compares
<1>4. ASSUME ICmp64 PROVE ComparisonsRight'
  <2>1. PICK a \in Doubles, b \in Doubles, pred \in {"eq", "ne", "ugt", "ult"} :
          Compares(pred, 2 * Bits, a, b) /\ dest' = <<Flag(Compare64(pred, a, b))>>
    BY <1>4, Zenon DEF ICmp64
  <2>2. a \in Word \X Word /\ b \in Word \X Word /\ dest'[1] = Flag(Compare64(pred, a, b))
    BY <2>1, OperandsAssumption DEF Doubles
  <2>3. Told(pred, 2 * Bits, a, b, dest'[1])
    BY <2>2, Told64
  <2> QED
    BY <2>1, <2>3, <1>2 DEF Compares
<1>5. ASSUME ICmp48 PROVE ComparisonsRight'
  <2>1. PICK a \in Doubles, b \in Doubles, pred \in Predicates :
          /\ a[2] \in 0 .. Half - 1 /\ b[2] \in 0 .. Half - 1
          /\ Compares(pred, 6 * ByteBits, a, b) /\ dest' = <<Flag(Compare48(pred, a, b))>>
    BY <1>5, Zenon DEF ICmp48
  <2>2. a \in Word \X Word /\ b \in Word \X Word /\ dest'[1] = Flag(Compare48(pred, a, b))
    BY <2>1, OperandsAssumption DEF Doubles
  <2>3. Told(pred, 6 * ByteBits, a, b, dest'[1])
    BY <2>1, <2>2, Told48
  <2> QED
    BY <2>1, <2>3, <1>2 DEF Compares
<1>6. ASSUME \/ AddWord \/ SubWord \/ MulWord \/ SDiv \/ SRem \/ UDiv \/ URem
             \/ Add64Words \/ Sub64Words \/ Mul64Words
             \/ USubOverflow \/ UAddByte \/ USubByte
      PROVE  ComparisonsRight'
  BY <1>2, <1>6, SumOpsOnly DEF SumOps, Predicates
<1>7. ASSUME NextShift PROVE ComparisonsRight'
  BY <1>2, <1>7, ShiftOpsOnly DEF ShiftOps, Predicates
<1>8. ASSUME ComparisonsRight, UNCHANGED vars PROVE ComparisonsRight'
  BY <1>8, Zenon DEF vars, ComparisonsRight, HeldAlike, SignsHeld, LowA, LowB, UA, UB
<1>9. ASSUME NextConversion PROVE ComparisonsRight'
  BY <1>2, <1>9, ConversionOpsOnly DEF ConversionOps, Predicates
<1>10. ASSUME NextVector PROVE ComparisonsRight'
  BY <1>2, <1>10, VectorOpsOnly DEF VectorOps, LaneOps, Predicates
<1>11. ComparisonsRight /\ [Next]_vars => ComparisonsRight'
  BY <1>3, <1>4, <1>5, <1>6, <1>7, <1>8, <1>9, <1>10 DEF Next, NextArithmetic
<1> QED
  BY <1>1, <1>11, PTL DEF Spec

-----------------------------------------------------------------------------
(* Types, and the constants that are read.                                 *)

(* Operands and results: as many words as TypeOK allows.                   *)
Vec(ws) == Len(ws) \in {0, 1, 2, 4} /\ \A i \in DOMAIN ws : ws[i] \in Word

LEMMA VectorOf ==
  ASSUME NEW n \in {0, 1, 2, 4}, NEW f \in [1 .. n -> Word]
  PROVE  Vec(f)
<1>1. n \in Nat /\ f \in Seq(Word)
  BY DEF Seq
<1>2. DOMAIN f = 1 .. n /\ Len(f) \in Nat /\ DOMAIN f = 1 .. Len(f)
  BY <1>1, LenProperties
<1>3. Len(f) = n
  BY <1>1, <1>2
<1> QED
  BY <1>2, <1>3 DEF Vec

(* The vectors that the instructions make.                                 *)
LEMMA VectorsAre ==
         /\ Vec(<<>>)
         /\ \A v \in Word : Vec(<<v>>)
         /\ \A v, w \in Word : Vec(<<v, w>>)
         /\ \A ws \in Word \X Word : Vec(ws)
         /\ \A ws \in [{1, 2} -> Word] : Vec(ws)
         /\ \A ws \in [1 .. 4 -> Word] : Vec(ws)
<1>1. Vec(<<>>) /\ \A v \in Word : Vec(<<v>>)
  BY DEF Vec
<1>2. \A v, w \in Word : Vec(<<v, w>>)
  BY DEF Vec
<1>3. \A ws \in Word \X Word : Vec(ws)
  BY DEF Vec
<1>4. \A ws \in [{1, 2} -> Word] : Vec(ws)
  <2>1. {1, 2} = 1 .. 2 /\ 2 \in {0, 1, 2, 4}
    OBVIOUS
  <2> QED
    BY <2>1, VectorOf
<1>5. \A ws \in [1 .. 4 -> Word] : Vec(ws)
  <2>1. 4 \in {0, 1, 2, 4}
    OBVIOUS
  <2> QED
    BY <2>1, VectorOf
<1> QED
  BY <1>1, <1>2, <1>3, <1>4, <1>5

(* What an instruction has to show, for TypeOK and OtherConstantsSet.      *)
LEMMA WellTyped ==
  ASSUME Powers, NEW op, NEW const, NEW bits, NEW a, NEW b, NEW s,
         Executes(op, const, bits, a, b, s), Vec(a), Vec(b), Vec(dest'),
         passed' \in BOOLEAN
  PROVE  /\ cited' \subseteq Word => TypeOK'
         /\ cited' \subseteq Initialised => TypeOK' /\ OtherConstantsSet'
         /\ op = "sub" /\ Len(a) = 2 => OtherConstantsSet'
         /\ const /\ (s = Bits - 1 \/ (op = "lshr" /\ s = 1)) => OtherConstantsSet'
<1>1. /\ instr'.op = op /\ instr'.a = a /\ instr'.b = b
      /\ instr'.s = s /\ instr'.const = const
  BY DEF Executes
<1>2. Initialised \subseteq Word
  BY InitialisedAre
<1>3. TypeOK' <=> /\ \A ws \in {a, b, dest'} : Vec(ws)
                  /\ cited' \subseteq Word /\ passed' \in BOOLEAN
  BY <1>1, Zenon DEF TypeOK, Vec
<1>4. cited' \subseteq Word => TypeOK'
  BY <1>3
<1>5. OtherConstantsSet' <=>
        (/\ ~ (op = "sub" /\ Len(a) = 2)
         /\ const => s # Bits - 1 /\ (op = "lshr" => s # 1)
         => cited' \subseteq Initialised)
  BY <1>1, Zenon DEF OtherConstantsSet
<1> QED
  BY <1>2, <1>4, <1>5, Zenon

LEMMA QuotientWord ==
  ASSUME Powers, NEW a \in Word, NEW b \in Word, b # 0
  PROVE  Over(a, b) \in Word
<1> DEFINE m == IF a < 0 THEN -a ELSE a
           d == IF b < 0 THEN -b ELSE b
           q == m \div d
<1>1. m \in Nat /\ d \in Nat \ {0}
  BY WordSizes DEF Word
<1> HIDE DEF m, d
<1>2. q \in Int
  BY <1>1
<1> HIDE DEF q
<1>3. Wrap(q) \in Word /\ Wrap(-q) \in Word
  <2>1. \A n \in Int : Wrap(n) \in Word
    BY WrapCongruent
  <2> QED
    BY <1>2, <2>1
<1>4. Over(a, b) = Wrap(IF (a < 0) = (b < 0) THEN q ELSE -q)
  BY DEF Over, m, d, q
<1> QED
  BY <1>3, <1>4

(* 1 << s and powtab[s] are words other than 0, also the last.             *)
LEMMA OneWordIs ==
  ASSUME Powers, NEW s \in 0 .. Bits - 1
  PROVE  One(s) \in Word /\ One(s) # 0 /\ One(s) = Power(s)
<1>1. 2 ^ s \in Int /\ HighBit \in Nat \ {0} /\ Bits \in Nat
  BY OneIs, WordSizes
<1>2. One(s) \in Word
  BY <1>1, WrapCongruent DEF One, Power
<1>3. CASE s < Bits - 1
  BY <1>1, <1>2, <1>3, OneIs DEF One
<1>4. CASE s = Bits - 1
  <2>1. 2 ^ s = HighBit
    BY <1>4 DEF HighBit
  <2>2. One(s) = ((HighBit + HighBit) % (2 * HighBit)) - HighBit
    BY <2>1 DEF One, Power, Wrap
  <2>3. (HighBit + HighBit) % (2 * HighBit) = 0
    BY <1>1
  <2> QED
    BY <1>1, <1>2, <2>2, <2>3 DEF One
<1> QED
  BY <1>1, <1>3, <1>4

(* Whatever lshr and shl are given for a distance, a word comes out.       *)
LEMMA ShiftedWord ==
  ASSUME Powers, NEW a \in Word
  PROVE  /\ \A s \in Int : Shl(a, s) \in Word
         /\ \A s \in Int : Lshr(a, s) \in Word
         /\ \A s \in 0 .. Bits - 1 : Ashr(a, s) \in Word
<1>1. \A s \in Int : Shl(a, s) \in Word
  BY ShlIs
<1>2. ASSUME NEW s \in Int PROVE Lshr(a, s) \in Word
  <2>1. CASE s \in 0 .. Bits
    BY <2>1, LshrWord
  <2>2. CASE s < 0
    BY <2>2, WordSizes DEF Lshr
  <2>3. CASE s > Bits
    BY <2>3, WordSizes, WordsNearZero DEF Lshr
  <2> QED
    BY <2>1, <2>2, <2>3, WordSizes
<1>3. ASSUME NEW s \in 0 .. Bits - 1 PROVE Ashr(a, s) \in Word
  <2> DEFINE p == Power(s)
             low == - (p - 1)
             n == IF a < 0 THEN Add(a, low) ELSE a
  <2>1. p \in Word /\ p # 0
    BY OneWordIs
  <2> HIDE DEF p
  <2>2. a \in Int /\ p \in Int /\ low \in Int
    BY <2>1, WordSizes DEF Word
  <2> HIDE DEF low
  <2>3. a + low \in Int
    BY <2>2
  <2>4. Add(a, low) \in Word
    BY <2>3, WrapCongruent DEF Add
  <2>5. n \in Word
    BY <2>4
  <2> HIDE DEF n
  <2>6. Over(n, p) \in Word
    BY <2>1, <2>5, QuotientWord
  <2> QED
    BY <2>6 DEF Ashr, n, p, low
<1> QED
  BY <1>1, <1>2, <1>3

-----------------------------------------------------------------------------
(* Shifts: every result is a word, every constant is set.                  *)

(* One word out of one or two, and two out of two.                         *)
LEMMA WellTypedWord ==
  ASSUME Powers, NEW op, NEW const, NEW bits, NEW a, NEW b, NEW s, NEW w \in Word,
         Executes(op, const, bits, a, b, s), Vec(a), Vec(b), dest' = <<w>>,
         cited' \subseteq Initialised, passed' \in BOOLEAN
  PROVE  TypeOK' /\ OtherConstantsSet'
<1>1. Vec(dest')
  BY VectorsAre
<1> QED
  BY <1>1, WellTyped

LEMMA OperandWords ==
  ASSUME Powers
  PROVE  /\ Operands \subseteq Word
         /\ \A bits \in Narrow \union {Bits} : bits \in Nat /\ bits - 1 <= Bits - 1
         /\ {0, 1} \subseteq Word
<1>1. Operands \subseteq Word
  BY OperandsAssumption
<1>2. \A bits \in Narrow \union {Bits} : bits \in Nat /\ bits - 1 <= Bits - 1
  BY NarrowAre, WordSizes
<1> QED
  BY <1>1, <1>2, WordsNearZero

(* Products by a constant and remainders of it.                            *)
LEMMA ConstantWords ==
  ASSUME Powers, NEW a \in Word
  PROVE  /\ \A c \in Word : TimesConst(a, c) \in Word /\ Times(a, c) \in Word
         /\ \A b \in Word : Add(a, b) \in Word /\ Wrap(a - b) \in Word
         /\ \A b \in Word : b > 0 => ModConst(a, b) \in Word /\ Mod(a, b) \in Word
<1>1. Word \subseteq Int
  BY WordSizes DEF Word
<1>2. \A n \in Int : Wrap(n) \in Word
  BY WrapCongruent
<1>3. ASSUME NEW c \in Word PROVE TimesConst(a, c) \in Word /\ Times(a, c) \in Word
  <2>1. a * c \in Int
    BY <1>1
  <2> QED
    BY <1>2, <2>1, WordsNearZero DEF TimesConst, Times
<1>4. ASSUME NEW b \in Word PROVE Add(a, b) \in Word /\ Wrap(a - b) \in Word
  <2>1. a + b \in Int /\ a - b \in Int
    BY <1>1
  <2> QED
    BY <1>2, <2>1 DEF Add
<1>5. ASSUME NEW b \in Word, b > 0 PROVE ModConst(a, b) \in Word /\ Mod(a, b) \in Word
  <2>1. (a % b) \in 0 .. b - 1
    BY <1>1, <1>5
  <2>2. a % b \in Word
    BY <2>1, WordSizes DEF Word
  <2> QED
    BY <2>2 DEF ModConst, Mod
<1> QED
  BY <1>3, <1>4, <1>5

(* The shifts of one word.                                                 *)
LEMMA WordShiftsTyped ==
  ASSUME Powers, passed \in BOOLEAN,
         \/ ShlVariable \/ ShlConst \/ LshrVariable \/ AshrVariable
         \/ FunnelShift \/ CountZeros \/ BitwiseWord \/ BitwiseFlag
  PROVE  TypeOK' /\ OtherConstantsSet'
<1> USE Powers
<1>1. /\ -1 \in Initialised /\ 2 \in Initialised /\ Bits \in Initialised
      /\ Initialised \subseteq Word
  BY InitialisedAre, LengthAssumption
<1>2. CASE ShlVariable
  <2>1. PICK bits \in Narrow \union {Bits} : \E a \in Operands, s \in 0 .. bits - 1 :
          /\ Executes("shl", FALSE, bits, <<a>>, <<>>, s)
          /\ dest' = <<IF bits < Bits THEN ModConst(Shl(a, s), One(bits)) ELSE Shl(a, s)>>
          /\ cited' = {2} \union (IF bits < Bits THEN {One(bits)} ELSE {})
          /\ UNCHANGED passed
    BY <1>2, Zenon DEF ShlVariable
  <2>2. PICK a \in Operands, s \in 0 .. bits - 1 :
          /\ Executes("shl", FALSE, bits, <<a>>, <<>>, s)
          /\ dest' = <<IF bits < Bits THEN ModConst(Shl(a, s), One(bits)) ELSE Shl(a, s)>>
          /\ cited' = {2} \union (IF bits < Bits THEN {One(bits)} ELSE {})
          /\ UNCHANGED passed
    BY <2>1, Zenon
  <2>3. a \in Word /\ s \in Int
    BY OperandWords
  <2>4. Shl(a, s) \in Word
    BY <2>3, ShiftedWord
  <2>5. bits < Bits => /\ One(bits) \in Initialised /\ One(bits) > 0
    <3> SUFFICES ASSUME bits < Bits PROVE One(bits) \in Initialised /\ One(bits) > 0
      OBVIOUS
    <3>1. bits \in Narrow
      BY WordSizes
    <3>2. bits \in 0 .. Bits - 2 /\ One(bits) = 2 ^ bits /\ 2 ^ bits \in Nat \ {0}
      BY <3>1, NarrowAre
    <3>3. 2 ^ bits \in Initialised
      BY <3>2, InitialisedAre
    <3> QED
      BY <3>2, <3>3
  <2> DEFINE w == IF bits < Bits THEN ModConst(Shl(a, s), One(bits)) ELSE Shl(a, s)
  <2>6. w \in Word
    BY <1>1, <2>4, <2>5, ConstantWords
  <2> HIDE DEF w
  <2>7. cited' \subseteq Initialised
    BY <1>1, <2>2, <2>5
  <2>8. Vec(<<a>>) /\ Vec(<<>>)
    BY <2>3, VectorsAre
  <2>9. dest' = <<w>> /\ passed' \in BOOLEAN
    BY <2>2 DEF w
  <2> QED
    BY <2>2, <2>6, <2>7, <2>8, <2>9, WellTypedWord
<1>3. CASE ShlConst
  <2>1. PICK bits \in Narrow \union {Bits} : \E a \in Operands, s \in 0 .. bits - 1 :
          /\ Executes("shl", TRUE, bits, <<a>>, <<>>, s)
          /\ dest' = <<TimesConst(a, One(s))>>
          /\ cited' = {One(s)}
          /\ passed' = (bits < Bits => dest'[1] <= Largest(bits))
    BY <1>3, Zenon DEF ShlConst
  <2>2. PICK a \in Operands, s \in 0 .. bits - 1 :
          /\ Executes("shl", TRUE, bits, <<a>>, <<>>, s)
          /\ dest' = <<TimesConst(a, One(s))>>
          /\ cited' = {One(s)}
          /\ passed' = (bits < Bits => dest'[1] <= Largest(bits))
    BY <2>1, Zenon
  <2>3. a \in Word /\ s \in 0 .. Bits - 1
    BY OperandWords, WordSizes
  <2>4. One(s) \in Word /\ (s # Bits - 1 => One(s) \in Initialised)
    <3>1. One(s) \in Word
      BY <2>3, OneWordIs
    <3>2. s < Bits - 1 => One(s) \in Initialised
      BY <2>3, OneIs
    <3>3. s # Bits - 1 => s < Bits - 1
      BY <2>3, WordSizes
    <3> QED
      BY <3>1, <3>2, <3>3
  <2>5. TimesConst(a, One(s)) \in Word
    BY <2>3, <2>4, ConstantWords
  <2>6. Vec(<<a>>) /\ Vec(<<>>) /\ Vec(dest')
    BY <2>2, <2>3, <2>5, VectorsAre
  <2>7. passed' \in BOOLEAN
    BY <2>2
  <2>8. cited' \subseteq Word /\ (s # Bits - 1 => cited' \subseteq Initialised)
    BY <2>2, <2>4
  <2> QED
    BY <2>2, <2>6, <2>7, <2>8, WellTyped
<1>4. CASE LshrVariable
  <2>1. PICK bits \in Narrow \union {Bits} : \E a \in Operands, s \in 0 .. bits - 1 :
          /\ Executes("lshr", FALSE, bits, <<a>>, <<>>, s) /\ dest' = <<Lshr(a, s)>>
          /\ cited' = {-1} /\ UNCHANGED passed
    BY <1>4, Zenon DEF LshrVariable
  <2>2. PICK a \in Operands, s \in 0 .. bits - 1 :
          /\ Executes("lshr", FALSE, bits, <<a>>, <<>>, s) /\ dest' = <<Lshr(a, s)>>
          /\ cited' = {-1} /\ UNCHANGED passed
    BY <2>1, Zenon
  <2>3. a \in Word /\ s \in Int
    BY OperandWords
  <2>4. Lshr(a, s) \in Word
    BY <2>3, ShiftedWord
  <2>5. Vec(<<a>>) /\ Vec(<<>>) /\ cited' \subseteq Initialised /\ passed' \in BOOLEAN
    BY <1>1, <2>2, <2>3, VectorsAre
  <2> QED
    BY <2>2, <2>4, <2>5, WellTypedWord
<1>5. CASE AshrVariable
  <2>1. PICK bits \in Narrow \union {Bits} : \E a \in Operands, s \in 0 .. bits - 1 :
          /\ Executes("ashr", FALSE, bits, <<a>>, <<>>, s) /\ dest' = <<Ashr(a, s)>>
          /\ cited' = {} /\ UNCHANGED passed
    BY <1>5, Zenon DEF AshrVariable
  <2>2. PICK a \in Operands, s \in 0 .. bits - 1 :
          /\ Executes("ashr", FALSE, bits, <<a>>, <<>>, s) /\ dest' = <<Ashr(a, s)>>
          /\ cited' = {} /\ UNCHANGED passed
    BY <2>1, Zenon
  <2>3. a \in Word /\ s \in 0 .. Bits - 1
    BY OperandWords, WordSizes
  <2>4. Ashr(a, s) \in Word
    BY <2>3, ShiftedWord
  <2>5. Vec(<<a>>) /\ Vec(<<>>) /\ cited' \subseteq Initialised /\ passed' \in BOOLEAN
    BY <2>2, <2>3, VectorsAre
  <2> QED
    BY <2>2, <2>4, <2>5, WellTypedWord
<1>6. CASE FunnelShift
  <2>1. PICK a \in Word, b \in Word, s \in Word :
          /\ Executes("fshr", FALSE, Bits, <<a>>, <<b>>, s) /\ dest' = <<Fshr(a, b, s)>>
          /\ cited' = {Bits, 2, -1} /\ UNCHANGED passed
    BY <1>6, OperandWords DEF FunnelShift
  <2>2. Fshr(a, b, s) \in Word
    BY FshrIs
  <2>3. Vec(<<a>>) /\ Vec(<<b>>) /\ cited' \subseteq Initialised /\ passed' \in BOOLEAN
    BY <1>1, <2>1, VectorsAre
  <2> QED
    BY <2>1, <2>2, <2>3, WellTypedWord
<1>7. CASE CountZeros
  <2>1. PICK a \in Word :
          /\ Executes("ctlz", FALSE, Bits, <<a>>, <<>>, 0) /\ dest' = <<Ctlz(a)>>
          /\ cited' = {2} /\ UNCHANGED passed
    BY <1>7, OperandWords DEF CountZeros
  <2>2. Ctlz(a) \in 0 .. Bits
    BY CtlzIs
  <2>3. Bits \in Word
    BY <1>1
  <2>4. Ctlz(a) \in Word
    BY <2>2, <2>3, WordSizes DEF Word
  <2>5. Vec(<<a>>) /\ Vec(<<>>) /\ cited' \subseteq Initialised /\ passed' \in BOOLEAN
    BY <1>1, <2>1, VectorsAre
  <2> QED
    BY <2>1, <2>4, <2>5, WellTypedWord
<1>8. CASE BitwiseWord
  <2>1. PICK op \in {"and", "or", "xor"}, a \in Word, b \in Word :
          /\ Executes(op, FALSE, Bits, <<a>>, <<b>>, 0) /\ dest' = <<BitOp(op, a, b)>>
          /\ cited' = {} /\ UNCHANGED passed
    BY <1>8, OperandWords, Zenon DEF BitwiseWord
  <2>2. BitOp(op, a, b) \in Word
    BY BitOpIs
  <2>3. Vec(<<a>>) /\ Vec(<<b>>) /\ cited' \subseteq Initialised /\ passed' \in BOOLEAN
    BY <2>1, VectorsAre
  <2> QED
    BY <2>1, <2>2, <2>3, WellTypedWord
<1>9. CASE BitwiseFlag
  <2>1. PICK op \in {"and", "or", "xor"}, f \in {0, 1}, g \in {0, 1} :
          /\ Executes(op, FALSE, 1, <<f>>, <<g>>, 0) /\ dest' = <<FlagOp(op, f, g)>>
          /\ cited' = {} /\ UNCHANGED passed
    BY <1>9, Zenon DEF BitwiseFlag
  <2>2. f \in Word /\ g \in Word /\ FlagOp(op, f, g) \in Word
    BY FlagOpIs, OperandWords
  <2>3. Vec(<<f>>) /\ Vec(<<g>>) /\ cited' \subseteq Initialised /\ passed' \in BOOLEAN
    BY <2>1, <2>2, VectorsAre
  <2> QED
    BY <2>1, <2>2, <2>3, WellTypedWord
<1> QED
  BY <1>2, <1>3, <1>4, <1>5, <1>6, <1>7, <1>8, <1>9, Zenon

LEMMA WellTypedDouble ==
  ASSUME Powers, NEW op, NEW const, NEW bits, NEW a, NEW b, NEW s,
         Executes(op, const, bits, a, b, s), Vec(a), Vec(b), dest' \in Word \X Word,
         cited' \subseteq Initialised, passed' \in BOOLEAN
  PROVE  TypeOK' /\ OtherConstantsSet'
<1>1. Vec(dest')
  BY VectorsAre
<1> QED
  BY <1>1, WellTyped

(* The shifts of two words.                                                *)
LEMMA DoubleShiftsTyped ==
  ASSUME Powers, passed \in BOOLEAN,
         \/ Shl64Variable \/ Shl64ConstNear \/ Shl64ConstFar \/ Shl48
         \/ Lshr64Variable \/ Lshr64ConstNear \/ Lshr64ConstFar
  PROVE  TypeOK' /\ OtherConstantsSet'
<1> USE Powers
<1>1. /\ -1 \in Initialised /\ 2 \in Initialised /\ Initialised \subseteq Word
      /\ Bits \in Nat /\ 0 \in Word
  BY InitialisedAre, WordSizes, WordsNearZero
<1>2. \A v, w \in Word : Vec(<<v, w>>) /\ Vec(<<>>)
  BY VectorsAre
<1>3. CASE Shl64Variable
  <2>1. PICK lo \in Word, hi \in Word, s \in 0 .. 2 * Bits - 1 :
          /\ Executes("shl", FALSE, 2 * Bits, <<lo, hi>>, <<>>, s)
          /\ dest' = Shl64(lo, hi, s) /\ cited' = {2, -1} /\ UNCHANGED passed
    BY <1>3, OperandWords DEF Shl64Variable
  <2>2. s \in Int /\ Bits - s \in Int
    BY <1>1
  <2>3. Shl(lo, s) \in Word /\ Shl(hi, s) \in Word /\ Lshr(lo, Bits - s) \in Word
    BY <2>2, ShiftedWord
  <2>4. Add(Shl(hi, s), Lshr(lo, Bits - s)) \in Word
    BY <2>3, ConstantWords
  <2>5. dest' \in Word \X Word
    BY <2>1, <2>3, <2>4 DEF Shl64
  <2>6. cited' \subseteq Initialised /\ passed' \in BOOLEAN
    BY <1>1, <2>1
  <2> QED
    BY <1>2, <2>1, <2>5, <2>6, WellTypedDouble
<1>4. CASE Shl64ConstNear
  <2>1. PICK lo \in Word, hi \in Word, s \in 1 .. Bits - 1 :
          /\ Executes("shl", TRUE, 2 * Bits, <<lo, hi>>, <<>>, s)
          /\ dest' = <<Times(lo, One(s)), Add(Times(hi, One(s)), Over(lo, One(Bits - s)))>>
          /\ cited' = {} /\ passed' = (hi \in 0 .. Wrap((2 ^ Bits - 1) \div 2 ^ s))
    BY <1>4, OperandWords, Zenon DEF Shl64ConstNear
  <2>2. s \in 0 .. Bits - 1 /\ Bits - s \in 0 .. Bits - 1
    BY <1>1
  <2>3. One(s) \in Word
    BY <2>2, OneWordIs
  <2>4. One(Bits - s) \in Word /\ One(Bits - s) # 0
    BY <2>2, OneWordIs
  <2>5. Times(lo, One(s)) \in Word /\ Times(hi, One(s)) \in Word
    BY <2>3, ConstantWords
  <2>6. Over(lo, One(Bits - s)) \in Word
    BY <2>4, QuotientWord
  <2>7. Add(Times(hi, One(s)), Over(lo, One(Bits - s))) \in Word
    BY <2>5, <2>6, ConstantWords
  <2>8. dest' \in Word \X Word
    BY <2>1, <2>5, <2>7
  <2>9. cited' \subseteq Initialised /\ passed' \in BOOLEAN
    BY <2>1
  <2> QED
    BY <1>2, <2>1, <2>8, <2>9, WellTypedDouble
<1>5. CASE Shl64ConstFar
  <2>1. PICK lo \in Word, hi \in Word, s \in Bits .. 2 * Bits - 1 :
          /\ Executes("shl", TRUE, 2 * Bits, <<lo, hi>>, <<>>, s)
          /\ dest' = <<0, Times(lo, One(s - Bits))>>
          /\ cited' = {} /\ UNCHANGED passed
    BY <1>5, OperandWords, Zenon DEF Shl64ConstFar
  <2>2. s - Bits \in 0 .. Bits - 1
    BY <1>1
  <2>3. One(s - Bits) \in Word
    BY <2>2, OneWordIs
  <2>4. Times(lo, One(s - Bits)) \in Word
    BY <2>3, ConstantWords
  <2>5. dest' \in Word \X Word /\ cited' \subseteq Initialised /\ passed' \in BOOLEAN
    BY <1>1, <2>1, <2>4
  <2> QED
    BY <1>2, <2>1, <2>5, WellTypedDouble
<1>6. CASE Shl48
  <2>1. PICK lo \in Word, hi \in Word, n \in 1 .. 4 :
          /\ Executes("shl", TRUE, 6 * ByteBits, <<lo, hi>>, <<>>, n * ByteBits)
          /\ dest' = IF n = 4 THEN <<0, lo>> ELSE <<Times(lo, Byte ^ n), 0>>
          /\ cited' = {}
          /\ passed' = (hi = 0 /\ lo \in 0 .. (IF n = 4 THEN Byte ELSE Byte ^ (4 - n)) - 1)
    BY <1>6, OperandWords, Zenon DEF Shl48
  <2>2. n # 4 => Byte ^ n \in Int
    BY Width48
  <2>3. n # 4 => lo * Byte ^ n \in Int
    BY <2>2 DEF Word
  <2>4. \A x \in Int : Wrap(x) \in Word
    BY WrapCongruent
  <2>5. n # 4 => Times(lo, Byte ^ n) \in Word
    BY <2>3, <2>4 DEF Times
  <2>6. dest' \in Word \X Word
    <3>1. CASE n = 4
      BY <1>1, <2>1, <3>1
    <3>2. CASE n # 4
      BY <1>1, <2>1, <2>5, <3>2
    <3> QED
      BY <3>1, <3>2
  <2>7. cited' \subseteq Initialised /\ passed' \in BOOLEAN
    BY <2>1, Zenon
  <2> QED
    BY <1>2, <2>1, <2>6, <2>7, WellTypedDouble
<1>7. CASE Lshr64Variable
  <2>1. PICK lo \in Word, hi \in Word, s \in 0 .. 2 * Bits - 1 :
          /\ Executes("lshr", FALSE, 2 * Bits, <<lo, hi>>, <<>>, s)
          /\ dest' = Lshr64(lo, hi, s) /\ cited' = {2, -1} /\ UNCHANGED passed
    BY <1>7, OperandWords DEF Lshr64Variable
  <2>2. s \in Int /\ Bits - s \in Int
    BY <1>1
  <2>3. Lshr(lo, s) \in Word /\ Lshr(hi, s) \in Word /\ Shl(hi, Bits - s) \in Word
    BY <2>2, ShiftedWord
  <2>4. Add(Lshr(lo, s), Shl(hi, Bits - s)) \in Word
    BY <2>3, ConstantWords
  <2>5. dest' \in Word \X Word
    BY <2>1, <2>3, <2>4 DEF Lshr64
  <2>6. cited' \subseteq Initialised /\ passed' \in BOOLEAN
    BY <1>1, <2>1
  <2> QED
    BY <1>2, <2>1, <2>5, <2>6, WellTypedDouble
<1>8. CASE Lshr64ConstNear
  <2>1. PICK lo \in Word, hi \in Word, s \in 1 .. Bits - 1 :
          /\ Executes("lshr", TRUE, 2 * Bits, <<lo, hi>>, <<>>, s)
          /\ dest' = <<Add(Lshr(lo, s), TimesConst(ModConst(hi, One(s)), One(Bits - s))),
                       Lshr(hi, s)>>
          /\ cited' = {One(s), One(Bits - s), -1} /\ UNCHANGED passed
    BY <1>8, OperandWords, Zenon DEF Lshr64ConstNear
  <2>2. s \in Int /\ s \in 0 .. Bits - 1 /\ Bits - s \in 0 .. Bits - 1
    BY <1>1
  <2>3. One(s) \in Word
    BY <2>2, OneWordIs
  <2>4. One(Bits - s) \in Word
    BY <2>2, OneWordIs
  <2>5. s # Bits - 1 => One(s) \in Initialised /\ One(s) > 0
    <3>1. s < Bits - 1 => One(s) = 2 ^ s /\ One(s) \in Initialised /\ 2 ^ s \in Nat \ {0}
      BY <2>2, OneIs
    <3> QED
      BY <1>1, <2>2, <3>1
  <2>6. s # 1 => One(Bits - s) \in Initialised
    <3> DEFINE t == Bits - s
    <3>1. t \in 0 .. Bits - 1 /\ (s # 1 => t < Bits - 1)
      BY <1>1, <2>2
    <3> HIDE DEF t
    <3>2. t < Bits - 1 => One(t) \in Initialised
      BY <3>1, OneIs
    <3> QED
      BY <3>1, <3>2 DEF t
  <2>7. ModConst(hi, One(s)) \in Word
    <3>1. CASE s = Bits - 1
      <4>1. One(s) \notin Initialised
        BY <2>2, <3>1, OneIs
      <4> QED
        BY <4>1 DEF ModConst
    <3>2. CASE s # Bits - 1
      BY <2>3, <2>5, <3>2, ConstantWords
    <3> QED
      BY <3>1, <3>2
  <2>8. TimesConst(ModConst(hi, One(s)), One(Bits - s)) \in Word
    BY <2>4, <2>7, ConstantWords
  <2>9. Lshr(lo, s) \in Word /\ Lshr(hi, s) \in Word
    BY <2>2, ShiftedWord
  <2>10. dest' \in Word \X Word
    BY <2>1, <2>8, <2>9, ConstantWords
  <2>11. cited' \subseteq Word /\ (s # Bits - 1 /\ s # 1 => cited' \subseteq Initialised)
    BY <1>1, <2>1, <2>3, <2>4, <2>5, <2>6
  <2>12. Vec(<<lo, hi>>) /\ Vec(<<>>) /\ Vec(dest') /\ passed' \in BOOLEAN
    BY <2>1, <2>10, VectorsAre
  <2> QED
    BY <2>1, <2>11, <2>12, WellTyped
<1>9. CASE Lshr64ConstFar
  <2>1. PICK lo \in Word, hi \in Word, s \in Bits .. 2 * Bits - 1 :
          /\ Executes("lshr", TRUE, 2 * Bits, <<lo, hi>>, <<>>, s)
          /\ dest' = <<IF s > Bits THEN Lshr(hi, s - Bits) ELSE hi, 0>>
          /\ cited' = IF s > Bits THEN {-1} ELSE {}
          /\ UNCHANGED passed
    BY <1>9, OperandWords, Zenon DEF Lshr64ConstFar
  <2>2. s - Bits \in Int
    BY <1>1
  <2>3. Lshr(hi, s - Bits) \in Word
    BY <2>2, ShiftedWord
  <2>4. dest' \in Word \X Word /\ cited' \subseteq Initialised /\ passed' \in BOOLEAN
    BY <1>1, <2>1, <2>3
  <2> QED
    BY <1>2, <2>1, <2>4, WellTypedDouble
<1> QED
  BY <1>3, <1>4, <1>5, <1>6, <1>7, <1>8, <1>9, Zenon

-----------------------------------------------------------------------------
(* Arithmetic: the same.                                                   *)
LEMMA OperatedTyped ==
  ASSUME Powers, NEW op, NEW a, NEW b, NEW cs, Operates(op, a, b, cs),
         Vec(a), Vec(b), cs \subseteq Initialised, passed' \in BOOLEAN
  PROVE  /\ \A w \in Word : dest' = <<w>> => TypeOK' /\ OtherConstantsSet'
         /\ dest' \in Word \X Word => TypeOK' /\ OtherConstantsSet'
<1> DEFINE bits == Bits * Len(a)
<1>1. Executes(op, FALSE, bits, a, b, 0) /\ cited' = cs
  BY DEF Operates
<1> HIDE DEF bits
<1>2. dest' \in Word \X Word => TypeOK' /\ OtherConstantsSet'
  BY <1>1, WellTypedDouble
<1>3. ASSUME NEW w \in Word, dest' = <<w>> PROVE TypeOK' /\ OtherConstantsSet'
  BY <1>1, <1>3, WellTypedWord
<1> QED
  BY <1>2, <1>3

(* Instructions on one word.                                               *)
LEMMA WordArithmeticTyped ==
  ASSUME Powers, passed \in BOOLEAN,
         AddWord \/ SubWord \/ MulWord \/ SDiv \/ SRem \/ UDiv \/ URem
  PROVE  TypeOK' /\ OtherConstantsSet'
<1> USE Powers
<1>1. ASSUME NEW op, NEW a \in Word, NEW b \in Word, NEW w \in Word,
             Operates(op, <<a>>, <<b>>, {}), dest' = <<w>>, passed' \in BOOLEAN
      PROVE  TypeOK' /\ OtherConstantsSet'
  <2>1. Vec(<<a>>) /\ Vec(<<b>>)
    BY VectorsAre
  <2> QED
    BY <1>1, <2>1, OperatedTyped
<1>2. CASE AddWord
  <2>1. PICK a \in Word, b \in Word : /\ Operates("add", <<a>>, <<b>>, {})
                                      /\ dest' = <<Add(a, b)>> /\ UNCHANGED passed
    BY <1>2, OperandWords DEF AddWord
  <2>2. Add(a, b) \in Word
    BY ConstantWords
  <2> QED
    BY <1>1, <2>1, <2>2
<1>3. CASE SubWord
  <2>1. PICK a \in Word, b \in Word : /\ Operates("sub", <<a>>, <<b>>, {})
                                      /\ dest' = <<Wrap(a - b)>> /\ UNCHANGED passed
    BY <1>3, OperandWords DEF SubWord
  <2>2. Wrap(a - b) \in Word
    BY ConstantWords
  <2> QED
    BY <1>1, <2>1, <2>2
<1>4. CASE MulWord
  <2>1. PICK a \in Word, b \in Word : /\ Operates("mul", <<a>>, <<b>>, {})
                                      /\ dest' = <<Times(a, b)>> /\ UNCHANGED passed
    BY <1>4, OperandWords DEF MulWord
  <2>2. Times(a, b) \in Word
    BY ConstantWords
  <2> QED
    BY <1>1, <2>1, <2>2
<1>5. CASE SDiv \/ UDiv
  <2>1. PICK op \in {"sdiv", "udiv"}, a \in Word, b \in Word :
          /\ b # 0 /\ Operates(op, <<a>>, <<b>>, {})
          /\ dest' = <<Over(a, b)>> /\ passed' \in BOOLEAN
    <3>1. CASE SDiv
      BY <3>1, OperandWords DEF SDiv
    <3>2. CASE UDiv
      <4>1. PICK a \in Word, b \in Word :
              /\ b # 0 /\ Operates("udiv", <<a>>, <<b>>, {}) /\ dest' = <<Over(a, b)>>
              /\ passed' = (a >= 0 /\ b >= 0)
        BY <3>2, OperandWords DEF UDiv
      <4>2. passed' \in BOOLEAN
        BY <4>1, Zenon
      <4> QED
        BY <4>1, <4>2
    <3> QED
      BY <1>5, <3>1, <3>2
  <2>2. Over(a, b) \in Word
    BY <2>1, QuotientWord
  <2> QED
    BY <1>1, <2>1, <2>2
<1>6. CASE SRem \/ URem
  <2>1. PICK op \in {"srem", "urem"}, a \in Word, b \in Word :
          /\ b > 0 /\ Operates(op, <<a>>, <<b>>, {})
          /\ dest' = <<Mod(a, b)>> /\ passed' \in BOOLEAN
    <3>1. CASE SRem
      BY <3>1, OperandWords DEF SRem
    <3>2. CASE URem
      <4>1. PICK a \in Word, b \in Word :
              /\ b > 0 /\ Operates("urem", <<a>>, <<b>>, {}) /\ dest' = <<Mod(a, b)>>
              /\ passed' = (a >= 0 /\ b >= 0)
        BY <3>2, OperandWords DEF URem
      <4>2. passed' \in BOOLEAN
        BY <4>1, Zenon
      <4> QED
        BY <4>1, <4>2
    <3> QED
      BY <1>6, <3>1, <3>2
  <2>2. Mod(a, b) \in Word
    BY <2>1, ConstantWords
  <2> QED
    BY <1>1, <2>1, <2>2
<1> QED
  BY <1>2, <1>3, <1>4, <1>5, <1>6, Zenon

(* Comparisons, and instructions on two words.                             *)
LEMMA DoubleArithmeticTyped ==
  ASSUME Powers, passed \in BOOLEAN,
         Add64Words \/ Sub64Words \/ Mul64Words \/ ICmp \/ ICmp64 \/ ICmp48
  PROVE  TypeOK' /\ OtherConstantsSet'
<1> USE Powers
<1>1. /\ \A x \in Doubles : x \in Word \X Word /\ Vec(x)
      /\ \A b : Flag(b) \in Word
      /\ -1 \in Word /\ 0 \in Word /\ 1 \in Word /\ Half \in Initialised /\ -1 \in Initialised
  <2>1. \A x \in Doubles : x \in Word \X Word /\ Vec(x)
    BY OperandWords, VectorsAre DEF Doubles
  <2> QED
    BY <2>1, WordsNearZero, InitialisedAre DEF Flag
<1>2. ASSUME NEW op, NEW a \in Doubles, NEW b \in Doubles, NEW cs,
             Operates(op, a, b, cs), cs \subseteq Initialised, UNCHANGED passed,
             dest' \in Word \X Word \/ \E x : dest' = <<Flag(x)>>
      PROVE  TypeOK' /\ OtherConstantsSet'
  <2>1. Vec(a) /\ Vec(b) /\ passed' \in BOOLEAN
    BY <1>1, <1>2
  <2>2. dest' \in Word \X Word \/ \E w \in Word : dest' = <<w>>
    BY <1>1, <1>2
  <2> QED
    BY <1>2, <2>1, <2>2, OperatedTyped
<1>3. CASE Add64Words
  <2>1. PICK a \in Doubles, b \in Doubles :
          Operates("add", a, b, {}) /\ dest' = Add64(a, b) /\ UNCHANGED passed
    BY <1>3 DEF Add64Words
  <2>2. dest' \in Word \X Word
    BY <1>1, <2>1, Add64Is
  <2> QED
    BY <1>2, <2>1, <2>2
<1>4. CASE Sub64Words
  <2>1. PICK a \in Doubles, b \in Doubles :
          /\ Operates("sub", a, b, {-1, 0, 1})
          /\ dest' = Add64(a, Negate64(b)) /\ UNCHANGED passed
    BY <1>4 DEF Sub64Words
  <2>2. dest' \in Word \X Word
    BY <1>1, <2>1, Sub64Is
  <2> DEFINE bits == Bits * Len(a)
  <2>3. Executes("sub", FALSE, bits, a, b, 0) /\ cited' = {-1, 0, 1}
    BY <2>1 DEF Operates
  <2> HIDE DEF bits
  <2>4. cited' \subseteq Word
    BY <1>1, <2>3
  <2>5. Vec(a) /\ Vec(b) /\ Vec(dest') /\ passed' \in BOOLEAN /\ Len(a) = 2
    BY <1>1, <2>1, <2>2, VectorsAre, DoubleParts
  <2> QED
    BY <2>3, <2>4, <2>5, WellTyped
<1>5. CASE Mul64Words
  <2>1. PICK a \in Doubles, b \in Doubles :
          Operates("mul", a, b, {Half, -1}) /\ dest' = Mul64(a, b) /\ UNCHANGED passed
    BY <1>5 DEF Mul64Words
  <2>2. dest' \in Word \X Word /\ {Half, -1} \subseteq Initialised
    BY <1>1, <2>1, Mul64Is
  <2> QED
    BY <1>2, <2>1, <2>2
<1>6. CASE ICmp
  <2>1. PICK a \in Word, b \in Word, pred \in Predicates, bits \in NarrowBits \union {Bits} :
          /\ Executes(pred, FALSE, bits, <<a>>, <<b>>, 0) /\ cited' = {}
          /\ dest' = <<Flag(Compare(pred, a, b))>> /\ UNCHANGED passed
    BY <1>6, OperandWords, Zenon DEF ICmp, Compares
  <2>2. Vec(<<a>>) /\ Vec(<<b>>) /\ passed' \in BOOLEAN
    BY <2>1, VectorsAre
  <2>3. PICK w \in Word : dest' = <<w>>
    BY <1>1, <2>1
  <2> QED
    BY <2>1, <2>2, <2>3, WellTypedWord
<1>7. CASE ICmp64
  <2>1. PICK pred \in {"eq", "ne", "ugt", "ult"}, a \in Doubles, b \in Doubles :
          /\ Executes(pred, FALSE, 2 * Bits, a, b, 0) /\ cited' = {}
          /\ dest' = <<Flag(Compare64(pred, a, b))>> /\ UNCHANGED passed
    BY <1>7, Zenon DEF ICmp64, Compares
  <2>2. PICK w \in Word : dest' = <<w>>
    BY <1>1, <2>1
  <2> DEFINE bits == 2 * Bits
  <2>3. Executes(pred, FALSE, bits, a, b, 0)
    BY <2>1
  <2> HIDE DEF bits
  <2> QED
    BY <1>1, <2>1, <2>2, <2>3, WellTypedWord
<1>8. CASE ICmp48
  <2>1. PICK a \in Doubles, b \in Doubles, pred \in Predicates :
          /\ Executes(pred, FALSE, 6 * ByteBits, a, b, 0) /\ cited' = {}
          /\ dest' = <<Flag(Compare48(pred, a, b))>> /\ UNCHANGED passed
    BY <1>8, Zenon DEF ICmp48, Compares
  <2>2. PICK w \in Word : dest' = <<w>>
    BY <1>1, <2>1
  <2> DEFINE bits == 6 * ByteBits
  <2>3. Executes(pred, FALSE, bits, a, b, 0)
    BY <2>1
  <2> HIDE DEF bits
  <2> QED
    BY <1>1, <2>1, <2>2, <2>3, WellTypedWord
<1> QED
  BY <1>3, <1>4, <1>5, <1>6, <1>7, <1>8, Zenon

LEMMA ByteWord ==
  ASSUME Powers, NEW w \in Word, NEW i \in {0, 1}
  PROVE  ByteOf(w, i) \in Word
<1> DEFINE p == Byte ^ i
           q == w \div p
<1>1. p \in Nat \ {0}
  BY SmallNumbers
<1> HIDE DEF p
<1>2. q \in Int
  BY <1>1 DEF Word
<1> HIDE DEF q
<1>3. (q % Byte) \in 0 .. Byte - 1 /\ Byte \in Nat \ {0} /\ Byte <= HighBit /\ HighBit \in Nat
  BY <1>2, SmallNumbers, WordSizes
<1>4. q % Byte \in Word
  BY <1>3 DEF Word
<1> QED
  BY <1>4 DEF ByteOf, p, q

(* The overflow intrinsics.                                                *)
LEMMA OverflowTyped ==
  ASSUME Powers, passed \in BOOLEAN, USubOverflow \/ UAddByte \/ USubByte
  PROVE  TypeOK' /\ OtherConstantsSet'
<1> USE Powers
<1>1. -1 \in Initialised /\ -1 \in Word /\ Byte \in Word /\ \A b : Flag(b) \in Word
  BY InitialisedAre, WordsNearZero DEF Flag
<1>2. ASSUME NEW op, NEW a \in Word, NEW b \in Word, NEW cs, NEW v \in Word, NEW w \in Word,
             Operates(op, <<a>>, <<b>>, cs), cs \subseteq {-1}, dest' = <<v, w>>, UNCHANGED passed
      PROVE  TypeOK' /\ OtherConstantsSet'
  <2>1. Vec(<<a>>) /\ Vec(<<b>>) /\ passed' \in BOOLEAN
    BY <1>2, VectorsAre
  <2>2. cs \subseteq Initialised /\ dest' \in Word \X Word
    BY <1>1, <1>2
  <2> QED
    BY <1>2, <2>1, <2>2, OperatedTyped
<1>3. CASE USubOverflow
  <2>1. PICK a \in Word, b \in Word :
          /\ Operates("usub.with.overflow", <<a>>, <<b>>, {-1})
          /\ dest' = <<Add(a, TimesConst(b, -1)), Flag(Carry(a, TimesConst(b, -1)))>>
          /\ UNCHANGED passed
    BY <1>3, OperandWords DEF USubOverflow
  <2>2. TimesConst(b, -1) \in Word
    BY <1>1, ConstantWords
  <2>3. Add(a, TimesConst(b, -1)) \in Word
    BY <2>2, ConstantWords
  <2> QED
    BY <1>1, <1>2, <2>1, <2>3
<1>4. CASE UAddByte
  <2>1. PICK a \in Word, b \in Word :
          /\ Operates("uadd.byte", <<a>>, <<b>>, {})
          /\ dest' = <<ByteOf(Add(a, b), 0), ByteOf(Add(a, b), 1)>>
          /\ UNCHANGED passed
    BY <1>4, OperandWords DEF UAddByte
  <2>2. Add(a, b) \in Word
    BY ConstantWords
  <2>3. ByteOf(Add(a, b), 0) \in Word /\ ByteOf(Add(a, b), 1) \in Word
    BY <2>2, ByteWord
  <2> QED
    BY <1>2, <2>1, <2>3
<1>5. CASE USubByte
  <2>1. PICK a \in Word, b \in Word :
          /\ Operates("usub.byte", <<a>>, <<b>>, {-1})
          /\ dest' = <<ByteOf(Add(a, Add(TimesConst(b, -1), Byte)), 0),
                       ByteOf(Add(a, Add(TimesConst(b, -1), Byte)), 1)>>
          /\ UNCHANGED passed
    BY <1>5, OperandWords DEF USubByte
  <2> DEFINE sum == Add(a, Add(TimesConst(b, -1), Byte))
  <2>2. TimesConst(b, -1) \in Word
    BY <1>1, ConstantWords
  <2>3. Add(TimesConst(b, -1), Byte) \in Word
    BY <1>1, <2>2, ConstantWords
  <2>4. sum \in Word
    BY <2>3, ConstantWords
  <2>5. dest' = <<ByteOf(sum, 0), ByteOf(sum, 1)>>
    BY <2>1
  <2> HIDE DEF sum
  <2>6. ByteOf(sum, 0) \in Word /\ ByteOf(sum, 1) \in Word
    BY <2>4, ByteWord
  <2> QED
    BY <1>2, <2>1, <2>5, <2>6
<1> QED
  BY <1>3, <1>4, <1>5

-----------------------------------------------------------------------------
(* Conversions: the same.                                                  *)

(* What the conversions start from.                                        *)
LEMMA ConversionFacts ==
  ASSUME Powers
  PROVE  /\ Operands \subseteq Word /\ {0, 1, -1} \subseteq Word
         /\ \A x \in Doubles : x \in Word \X Word /\ x[1] \in Word /\ x[2] \in Word
         /\ \A x \in Singles : \E w \in Word : x = <<w>>
         /\ \A n \in NarrowBits : 2 ^ n \in Initialised
         /\ \A n \in NarrowBits, w \in Word : ModConst(w, 2 ^ n) \in Word
         /\ {Byte, Half, 2} \subseteq Initialised
<1>1. Operands \subseteq Word /\ {0, 1, -1} \subseteq Word
  BY OperandWords, WordsNearZero
<1>2. \A x \in Doubles : x \in Word \X Word /\ x[1] \in Word /\ x[2] \in Word
  BY <1>1 DEF Doubles
<1>3. \A x \in Singles : \E w \in Word : x = <<w>>
  BY <1>1, Zenon DEF Singles
<1>4. \A n \in NarrowBits : n \in 0 .. Bits - 2
  BY NarrowWidths
<1>5. \A n \in NarrowBits : 2 ^ n \in Initialised
  BY <1>4, NarrowSizes
<1>6. ASSUME NEW n \in NarrowBits, NEW w \in Word PROVE ModConst(w, 2 ^ n) \in Word
  <2>1. n \in 0 .. Bits - 2 /\ 0 \in Int
    BY <1>4
  <2>2. PICK k \in Int : k = 0
    OBVIOUS
  <2> QED
    BY <2>1, <2>2, NarrowRest
<1> QED
  BY <1>1, <1>2, <1>3, <1>5, <1>6, InitialisedAre

LEMMA ConvertedTyped ==
  ASSUME Powers, NEW op, NEW a, NEW from, NEW to, NEW cs, Converts(op, a, from, to, cs),
         Vec(a), Vec(dest'), cs \subseteq Initialised, passed \in BOOLEAN
  PROVE  TypeOK' /\ OtherConstantsSet'
<1>1. Executes(op, FALSE, from, a, <<>>, to) /\ cited' = cs /\ passed' = passed
  BY DEF Converts
<1>2. Vec(<<>>)
  BY VectorsAre
<1> QED
  BY <1>1, <1>2, WellTyped

LEMMA NarrowingTyped ==
  ASSUME Powers, passed \in BOOLEAN, TruncToWord \/ TruncNarrow \/ BitCast
  PROVE  TypeOK' /\ OtherConstantsSet'
<1> USE Powers
<1>1. \A x \in Singles \cup Doubles : Vec(x) /\ x[1] \in Word /\ Vec(<<x[1]>>)
  BY ConversionFacts, VectorsAre
<1>2. CASE TruncToWord
  <2>1. PICK a \in Doubles : Converts("trunc", a, 2 * Bits, Bits, {}) /\ dest' = <<a[1]>>
    BY <1>2 DEF TruncToWord
  <2> QED
    BY <1>1, <2>1, ConvertedTyped
<1>3. CASE TruncNarrow
  <2>1. PICK a \in Singles \cup Doubles, to \in NarrowBits :
          /\ Converts("trunc", a, Bits * Len(a), to, {2 ^ to})
          /\ dest' = <<ModConst(a[1], 2 ^ to)>>
    BY <1>3 DEF TruncNarrow
  <2>2. ModConst(a[1], 2 ^ to) \in Word /\ {2 ^ to} \subseteq Initialised
    BY <1>1, ConversionFacts
  <2>3. Vec(a) /\ Vec(dest')
    BY <1>1, <2>1, <2>2, VectorsAre
  <2> QED
    BY <2>1, <2>2, <2>3, ConvertedTyped
<1>4. CASE BitCast
  <2>1. PICK a \in Singles : Converts("bitcast", a, Bits, Bits, {}) /\ dest' = a
    BY <1>4 DEF BitCast
  <2>2. Vec(a) /\ Vec(dest') /\ {} \subseteq Initialised
    BY <1>1, <2>1
  <2> QED
    BY <2>1, <2>2, ConvertedTyped
<1> QED
  BY <1>2, <1>3, <1>4

LEMMA SExtTyped ==
  ASSUME Powers, passed \in BOOLEAN, SExtFlag \/ SExtToWord \/ SExtTo64
  PROVE  TypeOK' /\ OtherConstantsSet'
<1> USE Powers
<1>1. {0, 1, -1} \subseteq Word
  BY ConversionFacts
<1>2. \A v, w \in Word : Vec(<<v>>) /\ Vec(<<v, w>>)
  BY VectorsAre
<1>3. CASE SExtFlag
  <2>1. PICK f \in {0, 1} :
          Converts("sext", <<f>>, 1, Bits, {}) /\ dest' = <<IF f = 1 THEN -1 ELSE 0>>
    BY <1>3, Zenon DEF SExtFlag
  <2>2. Vec(<<f>>) /\ Vec(dest')
    BY <1>1, <1>2, <2>1
  <2> QED
    BY <2>1, <2>2, ConvertedTyped
<1>4. ASSUME NEW w \in Word, NEW n \in {1, 2}
      PROVE  SignExtend(w, Byte ^ n) \in Word /\ Byte ^ n \in Initialised /\ Byte ^ 1 = Byte
  <2>1. PICK m \in 1 .. Bits - 2 : Byte ^ n = 2 ^ m
    <3>1. ByteBits \in 1 .. Bits - 2 /\ 2 * ByteBits \in 1 .. Bits - 2
      BY NarrowWidths DEF NarrowBits
    <3>2. 2 ^ ByteBits = Byte /\ 2 ^ (2 * ByteBits) = Half /\ Byte ^ 1 = Byte /\ Byte ^ 2 = Half
      BY NarrowWidths
    <3> QED
      BY <3>1, <3>2
  <2>2. SignExtend(w, 2 ^ m) \in Word
    BY SignExtendIs
  <2>3. Byte ^ 1 = Byte /\ Byte ^ 2 = Half /\ Byte \in Initialised /\ Half \in Initialised
    BY NarrowWidths, InitialisedAre
  <2> QED
    BY <2>1, <2>2, <2>3
<1>5. CASE SExtToWord
  <2>1. PICK w \in Word, n \in {1, 2} :
          /\ Converts("sext", <<w>>, n * ByteBits, Bits, {Byte ^ n})
          /\ dest' = <<SignExtend(w, Byte ^ n)>>
    BY <1>5, OperandWords, Zenon DEF SExtToWord
  <2>2. Vec(<<w>>) /\ Vec(dest') /\ {Byte ^ n} \subseteq Initialised
    BY <1>2, <1>4, <2>1
  <2> QED
    BY <2>1, <2>2, ConvertedTyped
<1>6. CASE SExtTo64
  <2>1. PICK w \in Word :
          \/ /\ Converts("sext", <<w>>, Bits, 2 * Bits, {})
             /\ dest' = <<w, SignWord(w)>>
          \/ /\ Converts("sext", <<w>>, ByteBits, 2 * Bits, {Byte})
             /\ dest' = <<SignExtend(w, Byte), SignWord(SignExtend(w, Byte))>>
    BY <1>6, OperandWords, Zenon DEF SExtTo64
  <2>2. SignExtend(w, Byte) \in Word /\ Byte \in Initialised
    BY <1>4
  <2>3. \A x \in Word : SignWord(x) \in Word
    BY SignWordIs
  <2>4. Vec(<<w>>) /\ Vec(<<w, SignWord(w)>>)
        /\ Vec(<<SignExtend(w, Byte), SignWord(SignExtend(w, Byte))>>)
    BY <1>2, <2>2, <2>3
  <2>5. {} \subseteq Initialised /\ {Byte} \subseteq Initialised
    BY <2>2
  <2> QED
    BY <2>1, <2>4, <2>5, ConvertedTyped
<1> QED
  BY <1>3, <1>5, <1>6

LEMMA ZExtTyped ==
  ASSUME Powers, passed \in BOOLEAN, ZExtNarrow \/ ZExtWord \/ ZExt48 \/ ZExtFlags
  PROVE  TypeOK' /\ OtherConstantsSet'
<1> USE Powers
<1>1. {0, 1, -1} \subseteq Word /\ {Byte, Half, 2} \subseteq Initialised
  BY ConversionFacts
<1>2. \A v, w \in Word : Vec(<<v>>) /\ Vec(<<v, w>>)
  BY VectorsAre
<1>3. CASE ZExtNarrow
  <2>1. PICK w \in Word, n \in NarrowBits, to \in {Bits, 2 * Bits} :
          /\ Converts("zext", <<w>>, n, to, {2 ^ n})
          /\ dest' = <<ModConst(w, 2 ^ n)>> \o (IF to > Bits THEN <<0>> ELSE <<>>)
    BY <1>3, OperandWords, Zenon DEF ZExtNarrow
  <2> DEFINE m == ModConst(w, 2 ^ n)
  <2>2. m \in Word /\ {2 ^ n} \subseteq Initialised
    BY ConversionFacts
  <2>3. dest' = <<m>> \o (IF to > Bits THEN <<0>> ELSE <<>>)
    BY <2>1
  <2> HIDE DEF m
  <2>4. <<m>> \o <<0>> = <<m, 0>> /\ <<m>> \o <<>> = <<m>>
    <3>1. PICK z \in Word : z = 0
      BY <1>1
    <3> QED
      BY <2>2, <3>1, PairOf
  <2>5. dest' = <<m, 0>> \/ dest' = <<m>>
    BY <2>3, <2>4, Zenon
  <2>6. Vec(<<w>>) /\ Vec(dest')
    BY <1>1, <1>2, <2>2, <2>5
  <2> QED
    BY <2>1, <2>2, <2>6, ConvertedTyped
<1>4. CASE ZExtWord
  <2>1. PICK w \in Word : Converts("zext", <<w>>, Bits, 2 * Bits, {}) /\ dest' = <<w, 0>>
    BY <1>4, OperandWords, Zenon DEF ZExtWord
  <2>2. Vec(<<w>>) /\ Vec(dest')
    BY <1>1, <1>2, <2>1
  <2> QED
    BY <2>1, <2>2, ConvertedTyped
<1>5. CASE ZExt48
  <2>1. PICK a \in Doubles :
          /\ Converts("zext", a, 6 * ByteBits, 2 * Bits, {Half})
          /\ dest' = <<a[1], ModConst(a[2], Half)>>
    BY <1>5, Zenon DEF ZExt48
  <2>2. a[1] \in Word /\ a[2] \in Word /\ Vec(a)
    BY ConversionFacts, VectorsAre
  <2>3. Half \in Word /\ Half > 0
    BY <1>1, InitialisedAre, WordSizes
  <2>4. ModConst(a[2], Half) \in Word
    BY <2>2, <2>3, ConstantWords
  <2>5. Vec(dest') /\ {Half} \subseteq Initialised
    BY <1>1, <1>2, <2>1, <2>2, <2>4
  <2> QED
    BY <2>1, <2>2, <2>5, ConvertedTyped
<1>6. CASE ZExtFlags
  <2>1. PICK flags \in [1 .. 4 -> {0, 1}] :
          /\ Converts("zext.flags", <<FlagsWord(flags)>>, 1, Bits, {2, Byte})
          /\ dest' = [i \in 1 .. 4 |-> ModConst(DivideByByte(FlagsWord(flags), i - 1), 2)]
    BY <1>6, Zenon DEF ZExtFlags
  <2>2. ASSUME NEW i \in 1 .. 4
        PROVE  ModConst(DivideByByte(FlagsWord(flags), i - 1), 2) \in Word
    <3>1. ModConst(DivideByByte(FlagsWord(flags), i - 1), 2) = flags[i]
      BY FlagOut
    <3>2. flags[i] \in {0, 1}
      OBVIOUS
    <3> QED
      BY <1>1, <3>1, <3>2
  <2>3. dest' \in [1 .. 4 -> Word]
    BY <2>1, <2>2
  <2>4. Vec(dest') /\ Vec(<<FlagsWord(flags)>>) /\ {2, Byte} \subseteq Initialised
    BY <1>1, <1>2, <2>3, VectorsAre, FlagsWordIs
  <2> QED
    BY <2>1, <2>4, ConvertedTyped
<1> QED
  BY <1>3, <1>4, <1>5, <1>6

(* extractvalue divides what was there before.                             *)
LEMMA NothingDivided ==
  ASSUME Powers
  PROVE  Over(0, Byte) = 0 /\ Over(-1, Byte) = 0
<1>1. Byte \in Nat \ {0} /\ 2 <= Byte
  BY WordSizes
<1>2. 0 \div Byte = 0 /\ 1 \div Byte = 0 /\ ~ (Byte < 0)
  BY <1>1
<1>3. Wrap(0) = 0
  <2>1. Add(0, 0) = 0
    BY WordsNearZero
  <2> QED
    BY <2>1 DEF Add
<1>4. Over(0, Byte) = 0
  BY <1>1, <1>2, <1>3 DEF Over
<1>5. Over(-1, Byte) = 0
  <2>1. PICK o \in Int : o = -1
    OBVIOUS
  <2>2. o < 0 /\ 0 - o = 1
    BY <2>1
  <2>3. Over(o, Byte) = Wrap(0 - 0)
    BY <1>1, <1>2, <2>2 DEF Over
  <2>4. 0 - 0 = 0
    OBVIOUS
  <2> QED
    BY <1>3, <2>1, <2>3, <2>4
<1> QED
  BY <1>4, <1>5

(* What extractvalue starts from, 0 or -1, divided some times.             *)
LEMMA DividedOld ==
  ASSUME Powers, NEW old \in {0, -1}, NEW n \in 0 .. 4
  PROVE  DivideByByte(old, n) \in Word
<1> DEFINE q == [i \in 0 .. n |-> IF i = 0 THEN old ELSE 0]
           E(f, i) == IF i = 0 THEN old ELSE Over(f[i - 1], Byte)
           F == CHOOSE f : f = [i \in 0 .. n |-> E(f, i)]
<1>1. Byte \in Nat \ {0} /\ 2 <= Byte /\ n \in Nat /\ n \in 0 .. n /\ 0 \in Word /\ -1 \in Word
  BY WordSizes, WordsNearZero
<1>2. Over(0, Byte) = 0 /\ Over(-1, Byte) = 0
  BY NothingDivided
<1>3. \A i \in 0 .. n : q[i] = E(q, i)
  <2> TAKE i \in 0 .. n
  <2>1. i # 0 => i - 1 \in 0 .. n
    BY <1>1
  <2>2. i # 0 => q[i - 1] \in {0, -1} /\ q[i] = 0
    BY <2>1
  <2>3. q[0] = old
    BY <1>1
  <2> HIDE DEF q
  <2> QED
    BY <1>2, <2>2, <2>3
<1>4. q = [i \in 0 .. n |-> E(q, i)]
  BY <1>3
<1>5. DivideByByte(old, n) = F[n]
  BY DEF DivideByByte
<1> HIDE DEF q
<1>6. F = [i \in 0 .. n |-> E(F, i)]
  BY <1>4
<1> HIDE DEF F
<1>7. \A i \in 0 .. n : F[i] = E(F, i)
  BY <1>6
<1>8. F[0] \in {0, -1}
  BY <1>1, <1>7
<1>9. F[n] \in {0, -1}
  <2>1. \A i \in 1 .. n : F[i - 1] \in {0, -1} => F[i] = 0
    BY <1>1, <1>2, <1>7
  <2>2. n >= 1 => F[1] = 0
    BY <1>1, <1>8, <2>1
  <2>3. n >= 2 => F[2] = 0
    BY <1>1, <2>1, <2>2
  <2>4. n >= 3 => F[3] = 0
    BY <1>1, <2>1, <2>3
  <2>5. n >= 4 => F[4] = 0
    BY <1>1, <2>1, <2>4
  <2> QED
    BY <1>8, <2>2, <2>3, <2>4, <2>5
<1> QED
  BY <1>1, <1>5, <1>9

LEMMA PartPlaced ==
  ASSUME NEW a \in Word \X Word, NEW e \in Word, NEW i \in {1, 2}
  PROVE  [a EXCEPT ![i] = e] \in Word \X Word
<1>1. [a EXCEPT ![i] = e] = <<IF i = 1 THEN e ELSE a[1], IF i = 2 THEN e ELSE a[2]>>
  OBVIOUS
<1> QED
  BY <1>1

LEMMA SelectTyped ==
  ASSUME Powers, passed \in BOOLEAN, Select \/ ExtractWord \/ ExtractByte
  PROVE  TypeOK' /\ OtherConstantsSet'
<1> USE Powers
<1>1. \A v, w \in Word : Vec(<<v>>) /\ Vec(<<v, w>>) /\ Vec(<<>>)
  BY VectorsAre
<1>2. CASE Select
  <2>1. PICK c \in {0, 1}, a \in Word, b \in Word :
          \E as \in {<<a>>, <<a, b>>} :
            LET bs == IF Len(as) = 1 THEN <<b>> ELSE <<b, a>>
            IN /\ Executes("select", FALSE, Bits, as, bs, c)
               /\ dest' = IF c = 1 THEN as ELSE bs
               /\ cited' = {}
               /\ UNCHANGED passed
    BY <1>2, OperandWords, Zenon DEF Select
  <2>2. PICK as \in {<<a>>, <<a, b>>}, bs \in {<<b>>, <<b, a>>} :
          /\ Executes("select", FALSE, Bits, as, bs, c)
          /\ dest' = IF c = 1 THEN as ELSE bs
          /\ cited' = {} /\ UNCHANGED passed
    BY <2>1
  <2>3. Vec(as) /\ Vec(bs)
    BY <1>1
  <2>4. Vec(dest') /\ cited' \subseteq Initialised /\ passed' \in BOOLEAN
    BY <2>2, <2>3
  <2> QED
    BY <2>2, <2>3, <2>4, WellTyped
<1>3. CASE ExtractWord
  <2>1. PICK a \in Doubles, i \in {1, 2} : Converts("extract", a, Bits, i, {}) /\ dest' = <<a[i]>>
    BY <1>3 DEF ExtractWord
  <2>2. a[i] \in Word /\ Vec(a) /\ {} \subseteq Initialised
    BY ConversionFacts, VectorsAre
  <2>3. Vec(dest')
    BY <1>1, <2>1, <2>2
  <2> QED
    BY <2>1, <2>2, <2>3, ConvertedTyped
<1>4. CASE ExtractByte
  <2>1. PICK a \in Doubles, offset \in 0 .. 4, old \in {0, -1} :
          /\ Converts("extract.byte", a, ByteBits, offset, {Byte})
          /\ dest' = <<TruncateTo(DivideByByte(old, offset), 1)>>
    BY <1>4 DEF ExtractByte
  <2> DEFINE w == DivideByByte(old, offset)
             z == ZeroLowBytes(w, 1)
  <2>2. w \in Word
    BY DividedOld
  <2>3. dest' = <<TruncateTo(w, 1)>>
    BY <2>1
  <2> HIDE DEF w
  <2>4. z \in Word
    <3>1. PICK e \in 0 .. Byte - 1 : e = 0
      BY WordSizes
    <3> QED
      BY <2>2, InsertedByte
  <2>5. TruncateTo(w, 1) = Wrap(w - z)
    BY DEF TruncateTo
  <2> HIDE DEF z
  <2>6. Wrap(w - z) \in Word
    BY <2>2, <2>4, ConstantWords
  <2>7. Vec(a) /\ Vec(dest') /\ {Byte} \subseteq Initialised
    BY <1>1, <2>3, <2>5, <2>6, ConversionFacts, VectorsAre
  <2> QED
    BY <2>1, <2>7, ConvertedTyped
<1> QED
  BY <1>2, <1>3, <1>4

LEMMA InsertTyped ==
  ASSUME Powers, passed \in BOOLEAN, InsertWord \/ InsertFirstByte \/ InsertLastByte
  PROVE  TypeOK' /\ OtherConstantsSet'
<1> USE Powers
<1>1. \A v \in Word : Vec(<<v>>)
  BY VectorsAre
<1>2. CASE InsertWord
  <2>1. PICK a \in Doubles, e \in Word, i \in {1, 2} :
          /\ Executes("insert", FALSE, Bits, a, <<e>>, i)
          /\ dest' = [a EXCEPT ![i] = e]
          /\ cited' = {} /\ UNCHANGED passed
    BY <1>2, OperandWords, Zenon DEF InsertWord
  <2>2. a \in Word \X Word
    BY ConversionFacts
  <2>3. dest' \in Word \X Word
    BY <2>1, <2>2, PartPlaced
  <2>4. Vec(a) /\ Vec(<<e>>) /\ cited' \subseteq Initialised /\ passed' \in BOOLEAN
    BY <1>1, <2>1, <2>2, VectorsAre
  <2> QED
    BY <2>1, <2>3, <2>4, WellTypedDouble
<1>3. CASE InsertFirstByte
  <2>1. PICK a \in Singles, e \in Word :
          /\ Executes("insert.byte", FALSE, ByteBits, a, <<e>>, 1)
          /\ dest' = [a EXCEPT ![1] = Add(ZeroLowBytes(a[1], 1), e)]
          /\ passed' = (a[1] \notin 0 .. Byte - 1) /\ cited' = {Byte}
    BY <1>3, OperandWords, Zenon DEF InsertFirstByte, InsertByte
  <2>2. PICK w \in Word : a = <<w>>
    BY ConversionFacts
  <2>3. a[1] = w
    BY <2>2
  <2> DEFINE v == Add(ZeroLowBytes(w, 1), e)
  <2>4. v \in Word
    BY InsertedHolder
  <2>5. dest' = [a EXCEPT ![1] = v]
    BY <2>1, <2>3
  <2> HIDE DEF v
  <2>6. dest' = <<v>>
    BY <2>2, <2>5
  <2>7. passed' \in BOOLEAN
    BY <2>1, Zenon
  <2>8. Vec(a) /\ Vec(<<e>>) /\ cited' \subseteq Initialised
    BY <1>1, <2>1, <2>2, <2>4, ConversionFacts
  <2> QED
    BY <2>1, <2>4, <2>6, <2>7, <2>8, WellTypedWord
<1>4. CASE InsertLastByte
  <2>1. PICK a \in Doubles, e \in Word :
          /\ Executes("insert.last", FALSE, ByteBits, a, <<e>>, 2)
          /\ dest' = [a EXCEPT ![2] = Add(TruncateTo(a[2], 0), e)]
          /\ passed' = (a[2] \notin 0 .. Byte - 1) /\ cited' = {Byte}
    BY <1>4, OperandWords, Zenon DEF InsertLastByte, InsertByte
  <2>2. a \in Word \X Word /\ a[2] \in Word
    BY ConversionFacts
  <2>3. Add(TruncateTo(a[2], 0), e) = e
    BY <2>2, LastByte
  <2>4. dest' = [a EXCEPT ![2] = e]
    BY <2>1, <2>3
  <2>5. dest' \in Word \X Word
    <3>1. PICK i \in {1, 2} : i = 2
      OBVIOUS
    <3> QED
      BY <2>2, <2>3, <2>4, <3>1, PartPlaced
  <2>6. passed' \in BOOLEAN
    BY <2>1, Zenon
  <2>7. Vec(a) /\ Vec(<<e>>) /\ cited' \subseteq Initialised
    BY <1>1, <2>1, <2>2, <2>3, ConversionFacts, VectorsAre
  <2> QED
    BY <2>1, <2>5, <2>6, <2>7, WellTypedDouble
<1> QED
  BY <1>2, <1>3, <1>4

-----------------------------------------------------------------------------
(* Vectors: the same.                                                      *)
LEMMA LaneTyped ==
  ASSUME Powers, NEW op, NEW a, NEW b, NEW s, NEW cs, OnVectors(op, a, b, s, cs),
         Vec(a), Vec(b), Vec(dest'), cs \subseteq Initialised, passed \in BOOLEAN
  PROVE  TypeOK' /\ OtherConstantsSet'
<1>1. Executes(op, FALSE, Bits, a, b, s) /\ cited' = cs /\ passed' = passed
  BY DEF OnVectors
<1> QED
  BY <1>1, WellTyped

LEMMA LanesTyped ==
  ASSUME Powers, passed \in BOOLEAN, ArithmeticLanes \/ BitwiseLanes \/ ICmpLanes
  PROVE  TypeOK' /\ OtherConstantsSet'
<1> USE Powers
<1>1. Lanes = {1, 2} /\ Operands \subseteq Word /\ {} \subseteq Initialised
  BY OperandWords DEF Lanes
<1>2. ASSUME NEW a \in Doubles, NEW w \in Operands
      PROVE  /\ Vec(a) /\ Vec(<<w, a[1]>>)
             /\ \A i \in Lanes : a[i] \in Word /\ <<w, a[1]>>[i] \in Word
  <2>1. a[1] \in Word /\ a[2] \in Word /\ w \in Word /\ a \in Word \X Word
    BY <1>1, ConversionFacts
  <2>2. Vec(a) /\ Vec(<<w, a[1]>>)
    BY <2>1, VectorsAre
  <2> QED
    BY <1>1, <2>1, <2>2
<1>3. CASE ArithmeticLanes
  <2>1. PICK a \in Doubles, w \in Operands, op \in {"v.add", "v.sub", "v.mul"} :
          /\ OnVectors(op, a, <<w, a[1]>>, 0, {})
          /\ dest' = [i \in Lanes |-> CASE op = "v.add" -> Add(a[i], <<w, a[1]>>[i])
                                        [] op = "v.sub" -> Wrap(a[i] - <<w, a[1]>>[i])
                                        [] op = "v.mul" -> Times(a[i], <<w, a[1]>>[i])]
    BY <1>3, Zenon DEF ArithmeticLanes
  <2> DEFINE b == <<w, a[1]>>
  <2>2. OnVectors(op, a, b, 0, {}) /\ Vec(a) /\ Vec(b)
    BY <1>2, <2>1
  <2>3. dest' = [i \in Lanes |-> CASE op = "v.add" -> Add(a[i], b[i])
                                   [] op = "v.sub" -> Wrap(a[i] - b[i])
                                   [] op = "v.mul" -> Times(a[i], b[i])]
    BY <2>1
  <2>4. \A i \in Lanes : a[i] \in Word /\ b[i] \in Word
    BY <1>2
  <2> HIDE DEF b
  <2>5. \A i \in Lanes : /\ Add(a[i], b[i]) \in Word
                         /\ Wrap(a[i] - b[i]) \in Word
                         /\ Times(a[i], b[i]) \in Word
    BY <2>4, ConstantWords
  <2>6. dest' \in [Lanes -> Word]
    <3>1. \A i \in Lanes : (CASE op = "v.add" -> Add(a[i], b[i])
                              [] op = "v.sub" -> Wrap(a[i] - b[i])
                              [] op = "v.mul" -> Times(a[i], b[i])) \in Word
      BY <2>5
    <3> QED
      BY <2>3, <3>1, Zenon
  <2>7. Vec(dest')
    BY <1>1, <2>6, VectorsAre
  <2> QED
    BY <1>1, <2>2, <2>7, LaneTyped
<1>4. CASE BitwiseLanes
  <2>1. PICK a \in Doubles, w \in Operands, op \in {"v.and", "v.or", "v.xor"} :
          /\ OnVectors(op, a, <<w, a[1]>>, 0, {})
          /\ dest' = [i \in Lanes |-> CASE op = "v.and" -> And(a[i], <<w, a[1]>>[i])
                                        [] op = "v.or"  -> Or(a[i], <<w, a[1]>>[i])
                                        [] op = "v.xor" -> Xor(a[i], <<w, a[1]>>[i])]
    BY <1>4, Zenon DEF BitwiseLanes
  <2> DEFINE b == <<w, a[1]>>
  <2>2. OnVectors(op, a, b, 0, {}) /\ Vec(a) /\ Vec(b)
    BY <1>2, <2>1
  <2>3. dest' = [i \in Lanes |-> CASE op = "v.and" -> And(a[i], b[i])
                                   [] op = "v.or"  -> Or(a[i], b[i])
                                   [] op = "v.xor" -> Xor(a[i], b[i])]
    BY <2>1
  <2>4. \A i \in Lanes : a[i] \in Word /\ b[i] \in Word
    BY <1>2
  <2> HIDE DEF b
  <2>5. \A i \in Lanes : /\ And(a[i], b[i]) \in Word
                         /\ Or(a[i], b[i]) \in Word
                         /\ Xor(a[i], b[i]) \in Word
    BY <2>4, BitwiseBits DEF And, Or, Xor
  <2>6. dest' \in [Lanes -> Word]
    <3>1. \A i \in Lanes : (CASE op = "v.and" -> And(a[i], b[i])
                              [] op = "v.or"  -> Or(a[i], b[i])
                              [] op = "v.xor" -> Xor(a[i], b[i])) \in Word
      BY <2>5
    <3> QED
      BY <2>3, <3>1, Zenon
  <2>7. Vec(dest')
    BY <1>1, <2>6, VectorsAre
  <2> QED
    BY <1>1, <2>2, <2>7, LaneTyped
<1>5. CASE ICmpLanes
  <2>1. PICK a \in Doubles, w \in Operands, old \in {0, 1}, pred \in DOMAIN LanePred :
          LET b == <<w, a[1]>>
              flag(i) == TimesConst(Flag(Compare(pred, a[i], b[i])), Byte ^ (i - 1))
          IN  /\ OnVectors(LanePred[pred], a, b, old, {1, Byte})
              /\ dest' = <<Add(Add(old, flag(1)), flag(2))>>
    BY <1>5, Zenon DEF ICmpLanes
  <2> DEFINE b == <<w, a[1]>>
             f == Flag(Compare(pred, a[1], b[1]))
             g == Flag(Compare(pred, a[2], b[2]))
             s == TimesConst(f, Byte ^ (1 - 1))
             t == TimesConst(g, Byte ^ (2 - 1))
  <2>2. OnVectors(LanePred[pred], a, b, old, {1, Byte}) /\ Vec(a) /\ Vec(b)
    BY <1>2, <2>1
  <2>3. dest' = <<Add(Add(old, s), t)>>
    BY <2>1, Zenon
  <2>4. f \in Word /\ g \in Word /\ old \in Word /\ Byte \in Word /\ 1 \in Word
    <3>1. f \in {0, 1} /\ g \in {0, 1}
      BY FlagIs
    <3> HIDE DEF f, g
    <3> QED
      BY <3>1, ConversionFacts, InitialisedAre
  <2>5. Byte ^ (1 - 1) \in Word /\ Byte ^ (2 - 1) \in Word
    <3>1. Byte ^ 0 = 1 /\ Byte ^ 1 = Byte
      BY SmallNumbers
    <3> QED
      BY <2>4, <3>1
  <2> HIDE DEF b, f, g
  <2>6. s \in Word /\ t \in Word
    BY <2>4, <2>5, ConstantWords
  <2> HIDE DEF s, t
  <2>7. Add(old, s) \in Word
    BY <2>4, <2>6, ConstantWords
  <2>8. Add(Add(old, s), t) \in Word
    BY <2>6, <2>7, ConstantWords
  <2>9. Vec(dest') /\ {1, Byte} \subseteq Initialised
    BY <2>3, <2>8, VectorsAre, InitialisedAre
  <2> QED
    BY <2>2, <2>9, LaneTyped
<1> QED
  BY <1>3, <1>4, <1>5

LEMMA ElementsTyped ==
  ASSUME Powers, passed \in BOOLEAN,
         ShuffleWords \/ ExtractElement \/ ExtractFlag \/ InsertElement
  PROVE  TypeOK' /\ OtherConstantsSet'
<1> USE Powers
<1>1. Lanes = {1, 2} /\ Operands \subseteq Word /\ {} \subseteq Initialised
  BY OperandWords DEF Lanes
<1>2. \A v \in Word : Vec(<<v>>) /\ Vec(<<>>)
  BY VectorsAre
<1>3. \A x \in Doubles : x \in Word \X Word /\ x[1] \in Word /\ x[2] \in Word /\ Vec(x)
  BY ConversionFacts, VectorsAre
<1>4. CASE ShuffleWords
  <2>1. PICK a \in Doubles, b \in Doubles :
          \E mask \in {<<m, n>> : m, n \in {0, 1, 3}} :
            /\ OnVectors("shuffle", a, b, mask, {})
            /\ dest' = [i \in Lanes |-> IF mask[i] > 2 THEN b[mask[i] - 1] ELSE a[mask[i] + 1]]
    BY <1>4 DEF ShuffleWords
  <2>2. PICK mask \in {<<m, n>> : m, n \in {0, 1, 3}} :
          /\ OnVectors("shuffle", a, b, mask, {})
          /\ dest' = [i \in Lanes |-> IF mask[i] > 2 THEN b[mask[i] - 1] ELSE a[mask[i] + 1]]
    BY <2>1
  <2>3. \A i \in Lanes : mask[i] \in {0, 1, 3}
    BY <1>1
  <2>4. ASSUME NEW i \in Lanes
        PROVE  (IF mask[i] > 2 THEN b[mask[i] - 1] ELSE a[mask[i] + 1]) \in Word
    <3> DEFINE m == mask[i]
    <3>1. m \in {0, 1, 3}
      BY <2>3
    <3> HIDE DEF m
    <3>2. (IF m > 2 THEN b[m - 1] ELSE a[m + 1]) \in Word
      BY <1>3, <3>1
    <3> QED
      BY <3>2 DEF m
  <2>5. dest' \in [Lanes -> Word]
    BY <2>2, <2>4
  <2>6. Vec(dest')
    BY <1>1, <2>5, VectorsAre
  <2> QED
    BY <1>1, <1>3, <2>2, <2>6, LaneTyped
<1>5. CASE ExtractElement
  <2>1. PICK a \in Doubles, i \in {0, 1} :
          OnVectors("extract.element", a, <<>>, i, {}) /\ dest' = <<a[i + 1]>>
    BY <1>5 DEF ExtractElement
  <2>2. a[i + 1] \in Word
    BY <1>3
  <2>3. Vec(dest') /\ Vec(a) /\ Vec(<<>>)
    BY <1>2, <1>3, <2>1, <2>2
  <2> QED
    BY <1>1, <2>1, <2>3, LaneTyped
<1>6. CASE ExtractFlag
  <2>1. PICK flags \in [1 .. 4 -> {0, 1}], i \in 0 .. 3 :
          /\ OnVectors("extract.flag", <<FlagsWord(flags)>>, <<>>, i, {Byte ^ i})
          /\ dest' = <<Over(FlagsWord(flags), Byte ^ i)>>
    BY <1>6, Zenon DEF ExtractFlag
  <2>2. Byte ^ i \in Initialised /\ Byte ^ i \in Nat \ {0} /\ FlagsWord(flags) \in Word
    BY FlagsWordIs
  <2>3. Byte ^ i \in Word /\ Byte ^ i # 0
    BY <2>2, InitialisedAre
  <2>4. Over(FlagsWord(flags), Byte ^ i) \in Word
    BY <2>2, <2>3, QuotientWord
  <2>5. Vec(dest') /\ Vec(<<FlagsWord(flags)>>) /\ Vec(<<>>) /\ {Byte ^ i} \subseteq Initialised
    BY <1>2, <2>1, <2>2, <2>4
  <2> QED
    BY <2>1, <2>5, LaneTyped
<1>7. CASE InsertElement
  <2>1. PICK a \in Doubles, e \in Operands, i \in {0, 1} :
          OnVectors("insert.element", a, <<e>>, i, {}) /\ dest' = Inserted(a, i, e)
    BY <1>7 DEF InsertElement
  <2>2. PICK k \in {1, 2} : k = i + 1
    OBVIOUS
  <2>3. a \in Word \X Word /\ e \in Word
    BY <1>1, <1>3
  <2>4. dest' = [a EXCEPT ![k] = e]
    BY <2>1, <2>2 DEF Inserted
  <2>5. dest' \in Word \X Word
    BY <2>3, <2>4, PartPlaced
  <2>6. Vec(dest') /\ Vec(a) /\ Vec(<<e>>)
    BY <1>2, <1>3, <2>3, <2>5, VectorsAre
  <2> QED
    BY <1>1, <2>1, <2>6, LaneTyped
<1> QED
  BY <1>4, <1>5, <1>6, <1>7

-----------------------------------------------------------------------------
LEMMA StepTyped ==
  ASSUME Powers, passed \in BOOLEAN, Next
  PROVE  TypeOK' /\ OtherConstantsSet'
<1>1. CASE NextShift
  BY <1>1, WordShiftsTyped, DoubleShiftsTyped, Zenon DEF NextShift
<1>2. CASE NextArithmetic
  BY <1>2, WordArithmeticTyped, DoubleArithmeticTyped, OverflowTyped, Zenon DEF NextArithmetic
<1>3. CASE NextConversion
  BY <1>3, NarrowingTyped, SExtTyped, ZExtTyped, SelectTyped, InsertTyped, Zenon DEF NextConversion
<1>4. CASE NextVector
  BY <1>4, LanesTyped, ElementsTyped, Zenon DEF NextVector
<1> QED
  BY <1>1, <1>2, <1>3, <1>4 DEF Next

LEMMA NothingTyped == Init => TypeOK /\ OtherConstantsSet
  BY DEF Init, NoInstr, TypeOK, OtherConstantsSet

(* Whatever an instruction computes, of words of any length, fits a score: *)
(* no intermediate is wider, no division is by 0, and there are one, two or*)
(* four words of it (TypeOK, which run words checks for eight bits).       *)
THEOREM WordsTypeCorrect ==
  ASSUME Powers
  PROVE  Spec => []TypeOK
<1> USE Powers
<1>1. ASSUME TypeOK, UNCHANGED vars PROVE TypeOK'
  <2>1. instr' = instr /\ dest' = dest /\ cited' = cited /\ passed' = passed
    BY <1>1 DEF vars
  <2> QED
    BY <1>1, <2>1, Zenon DEF TypeOK
<1>2. TypeOK /\ [Next]_vars => TypeOK'
  <2>1. TypeOK => passed \in BOOLEAN
    BY DEF TypeOK
  <2> QED
    BY <1>1, <2>1, StepTyped
<1> QED
  BY <1>2, NothingTyped, PTL DEF Spec

(* No compiled instruction reads a constant that initialisation did not    *)
(* set, but the 0 of a subtraction of two words and 1 << 31, for words of  *)
(* any length (OtherConstantsSet, which run words checks for eight bits;   *)
(* ConstantsSet, without the exceptions, is violated there).               *)
THEOREM ConstantsAreSet ==
  ASSUME Powers
  PROVE  Spec => []OtherConstantsSet
<1> USE Powers
<1>1. ASSUME OtherConstantsSet, UNCHANGED vars PROVE OtherConstantsSet'
  <2>1. instr' = instr /\ cited' = cited
    BY <1>1 DEF vars
  <2> QED
    BY <1>1, <2>1, Zenon DEF OtherConstantsSet
<1>2. TypeOK /\ OtherConstantsSet /\ [Next]_vars => OtherConstantsSet'
  <2>1. TypeOK => passed \in BOOLEAN
    BY DEF TypeOK
  <2> QED
    BY <1>1, <2>1, StepTyped
<1>3. Spec => []TypeOK
  BY WordsTypeCorrect
<1> QED
  BY <1>2, <1>3, NothingTyped, PTL DEF Spec
=============================================================================
