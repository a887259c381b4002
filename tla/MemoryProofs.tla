---------------------------- MODULE MemoryProofs ----------------------------
(***************************************************************************)
(* The proofs about Memory: its type invariant, that loads read at %ptr,   *)
(* and that it implements ByteMemory, for memories, values and lengths of  *)
(* any size.                                                               *)
(***************************************************************************)
EXTENDS Memory, JukeboxProofs

LEMMA BytesAre ==
  ASSUME Powers
  PROVE  Bytes = BytesOf(mem) /\ Bytes' = BytesOf(mem')
<1>1. \A a \in 0 .. Size - 1 : CellAt[a \div 4] = SetPtr(a)
  BY CellAtIs
<1>2. Bytes = [a \in 0 .. Size - 1 |-> ByteOf(mem[CellAt[a \div 4]], a % 4)]
  BY DEF Bytes
<1>3. Bytes' = [a \in 0 .. Size - 1 |-> ByteOf(mem'[CellAt[a \div 4]], a % 4)]
  BY DEF Bytes
<1>4. Bytes = BytesOf(mem)
  BY <1>1, <1>2 DEF BytesOf
<1>5. Bytes' = BytesOf(mem')
  BY <1>1, <1>3 DEF BytesOf
<1> QED
  BY <1>4, <1>5

LEMMA OneTuple ==
  ASSUME NEW x, NEW f, f = [i \in 1 .. 1 |-> x]
  PROVE  <<x>> = f
<1>1. <<x>> \in Seq({x}) /\ Len(<<x>>) = 1 /\ <<x>>[1] = x
  OBVIOUS
<1>2. f \in [1 .. 1 -> {x}]
  OBVIOUS
<1>3. f \in Seq({x})
  BY <1>2, SeqDef
<1>4. Len(f) = 1
  BY <1>2, LengthOf
<1> DEFINE t == <<x>>
<1>5. t \in Seq({x}) /\ Len(t) = Len(f) /\ \A i \in 1 .. Len(t) : t[i] = f[i]
  <2>1. \A i \in 1 .. Len(t) : i = 1
    BY <1>1
  <2> QED
    BY <1>1, <1>2, <1>4, <2>1
<1> HIDE DEF t
<1>6. t = f
  BY <1>3, <1>5, SeqEqual
<1> QED
  BY <1>6 DEF t

-----------------------------------------------------------------------------
(***************************************************************************)
(* The words of ByteMemory.                                                *)
(***************************************************************************)
Three(b, p) == b[p] + b[p + 1] * Byte + b[p + 2] * Half

LEMMA SameWords ==
  /\ Abstract!Byte = Byte
  /\ \A n : Abstract!Wrap(n) = Wrap(n)
  /\ \A w, i : Abstract!ByteOf(w, i) = ByteOf(w, i)
<1>1. Abstract!Byte = Byte
  BY DEF Abstract!Byte, Byte
<1>2. Abstract!Bits = Bits
  BY DEF Abstract!Bits, Bits
<1>3. Abstract!HighBit = HighBit
  BY <1>2 DEF Abstract!HighBit, HighBit
<1>4. \A n : Abstract!Wrap(n) = Wrap(n)
  BY <1>3 DEF Abstract!Wrap, Wrap
<1>5. \A w, i : Abstract!ByteOf(w, i) = ByteOf(w, i)
  BY <1>1 DEF Abstract!ByteOf, ByteOf
<1> QED
  BY <1>1, <1>4, <1>5

(* The sum that ByteMemory recurses for.                                   *)
LEMMA NumberIs ==
  ASSUME Powers, Bytes \in [0 .. Size - 1 -> 0 .. Byte - 1],
         NEW k \in 1 .. 4, NEW p \in 0 .. Size - k
  PROVE  Abstract!Number(p, k)
           = Wrap(CASE k = 1 -> Bytes[p]
                    [] k = 2 -> Two(Bytes, p)
                    [] k = 3 -> Three(Bytes, p)
                    [] k = 4 -> Four(Bytes, p))
<1> DEFINE E(f) == f = [i \in 0 .. k |->
                          IF i = 0 THEN 0
                          ELSE f[i - 1] + Bytes[p + i - 1] * Abstract!Byte ^ (i - 1)]
           x(i) == Bytes[p + i - 1] * Byte ^ (i - 1)
           s1 == 0 + x(1)
           s2 == s1 + x(2)
           s3 == s2 + x(3)
           s4 == s3 + x(4)
           h == [i \in 0 .. k |-> CASE i = 0 -> 0 [] i = 1 -> s1 [] i = 2 -> s2
                                    [] i = 3 -> s3 [] i = 4 -> s4]
<1> DEFINE f == CHOOSE e : E(e)
<1>1. Abstract!Number(p, k) = Wrap(f[k])
  BY SameWords DEF Abstract!Number
<1>2. E(h)
  <2> HIDE DEF s1, s2, s3, s4
  <2>1. ASSUME NEW i \in 0 .. k
        PROVE  h[i] = IF i = 0 THEN 0 ELSE h[i - 1] + x(i)
    <3>1. i = 0 \/ i = 1 \/ i = 2 \/ i = 3 \/ i = 4
      OBVIOUS
    <3>2. CASE i = 0
      BY <3>2
    <3>3. CASE i = 1
      <4>1. i - 1 = 0 /\ 0 \in 0 .. k /\ i # 0
        BY <3>3
      <4>2. h[i] = s1 /\ h[i - 1] = 0
        BY <3>3, <4>1
      <4> QED
        BY <3>3, <4>1, <4>2 DEF s1
    <3>4. CASE i = 2
      <4>1. i - 1 = 1 /\ 1 \in 0 .. k /\ i # 0
        BY <3>4
      <4>2. h[i] = s2 /\ h[i - 1] = s1
        BY <3>4, <4>1
      <4> QED
        BY <3>4, <4>1, <4>2 DEF s2
    <3>5. CASE i = 3
      <4>1. i - 1 = 2 /\ 2 \in 0 .. k /\ i # 0
        BY <3>5
      <4>2. h[i] = s3 /\ h[i - 1] = s2
        BY <3>5, <4>1
      <4> QED
        BY <3>5, <4>1, <4>2 DEF s3
    <3>6. CASE i = 4
      <4>1. i - 1 = 3 /\ 3 \in 0 .. k /\ i # 0
        BY <3>6
      <4>2. h[i] = s4 /\ h[i - 1] = s3
        BY <3>6, <4>1
      <4> QED
        BY <3>6, <4>1, <4>2 DEF s4
    <3> QED
      BY <3>1, <3>2, <3>3, <3>4, <3>5, <3>6
  <2>2. h = [i \in 0 .. k |-> h[i]]
    OBVIOUS
  <2> HIDE DEF h
  <2>3. h = [i \in 0 .. k |-> IF i = 0 THEN 0 ELSE h[i - 1] + x(i)]
    BY <2>1, <2>2
  <2> QED
    BY <2>3, SameWords
<1>3. E(f)
  BY <1>2
<1> HIDE DEF f
<1>4. \A i \in 0 .. k : f[i] = IF i = 0 THEN 0 ELSE f[i - 1] + x(i)
  BY <1>3, SameWords
<1> HIDE DEF E, x
<1>5. f[0] = 0 /\ f[1] = s1 /\ (k >= 2 => f[2] = s2) /\ (k >= 3 => f[3] = s3)
      /\ (k >= 4 => f[4] = s4)
  <2>1. 0 \in 0 .. k /\ 1 \in 0 .. k /\ (k >= 2 => 2 \in 0 .. k) /\ (k >= 3 => 3 \in 0 .. k)
        /\ (k >= 4 => 4 \in 0 .. k)
    OBVIOUS
  <2>2. f[0] = 0
    BY <1>4, <2>1
  <2>3. f[1] = s1
    BY <1>4, <2>1, <2>2
  <2>4. k >= 2 => f[2] = s2
    BY <1>4, <2>1, <2>3
  <2>5. k >= 3 => f[3] = s3
    BY <1>4, <2>1, <2>4
  <2>6. k >= 4 => f[4] = s4
    BY <1>4, <2>1, <2>5
  <2> QED
    BY <2>2, <2>3, <2>4, <2>5, <2>6
<1>6. Byte \in Nat \ {0} /\ Byte ^ 0 = 1 /\ Byte ^ 1 = Byte /\ Byte ^ 2 = Half
      /\ Half \in Int
  BY ByteSize, ByteUnits
<1>7. ASSUME NEW j \in 0 .. k - 1
      PROVE  p + j \in 0 .. Size - 1 /\ Bytes[p + j] \in Int
  <2>1. p + j \in 0 .. Size - 1
    BY GridSize
  <2> QED
    BY <1>6, <2>1
<1>8. Bytes[p] \in Int /\ p + 0 = p /\ p \in Int
  <2>1. 0 \in 0 .. k - 1 /\ p + 0 = p /\ p \in Int
    BY GridSize
  <2> QED
    BY <1>7, <2>1
<1>9. x(1) = Bytes[p]
  <2>1. p + 1 - 1 = p /\ 1 - 1 = 0
    BY <1>8
  <2> QED
    BY <1>6, <1>8, <2>1 DEF x
<1>10. x(2) = Bytes[p + 1] * Byte
  <2>1. p + 2 - 1 = p + 1 /\ 2 - 1 = 1
    BY <1>8
  <2> QED
    BY <1>6, <2>1 DEF x
<1>11. x(3) = Bytes[p + 2] * Half
  <2>1. p + 3 - 1 = p + 2 /\ 3 - 1 = 2
    BY <1>8
  <2> QED
    BY <1>6, <2>1 DEF x
<1>12. x(4) = Bytes[p + 3] * (Byte * Half)
  <2>1. p + 4 - 1 = p + 3 /\ 4 - 1 = 3
    BY <1>8
  <2>2. Byte ^ 3 = Byte * Half
    BY ByteSize
  <2> QED
    BY <2>1, <2>2 DEF x
<1>13. s1 = Bytes[p]
  BY <1>8, <1>9
<1> HIDE DEF s1
<1>14. s2 = Two(Bytes, p)
  BY <1>10, <1>13 DEF Two
<1>15. s3 = Three(Bytes, p)
  BY <1>11, <1>14 DEF Two, Three
<1>16. s4 = Four(Bytes, p)
  BY <1>12, <1>15 DEF Three, Four
<1> HIDE DEF s2, s3, s4
<1>17. k = 1 \/ k = 2 \/ k = 3 \/ k = 4
  OBVIOUS
<1> QED
  BY <1>1, <1>5, <1>13, <1>14, <1>15, <1>16, <1>17

-----------------------------------------------------------------------------
(***************************************************************************)
(* Loads.                                                                  *)
(***************************************************************************)
LEMMA LengthIs ==
  ASSUME NEW n \in LoadLengths \union StoreLengths
  PROVE  /\ n \in Nat \ {0}
         /\ n \in {1, 2, 3} \/ n % 4 = 0
         /\ n % 4 = 0 => (n + 3) \div 4 = n \div 4 /\ n \div 4 \in Nat
                         /\ 4 * (n \div 4) = n /\ n >= 4
         /\ n \in {1, 2, 3} => (n + 3) \div 4 = 1 /\ n % 4 = n /\ n % 4 # 0
<1>1. n \in {1, 2, 3} \/ (n \in Nat \ {0} /\ n % 4 = 0)
  BY LengthsAssumption
<1>2. CASE n \in {1, 2, 3}
  BY <1>2
<1>3. CASE n \in Nat \ {0} /\ n % 4 = 0
  BY <1>3
<1> QED
  BY <1>1, <1>2, <1>3

LEMMA AlignmentIs ==
  ASSUME NEW n \in LoadLengths \union StoreLengths, NEW al \in Alignments,
         NEW p \in Addresses(n, al)
  PROVE  /\ al \in {1, 2, 4} /\ p \in 0 .. Size - n /\ p \in Int
         /\ al = 4 => p % 4 = 0
         /\ al # 1 => p % 2 = 0
         /\ n \in Int /\ p \in 0 .. Size - 1 /\ p + n - 1 \in 0 .. Size - 1
         /\ n >= 2 => p \in 0 .. Size - 2
         /\ n >= 4 => p \in 0 .. Size - 4 /\ p + n - 4 \in 0 .. Size - 4
<1>1. al \in {1, 2, 4}
  BY LengthsAssumption
<1>2. p \in 0 .. Size - n /\ p % al = 0
  BY DEF Addresses
<1>3. n \in Nat \ {0} /\ Size \in Nat
  BY LengthIs, GridSize
<1>4. p \in Int /\ n \in Int /\ p \in 0 .. Size - 1 /\ p + n - 1 \in 0 .. Size - 1
  BY <1>2, <1>3
<1>5. n >= 2 => p \in 0 .. Size - 2
  BY <1>2, <1>3
<1>6. n >= 4 => p \in 0 .. Size - 4 /\ p + n - 4 \in 0 .. Size - 4
  BY <1>2, <1>3
<1>7. al = 4 => p % 4 = 0
  BY <1>2
<1>8. al # 1 => p % 2 = 0
  <2>1. CASE al = 2
    BY <1>2, <2>1
  <2>2. CASE al = 4
    BY <1>2, <1>4, <2>2
  <2> QED
    BY <1>1, <2>1, <2>2
<1> QED
  BY <1>1, <1>2, <1>4, <1>5, <1>6, <1>7, <1>8

(* What a load leaves in its destination.                                  *)
LEMMA ValueOfWords ==
  ASSUME Powers, mem \in Memories, NEW n \in LoadLengths, n % 4 = 0,
         NEW al \in Alignments, NEW p \in Addresses(n, al)
  PROVE  LET v == [i \in 1 .. n \div 4 |->
                     LET a == p + 4 * (i - 1)
                     IN IF al = 4 THEN mem[SetPtr(a)] ELSE LoadWordUnaligned(mem, a)]
         IN v = Abstract!Value(p, n) /\ v \in [1 .. n \div 4 -> Word]
<1>1. /\ n \in Nat /\ (n + 3) \div 4 = n \div 4 /\ n \div 4 \in Nat /\ 4 * (n \div 4) = n
      /\ p \in 0 .. Size - n /\ p \in Int /\ (al = 4 => p % 4 = 0) /\ Size \in Nat
  BY LengthIs, AlignmentIs, GridSize
<1>2. Bytes = BytesOf(mem) /\ Bytes \in [0 .. Size - 1 -> 0 .. Byte - 1]
  BY BytesAre, BytesIn
<1>3. ASSUME NEW i \in 1 .. n \div 4
      PROVE  /\ LET a == p + 4 * (i - 1)
                IN  Abstract!Number(a, IF n < 4 * i THEN n % 4 ELSE 4)
                      = IF al = 4 THEN mem[SetPtr(a)] ELSE LoadWordUnaligned(mem, a)
             /\ LET a == p + 4 * (i - 1)
                IN  (IF al = 4 THEN mem[SetPtr(a)] ELSE LoadWordUnaligned(mem, a)) \in Word
  <2> DEFINE a == p + 4 * (i - 1)
             x == Wrap(Four(Bytes, a))
  <2>1. a \in 0 .. Size - 4 /\ a \in 0 .. Size - 1 /\ ~ (n < 4 * i) /\ a \in Int
    BY <1>1
  <2>2. al = 4 => a % 4 = 0
    BY <1>1
  <2> HIDE DEF a
  <2>3. Abstract!Number(a, 4) = x
    <3>1. 4 \in 1 .. 4
      OBVIOUS
    <3>2. PICK k \in 1 .. 4 : k = 4
      OBVIOUS
    <3>3. a \in 0 .. Size - k
      BY <2>1, <3>2
    <3>4. Abstract!Number(a, k) = Wrap(CASE k = 1 -> Bytes[a]
                                         [] k = 2 -> Two(Bytes, a)
                                         [] k = 3 -> Three(Bytes, a)
                                         [] k = 4 -> Four(Bytes, a))
      BY <1>2, <3>3, NumberIs
    <3>5. (CASE k = 1 -> Bytes[a] [] k = 2 -> Two(Bytes, a)
             [] k = 3 -> Three(Bytes, a) [] k = 4 -> Four(Bytes, a)) = Four(Bytes, a)
      BY <3>2
    <3> QED
      BY <3>2, <3>4, <3>5
  <2>4. (IF al = 4 THEN mem[SetPtr(a)] ELSE LoadWordUnaligned(mem, a)) = x
    <3>1. CASE al = 4
      BY <1>2, <2>1, <2>2, <3>1, WordIs
    <3>2. CASE al # 4
      BY <1>2, <2>1, <3>2, LoadWordUnalignedIs
    <3> QED
      BY <3>1, <3>2
  <2>5. x \in Word
    <3>1. Four(Bytes, a) \in Int
      <4>1. /\ a + 1 \in 0 .. Size - 1 /\ a + 2 \in 0 .. Size - 1
            /\ a + 3 \in 0 .. Size - 1 /\ a \in 0 .. Size - 1
        BY <1>1, <2>1
      <4>2. /\ Bytes[a] \in Int /\ Bytes[a + 1] \in Int
            /\ Bytes[a + 2] \in Int /\ Bytes[a + 3] \in Int
        BY <1>2, <4>1
      <4>3. Byte \in Int /\ Half \in Int /\ Byte * Half \in Int
        BY ByteSize, SmallWords
      <4> QED
        BY <4>2, <4>3 DEF Four
    <3> QED
      BY <3>1, WrapFacts
  <2> HIDE DEF x
  <2>6. Abstract!Number(a, IF n < 4 * i THEN n % 4 ELSE 4) = x
    BY <2>1, <2>3
  <2> QED
    BY <2>4, <2>5, <2>6 DEF a
<1> DEFINE v == [i \in 1 .. n \div 4 |->
                   LET a == p + 4 * (i - 1)
                   IN IF al = 4 THEN mem[SetPtr(a)] ELSE LoadWordUnaligned(mem, a)]
<1>4. Abstract!Value(p, n) = [i \in 1 .. n \div 4 |->
                                Abstract!Number(p + 4 * (i - 1),
                                                IF n < 4 * i THEN n % 4 ELSE 4)]
  BY <1>1 DEF Abstract!Value, Abstract!WordsIn
<1>5. v = Abstract!Value(p, n)
  BY <1>3, <1>4
<1>6. v \in [1 .. n \div 4 -> Word]
  BY <1>3
<1> QED
  BY <1>5, <1>6

LEMMA ValueOfBytes ==
  ASSUME Powers, mem \in Memories, NEW n \in LoadLengths, n \in {1, 2},
         NEW al \in Alignments, NEW p \in Addresses(n, al)
  PROVE  LET x == CASE n = 1          -> LoadByte(mem, p)
                    [] n = 2 /\ al = 1 -> LoadHalfwordUnaligned(mem, p)
                    [] OTHER           -> LoadHalfword(mem, p)
         IN <<x>> = Abstract!Value(p, n) /\ x \in Word
<1> DEFINE x == CASE n = 1          -> LoadByte(mem, p)
                  [] n = 2 /\ al = 1 -> LoadHalfwordUnaligned(mem, p)
                  [] OTHER           -> LoadHalfword(mem, p)
<1>1. /\ p \in 0 .. Size - 1 /\ p \in 0 .. Size - n /\ (n = 2 => p \in 0 .. Size - 2)
      /\ (al # 1 => p % 2 = 0) /\ p \in Int /\ n % 4 = n /\ (n + 3) \div 4 = 1
      /\ n \in 1 .. 4
  BY LengthIs, AlignmentIs
<1>2. Bytes = BytesOf(mem) /\ Bytes \in [0 .. Size - 1 -> 0 .. Byte - 1]
  BY BytesAre, BytesIn
<1>3. Bytes[p] \in 0 .. Byte - 1 /\ (n = 2 => Bytes[p + 1] \in 0 .. Byte - 1)
  <2>1. n = 2 => p + 1 \in 0 .. Size - 1
    BY <1>1, GridSize
  <2> QED
    BY <1>1, <1>2, <2>1
<1>4. n = 2 => Two(Bytes, p) \in 0 .. Half - 1
  <2> SUFFICES ASSUME n = 2 PROVE Two(Bytes, p) \in 0 .. Half - 1
    OBVIOUS
  <2> DEFINE y == Bytes[p]  z == Bytes[p + 1]
  <2>1. y \in 0 .. Byte - 1 /\ z \in 0 .. Byte - 1 /\ Byte \in Nat \ {0}
    BY <1>3, ByteSize
  <2> HIDE DEF y, z
  <2>2. \A B \in Nat \ {0} : \A u, w \in 0 .. B - 1 : u + w * B \in 0 .. B * B - 1
    <3> TAKE B \in Nat \ {0}
    <3> TAKE u, w \in 0 .. B - 1
    <3>1. w * B <= (B - 1) * B /\ 0 <= w * B
      OBVIOUS
    <3> QED
      BY <3>1
  <2>3. y + z * Byte \in 0 .. Byte * Byte - 1
    BY <2>1, <2>2
  <2> QED
    BY <2>3, ByteSize DEF Two, y, z
<1>5. ASSUME n = 1
      PROVE  x \in Word /\ Abstract!Number(p, n) = x
  <2>1. x = Bytes[p]
    <3>1. LoadByte(mem, p) = Bytes[p]
      BY <1>1, <1>2, LoadByteIs
    <3>2. ~ (n = 2 /\ al = 1)
      BY <1>5
    <3> QED
      BY <1>5, <3>1, <3>2
  <2>2. Bytes[p] \in Word
    BY <1>3, SmallWords
  <2>3. Wrap(Bytes[p]) = Bytes[p]
    <3>1. Bytes[p] \in Int
      BY <1>3, ByteSize
    <3> QED
      BY <2>2, <3>1, WrapFacts
  <2>4. Abstract!Number(p, n) = Wrap(Bytes[p])
    <3>1. Abstract!Number(p, n) = Wrap(CASE n = 1 -> Bytes[p]
                                         [] n = 2 -> Two(Bytes, p)
                                         [] n = 3 -> Three(Bytes, p)
                                         [] n = 4 -> Four(Bytes, p))
      BY <1>1, <1>2, NumberIs
    <3> QED
      BY <1>5, <3>1
  <2> QED
    BY <2>1, <2>2, <2>3, <2>4
<1>6. ASSUME n = 2
      PROVE  x \in Word /\ Abstract!Number(p, n) = x
  <2>1. Two(Bytes, p) \in Word
    BY <1>4, <1>6, SmallWords
  <2>2. Wrap(Two(Bytes, p)) = Two(Bytes, p)
    <3>1. Two(Bytes, p) \in Int
      BY <1>4, <1>6, ByteUnits
    <3> QED
      BY <2>1, <3>1, WrapFacts
  <2>3. x = Two(Bytes, p)
    <3>1. CASE al = 1
      <4>1. LoadHalfwordUnaligned(mem, p) = Wrap(Two(Bytes, p))
        BY <1>1, <1>2, <1>6, LoadHalfwordUnalignedIs
      <4> QED
        BY <1>6, <2>2, <3>1, <4>1
    <3>2. CASE al # 1
      <4>1. LoadHalfword(mem, p) = Two(Bytes, p)
        BY <1>1, <1>2, <3>2, LoadHalfwordIs
      <4> QED
        BY <1>6, <3>2, <4>1
    <3> QED
      BY <3>1, <3>2
  <2>4. Abstract!Number(p, n) = Wrap(Two(Bytes, p))
    <3>1. Abstract!Number(p, n) = Wrap(CASE n = 1 -> Bytes[p]
                                         [] n = 2 -> Two(Bytes, p)
                                         [] n = 3 -> Three(Bytes, p)
                                         [] n = 4 -> Four(Bytes, p))
      BY <1>1, <1>2, NumberIs
    <3> QED
      BY <1>6, <3>1
  <2> QED
    BY <2>1, <2>2, <2>3, <2>4
<1>7. x \in Word /\ Abstract!Number(p, n) = x
  BY <1>5, <1>6
<1> HIDE DEF x
<1>8. Abstract!Value(p, n) = [i \in 1 .. 1 |-> x]
  <2>1. Abstract!Value(p, n) = [i \in 1 .. 1 |->
                                  Abstract!Number(p + 4 * (i - 1),
                                                  IF n < 4 * i THEN n % 4 ELSE 4)]
    BY <1>1 DEF Abstract!Value, Abstract!WordsIn
  <2>2. \A i \in 1 .. 1 : p + 4 * (i - 1) = p /\ (IF n < 4 * i THEN n % 4 ELSE 4) = n
    BY <1>1
  <2> QED
    BY <1>7, <2>1, <2>2
<1>9. <<x>> = Abstract!Value(p, n)
  BY <1>8, OneTuple
<1> QED
  BY <1>7, <1>9 DEF x

LEMMA LoadStep ==
  ASSUME Powers, mem \in Memories, pos \in Cells,
         NEW n \in LoadLengths, NEW al \in Alignments, NEW p \in Addresses(n, al),
         LoadOne(n, al, p)
  PROVE  /\ ptr' \in 0 .. Size - 1 /\ pos' \in Cells
         /\ \A i \in DOMAIN loaded' : loaded'[i] \in Word
         /\ n # 3 => pos' = SetPtr(ptr') /\ loaded' = Abstract!Value(p, n)
<1>1. /\ n \in Nat \ {0} /\ p \in Int /\ p \in 0 .. Size - 1 /\ p + n - 1 \in 0 .. Size - 1
      /\ (n % 4 = 0 => p + n - 4 \in 0 .. Size - 1)
  BY LengthIs, AlignmentIs, GridSize
<1>2. CASE LoadWords(n, al, p)
  <2> DEFINE v == [i \in 1 .. n \div 4 |->
                     LET a == p + 4 * (i - 1)
                     IN IF al = 4 THEN mem[SetPtr(a)] ELSE LoadWordUnaligned(mem, a)]
  <2>1. n % 4 = 0 /\ ptr' = (IF al = 4 THEN p + n - 4 ELSE p + n - 1) /\ pos' = SetPtr(ptr')
    BY <1>2 DEF LoadWords, WholeWords
  <2>2. loaded' = v
    BY <1>2 DEF LoadWords
  <2>3. v = Abstract!Value(p, n) /\ v \in [1 .. n \div 4 -> Word]
    BY <2>1, ValueOfWords
  <2> HIDE DEF v
  <2>4. ptr' \in 0 .. Size - 1
    BY <1>1, <2>1
  <2>5. SetPtr(ptr') \in Cells
    <3>1. PICK q \in 0 .. Size - 1 : q = ptr'
      BY <2>4
    <3>2. SetPtr(q) \in Cells
      BY SetPtrIs
    <3> QED
      BY <3>1, <3>2
  <2> QED
    BY <2>1, <2>2, <2>3, <2>4, <2>5
<1>3. CASE LoadSmall(n, al, p)
  <2> DEFINE x == CASE n = 1          -> LoadByte(mem, p)
                    [] n = 2 /\ al = 1 -> LoadHalfwordUnaligned(mem, p)
                    [] OTHER           -> LoadHalfword(mem, p)
  <2>1. n \in {1, 2} /\ ptr' = (IF n = 2 /\ al = 1 THEN p + 1 ELSE p) /\ pos' = SetPtr(ptr')
    BY <1>3 DEF LoadSmall
  <2>2. loaded' = <<x>>
    BY <1>3 DEF LoadSmall
  <2>3. <<x>> = Abstract!Value(p, n) /\ x \in Word
    BY <2>1, ValueOfBytes
  <2> HIDE DEF x
  <2>4. ptr' \in 0 .. Size - 1
    BY <1>1, <2>1
  <2>5. SetPtr(ptr') \in Cells
    <3>1. PICK q \in 0 .. Size - 1 : q = ptr'
      BY <2>4
    <3>2. SetPtr(q) \in Cells
      BY SetPtrIs
    <3> QED
      BY <3>1, <3>2
  <2>6. \A i \in DOMAIN <<x>> : <<x>>[i] \in Word
    BY <2>3
  <2> QED
    BY <2>1, <2>2, <2>3, <2>4, <2>5, <2>6
<1>4. CASE LoadThree(n, al, p)
  <2> DEFINE x == Mod(mem[pos], Byte * Half)
  <2>1. n = 3 /\ ptr' = p /\ pos' = pos
    BY <1>4 DEF LoadThree
  <2>2. loaded' = <<x>>
    BY <1>4 DEF LoadThree
  <2>3. x \in Word
    <3>1. mem[pos] \in Int /\ Byte * Half \in Nat \ {0}
      BY SmallWords, BytePlace DEF Memories, Word
    <3> DEFINE w == mem[pos]
               z == Byte * Half
    <3> HIDE DEF w, z
    <3>2. w % z \in 0 .. z - 1
      BY <3>1, DivIs DEF w, z
    <3>3. w % z \in Word
      BY <3>2, SmallWords DEF z
    <3> QED
      BY <3>3 DEF Mod, w, z
  <2> HIDE DEF x
  <2>4. \A i \in DOMAIN <<x>> : <<x>>[i] \in Word
    BY <2>3
  <2> QED
    BY <1>1, <2>1, <2>2, <2>4
<1> QED
  BY <1>2, <1>3, <1>4 DEF LoadOne

-----------------------------------------------------------------------------
(***************************************************************************)
(* Stores.                                                                 *)
(***************************************************************************)
Stored(b, n, p, v) ==
  [a \in 0 .. Size - 1 |-> IF a - p \in 0 .. n - 1
                           THEN ByteOf(v[(a - p) \div 4 + 1], (a - p) % 4)
                           ELSE b[a]]

LEMMA StoreStep ==
  ASSUME Powers, mem \in Memories,
         NEW n \in StoreLengths, NEW al \in Alignments, NEW p \in Addresses(n, al),
         NEW v \in [1 .. (n + 3) \div 4 -> Values],
         StoreOne(n, al, p, v)
  PROVE  /\ mem' \in Memories
         /\ Bytes' = Stored(Bytes, n, p, v)
<1>1. Bytes = BytesOf(mem) /\ Bytes' = BytesOf(mem')
  BY BytesAre
<1>2. BytesOf(mem') = [a \in 0 .. Size - 1 |-> BytesOf(mem')[a]]
  BY DEF BytesOf
<1> SUFFICES /\ mem' \in Memories
             /\ \A a \in 0 .. Size - 1 :
                  BytesOf(mem')[a] = IF a - p \in 0 .. n - 1
                                     THEN ByteOf(v[(a - p) \div 4 + 1], (a - p) % 4)
                                     ELSE BytesOf(mem)[a]
  BY <1>1, <1>2 DEF Stored
<1>3. /\ n \in Nat \ {0} /\ (n \in {1, 2, 3} \/ n % 4 = 0)
      /\ al \in {1, 2, 4} /\ p \in 0 .. Size - n /\ p \in Int
      /\ (al = 4 => p % 4 = 0) /\ (al # 1 => p % 2 = 0) /\ Size \in Nat
  BY LengthIs, AlignmentIs, GridSize
<1>4. CASE n % 4 = 0
  <2> DEFINE k == n \div 4
             w == al = 4
  <2>1. k \in Nat /\ 4 * k = n /\ (n + 3) \div 4 = k
    BY <1>4, LengthIs
  <2>2. v \in [1 .. k -> Word]
    BY <2>1, ValuesAssumption
  <2>3. mem' = StoreWords(mem, p, v, al = 4)
    BY <1>4 DEF StoreOne, WholeWords
  <2>4. w \in BOOLEAN /\ (w => p % 4 = 0) /\ p \in 0 .. Size - 4 * k
    BY <1>3, <2>1
  <2>5. mem' = StoreWords(mem, p, v, w)
    BY <2>3
  <2> HIDE DEF k, w
  <2>6. StoreWords(mem, p, v, w) \in Memories
        /\ CoversWords(BytesOf(StoreWords(mem, p, v, w)), mem, p, k, v)
    BY <2>1, <2>2, <2>4, StoreWordsCovers
  <2>7. mem' \in Memories /\ CoversWords(BytesOf(mem'), mem, p, k, v)
    BY <2>5, <2>6
  <2> QED
    BY <2>1, <2>7 DEF CoversWords
<1>5. CASE n \in {1, 2, 3}
  <2>1. v \in [1 .. 1 -> Word] /\ n \in 1 .. 4 /\ n % 4 # 0
    BY <1>5, LengthIs, ValuesAssumption
  <2>2. v[1] \in Word /\ v[1] \in Int
    <3>1. v[1] \in Word
      BY <2>1
    <3> QED
      BY <3>1, BytePlace DEF Word
  <2>3. mem' \in Memories /\ Covers(BytesOf(mem'), mem, p, n, v[1])
    <3>1. CASE n = 2 /\ al # 1
      <4>1. mem' = StoreHalfword(mem, p, v[1])
        BY <2>1, <3>1 DEF StoreOne, WholeWords
      <4>2. p \in 0 .. Size - 2 /\ p % 2 = 0
        BY <1>3, <3>1
      <4>3. StoreHalfword(mem, p, v[1]) \in Memories
            /\ Covers(BytesOf(StoreHalfword(mem, p, v[1])), mem, p, 2, v[1])
        BY <2>2, <4>2, StoreHalfwordCovers
      <4> QED
        BY <3>1, <4>1, <4>3
    <3>2. CASE ~ (n = 2 /\ al # 1)
      <4>1. mem' = StoreBytes(mem, p, v[1], n)
        BY <2>1, <3>2 DEF StoreOne, WholeWords
      <4>2. StoreBytes(mem, p, v[1], n) \in Memories
            /\ Covers(BytesOf(StoreBytes(mem, p, v[1], n)), mem, p, n, v[1])
        BY <1>3, <2>1, <2>2, StoreBytesCovers
      <4> QED
        BY <4>1, <4>2
    <3> QED
      BY <3>1, <3>2
  <2>4. ASSUME NEW a \in 0 .. Size - 1, a - p \in 0 .. n - 1
        PROVE  (a - p) \div 4 + 1 = 1 /\ (a - p) % 4 = a - p
    <3>1. a - p = 0 \/ a - p = 1 \/ a - p = 2
      BY <1>5, <2>4
    <3> QED
      BY <3>1
  <2> QED
    BY <2>3, <2>4 DEF Covers
<1> QED
  BY <1>3, <1>4, <1>5

-----------------------------------------------------------------------------
(***************************************************************************)
(* The theorems.                                                           *)
(***************************************************************************)
LEMMA AddressesAreWords ==
  ASSUME Powers
  PROVE  0 .. Size \subseteq Word
BY SizeAssumption, GridSize, BytePlace DEF Word

LEMMA PlacesAreCells ==
  ASSUME Powers
  PROVE  \A q \in 0 .. Size - 1 : SetPtr(q) \in Cells
BY SetPtrIs

(* Where a store leaves %ptr and the entity.                               *)
LEMMA StoreEnds ==
  ASSUME Powers, NEW n \in StoreLengths, NEW al \in Alignments, NEW p \in Addresses(n, al)
  PROVE  LET last == CASE WholeWords(n) /\ al = 4 -> p + n - 4
                       [] n = 2 /\ al # 1         -> p
                       [] OTHER                   -> p + n - 1
         IN /\ SetPtr(last) \in Cells
            /\ (IF n = 3 THEN last + 1 ELSE last) \in Word
<1> DEFINE last == CASE WholeWords(n) /\ al = 4 -> p + n - 4
                     [] n = 2 /\ al # 1         -> p
                     [] OTHER                   -> p + n - 1
<1>1. /\ p \in 0 .. Size - 1 /\ p + n - 1 \in 0 .. Size - 1
      /\ (n % 4 = 0 => p + n - 4 \in 0 .. Size - 1) /\ Size \in Nat
  BY LengthIs, AlignmentIs, GridSize
<1>2. last \in 0 .. Size - 1
  <2>1. CASE WholeWords(n) /\ al = 4
    BY <1>1, <2>1 DEF WholeWords
  <2>2. CASE ~ (WholeWords(n) /\ al = 4) /\ n = 2 /\ al # 1
    BY <1>1, <2>2
  <2>3. CASE ~ (WholeWords(n) /\ al = 4) /\ ~ (n = 2 /\ al # 1)
    BY <1>1, <2>3
  <2> QED
    BY <2>1, <2>2, <2>3
<1> HIDE DEF last
<1>3. SetPtr(last) \in Cells
  BY <1>2, PlacesAreCells
<1>4. last \in Word /\ last + 1 \in Word
  <2>1. last \in 0 .. Size /\ last + 1 \in 0 .. Size
    BY <1>1, <1>2
  <2> QED
    BY <2>1, AddressesAreWords
<1> QED
  BY <1>3, <1>4 DEF last

LEMMA InitTypes ==
  ASSUME Powers, Init
  PROVE  TypeOK
<1>1. mem \in [Cells -> Word]
  BY ValuesAssumption DEF Init
<1>2. ptr = 0 /\ 0 \in Word /\ 0 \in 0 .. Size - 1
  <2>1. 0 \in 0 .. Size /\ 0 \in 0 .. Size - 1
    BY GridSize
  <2> QED
    BY <2>1, AddressesAreWords DEF Init
<1>3. pos \in Cells
  <2>1. 0 \in 0 .. Planes - 1 /\ 0 \in 0 .. Side - 1
    BY GridSize
  <2> QED
    BY <2>1 DEF Init, Cells
<1>4. done.op = "nothing" /\ done.address = 0
  BY DEF Init
<1>5. \A i \in DOMAIN loaded : loaded[i] \in Word
  <2>1. loaded = <<>> /\ DOMAIN <<>> = {}
    BY DEF Init
  <2> QED
    BY <2>1
<1>6. ops \in 0 .. MaxOps
  BY MaxOpsAssumption DEF Init
<1> QED
  BY <1>1, <1>2, <1>3, <1>4, <1>5, <1>6 DEF TypeOK

LEMMA NextTypes ==
  ASSUME Powers, TypeOK, [Next]_vars
  PROVE  TypeOK'
<1>1. mem \in Memories /\ pos \in Cells /\ ptr \in Word /\ ops \in 0 .. MaxOps
  BY DEF TypeOK, Memories
<1>2. CASE Load
  <2>1. PICK n \in LoadLengths, al \in Alignments :
          \E p \in Addresses(n, al) :
            /\ done' = [op |-> "load", length |-> n, address |-> p, value |-> <<>>]
            /\ LoadOne(n, al, p)
    BY <1>2 DEF Load
  <2>2. PICK p \in Addresses(n, al) :
          /\ done' = [op |-> "load", length |-> n, address |-> p, value |-> <<>>]
          /\ LoadOne(n, al, p)
    BY <2>1
  <2>3. ops < MaxOps /\ ops' = ops + 1 /\ mem' = mem
    BY <1>2 DEF Load
  <2>4. /\ ptr' \in 0 .. Size - 1 /\ pos' \in Cells
        /\ \A i \in DOMAIN loaded' : loaded'[i] \in Word
    BY <1>1, <2>2, LoadStep
  <2>5. ptr' \in Word
    <3>1. ptr' \in 0 .. Size
      BY <2>4, GridSize
    <3> QED
      BY <3>1, AddressesAreWords
  <2>6. done'.op = "load" /\ done'.address = p /\ p \in 0 .. Size - 1
    BY <2>2, AlignmentIs
  <2>7. ops' \in 0 .. MaxOps
    BY <1>1, <2>3, MaxOpsAssumption
  <2>8. mem' \in [Cells -> Word]
    BY <1>1, <2>3 DEF Memories
  <2> QED
    BY <2>4, <2>5, <2>6, <2>7, <2>8 DEF TypeOK
<1>3. CASE Store
  <2>1. PICK n \in StoreLengths, al \in Alignments :
          \E p \in Addresses(n, al), v \in [1 .. (n + 3) \div 4 -> Values] :
            /\ done' = [op |-> "store", length |-> n, address |-> p, value |-> v]
            /\ StoreOne(n, al, p, v)
            /\ LET last == CASE WholeWords(n) /\ al = 4 -> p + n - 4
                             [] n = 2 /\ al # 1         -> p
                             [] OTHER                   -> p + n - 1
               IN /\ pos' = SetPtr(last)
                  /\ ptr' = IF n = 3 THEN last + 1 ELSE last
    BY <1>3 DEF Store
  <2>2. PICK p \in Addresses(n, al), v \in [1 .. (n + 3) \div 4 -> Values] :
          /\ done' = [op |-> "store", length |-> n, address |-> p, value |-> v]
          /\ StoreOne(n, al, p, v)
          /\ LET last == CASE WholeWords(n) /\ al = 4 -> p + n - 4
                           [] n = 2 /\ al # 1         -> p
                           [] OTHER                   -> p + n - 1
             IN /\ pos' = SetPtr(last)
                /\ ptr' = IF n = 3 THEN last + 1 ELSE last
    BY <2>1
  <2>3. ops < MaxOps /\ ops' = ops + 1 /\ loaded' = loaded
    BY <1>3 DEF Store
  <2>4. mem' \in Memories
    BY <1>1, <2>2, StoreStep
  <2>5. pos' \in Cells /\ ptr' \in Word
    BY <2>2, StoreEnds
  <2>6. done'.op = "store" /\ done'.address = p /\ p \in 0 .. Size - 1
    BY <2>2, AlignmentIs
  <2>7. ops' \in 0 .. MaxOps
    BY <1>1, <2>3, MaxOpsAssumption
  <2>8. \A i \in DOMAIN loaded' : loaded'[i] \in Word
    BY <2>3 DEF TypeOK
  <2> QED
    BY <2>4, <2>5, <2>6, <2>7, <2>8 DEF TypeOK, Memories
<1>4. CASE UNCHANGED vars
  BY <1>4 DEF vars, TypeOK
<1> QED
  BY <1>2, <1>3, <1>4 DEF Next

(* Memory keeps to words and the grid, for every size: TypeOK of run       *)
(* memory.                                                                 *)
THEOREM TypesOfMemory ==
  ASSUME Powers
  PROVE  Spec => []TypeOK
<1>1. Init => TypeOK
  BY InitTypes
<1>2. TypeOK /\ [Next]_vars => TypeOK'
  BY NextTypes
<1> QED
  BY <1>1, <1>2, PTL DEF Spec

(* When a load ends, the entity stands at the word that %ptr addresses,    *)
(* whatever was loaded and stored before: ReadsAtPtr of run memory.  It is *)
(* not so of a load of three bytes, which never moves the entity.          *)
THEOREM LoadsReadAtPtr ==
  ASSUME Powers, 3 \notin LoadLengths
  PROVE  Spec => ReadsAtPtr
<1>1. TypeOK /\ [Next]_vars => [done'.op = "load" => Index(pos') = ptr' - (ptr' % 4)]_vars
  <2> SUFFICES ASSUME TypeOK, Next, done'.op = "load"
               PROVE  Index(pos') = ptr' - (ptr' % 4)
    OBVIOUS
  <2>1. mem \in Memories /\ pos \in Cells
    BY DEF TypeOK, Memories
  <2>2. CASE Load
    <3>1. PICK n \in LoadLengths, al \in Alignments :
            \E p \in Addresses(n, al) : LoadOne(n, al, p)
      BY <2>2 DEF Load
    <3>2. PICK p \in Addresses(n, al) : LoadOne(n, al, p)
      BY <3>1
    <3>3. n # 3
      OBVIOUS
    <3>4. ptr' \in 0 .. Size - 1 /\ pos' = SetPtr(ptr')
      BY <2>1, <3>2, <3>3, LoadStep
    <3>5. PICK q \in 0 .. Size - 1 : q = ptr'
      BY <3>4
    <3>6. Index(SetPtr(q)) = 4 * (q \div 4) /\ q \in Int
      BY SetPtrIs, GridSize
    <3>7. 4 * (q \div 4) = q - (q % 4)
      BY <3>6
    <3> QED
      BY <3>4, <3>5, <3>6, <3>7
  <2>3. CASE Store
    <3>1. done'.op = "store"
      BY <2>3 DEF Store
    <3> QED
      BY <3>1
  <2> QED
    BY <2>2, <2>3 DEF Next
<1> QED
  BY <1>1, TypesOfMemory, PTL DEF Spec, ReadsAtPtr

LEMMA InitRefines ==
  ASSUME Powers, Init
  PROVE  Abstract!Init
<1>1. mem \in Memories
  BY ValuesAssumption DEF Init, Memories
<1>2. Bytes \in [0 .. Size - 1 -> 0 .. Byte - 1]
  BY <1>1, BytesAre, BytesIn
<1> QED
  BY <1>2, SameWords DEF Init, Abstract!Init, Abstract!Nothing

LEMMA NextRefines ==
  ASSUME Powers, 3 \notin LoadLengths, TypeOK, [Next]_vars
  PROVE  [Abstract!Next]_<<Bytes, done, loaded>>
<1>1. mem \in Memories /\ pos \in Cells
  BY DEF TypeOK, Memories
<1>2. CASE Load
  <2>1. PICK n \in LoadLengths, al \in Alignments :
          \E p \in Addresses(n, al) :
            /\ done' = [op |-> "load", length |-> n, address |-> p, value |-> <<>>]
            /\ LoadOne(n, al, p)
    BY <1>2 DEF Load
  <2>2. PICK p \in Addresses(n, al) :
          /\ done' = [op |-> "load", length |-> n, address |-> p, value |-> <<>>]
          /\ LoadOne(n, al, p)
    BY <2>1
  <2>3. n # 3 /\ p \in 0 .. Size - n
    BY AlignmentIs
  <2>4. loaded' = Abstract!Value(p, n)
    BY <1>1, <2>2, <2>3, LoadStep
  <2>5. Bytes' = Bytes
    <3>1. mem' = mem
      BY <1>2 DEF Load
    <3> QED
      BY <3>1, BytesAre
  <2>6. Abstract!Load
    BY <2>2, <2>3, <2>4, <2>5 DEF Abstract!Load
  <2> QED
    BY <2>6 DEF Abstract!Next
<1>3. CASE Store
  <2>1. PICK n \in StoreLengths, al \in Alignments :
          \E p \in Addresses(n, al), v \in [1 .. (n + 3) \div 4 -> Values] :
            /\ done' = [op |-> "store", length |-> n, address |-> p, value |-> v]
            /\ StoreOne(n, al, p, v)
    BY <1>3 DEF Store
  <2>2. PICK p \in Addresses(n, al), v \in [1 .. (n + 3) \div 4 -> Values] :
          /\ done' = [op |-> "store", length |-> n, address |-> p, value |-> v]
          /\ StoreOne(n, al, p, v)
    BY <2>1
  <2>3. p \in 0 .. Size - n
    BY AlignmentIs
  <2>4. Bytes' = Stored(Bytes, n, p, v)
    BY <1>1, <2>2, StoreStep
  <2>5. Bytes' = [a \in 0 .. Size - 1 |->
                    IF a - p \in 0 .. n - 1
                    THEN Abstract!ByteOf(v[(a - p) \div 4 + 1], (a - p) % 4)
                    ELSE Bytes[a]]
    BY <2>4, SameWords DEF Stored
  <2>6. loaded' = loaded
    BY <1>3 DEF Store
  <2>7. v \in [1 .. Abstract!WordsIn(n) -> Values]
    BY DEF Abstract!WordsIn
  <2>8. Abstract!Store
    BY <2>2, <2>3, <2>5, <2>6, <2>7 DEF Abstract!Store
  <2> QED
    BY <2>8 DEF Abstract!Next
<1>4. CASE UNCHANGED vars
  <2>1. mem' = mem /\ done' = done /\ loaded' = loaded
    BY <1>4 DEF vars
  <2>2. Bytes' = Bytes
    BY <2>1, BytesAre
  <2> QED
    BY <2>1, <2>2
<1> QED
  BY <1>2, <1>3, <1>4 DEF Next

(* Memory is bytes, for words, memories, values and lengths of any size:   *)
(* ImplementsByteMemory of run memory.                                     *)
THEOREM MemoryIsBytes ==
  ASSUME Powers, 3 \notin LoadLengths
  PROVE  Spec => ImplementsByteMemory
<1>1. Init => Abstract!Init
  BY InitRefines
<1>2. TypeOK /\ [Next]_vars => [Abstract!Next]_(Abstract!byteVars)
  BY NextRefines DEF Abstract!byteVars
<1> QED
  BY <1>1, <1>2, TypesOfMemory, PTL DEF Spec, ImplementsByteMemory, Abstract!Spec
=============================================================================
