---------------------------- MODULE JukeboxProofs ----------------------------
(***************************************************************************)
(* Lemmas about words and jukeboxes: what the load and store intrinsics do *)
(* to the bytes of memory, for bytes of any length and a grid of any size. *)
(* They assume `Powers`, what exponentiation is, of which the provers know *)
(* nothing.                                                                *)
(***************************************************************************)
EXTENDS Jukeboxes, SequenceTheorems, FiniteSetTheorems, WellFoundedInduction, TLAPS

Powers ==
  \A b \in Nat \ {0} :
    /\ b ^ 0 = 1
    /\ \A n \in Nat : b ^ n \in Nat \ {0} /\ b ^ (n + 1) = b * b ^ n

-----------------------------------------------------------------------------
(***************************************************************************)
(* Induction and recursion.  A property of numbers is given as the set of  *)
(* those that have it.                                                     *)
(***************************************************************************)
LEMMA LeastNumber ==
  ASSUME NEW S \in SUBSET Nat, S # {}
  PROVE  \E x \in S : \A y \in S : x <= y
<1> DEFINE T == {0 .. x : x \in S}
<1>1. \E t \in T : \A u \in T : ~ (<<u, t>> \in StrictSubsetOrdering(Nat))
  <2>1. IsWellFoundedOn(StrictSubsetOrdering(Nat), FiniteSubsetsOf(Nat))
    BY FS_StrictSubsetOrderingWellFounded
  <2>2. \A x \in S : 0 .. x \in SUBSET Nat /\ IsFiniteSet(0 .. x)
    <3> TAKE x \in S
    <3>1. x \in Int /\ 0 \in Int
      OBVIOUS
    <3>2. IsFiniteSet(0 .. x)
      BY <3>1, FS_Interval
    <3> QED
      BY <3>2
  <2>3. T \subseteq FiniteSubsetsOf(Nat) /\ T # {}
    BY <2>2 DEF FiniteSubsetsOf
  <2> QED
    BY <2>1, <2>3, WFMin
<1>2. PICK x \in S : \A u \in T : ~ (<<u, 0 .. x>> \in StrictSubsetOrdering(Nat))
  BY <1>1
<1>3. ASSUME NEW y \in S
      PROVE  x <= y
  <2>1. ~ (<<0 .. y, 0 .. x>> \in StrictSubsetOrdering(Nat))
    BY <1>2
  <2>2. 0 .. y \in SUBSET Nat /\ 0 .. x \in SUBSET Nat
    OBVIOUS
  <2>3. ~ (0 .. y \subseteq 0 .. x /\ 0 .. y # 0 .. x)
    BY <2>1, <2>2 DEF StrictSubsetOrdering
  <2>4. SUFFICES ASSUME y < x PROVE FALSE
    OBVIOUS
  <2>5. 0 .. y \subseteq 0 .. x
    BY <2>4
  <2>6. x \in 0 .. x /\ x \notin 0 .. y
    BY <2>4
  <2> QED
    BY <2>3, <2>5, <2>6
<1> QED
  BY <1>3

LEMMA Induction ==
  ASSUME NEW S, 0 \in S, \A n \in Nat : n \in S => n + 1 \in S
  PROVE  Nat \subseteq S
<1> SUFFICES ASSUME Nat \ S # {} PROVE FALSE
  OBVIOUS
<1>1. PICK x \in Nat \ S : \A y \in Nat \ S : x <= y
  BY LeastNumber
<1>2. x # 0 /\ x - 1 \in Nat /\ x - 1 < x
  BY <1>1
<1>3. x - 1 \in S
  BY <1>1, <1>2
<1> QED
  BY <1>1, <1>2, <1>3

(* Induction up to a bound.                                                *)
LEMMA BoundedInduction ==
  ASSUME NEW S, NEW k \in Nat, 0 \in S,
         \A n \in 0 .. k - 1 : n \in S => n + 1 \in S
  PROVE  0 .. k \subseteq S
<1> DEFINE T == {n \in Nat : n <= k => n \in S}
<1>1. 0 \in T
  OBVIOUS
<1>2. \A n \in Nat : n \in T => n + 1 \in T
  OBVIOUS
<1> HIDE DEF T
<1>3. Nat \subseteq T
  BY <1>1, <1>2, Induction
<1> QED
  BY <1>3 DEF T

(* A function defined by recursion on an interval exists; g is the rule    *)
(* for its next value.                                                     *)
IsRule(g, X) == g \in [X \X Nat -> X]

Solves(f, X, a, g, k) ==
  f \in [0 .. k -> X] /\ f[0] = a /\ \A i \in 1 .. k : f[i] = g[<<f[i - 1], i>>]

LEMMA RecursionExists ==
  ASSUME NEW X, NEW a \in X, NEW g, IsRule(g, X), NEW k \in Nat
  PROVE  \E f : Solves(f, X, a, g, k)
<1> DEFINE S == {n \in Nat : \E f \in [0 .. n -> X] : Solves(f, X, a, g, n)}
<1>0. g \in [X \X Nat -> X]
  BY DEF IsRule
<1>1. 0 \in S
  <2>1. Solves([i \in 0 .. 0 |-> a], X, a, g, 0)
    BY DEF Solves
  <2> QED
    BY <2>1
<1>2. ASSUME NEW n \in Nat, n \in S
      PROVE  n + 1 \in S
  <2>1. PICK f \in [0 .. n -> X] : Solves(f, X, a, g, n)
    BY <1>2
  <2> DEFINE h == [i \in 0 .. n + 1 |-> IF i = n + 1 THEN g[<<f[n], n + 1>>] ELSE f[i]]
  <2>2. f[n] \in X /\ g[<<f[n], n + 1>>] \in X
    BY <1>0
  <2>3. h \in [0 .. n + 1 -> X]
    BY <2>2
  <2>4. h[0] = a
    BY <2>1 DEF Solves
  <2>5. ASSUME NEW i \in 1 .. n + 1
        PROVE  h[i] = g[<<h[i - 1], i>>]
    <3>1. i - 1 \in 0 .. n /\ i - 1 # n + 1 /\ h[i - 1] = f[i - 1]
      BY <2>5
    <3>2. CASE i = n + 1
      <4>1. i - 1 = n
        BY <3>2
      <4> QED
        BY <3>1, <3>2, <4>1
    <3>3. CASE i # n + 1
      <4>1. i \in 1 .. n /\ i \in 0 .. n + 1
        BY <3>3
      <4> QED
        BY <2>1, <3>1, <3>3, <4>1 DEF Solves
    <3> QED
      BY <3>2, <3>3
  <2>6. Solves(h, X, a, g, n + 1)
    BY <2>3, <2>4, <2>5 DEF Solves
  <2> HIDE DEF h
  <2> QED
    BY <2>3, <2>6
<1> HIDE DEF S
<1>3. Nat \subseteq S
  BY <1>1, <1>2, Induction
<1> QED
  BY <1>3 DEF S

-----------------------------------------------------------------------------
(***************************************************************************)
(* Arithmetic.                                                             *)
(***************************************************************************)
LEMMA DivUnique ==
  ASSUME NEW q \in Int, NEW d \in Nat \ {0}, NEW r \in 0 .. d - 1
  PROVE  (q * d + r) \div d = q /\ (q * d + r) % d = r
OBVIOUS

LEMMA DivIs ==
  ASSUME NEW n \in Int, NEW d \in Nat \ {0}
  PROVE  /\ n \div d \in Int /\ (n % d) \in 0 .. d - 1
         /\ n = (n \div d) * d + (n % d)
OBVIOUS

LEMMA PowerSum ==
  ASSUME Powers, NEW b \in Nat \ {0}, NEW m \in Nat, NEW n \in Nat
  PROVE  /\ b ^ (m + n) = b ^ m * b ^ n
         /\ b ^ m \in Nat \ {0} /\ b ^ n \in Nat \ {0}
<1> DEFINE S == {i \in Nat : b ^ (m + i) = b ^ m * b ^ i}
<1>1. 0 \in S
  BY DEF Powers
<1>2. ASSUME NEW i \in Nat, i \in S
      PROVE  i + 1 \in S
  <2>1. /\ b ^ (m + i) = b ^ m * b ^ i
        /\ b ^ (m + i + 1) = b * b ^ (m + i)
        /\ b ^ (i + 1) = b * b ^ i
        /\ b ^ i \in Nat /\ b ^ m \in Nat
    BY <1>2 DEF Powers
  <2>2. b * (b ^ m * b ^ i) = b ^ m * (b * b ^ i)
    BY <2>1
  <2> QED
    BY <2>1, <2>2
<1> HIDE DEF S
<1>3. Nat \subseteq S
  BY <1>1, <1>2, Induction
<1> QED
  BY <1>3 DEF S, Powers

-----------------------------------------------------------------------------
(***************************************************************************)
(* The sizes of bytes and words, and wrapping.                             *)
(***************************************************************************)
Modulus == 2 * HighBit

LEMMA ByteSize ==
  ASSUME Powers
  PROVE  /\ ByteBits \in Nat \ {0} /\ Bits \in Nat /\ Bits = 4 * ByteBits
         /\ Byte \in Nat \ {0} /\ 2 <= Byte
         /\ Byte ^ 0 = 1 /\ Byte ^ 1 = Byte
         /\ Byte ^ 2 = Byte * Byte /\ Byte ^ 3 = Byte * Byte * Byte
         /\ Half = Byte * Byte
<1>1. ByteBits \in Nat \ {0} /\ Bits \in Nat /\ Bits = 4 * ByteBits
  BY ByteBitsAssumption DEF Bits
<1>2. 2 ^ (ByteBits - 1) \in Nat \ {0} /\ 2 ^ (ByteBits - 1 + 1) = 2 * 2 ^ (ByteBits - 1)
  BY <1>1 DEF Powers
<1>3. ByteBits - 1 + 1 = ByteBits
  BY <1>1
<1>4. Byte \in Nat \ {0} /\ 2 <= Byte
  BY <1>2, <1>3 DEF Byte
<1> HIDE DEF Powers
<1>5. /\ Byte ^ 0 = 1
      /\ Byte ^ (0 + 1) = Byte * Byte ^ 0
      /\ Byte ^ (1 + 1) = Byte * Byte ^ 1
      /\ Byte ^ (2 + 1) = Byte * Byte ^ 2
  BY <1>4 DEF Powers
<1>6. 0 + 1 = 1 /\ 1 + 1 = 2 /\ 2 + 1 = 3
  OBVIOUS
<1>7. Byte ^ 1 = Byte
  BY <1>4, <1>5, <1>6
<1>8. Byte ^ 2 = Byte * Byte
  BY <1>5, <1>6, <1>7
<1>9. Byte ^ 3 = Byte * (Byte * Byte)
  BY <1>5, <1>6, <1>8
<1>10. Byte * (Byte * Byte) = Byte * Byte * Byte
  BY <1>4
<1> QED
  BY <1>1, <1>4, <1>5, <1>7, <1>8, <1>9, <1>10 DEF Half

(* A byte's place in its word, counted in bits.                            *)
LEMMA BytePlace ==
  ASSUME Powers
  PROVE  /\ 2 ^ ByteBits = Byte
         /\ 2 ^ (2 * ByteBits) = Byte * Byte
         /\ 2 ^ (3 * ByteBits) = Byte * Byte * Byte
         /\ 2 ^ Bits = Byte * Byte * Byte * Byte
         /\ Modulus = Byte * Byte * Byte * Byte
         /\ 2 ^ Bits = Modulus
         /\ HighBit \in Nat \ {0} /\ HighBit = 2 ^ (Bits - 1)
<1>1. ByteBits \in Nat /\ 2 * ByteBits \in Nat /\ 3 * ByteBits \in Nat
      /\ 2 * ByteBits = ByteBits + ByteBits /\ 3 * ByteBits = 2 * ByteBits + ByteBits
      /\ Bits = 3 * ByteBits + ByteBits /\ Bits \in Nat /\ Bits - 1 \in Nat
      /\ Byte \in Nat /\ Bits = Bits - 1 + 1
  BY ByteSize
<1>2. 2 ^ ByteBits = Byte
  BY DEF Byte
<1>3. 2 ^ (2 * ByteBits) = Byte * Byte
  <2>1. 2 ^ (ByteBits + ByteBits) = 2 ^ ByteBits * 2 ^ ByteBits
    BY <1>1, PowerSum
  <2> QED
    BY <1>1, <1>2, <2>1
<1>4. 2 ^ (3 * ByteBits) = Byte * Byte * Byte
  <2> DEFINE t == 2 * ByteBits
  <2>1. t \in Nat /\ t + ByteBits = 3 * ByteBits /\ 2 ^ t = Byte * Byte
    BY <1>1, <1>3
  <2> HIDE DEF t
  <2>2. 2 ^ (t + ByteBits) = 2 ^ t * 2 ^ ByteBits
    BY <1>1, <2>1, PowerSum
  <2> QED
    BY <1>2, <2>1, <2>2
<1>5. 2 ^ Bits = Byte * Byte * Byte * Byte
  <2> DEFINE t == 3 * ByteBits
  <2>1. t \in Nat /\ t + ByteBits = Bits /\ 2 ^ t = Byte * Byte * Byte
    BY <1>1, <1>4
  <2> HIDE DEF t
  <2>2. 2 ^ (t + ByteBits) = 2 ^ t * 2 ^ ByteBits
    BY <1>1, <2>1, PowerSum
  <2> QED
    BY <1>2, <2>1, <2>2
<1>6. 2 ^ (Bits - 1) \in Nat \ {0} /\ 2 ^ (Bits - 1 + 1) = 2 * 2 ^ (Bits - 1)
  BY <1>1 DEF Powers
<1> QED
  BY <1>1, <1>2, <1>3, <1>4, <1>5, <1>6 DEF Modulus, HighBit

LEMMA WrapFacts ==
  ASSUME Powers, NEW n \in Int
  PROVE  /\ Wrap(n) \in Word /\ Wrap(n) \in Int
         /\ n \in Word => Wrap(n) = n
         /\ \E k \in Int : n = k * Modulus + Wrap(n)
<1> DEFINE m == Modulus
           r == (n + HighBit) % m
<1>1. m \in Nat \ {0} /\ m = 2 * HighBit /\ HighBit \in Nat
  BY BytePlace DEF Modulus
<1>2. Wrap(n) = r - HighBit
  BY DEF Wrap, Modulus
<1> HIDE DEF m
<1>3. r \in 0 .. m - 1 /\ n + HighBit = ((n + HighBit) \div m) * m + r
      /\ (n + HighBit) \div m \in Int
  <2>1. n + HighBit \in Int
    BY <1>1
  <2> QED
    BY <1>1, <2>1, DivIs
<1> HIDE DEF r
<1>4. Wrap(n) \in Word /\ Wrap(n) \in Int
  BY <1>1, <1>2, <1>3 DEF Word
<1>5. n = ((n + HighBit) \div m) * m + Wrap(n)
  BY <1>1, <1>2, <1>3
<1>6. ASSUME n \in Word
      PROVE  Wrap(n) = n
  <2>1. n + HighBit \in 0 .. m - 1 /\ n + HighBit = 0 * m + (n + HighBit)
    BY <1>1, <1>6 DEF Word
  <2>2. r = n + HighBit
    BY <1>1, <2>1, DivUnique DEF r
  <2> QED
    BY <1>1, <1>2, <2>2
<1> QED
  BY <1>3, <1>4, <1>5, <1>6 DEF m

(* Numbers that differ by a multiple of the modulus are the same word.     *)
LEMMA WrapSame ==
  ASSUME Powers, NEW n \in Int, NEW k \in Int
  PROVE  /\ Wrap(k * Modulus + n) = Wrap(n)
         /\ Wrap(n + k * Modulus) = Wrap(n)
<1> DEFINE m == Modulus
           q == (n + HighBit) \div m
           r == (n + HighBit) % m
<1>1. m \in Nat \ {0} /\ HighBit \in Nat
  BY BytePlace DEF Modulus
<1> HIDE DEF m
<1>2. r \in 0 .. m - 1 /\ n + HighBit = q * m + r /\ q \in Int
  <2>1. n + HighBit \in Int
    BY <1>1
  <2> QED
    BY <1>1, <2>1, DivIs
<1> HIDE DEF q, r
<1>3. k * m + n + HighBit = (k + q) * m + r /\ n + k * m + HighBit = (k + q) * m + r
  BY <1>1, <1>2
<1>4. (k * m + n + HighBit) % m = r /\ (n + k * m + HighBit) % m = r
  <2>1. k + q \in Int
    BY <1>2
  <2>2. ((k + q) * m + r) % m = r
    BY <1>1, <1>2, <2>1, DivUnique
  <2> QED
    BY <1>3, <2>2
<1>5. /\ Wrap(k * m + n) = ((k * m + n + HighBit) % m) - HighBit
      /\ Wrap(n + k * m) = ((n + k * m + HighBit) % m) - HighBit
      /\ Wrap(n) = ((n + HighBit) % m) - HighBit
  BY DEF Wrap, Modulus, m
<1> QED
  BY <1>4, <1>5 DEF r, m

LEMMA WrapWord ==
  ASSUME Powers, NEW k \in Int, NEW w \in Word
  PROVE  Wrap(k * Modulus + w) = w /\ w \in Int
<1>1. w \in Int
  BY BytePlace DEF Word
<1> QED
  BY <1>1, WrapSame, WrapFacts

(* A sum or product may be wrapped before or after.                        *)
LEMMA WrapInside ==
  ASSUME Powers, NEW x \in Int, NEW y \in Int
  PROVE  /\ Wrap(Wrap(x) + y) = Wrap(x + y)
         /\ Wrap(x + Wrap(y)) = Wrap(x + y)
         /\ Wrap(Wrap(x) * y) = Wrap(x * y)
<1>1. PICK k \in Int : x = k * Modulus + Wrap(x)
  BY WrapFacts
<1>2. PICK j \in Int : y = j * Modulus + Wrap(y)
  BY WrapFacts
<1>3. Wrap(x) \in Int /\ Wrap(y) \in Int /\ Modulus \in Int
  <2>1. Modulus \in Int
    BY BytePlace DEF Modulus
  <2> QED
    BY <2>1, WrapFacts
<1>4. x + y = k * Modulus + (Wrap(x) + y) /\ Wrap(x) + y \in Int
  BY <1>1, <1>3
<1>5. x + y = j * Modulus + (x + Wrap(y)) /\ x + Wrap(y) \in Int
  BY <1>2, <1>3
<1>6. x * y = (k * y) * Modulus + Wrap(x) * y /\ Wrap(x) * y \in Int /\ k * y \in Int
  <2>1. \A q, m, w, z \in Int : (q * m + w) * z = (q * z) * m + w * z
                                /\ w * z \in Int /\ q * z \in Int
    OBVIOUS
  <2>2. (k * Modulus + Wrap(x)) * y = (k * y) * Modulus + Wrap(x) * y
        /\ Wrap(x) * y \in Int /\ k * y \in Int
    BY <1>3, <2>1
  <2> QED
    BY <1>1, <2>2
<1>7. Wrap(x + y) = Wrap(Wrap(x) + y)
  BY <1>4, WrapSame
<1>8. Wrap(x + y) = Wrap(x + Wrap(y))
  BY <1>5, WrapSame
<1>9. Wrap(x * y) = Wrap(Wrap(x) * y)
  BY <1>6, WrapSame
<1> QED
  BY <1>7, <1>8, <1>9

LEMMA WrapTwice ==
  ASSUME Powers, NEW y \in Int
  PROVE  Wrap(Wrap(y) + Wrap(y)) = Wrap(y + y)
<1> DEFINE w == Wrap(y)
<1>1. w \in Int
  BY WrapFacts
<1> HIDE DEF w
<1>2. Wrap(Wrap(y) + w) = Wrap(y + w)
  BY <1>1, WrapInside
<1>3. Wrap(y + Wrap(y)) = Wrap(y + y)
  BY WrapInside
<1> QED
  BY <1>2, <1>3 DEF w

-----------------------------------------------------------------------------
(***************************************************************************)
(* The bytes of a number, and the number of given bytes.                   *)
(***************************************************************************)
Join(k, b0, b1, b2, b3) == (((k * Byte + b3) * Byte + b2) * Byte + b1) * Byte + b0

LEMMA DivTwice ==
  ASSUME NEW n \in Int, NEW c \in Nat \ {0}, NEW d \in Nat \ {0}
  PROVE  n \div (c * d) = (n \div c) \div d
<1> DEFINE q == n \div c
           r == n % c
           p == q \div d
           s == q % d
<1>1. q \in Int /\ r \in 0 .. c - 1 /\ n = q * c + r
  BY DivIs
<1> HIDE DEF q, r
<1>2. p \in Int /\ s \in 0 .. d - 1 /\ q = p * d + s
  BY <1>1, DivIs
<1> HIDE DEF p, s
<1>3. s * c + r \in 0 .. (c * d) - 1
  <2>1. s * c + r \in Int /\ 0 <= s * c + r
    BY <1>1, <1>2
  <2>2. (d - 1 - s) * c >= 0 /\ (d - 1 - s) * c = d * c - c - s * c
    BY <1>2
  <2> QED
    BY <1>1, <1>2, <2>1, <2>2
<1>4. n = p * (c * d) + (s * c + r)
  BY <1>1, <1>2
<1>5. c * d \in Nat \ {0}
  OBVIOUS
<1>6. n \div (c * d) = p
  BY <1>2, <1>3, <1>4, <1>5, DivUnique
<1> QED
  BY <1>6 DEF p, q

(* Which are the bytes that ByteOf finds, one division after the other.    *)
LEMMA BytesByDivision ==
  ASSUME Powers, NEW n \in Int
  PROVE  /\ ByteOf(n, 0) = n % Byte
         /\ ByteOf(n, 1) = (n \div Byte) % Byte
         /\ ByteOf(n, 2) = ((n \div Byte) \div Byte) % Byte
         /\ ByteOf(n, 3) = (((n \div Byte) \div Byte) \div Byte) % Byte
         /\ \A i \in 0 .. 3 : ByteOf(n, i) \in 0 .. Byte - 1
<1>1. Byte \in Nat \ {0} /\ Byte * Byte \in Nat \ {0}
  BY ByteSize
<1>2. n \div 1 = n
  OBVIOUS
<1>3. ByteOf(n, 0) = n % Byte
  BY <1>2, ByteSize DEF ByteOf
<1>4. ByteOf(n, 1) = (n \div Byte) % Byte
  BY ByteSize DEF ByteOf
<1>5. n \div (Byte * Byte) = (n \div Byte) \div Byte
  BY <1>1, DivTwice
<1>6. n \div (Byte * Byte * Byte) = (n \div (Byte * Byte)) \div Byte
  BY <1>1, DivTwice
<1>7. ByteOf(n, 2) = ((n \div Byte) \div Byte) % Byte
  BY <1>5, ByteSize DEF ByteOf
<1>8. ByteOf(n, 3) = (((n \div Byte) \div Byte) \div Byte) % Byte
  BY <1>5, <1>6, ByteSize DEF ByteOf
<1>9. /\ n \div Byte \in Int /\ (n \div Byte) \div Byte \in Int
      /\ ((n \div Byte) \div Byte) \div Byte \in Int
  <2>1. n \div Byte \in Int
    BY <1>1, DivIs
  <2>2. (n \div Byte) \div Byte \in Int
    BY <1>1, <2>1, DivIs
  <2> QED
    BY <1>1, <2>1, <2>2, DivIs
<1>10. /\ ByteOf(n, 0) \in 0 .. Byte - 1 /\ ByteOf(n, 1) \in 0 .. Byte - 1
       /\ ByteOf(n, 2) \in 0 .. Byte - 1 /\ ByteOf(n, 3) \in 0 .. Byte - 1
  <2>1. \A m \in Int : (m % Byte) \in 0 .. Byte - 1
    BY <1>1, DivIs
  <2> QED
    BY <1>3, <1>4, <1>7, <1>8, <1>9, <2>1
<1>11. 0 .. 3 = {0, 1, 2, 3}
  OBVIOUS
<1> QED
  BY <1>3, <1>4, <1>7, <1>8, <1>10, <1>11

LEMMA BytesOfJoin ==
  ASSUME Powers, NEW k \in Int,
         NEW b0 \in 0 .. Byte - 1, NEW b1 \in 0 .. Byte - 1,
         NEW b2 \in 0 .. Byte - 1, NEW b3 \in 0 .. Byte - 1
  PROVE  /\ Join(k, b0, b1, b2, b3) \in Int
         /\ ByteOf(Join(k, b0, b1, b2, b3), 0) = b0
         /\ ByteOf(Join(k, b0, b1, b2, b3), 1) = b1
         /\ ByteOf(Join(k, b0, b1, b2, b3), 2) = b2
         /\ ByteOf(Join(k, b0, b1, b2, b3), 3) = b3
<1> DEFINE n0 == Join(k, b0, b1, b2, b3)
           n1 == ((k * Byte + b3) * Byte + b2) * Byte + b1
           n2 == (k * Byte + b3) * Byte + b2
           n3 == k * Byte + b3
<1>1. Byte \in Nat \ {0}
  BY ByteSize
<1>2. n3 = k * Byte + b3 /\ n3 \in Int
  BY <1>1
<1>3. n2 = n3 * Byte + b2 /\ n1 = n2 * Byte + b1 /\ n0 = n1 * Byte + b0
  BY DEF Join
<1> HIDE DEF n3
<1>4. n2 \in Int
  BY <1>1, <1>2, <1>3
<1> HIDE DEF n2
<1>5. n1 \in Int
  BY <1>1, <1>3, <1>4
<1> HIDE DEF n1
<1>6. n0 \in Int
  BY <1>1, <1>3, <1>5
<1> HIDE DEF n0
<1>7. n0 \div Byte = n1 /\ n0 % Byte = b0
  BY <1>1, <1>3, <1>5, DivUnique
<1>8. n1 \div Byte = n2 /\ n1 % Byte = b1
  BY <1>1, <1>3, <1>4, DivUnique
<1>9. n2 \div Byte = n3 /\ n2 % Byte = b2
  BY <1>1, <1>2, <1>3, DivUnique
<1>10. n3 % Byte = b3
  BY <1>1, <1>2, DivUnique
<1>11. /\ n0 \in Int /\ ByteOf(n0, 0) = b0 /\ ByteOf(n0, 1) = b1
       /\ ByteOf(n0, 2) = b2 /\ ByteOf(n0, 3) = b3
  BY <1>6, <1>7, <1>8, <1>9, <1>10, BytesByDivision
<1> QED
  BY <1>11 DEF n0

(* Every number is made of its bytes and a multiple of the modulus.        *)
LEMMA JoinOfBytes ==
  ASSUME Powers, NEW n \in Int
  PROVE  /\ n = Join(n \div Modulus, ByteOf(n, 0), ByteOf(n, 1), ByteOf(n, 2), ByteOf(n, 3))
         /\ n \div Modulus \in Int
<1> DEFINE n1 == n \div Byte
           n2 == n1 \div Byte
           n3 == n2 \div Byte
           n4 == n3 \div Byte
<1>1. Byte \in Nat \ {0}
  BY ByteSize
<1>2. /\ ByteOf(n, 0) = n % Byte /\ ByteOf(n, 1) = n1 % Byte
      /\ ByteOf(n, 2) = n2 % Byte /\ ByteOf(n, 3) = n3 % Byte
  BY BytesByDivision
<1>3. n1 \in Int /\ n = n1 * Byte + (n % Byte)
  BY <1>1, DivIs
<1>4. n \div Modulus = n4
  <2>1. Byte * Byte \in Nat \ {0} /\ Byte * Byte * Byte \in Nat \ {0}
    BY <1>1
  <2>2. n \div (Byte * Byte) = n2
    BY <1>1, DivTwice
  <2>3. n \div (Byte * Byte * Byte) = n3
    BY <1>1, <2>1, <2>2, DivTwice
  <2>4. n \div (Byte * Byte * Byte * Byte) = n4
    BY <1>1, <2>1, <2>3, DivTwice
  <2> QED
    BY <2>4, BytePlace
<1> HIDE DEF n1
<1>5. n2 \in Int /\ n1 = n2 * Byte + (n1 % Byte)
  BY <1>1, <1>3, DivIs
<1> HIDE DEF n2
<1>6. n3 \in Int /\ n2 = n3 * Byte + (n2 % Byte)
  BY <1>1, <1>5, DivIs
<1> HIDE DEF n3
<1>7. n4 \in Int /\ n3 = n4 * Byte + (n3 % Byte)
  BY <1>1, <1>6, DivIs
<1> HIDE DEF n4
<1>8. n = Join(n4, ByteOf(n, 0), ByteOf(n, 1), ByteOf(n, 2), ByteOf(n, 3))
  BY <1>2, <1>3, <1>5, <1>6, <1>7 DEF Join
<1> QED
  BY <1>4, <1>7, <1>8

(* A multiple of the modulus has no part in the bytes.                     *)
LEMMA JoinModulus ==
  ASSUME Powers, NEW k \in Int, NEW j \in Int,
         NEW b0 \in Int, NEW b1 \in Int, NEW b2 \in Int, NEW b3 \in Int
  PROVE  Join(k, b0, b1, b2, b3) + j * Modulus = Join(k + j, b0, b1, b2, b3)
<1>1. Byte \in Nat /\ Modulus = Byte * Byte * Byte * Byte
  BY ByteSize, BytePlace
<1>2. \A B \in Nat :
        (((k * B + b3) * B + b2) * B + b1) * B + b0 + j * (B * B * B * B)
          = ((((k + j) * B + b3) * B + b2) * B + b1) * B + b0
  OBVIOUS
<1> QED
  BY <1>1, <1>2 DEF Join

LEMMA WrapBytes ==
  ASSUME Powers, NEW n \in Int
  PROVE  \A i \in 0 .. 3 : ByteOf(Wrap(n), i) = ByteOf(n, i)
<1>1. PICK k \in Int : n = k * Modulus + Wrap(n)
  BY WrapFacts
<1>2. Wrap(n) \in Int /\ Modulus \in Int
  <2>1. Modulus \in Int
    BY BytePlace DEF Modulus
  <2> QED
    BY <2>1, WrapFacts
<1> DEFINE q == n \div Modulus
<1>3. n = Join(q, ByteOf(n, 0), ByteOf(n, 1), ByteOf(n, 2), ByteOf(n, 3)) /\ q \in Int
  BY JoinOfBytes
<1>4. /\ ByteOf(n, 0) \in 0 .. Byte - 1 /\ ByteOf(n, 1) \in 0 .. Byte - 1
      /\ ByteOf(n, 2) \in 0 .. Byte - 1 /\ ByteOf(n, 3) \in 0 .. Byte - 1
  BY BytesByDivision
<1>5. 0 .. Byte - 1 \subseteq Int
  BY ByteSize
<1> HIDE DEF q
<1>6. Wrap(n) = n + (-k) * Modulus /\ -k \in Int
  BY <1>1, <1>2
<1>7. Wrap(n) = Join(q + -k, ByteOf(n, 0), ByteOf(n, 1), ByteOf(n, 2), ByteOf(n, 3))
  <2> DEFINE b0 == ByteOf(n, 0)  b1 == ByteOf(n, 1)
             b2 == ByteOf(n, 2)  b3 == ByteOf(n, 3)
             j  == -k
  <2>1. b0 \in Int /\ b1 \in Int /\ b2 \in Int /\ b3 \in Int /\ j \in Int
    BY <1>4, <1>5, <1>6
  <2>2. n = Join(q, b0, b1, b2, b3) /\ Wrap(n) = n + j * Modulus
    BY <1>3, <1>6
  <2> HIDE DEF b0, b1, b2, b3, j
  <2>3. Join(q, b0, b1, b2, b3) + j * Modulus = Join(q + j, b0, b1, b2, b3)
    <3>1. q \in Int
      BY <1>3
    <3> QED
      BY <2>1, <3>1, JoinModulus
  <2>4. Wrap(n) = Join(q + j, b0, b1, b2, b3)
    BY <2>2, <2>3
  <2> QED
    BY <2>4 DEF b0, b1, b2, b3, j
<1>8. q + -k \in Int
  BY <1>3, <1>6
<1>9. /\ ByteOf(Wrap(n), 0) = ByteOf(n, 0) /\ ByteOf(Wrap(n), 1) = ByteOf(n, 1)
      /\ ByteOf(Wrap(n), 2) = ByteOf(n, 2) /\ ByteOf(Wrap(n), 3) = ByteOf(n, 3)
  BY <1>4, <1>7, <1>8, BytesOfJoin
<1>10. 0 .. 3 = {0, 1, 2, 3}
  OBVIOUS
<1> QED
  BY <1>9, <1>10

LEMMA SameJoin ==
  ASSUME Powers, NEW p \in Int, NEW q \in Int,
         NEW b0 \in Int, NEW b1 \in Int, NEW b2 \in Int, NEW b3 \in Int
  PROVE  Wrap(Join(p, b0, b1, b2, b3)) = Wrap(Join(q, b0, b1, b2, b3))
<1> DEFINE j == p - q
           w == Join(q, b0, b1, b2, b3)
<1>1. j \in Int /\ q + j = p /\ w \in Int
  BY ByteSize DEF Join
<1> HIDE DEF j
<1>2. w + j * Modulus = Join(q + j, b0, b1, b2, b3)
  BY <1>1, JoinModulus
<1> HIDE DEF w
<1>3. Wrap(w + j * Modulus) = Wrap(w)
  BY <1>1, WrapSame
<1> QED
  BY <1>1, <1>2, <1>3 DEF w

(* A word is given by its bytes.                                           *)
LEMMA SameBytes ==
  ASSUME Powers, NEW v \in Int, NEW w \in Int,
         \A i \in 0 .. 3 : ByteOf(v, i) = ByteOf(w, i)
  PROVE  /\ Wrap(v) = Wrap(w)
         /\ v \in Word /\ w \in Word => v = w
<1> DEFINE p == v \div Modulus
           q == w \div Modulus
           b0 == ByteOf(w, 0)  b1 == ByteOf(w, 1)
           b2 == ByteOf(w, 2)  b3 == ByteOf(w, 3)
<1>1. ByteOf(v, 0) = b0 /\ ByteOf(v, 1) = b1 /\ ByteOf(v, 2) = b2 /\ ByteOf(v, 3) = b3
  OBVIOUS
<1>2. v = Join(p, b0, b1, b2, b3) /\ p \in Int
  BY <1>1, JoinOfBytes
<1>3. w = Join(q, b0, b1, b2, b3) /\ q \in Int
  BY JoinOfBytes
<1>4. b0 \in 0 .. Byte - 1 /\ b1 \in 0 .. Byte - 1 /\ b2 \in 0 .. Byte - 1
      /\ b3 \in 0 .. Byte - 1
  BY BytesByDivision
<1>5. b0 \in Int /\ b1 \in Int /\ b2 \in Int /\ b3 \in Int
  BY <1>4, ByteSize
<1> HIDE DEF p, q, b0, b1, b2, b3
<1>6. Wrap(Join(p, b0, b1, b2, b3)) = Wrap(Join(q, b0, b1, b2, b3))
  BY <1>2, <1>3, <1>5, SameJoin
<1>7. Wrap(v) = Wrap(w)
  BY <1>2, <1>3, <1>6
<1> QED
  BY <1>7, WrapFacts

-----------------------------------------------------------------------------
(***************************************************************************)
(* The bits of a number.  intrinsic:and and its relatives look at the sign *)
(* of a word that they double, which shows its bits one after the other.   *)
(***************************************************************************)
Bit(x, j) == (x \div 2 ^ j) % 2

LEMMA BitIs ==
  ASSUME Powers, NEW x \in Int, NEW j \in Nat
  PROVE  /\ 2 ^ j \in Nat \ {0} /\ x \div 2 ^ j \in Int
         /\ Bit(x, j) \in {0, 1}
<1>1. 2 ^ j \in Nat \ {0}
  BY DEF Powers
<1> DEFINE d == 2 ^ j
           q == x \div d
<1> HIDE DEF d
<1>2. q \in Int
  BY <1>1, DivIs DEF d
<1> HIDE DEF q
<1>3. (q % 2) \in 0 .. 2 - 1
  BY <1>2, DivIs
<1> QED
  BY <1>1, <1>2, <1>3 DEF Bit, q, d

(* One more of the high bits of x.                                         *)
LEMMA NextBit ==
  ASSUME Powers, NEW x \in Int, NEW j \in Nat
  PROVE  x \div 2 ^ j = 2 * (x \div 2 ^ (j + 1)) + Bit(x, j)
<1> DEFINE d == 2 ^ j
           q == x \div d
<1>1. d \in Nat \ {0} /\ 2 ^ (j + 1) = 2 * d /\ q \in Int
  BY BitIs DEF Powers
<1>2. x \div (d * 2) = q \div 2 /\ d * 2 = 2 * d
  <2> HIDE DEF d
  <2>1. PICK two \in Nat \ {0} : two = 2
    OBVIOUS
  <2>2. x \div (d * two) = (x \div d) \div two
    BY <1>1, DivTwice
  <2>3. d * 2 = 2 * d
    BY <1>1
  <2> QED
    BY <2>1, <2>2, <2>3
<1> HIDE DEF q
<1>3. q = (q \div 2) * 2 + (q % 2) /\ q \div 2 \in Int /\ (q % 2) \in Int
  BY <1>1, DivIs
<1> DEFINE p == q \div 2
           b == q % 2
<1>4. q = p * 2 + b /\ p \in Int /\ b \in Int
  BY <1>3
<1> HIDE DEF p, b
<1>5. q = 2 * p + b
  BY <1>1, <1>4
<1>6. x \div 2 ^ (j + 1) = p
  BY <1>1, <1>2 DEF p
<1>7. Bit(x, j) = b
  BY DEF Bit, b, q
<1> QED
  BY <1>5, <1>6, <1>7 DEF q

LEMMA SignShowsBit ==
  ASSUME Powers, NEW x \in Int, NEW n \in 0 .. Bits - 1
  PROVE  Wrap(x * 2 ^ n) < 0 <=> Bit(x, Bits - 1 - n) = 1
<1> DEFINE H == HighBit
           P == 2 ^ (Bits - 1 - n)
           Q == 2 ^ n
           y == x \div P
           r == x % P
           k == y \div 2
           t == y % 2
<1>1. Bits - 1 - n \in Nat /\ n \in Nat /\ Bits - 1 - n + n = Bits - 1
  BY ByteSize
<1>2. P \in Nat \ {0} /\ Q \in Nat \ {0} /\ P * Q = H /\ H \in Nat \ {0}
  <2> DEFINE m == Bits - 1 - n
  <2>1. m \in Nat /\ n \in Nat /\ m + n = Bits - 1
    BY <1>1
  <2> HIDE DEF m
  <2>2. 2 ^ (m + n) = 2 ^ m * 2 ^ n /\ 2 ^ m \in Nat \ {0} /\ 2 ^ n \in Nat \ {0}
    BY <2>1, PowerSum
  <2> QED
    BY <2>1, <2>2, BytePlace DEF m
<1>3. Bit(x, Bits - 1 - n) = t
  BY DEF Bit
<1> HIDE DEF P, Q, H
<1>4. x = y * P + r /\ y \in Int /\ r \in 0 .. P - 1
  BY <1>2, DivIs
<1> HIDE DEF y, r
<1>5. y = k * 2 + t /\ k \in Int /\ t \in 0 .. 1
  <2>1. t \in 0 .. 2 - 1 /\ y = k * 2 + t /\ k \in Int
    BY <1>4, DivIs
  <2> QED
    BY <2>1
<1> HIDE DEF k, t
<1> DEFINE s == r * Q
<1>6. s \in 0 .. H - 1
  <2>1. s \in Int /\ 0 <= s
    BY <1>2, <1>4
  <2>2. (P - 1 - r) * Q >= 0 /\ (P - 1 - r) * Q = P * Q - Q - r * Q
    BY <1>2, <1>4
  <2> QED
    BY <1>2, <2>1, <2>2
<1>7. x * Q = k * (2 * H) + (t * H + s)
  <2>1. x * Q = (y * P) * Q + r * Q
    BY <1>2, <1>4
  <2>2. (y * P) * Q = y * H
    BY <1>2, <1>4
  <2>3. y * H = k * (2 * H) + t * H
    BY <1>2, <1>4, <1>5
  <2>4. k * (2 * H) \in Int /\ t * H \in Int /\ s \in Int
    BY <1>2, <1>5, <1>6
  <2> HIDE DEF s
  <2>5. x * Q = k * (2 * H) + t * H + s
    BY <2>1, <2>2, <2>3 DEF s
  <2> QED
    BY <2>4, <2>5
<1> HIDE DEF s
<1>8. Modulus = 2 * H
  BY DEF Modulus, H
<1>9. Wrap(x * Q) = Wrap(t * H + s)
  <2>1. t * H + s \in Int
    BY <1>2, <1>5, <1>6
  <2> QED
    BY <1>5, <1>7, <1>8, <2>1, WrapSame
<1>10. CASE t = 0
  <2>1. t * H + s = s /\ s \in Word /\ s \in Int
    BY <1>2, <1>6, <1>10 DEF Word, H
  <2>2. Wrap(s) = s
    BY <2>1, WrapFacts
  <2> QED
    BY <1>3, <1>6, <1>9, <1>10, <2>1, <2>2 DEF Q
<1>11. CASE t = 1
  <2>1. t * H + s = 1 * (2 * H) + (s - H) /\ s - H \in Word /\ s - H \in Int /\ s - H < 0
    BY <1>2, <1>6, <1>11 DEF Word, H
  <2>2. Wrap(t * H + s) = s - H
    BY <1>8, <2>1, WrapSame, WrapFacts
  <2> QED
    BY <1>3, <1>9, <1>11, <2>1, <2>2 DEF Q
<1> QED
  BY <1>5, <1>10, <1>11

(* The intrinsic puts together the word whose bits `ones` says.            *)
LEMMA BitwiseIs ==
  ASSUME Powers, NEW ones, NEW a \in Word, NEW b \in Word,
         NEW c \in 0 .. Modulus - 1,
         \A j \in 0 .. Bits - 1 :
           Bit(c, j) = 1 <=> <<Bit(a, j) = 1, Bit(b, j) = 1>> \in ones
  PROVE  Bitwise(ones, a, b) = Wrap(c)
<1> DEFINE E(f, n) ==
             IF n = 0 THEN [result |-> 0, a |-> a, b |-> b]
             ELSE LET s   == f[n - 1]
                      bit == IF <<s.a < 0, s.b < 0>> \in ones THEN 1 ELSE 0
                  IN [result |-> Add(Add(s.result, s.result), bit),
                      a |-> Add(s.a, s.a),
                      b |-> Add(s.b, s.b)]
           round == CHOOSE f : f = [n \in 0 .. Bits |-> E(f, n)]
           h == [n \in 0 .. Bits |->
                   [result |-> Wrap(c \div 2 ^ (Bits - n)),
                    a |-> Wrap(a * 2 ^ n), b |-> Wrap(b * 2 ^ n)]]
<1>1. Bitwise(ones, a, b) = round[Bits].result
  BY DEF Bitwise
<1>2. Bits \in Nat /\ Bits > 0 /\ a \in Int /\ b \in Int /\ c \in Int /\ Modulus \in Nat \ {0}
  BY ByteSize, BytePlace DEF Word, Modulus
<1>3. /\ Wrap(c \div 2 ^ (Bits - 0)) = 0
      /\ Wrap(a * 2 ^ 0) = a /\ Wrap(b * 2 ^ 0) = b
      /\ Wrap(c \div 2 ^ (Bits - Bits)) = Wrap(c)
  <2>1. Bits - 0 = Bits /\ Bits - Bits = 0 /\ 2 ^ 0 = 1
    BY <1>2 DEF Powers
  <2>2. c = 0 * Modulus + c
    BY <1>2
  <2>3. c \div Modulus = 0
    BY <1>2, <2>2, DivUnique
  <2>4. Wrap(0) = 0
    BY WrapFacts, BytePlace DEF Word
  <2>5. Wrap(c \div 2 ^ Bits) = 0
    BY <2>3, <2>4, BytePlace
  <2>6. c \div 1 = c /\ a * 1 = a /\ b * 1 = b
    BY <1>2
  <2>7. Wrap(a) = a /\ Wrap(b) = b
    BY <1>2, WrapFacts
  <2> QED
    BY <2>1, <2>5, <2>6, <2>7
<1>4. ASSUME NEW x \in Int, NEW n \in 1 .. Bits
      PROVE  Add(Wrap(x * 2 ^ (n - 1)), Wrap(x * 2 ^ (n - 1))) = Wrap(x * 2 ^ n)
  <2> DEFINE y == x * 2 ^ (n - 1)
  <2>1. n - 1 \in Nat /\ n - 1 + 1 = n
    BY <1>2
  <2>2. 2 ^ (n - 1) \in Nat /\ 2 ^ n = 2 * 2 ^ (n - 1)
    BY <2>1 DEF Powers
  <2>3. y \in Int /\ x * 2 ^ n = y + y
    BY <2>2
  <2> HIDE DEF y
  <2>4. Wrap(Wrap(y) + Wrap(y)) = Wrap(y + y)
    BY <2>3, WrapTwice
  <2> QED
    BY <2>3, <2>4 DEF Add, y
<1>5. ASSUME NEW n \in 1 .. Bits
      PROVE  h[n] = E(h, n)
  <2> DEFINE j == Bits - n
             X == c \div 2 ^ (j + 1)
             A == Wrap(a * 2 ^ (n - 1))
             B == Wrap(b * 2 ^ (n - 1))
             bit == IF <<A < 0, B < 0>> \in ones THEN 1 ELSE 0
  <2>1. /\ n - 1 \in 0 .. Bits - 1 /\ n - 1 \in 0 .. Bits /\ n \in 0 .. Bits /\ n # 0
        /\ Bits - (n - 1) = j + 1 /\ j \in 0 .. Bits - 1 /\ j \in Nat /\ j + 1 \in Nat
        /\ Bits - 1 - (n - 1) = j
    BY <1>2
  <2>2. h[n - 1] = [result |-> Wrap(X), a |-> A, b |-> B]
    BY <2>1
  <2>3. h[n] = [result |-> Wrap(c \div 2 ^ j), a |-> Wrap(a * 2 ^ n), b |-> Wrap(b * 2 ^ n)]
    BY <2>1
  <2>4. /\ A < 0 <=> Bit(a, j) = 1
        /\ B < 0 <=> Bit(b, j) = 1
    BY <1>2, <2>1, SignShowsBit
  <2>5. bit = Bit(c, j)
    <3>1. Bit(c, j) \in {0, 1}
      BY <1>2, <2>1, BitIs
    <3>2. (A < 0) = (Bit(a, j) = 1) /\ (B < 0) = (Bit(b, j) = 1)
      BY <2>4
    <3>3. Bit(c, j) = 1 <=> <<Bit(a, j) = 1, Bit(b, j) = 1>> \in ones
      BY <2>1
    <3>4. Bit(c, j) = 1 <=> <<A < 0, B < 0>> \in ones
      BY <3>2, <3>3, Zenon
    <3> QED
      BY <3>1, <3>4
  <2>6. Add(Add(Wrap(X), Wrap(X)), bit) = Wrap(c \div 2 ^ j)
    <3>1. X \in Int /\ Bit(c, j) \in Int /\ c \div 2 ^ j = 2 * X + Bit(c, j)
      <4> HIDE DEF j
      <4>1. c \div 2 ^ j = 2 * X + Bit(c, j)
        BY <1>2, <2>1, NextBit
      <4>2. Bit(c, j) \in {0, 1}
        BY <1>2, <2>1, BitIs
      <4>3. X \in Int
        BY <1>2, <2>1, BitIs
      <4> QED
        BY <4>1, <4>2, <4>3
    <3> HIDE DEF X, j, bit
    <3>2. Wrap(Wrap(X) + Wrap(X)) = Wrap(X + X)
      BY <3>1, WrapTwice
    <3>3. Wrap(Wrap(X + X) + Bit(c, j)) = Wrap(X + X + Bit(c, j))
      <4>1. X + X \in Int
        BY <3>1
      <4> QED
        BY <3>1, <4>1, WrapInside
    <3>4. X + X + Bit(c, j) = c \div 2 ^ j
      BY <3>1
    <3> QED
      BY <2>5, <3>2, <3>3, <3>4 DEF Add
  <2>7. Add(A, A) = Wrap(a * 2 ^ n) /\ Add(B, B) = Wrap(b * 2 ^ n)
    BY <1>2, <1>4
  <2>8. E(h, n) = [result |-> Add(Add(Wrap(X), Wrap(X)), bit),
                   a |-> Add(A, A), b |-> Add(B, B)]
    <3> HIDE DEF h, X, A, B
    <3> QED
      BY <2>1, <2>2
  <2> QED
    BY <2>3, <2>6, <2>7, <2>8
<1>6. h[0] = E(h, 0)
  BY <1>2, <1>3
<1>7. h = [n \in 0 .. Bits |-> E(h, n)]
  <2>1. ASSUME NEW n \in 0 .. Bits
        PROVE  h[n] = E(h, n)
    <3>1. n = 0 \/ n \in 1 .. Bits
      BY <1>2
    <3> HIDE DEF h, E
    <3> QED
      BY <1>5, <1>6, <3>1
  <2>2. h = [n \in 0 .. Bits |-> h[n]]
    OBVIOUS
  <2> HIDE DEF h, E
  <2> QED
    BY <2>1, <2>2
<1>8. h[Bits].result = Wrap(c)
  BY <1>2, <1>3
<1> HIDE DEF h
<1>9. round = [n \in 0 .. Bits |-> E(round, n)]
  <2> HIDE DEF E
  <2> QED
    BY <1>7
<1> HIDE DEF round
<1>10. 0 .. Bits \subseteq {n \in 0 .. Bits : round[n] = h[n]}
  <2> DEFINE S == {n \in 0 .. Bits : round[n] = h[n]}
  <2>1. 0 \in S
    <3>1. 0 \in 0 .. Bits
      BY <1>2
    <3>2. E(round, 0) = E(h, 0)
      OBVIOUS
    <3>3. round[0] = E(round, 0)
      BY <1>9, <3>1
    <3> QED
      BY <1>6, <3>1, <3>2, <3>3
  <2>2. ASSUME NEW n \in 0 .. Bits - 1, n \in S
        PROVE  n + 1 \in S
    <3>1. n + 1 \in 0 .. Bits /\ n + 1 - 1 = n /\ n + 1 \in 1 .. Bits /\ n + 1 # 0
      BY <1>2
    <3>2. round[n] = h[n]
      BY <2>2
    <3>3. E(round, n + 1) = E(h, n + 1)
      BY <3>1, <3>2
    <3>4. round[n + 1] = E(round, n + 1)
      BY <1>9, <3>1
    <3>5. h[n + 1] = E(h, n + 1)
      BY <1>5, <3>1
    <3> QED
      BY <3>1, <3>3, <3>4, <3>5
  <2> HIDE DEF S
  <2>3. 0 .. Bits \subseteq S
    BY <1>2, <2>1, <2>2, BoundedInduction
  <2> QED
    BY <2>3 DEF S
<1>11. round[Bits] = h[Bits]
  BY <1>2, <1>10
<1> QED
  BY <1>1, <1>8, <1>11

LEMMA Shifted ==
  ASSUME NEW x \in Int, NEW q \in Int, NEW d \in Nat \ {0}
  PROVE  /\ (x + q * d) \div d = (x \div d) + q
         /\ (x + q * d) % d = x % d
<1> DEFINE y == x \div d
           r == x % d
<1>1. x = y * d + r /\ y \in Int /\ r \in 0 .. d - 1
  BY DivIs
<1> HIDE DEF y, r
<1>2. x + q * d = (y + q) * d + r /\ y + q \in Int
  BY <1>1
<1>3. (x + q * d) \div d = y + q /\ (x + q * d) % d = r
  BY <1>1, <1>2, DivUnique
<1> QED
  BY <1>3 DEF y, r

LEMMA PowerAbove ==
  ASSUME Powers, NEW k \in Nat, NEW j \in Nat, j <= k
  PROVE  \E g \in Nat \ {0} : 2 ^ k = g * 2 ^ j
<1> DEFINE i == k - j
<1>1. i \in Nat /\ i + j = k
  OBVIOUS
<1> HIDE DEF i
<1>2. 2 ^ (i + j) = 2 ^ i * 2 ^ j /\ 2 ^ i \in Nat \ {0}
  BY <1>1, PowerSum
<1> QED
  BY <1>1, <1>2

LEMMA PowerFarAbove ==
  ASSUME Powers, NEW k \in Nat, NEW j \in Nat, j < k
  PROVE  \E e \in Nat \ {0} : 2 ^ k = (e * 2) * 2 ^ j
<1>1. k - 1 \in Nat /\ j <= k - 1 /\ k - 1 + 1 = k
  OBVIOUS
<1>2. PICK e \in Nat \ {0} : 2 ^ (k - 1) = e * 2 ^ j
  BY <1>1, PowerAbove
<1>3. 2 ^ k = 2 * 2 ^ (k - 1) /\ 2 ^ j \in Nat
  BY <1>1 DEF Powers
<1>4. 2 * (e * 2 ^ j) = (e * 2) * 2 ^ j
  BY <1>3
<1> QED
  BY <1>2, <1>3, <1>4

(* A multiple of a higher power of two does not change a bit.              *)
LEMMA HighBits ==
  ASSUME Powers, NEW x \in Int, NEW q \in Int, NEW k \in Nat, NEW j \in Nat, j < k
  PROVE  Bit(x + q * 2 ^ k, j) = Bit(x, j)
<1> DEFINE P == 2 ^ j
           y == x \div P
<1>1. P \in Nat \ {0}
  BY DEF Powers
<1>2. PICK e \in Nat \ {0} : 2 ^ k = (e * 2) * P
  BY PowerFarAbove
<1>3. Bit(x, j) = y % 2 /\ Bit(x + q * 2 ^ k, j) = ((x + q * 2 ^ k) \div P) % 2
  BY DEF Bit
<1> HIDE DEF P
<1>4. y \in Int
  BY <1>1, DivIs
<1>5. q * ((e * 2) * P) = (q * (e * 2)) * P /\ q * (e * 2) \in Int
      /\ q * (e * 2) = (q * e) * 2 /\ q * e \in Int
  BY <1>1
<1>6. (x + (q * (e * 2)) * P) \div P = (x \div P) + q * (e * 2)
  BY <1>1, <1>5, Shifted
<1>7. (x + q * 2 ^ k) \div P = y + (q * e) * 2
  BY <1>2, <1>5, <1>6
<1> HIDE DEF y
<1>8. PICK two \in Nat \ {0} : two = 2
  OBVIOUS
<1>9. (y + (q * e) * two) % two = y % two
  BY <1>4, <1>5, Shifted
<1> QED
  BY <1>3, <1>7, <1>8, <1>9

LEMMA WordBits ==
  ASSUME Powers, NEW x \in Int, NEW j \in 0 .. Bits - 1
  PROVE  /\ Bit(Wrap(x), j) = Bit(x, j)
         /\ Bit(x % Modulus, j) = Bit(x, j)
<1>1. Bits \in Nat /\ j \in Nat /\ j < Bits /\ 2 ^ Bits = Modulus /\ Modulus \in Nat \ {0}
  BY ByteSize, BytePlace DEF Modulus
<1>2. PICK k \in Int : x = k * Modulus + Wrap(x)
  BY WrapFacts
<1>3. Wrap(x) \in Int
  BY WrapFacts
<1>4. x = Wrap(x) + k * 2 ^ Bits
  BY <1>1, <1>2, <1>3
<1>5. Bit(x, j) = Bit(Wrap(x), j)
  <2> DEFINE w == Wrap(x)
  <2>1. w \in Int /\ x = w + k * 2 ^ Bits
    BY <1>3, <1>4
  <2> HIDE DEF w
  <2>2. Bit(w + k * 2 ^ Bits, j) = Bit(w, j)
    BY <1>1, <2>1, HighBits
  <2> QED
    BY <2>1, <2>2 DEF w
<1> DEFINE q == x \div Modulus
           r == x % Modulus
<1>6. x = q * Modulus + r /\ q \in Int /\ r \in 0 .. Modulus - 1
  BY <1>1, DivIs
<1> HIDE DEF q, r
<1>7. x = r + q * 2 ^ Bits /\ r \in Int
  BY <1>1, <1>6
<1>8. Bit(x, j) = Bit(r, j)
  <2>1. Bit(r + q * 2 ^ Bits, j) = Bit(r, j)
    BY <1>1, <1>6, <1>7, HighBits
  <2> QED
    BY <1>7, <2>1
<1> QED
  BY <1>5, <1>8 DEF r

(* The mask that has all bits but the m from bit l on.                     *)
LEMMA MaskBits ==
  ASSUME Powers, NEW l \in Nat, NEW m \in Nat \ {0}, NEW j \in Nat
  PROVE  Bit(-1 - (2 ^ m - 1) * 2 ^ l, j) = 1 <=> ~ (l <= j /\ j < l + m)
<1> DEFINE F == 2 ^ m
           L == 2 ^ l
           P == 2 ^ j
           n == -1 - (F - 1) * L
<1>1. F \in Nat \ {0} /\ L \in Nat \ {0} /\ P \in Nat \ {0} /\ 2 ^ (l + m) = L * F
  BY PowerSum
<1>2. Bit(n, j) = (n \div P) % 2
  BY DEF Bit
<1>3. \A q \in Int : (q * 2) % 2 = 0 /\ (q * 2 - 1) % 2 = 1
  OBVIOUS
<1>4. CASE j < l
  <2>1. PICK e \in Nat \ {0} : L = (e * 2) * P
    BY <1>4, PowerFarAbove
  <2> DEFINE q == -((F - 1) * e)
  <2> HIDE DEF F, L, P
  <2>2. q \in Int /\ n = (q * 2 - 1) * P + (P - 1) /\ q * 2 - 1 \in Int
        /\ P - 1 \in 0 .. P - 1
    BY <1>1, <2>1
  <2> HIDE DEF n, q
  <2>3. n \div P = q * 2 - 1
    BY <1>1, <2>2, DivUnique
  <2> QED
    BY <1>2, <1>3, <1>4, <2>2, <2>3 DEF n, F, L
<1>5. CASE l <= j /\ j < l + m
  <2>1. PICK e \in Nat \ {0} : L * F = (e * 2) * P
    <3>1. l + m \in Nat
      OBVIOUS
    <3>2. \E e \in Nat \ {0} : 2 ^ (l + m) = (e * 2) * 2 ^ j
      BY <1>5, <3>1, PowerFarAbove
    <3> QED
      BY <1>1, <3>2
  <2>2. L - 1 \in 0 .. P - 1
    <3>2. PICK g \in Nat \ {0} : P = g * L
      BY <1>5, PowerAbove
    <3> HIDE DEF L, P
    <3>3. (g - 1) * L >= 0 /\ (g - 1) * L = g * L - L
      BY <1>1
    <3> QED
      BY <1>1, <3>2, <3>3
  <2> DEFINE q == -e
  <2> HIDE DEF F, L, P
  <2>3. q \in Int /\ n = (q * 2) * P + (L - 1) /\ q * 2 \in Int
    <3>1. (F - 1) * L = L * F - L
      BY <1>1
    <3> QED
      BY <1>1, <2>1, <3>1
  <2> HIDE DEF n, q
  <2>4. n \div P = q * 2
    BY <1>1, <2>2, <2>3, DivUnique
  <2> QED
    BY <1>2, <1>3, <1>5, <2>3, <2>4 DEF n, F, L
<1>6. CASE l + m <= j
  <2>1. PICK g \in Nat \ {0} : P = g * (L * F)
    <3>1. l + m \in Nat
      OBVIOUS
    <3>2. \E g \in Nat \ {0} : 2 ^ j = g * 2 ^ (l + m)
      BY <1>6, <3>1, PowerAbove
    <3> QED
      BY <1>1, <3>2
  <2> HIDE DEF F, L, P
  <2>2. n = (-1) * P + (P + n) /\ P + n \in 0 .. P - 1
    <3>1. (F - 1) * L = L * F - L /\ (F - 1) * L >= 0
      BY <1>1
    <3>2. (g - 1) * (L * F) >= 0 /\ (g - 1) * (L * F) = g * (L * F) - L * F
          /\ L * F \in Int
      BY <1>1
    <3> QED
      BY <1>1, <2>1, <3>1, <3>2
  <2> HIDE DEF n
  <2>3. n \div P = -1
    BY <1>1, <2>2, DivUnique
  <2> QED
    BY <1>2, <1>6, <2>3 DEF n, F, L
<1> QED
  BY <1>4, <1>5, <1>6

(* A number without the m bits from bit l on.                              *)
LEMMA ClearedBits ==
  ASSUME Powers, NEW w \in Int, NEW l \in Nat, NEW m \in Nat \ {0}, NEW j \in Nat
  PROVE  /\ w - ((w \div 2 ^ l) % 2 ^ m) * 2 ^ l \in Int
         /\ Bit(w - ((w \div 2 ^ l) % 2 ^ m) * 2 ^ l, j)
              = IF l <= j /\ j < l + m THEN 0 ELSE Bit(w, j)
<1> DEFINE F == 2 ^ m
           L == 2 ^ l
           P == 2 ^ j
           y == w \div L
           t == w % L
           f == y % F
           q == y \div F
           c == w - f * L
<1>1. F \in Nat \ {0} /\ L \in Nat \ {0} /\ P \in Nat \ {0} /\ 2 ^ (l + m) = L * F
      /\ l + m \in Nat
  BY PowerSum
<1>2. Bit(c, j) = (c \div P) % 2 /\ Bit(w, j) = (w \div P) % 2
  BY DEF Bit
<1>3. w \div (L * F) = q
  <2> HIDE DEF L, F
  <2> QED
    BY <1>1, DivTwice
<1>4. j < l => Bit(c + f * L, j) = Bit(c, j)
  <2>1. f \in Int /\ c \in Int
    <3> HIDE DEF L, F
    <3>1. y \in Int
      BY <1>1, DivIs
    <3> HIDE DEF y
    <3>2. f \in 0 .. F - 1
      BY <1>1, <3>1, DivIs
    <3> HIDE DEF f
    <3> QED
      BY <1>1, <3>2
  <2> HIDE DEF f, c
  <2> QED
    BY <2>1, HighBits
<1>5. 2 ^ l = L /\ 2 ^ (l + m) = L * F
  BY <1>1
<1>6. l <= j => \E g \in Nat \ {0} : P = g * L
  BY PowerAbove
<1>7. l + m <= j => \E g \in Nat \ {0} : P = g * (L * F)
  <2>1. l + m <= j => \E g \in Nat \ {0} : 2 ^ j = g * 2 ^ (l + m)
    BY <1>1, PowerAbove
  <2> QED
    BY <1>1, <2>1
<1>8. Bit(t, j) = (t \div P) % 2
  BY DEF Bit
<1>9. \A x, k \in Int : j < l + m => Bit(x + k * (L * F), j) = Bit(x, j)
  <2> SUFFICES ASSUME NEW x \in Int, NEW k \in Int, j < l + m
               PROVE  Bit(x + k * (L * F), j) = Bit(x, j)
    OBVIOUS
  <2>1. Bit(x + k * 2 ^ (l + m), j) = Bit(x, j)
    BY <1>1, HighBits
  <2> QED
    BY <1>5, <2>1
<1> HIDE DEF F, L, P
<1>10. w = y * L + t /\ y \in Int /\ t \in 0 .. L - 1
  BY <1>1, DivIs
<1> HIDE DEF y, t
<1>11. y = q * F + f /\ q \in Int /\ f \in 0 .. F - 1
  BY <1>1, <1>10, DivIs
<1> HIDE DEF q, f
<1>12. c = t + q * (L * F) /\ c \in Int /\ c + f * L = w /\ t \in Int
  BY <1>1, <1>10, <1>11
<1>13. c \in Int /\ Bit(c, j) = IF l <= j /\ j < l + m THEN 0 ELSE Bit(w, j)
  <2> HIDE DEF c
  <2>1. CASE j < l
    BY <1>4, <1>12, <2>1
  <2>2. CASE l <= j /\ j < l + m
    <3>1. Bit(c, j) = Bit(t, j)
      BY <1>9, <1>11, <1>12, <2>2
    <3>2. PICK g \in Nat \ {0} : P = g * L
      BY <1>6, <2>2
    <3>3. L <= P
      <4>1. (g - 1) * L >= 0 /\ (g - 1) * L = g * L - L
        BY <1>1
      <4> QED
        BY <1>1, <3>2, <4>1
    <3>4. t = 0 * P + t /\ t \in 0 .. P - 1
      BY <1>1, <1>10, <3>3
    <3>5. t \div P = 0
      BY <1>1, <3>4, DivUnique
    <3> QED
      BY <1>8, <1>12, <2>2, <3>1, <3>5
  <2>3. CASE l + m <= j
    <3>1. PICK g \in Nat \ {0} : P = g * (L * F)
      BY <1>7, <2>3
    <3> DEFINE K == L * F
    <3>2. K \in Nat \ {0} /\ P = K * g
      BY <1>1, <3>1
    <3>3. t \in 0 .. K - 1
      <4>1. (F - 1) * L >= 0 /\ (F - 1) * L = L * F - L
        BY <1>1
      <4> QED
        BY <1>1, <1>10, <4>1
    <3>4. c = q * K + t /\ w \div K = q
      BY <1>1, <1>3, <1>11, <1>12
    <3> HIDE DEF K
    <3>5. c \div K = q
      BY <1>11, <3>2, <3>3, <3>4, DivUnique
    <3>6. c \div (K * g) = (c \div K) \div g /\ w \div (K * g) = (w \div K) \div g
      BY <1>12, <3>2, DivTwice
    <3>7. c \div P = w \div P
      BY <3>2, <3>4, <3>5, <3>6
    <3> QED
      BY <1>2, <1>12, <2>3, <3>7
  <2> QED
    BY <2>1, <2>2, <2>3
<1> QED
  BY <1>13 DEF c, f, y, F, L

LEMMA AndMask ==
  ASSUME Powers, NEW w \in Word, NEW l \in Nat, NEW m \in Nat \ {0}, l + m <= Bits
  PROVE  And(w, Wrap(-1 - (2 ^ m - 1) * 2 ^ l))
           = Wrap(w - ((w \div 2 ^ l) % 2 ^ m) * 2 ^ l)
<1> DEFINE mask == -1 - (2 ^ m - 1) * 2 ^ l
           c == w - ((w \div 2 ^ l) % 2 ^ m) * 2 ^ l
           d == c % Modulus
<1>1. w \in Int /\ Bits \in Nat /\ Modulus \in Nat \ {0}
  BY ByteSize, BytePlace DEF Word, Modulus
<1>2. c \in Int
  BY <1>1, ClearedBits
<1>3. mask \in Int
  <2>1. 2 ^ m \in Nat /\ 2 ^ l \in Nat
    BY DEF Powers
  <2> QED
    BY <2>1
<1>4. ASSUME NEW j \in 0 .. Bits - 1
      PROVE  /\ Bit(mask, j) = 1 <=> ~ (l <= j /\ j < l + m)
             /\ Bit(c, j) = IF l <= j /\ j < l + m THEN 0 ELSE Bit(w, j)
  <2>1. j \in Nat
    BY <1>1
  <2> QED
    BY <1>1, <2>1, MaskBits, ClearedBits
<1> HIDE DEF mask, c
<1>5. d \in 0 .. Modulus - 1 /\ c = (c \div Modulus) * Modulus + d /\ c \div Modulus \in Int
  BY <1>1, <1>2, DivIs
<1>6. ASSUME NEW j \in 0 .. Bits - 1
      PROVE  Bit(d, j) = 1 <=> <<Bit(w, j) = 1, Bit(Wrap(mask), j) = 1>> \in {<<TRUE, TRUE>>}
  <2>1. Bit(d, j) = Bit(c, j) /\ Bit(Wrap(mask), j) = Bit(mask, j)
    BY <1>2, <1>3, WordBits
  <2>2. Bit(d, j) = 1 <=> Bit(w, j) = 1 /\ Bit(Wrap(mask), j) = 1
    BY <1>4, <2>1
  <2>3. <<Bit(w, j) = 1, Bit(Wrap(mask), j) = 1>> \in {<<TRUE, TRUE>>}
          <=> Bit(w, j) = 1 /\ Bit(Wrap(mask), j) = 1
    BY Zenon
  <2> QED
    BY <2>2, <2>3
<1>7. Wrap(mask) \in Word
  BY <1>3, WrapFacts
<1> HIDE DEF d
<1>8. Bitwise({<<TRUE, TRUE>>}, w, Wrap(mask)) = Wrap(d)
  BY <1>5, <1>6, <1>7, BitwiseIs
<1>9. Wrap(d) = Wrap(c)
  <2>1. d \in Int
    BY <1>1, <1>5
  <2> QED
    BY <1>5, <2>1, WrapSame
<1> QED
  BY <1>8, <1>9 DEF And, mask, c

(* The remainder by a square has two digits.                               *)
LEMMA ModSquare ==
  ASSUME NEW B \in Nat \ {0}, NEW u \in Int
  PROVE  u % (B * B) = (u % B) + ((u \div B) % B) * B
<1> DEFINE q == u \div B
           r == u % B
           p == q \div B
           s == q % B
<1>1. u = q * B + r /\ q \in Int /\ r \in 0 .. B - 1
  BY DivIs
<1> HIDE DEF q, r
<1>2. q = p * B + s /\ p \in Int /\ s \in 0 .. B - 1
  BY <1>1, DivIs
<1> HIDE DEF p, s
<1>3. u = p * (B * B) + (r + s * B)
  BY <1>1, <1>2
<1>4. r + s * B \in 0 .. (B * B) - 1
  <2>1. (B - 1 - s) * B >= 0 /\ (B - 1 - s) * B = B * B - B - s * B /\ s * B >= 0
    BY <1>2
  <2> QED
    BY <1>1, <1>2, <2>1
<1>5. B * B \in Nat \ {0}
  OBVIOUS
<1>6. u % (B * B) = r + s * B
  BY <1>2, <1>3, <1>4, <1>5, DivUnique
<1> QED
  BY <1>6 DEF r, s, q

-----------------------------------------------------------------------------
(***************************************************************************)
(* Bytes that are changed in a word.                                       *)
(***************************************************************************)
LEMMA ByteUnits ==
  ASSUME Powers
  PROVE  /\ \A i \in 0 .. 3 : /\ Byte ^ i \in Nat \ {0}
                              /\ i * ByteBits \in Nat
                              /\ 2 ^ (i * ByteBits) = Byte ^ i
         /\ 2 ^ (2 * ByteBits) = Half /\ Half \in Nat \ {0}
<1>1. 0 .. 3 = {0, 1, 2, 3}
  OBVIOUS
<1>2. 0 * ByteBits = 0 /\ 1 * ByteBits = ByteBits /\ 2 ^ 0 = 1
      /\ 2 * ByteBits \in Nat /\ 3 * ByteBits \in Nat /\ ByteBits \in Nat
  BY ByteSize DEF Powers
<1>3. Byte * Byte \in Nat \ {0} /\ Byte * Byte * Byte \in Nat \ {0}
  BY ByteSize
<1>4. Byte ^ 0 \in Nat \ {0} /\ 0 * ByteBits \in Nat /\ 2 ^ (0 * ByteBits) = Byte ^ 0
  <2>1. Byte ^ 0 = 1 /\ 1 \in Nat \ {0} /\ 0 \in Nat
    BY ByteSize
  <2> QED
    BY <1>2, <2>1
<1>8. Byte ^ 1 \in Nat \ {0} /\ 1 * ByteBits \in Nat /\ 2 ^ (1 * ByteBits) = Byte ^ 1
  BY <1>2, ByteSize, BytePlace
<1>5. Byte ^ 2 \in Nat \ {0} /\ 2 * ByteBits \in Nat /\ 2 ^ (2 * ByteBits) = Byte ^ 2
  BY <1>2, <1>3, ByteSize, BytePlace
<1>6. Byte ^ 3 \in Nat \ {0} /\ 3 * ByteBits \in Nat /\ 2 ^ (3 * ByteBits) = Byte ^ 3
  BY <1>2, <1>3, ByteSize, BytePlace
<1>7. 2 ^ (2 * ByteBits) = Half /\ Half \in Nat \ {0}
  BY <1>3, ByteSize, BytePlace
<1> QED
  BY <1>1, <1>4, <1>5, <1>6, <1>7, <1>8

PutIn(w, i, x) == w + (x - ByteOf(w, i)) * Byte ^ i

LEMMA PutByteAt ==
  ASSUME Powers, NEW w \in Int, NEW i \in 0 .. 3, NEW x \in 0 .. Byte - 1, NEW j \in 0 .. 3
  PROVE  ByteOf(PutIn(w, i, x), j) = IF j = i THEN x ELSE ByteOf(w, j)
<1> DEFINE k == w \div Modulus
           b0 == ByteOf(w, 0)  b1 == ByteOf(w, 1)
           b2 == ByteOf(w, 2)  b3 == ByteOf(w, 3)
           n == PutIn(w, i, x)
<1>1. w = Join(k, b0, b1, b2, b3) /\ k \in Int
  BY JoinOfBytes
<1>2. /\ b0 \in 0 .. Byte - 1 /\ b1 \in 0 .. Byte - 1
      /\ b2 \in 0 .. Byte - 1 /\ b3 \in 0 .. Byte - 1
  BY BytesByDivision
<1>4. Byte \in Nat \ {0} /\ x \in Int /\ b0 \in Int /\ b1 \in Int /\ b2 \in Int /\ b3 \in Int
      /\ Byte ^ 0 = 1 /\ Byte ^ 1 = Byte
      /\ Byte ^ 2 = Byte * Byte /\ Byte ^ 3 = Byte * Byte * Byte
  BY <1>2, ByteSize
<1>9. j = 0 \/ j = 1 \/ j = 2 \/ j = 3
  OBVIOUS
<1> HIDE DEF k, b0, b1, b2, b3
<1>5. CASE i = 0
  <2>1. n = w + (x - b0) * 1
    BY <1>4, <1>5 DEF PutIn, b0, b1, b2, b3
  <2>2. n = Join(k, x, b1, b2, b3)
    BY <1>1, <1>4, <2>1 DEF Join
  <2> HIDE DEF n
  <2>3. /\ n \in Int /\ ByteOf(n, 0) = x /\ ByteOf(n, 1) = b1
        /\ ByteOf(n, 2) = b2 /\ ByteOf(n, 3) = b3
    BY <1>1, <1>2, <2>2, BytesOfJoin
  <2>4. ByteOf(n, j) = IF j = i THEN x ELSE ByteOf(w, j)
    BY <1>5, <2>3, <1>9 DEF b0, b1, b2, b3
  <2> QED
    BY <2>4 DEF n
<1>6. CASE i = 1
  <2>1. n = w + (x - b1) * Byte
    BY <1>4, <1>6 DEF PutIn, b0, b1, b2, b3
  <2>2. n = Join(k, b0, x, b2, b3)
    BY <1>1, <1>4, <2>1 DEF Join
  <2> HIDE DEF n
  <2>3. /\ n \in Int /\ ByteOf(n, 0) = b0 /\ ByteOf(n, 1) = x
        /\ ByteOf(n, 2) = b2 /\ ByteOf(n, 3) = b3
    BY <1>1, <1>2, <2>2, BytesOfJoin
  <2>4. ByteOf(n, j) = IF j = i THEN x ELSE ByteOf(w, j)
    BY <1>6, <2>3, <1>9 DEF b0, b1, b2, b3
  <2> QED
    BY <2>4 DEF n
<1>7. CASE i = 2
  <2>1. n = w + (x - b2) * (Byte * Byte)
    BY <1>4, <1>7 DEF PutIn, b0, b1, b2, b3
  <2>2. n = Join(k, b0, b1, x, b3)
    BY <1>1, <1>4, <2>1 DEF Join
  <2> HIDE DEF n
  <2>3. /\ n \in Int /\ ByteOf(n, 0) = b0 /\ ByteOf(n, 1) = b1
        /\ ByteOf(n, 2) = x /\ ByteOf(n, 3) = b3
    BY <1>1, <1>2, <2>2, BytesOfJoin
  <2>4. ByteOf(n, j) = IF j = i THEN x ELSE ByteOf(w, j)
    BY <1>7, <2>3, <1>9 DEF b0, b1, b2, b3
  <2> QED
    BY <2>4 DEF n
<1>8. CASE i = 3
  <2>1. n = w + (x - b3) * (Byte * Byte * Byte)
    BY <1>4, <1>8 DEF PutIn, b0, b1, b2, b3
  <2>2. n = Join(k, b0, b1, b2, x)
    BY <1>1, <1>4, <2>1 DEF Join
  <2> HIDE DEF n
  <2>3. /\ n \in Int /\ ByteOf(n, 0) = b0 /\ ByteOf(n, 1) = b1
        /\ ByteOf(n, 2) = b2 /\ ByteOf(n, 3) = x
    BY <1>1, <1>2, <2>2, BytesOfJoin
  <2>4. ByteOf(n, j) = IF j = i THEN x ELSE ByteOf(w, j)
    BY <1>8, <2>3, <1>9 DEF b0, b1, b2, b3
  <2> QED
    BY <2>4 DEF n
<1> QED
  BY <1>5, <1>6, <1>7, <1>8

LEMMA PutByteIn ==
  ASSUME Powers, NEW w \in Int, NEW i \in 0 .. 3, NEW x \in 0 .. Byte - 1
  PROVE  PutIn(w, i, x) \in Int
<1> DEFINE d == x - ByteOf(w, i)
<1>1. ByteOf(w, i) \in 0 .. Byte - 1
  BY BytesByDivision
<1>2. d \in Int /\ Byte ^ i \in Int
  BY <1>1, ByteUnits
<1> HIDE DEF d
<1>3. w + d * Byte ^ i \in Int
  BY <1>2
<1> QED
  BY <1>3 DEF PutIn, d

(* What store_byte leaves in the word.                                     *)
LEMMA StoredByte ==
  ASSUME Powers, NEW w \in Word, NEW v \in Int, NEW i \in 0 .. 3
  PROVE  LET s == Add(And(w, Wrap(-1 - (Byte - 1) * Byte ^ i)),
                      Times(Mod(v, Byte), Byte ^ i))
         IN /\ s \in Word
            /\ \A j \in 0 .. 3 : ByteOf(s, j) = IF j = i THEN v % Byte ELSE ByteOf(w, j)
<1> DEFINE U == Byte ^ i
           b == ByteOf(w, i)
           x == v % Byte
           n == PutIn(w, i, x)
<1>1. /\ U \in Nat \ {0} /\ i * ByteBits \in Nat /\ 2 ^ (i * ByteBits) = U
      /\ Byte \in Nat \ {0} /\ w \in Int /\ 2 ^ ByteBits = Byte
      /\ ByteBits \in Nat \ {0} /\ i * ByteBits + ByteBits <= Bits
  <2>1. i * ByteBits + ByteBits <= Bits
    <3>1. i = 0 \/ i = 1 \/ i = 2 \/ i = 3
      OBVIOUS
    <3> QED
      BY <3>1, ByteSize
  <2>2. w \in Int
    BY BytePlace DEF Word
  <2> QED
    BY <2>1, <2>2, ByteUnits, BytePlace, ByteSize
<1>2. b \in 0 .. Byte - 1 /\ x \in 0 .. Byte - 1 /\ b \in Int /\ x \in Int
  <2>1. b \in 0 .. Byte - 1
    BY <1>1, BytesByDivision
  <2>2. x \in 0 .. Byte - 1
    BY <1>1, DivIs
  <2> QED
    BY <2>1, <2>2
<1>3. b = (w \div U) % Byte
  BY DEF ByteOf
<1>4. And(w, Wrap(-1 - (Byte - 1) * U)) = Wrap(w - b * U)
  <2> DEFINE l == i * ByteBits
  <2>1. l \in Nat /\ 2 ^ l = U /\ l + ByteBits <= Bits
    BY <1>1
  <2> HIDE DEF l, U
  <2>2. And(w, Wrap(-1 - (2 ^ ByteBits - 1) * 2 ^ l))
          = Wrap(w - ((w \div 2 ^ l) % 2 ^ ByteBits) * 2 ^ l)
    BY <1>1, <2>1, AndMask
  <2> QED
    BY <1>1, <1>3, <2>1, <2>2
<1>5. /\ n \in Int
      /\ \A j \in 0 .. 3 : ByteOf(n, j) = IF j = i THEN x ELSE ByteOf(w, j)
  <2>1. w \in Int /\ x \in 0 .. Byte - 1
    BY <1>1, <1>2
  <2> HIDE DEF x
  <2>2. ASSUME NEW j \in 0 .. 3
        PROVE  ByteOf(PutIn(w, i, x), j) = IF j = i THEN x ELSE ByteOf(w, j)
    BY <2>1, <2>2, PutByteAt
  <2>3. PutIn(w, i, x) \in Int
    BY <2>1, PutByteIn
  <2> QED
    BY <2>2, <2>3
<1>13. n = w + (x - b) * U
  BY DEF PutIn
<1> HIDE DEF b, x, U, n
<1>6. Add(Wrap(w - b * U), Times(x, U)) = Wrap(n)
  <2> DEFINE y == w - b * U
             z == x * U
  <2>1. y \in Int /\ z \in Int /\ y + z = n
    BY <1>1, <1>2, <1>13
  <2> HIDE DEF y, z
  <2>2. Wrap(y + Wrap(z)) = Wrap(y + z)
    BY <2>1, WrapInside
  <2>3. Wrap(Wrap(y) + Wrap(z)) = Wrap(y + Wrap(z))
    <3>1. Wrap(z) \in Int
      BY <2>1, WrapFacts
    <3> QED
      BY <2>1, <3>1, WrapInside
  <2> QED
    BY <2>1, <2>2, <2>3 DEF Add, Times, y, z
<1>7. /\ Wrap(n) \in Word
      /\ \A j \in 0 .. 3 : ByteOf(Wrap(n), j) = IF j = i THEN x ELSE ByteOf(w, j)
  BY <1>5, WrapFacts, WrapBytes
<1> QED
  BY <1>4, <1>6, <1>7 DEF Mod, x, U

(* The same of store_halfword, at the places 0 and 2.                      *)
LEMMA StoredHalf ==
  ASSUME Powers, NEW w \in Word, NEW v \in Int, NEW i \in {0, 2}
  PROVE  LET s == Add(And(w, Wrap(-1 - (Half - 1) * Byte ^ i)),
                      Times(Mod(v, Half), Byte ^ i))
         IN /\ s \in Word
            /\ \A j \in 0 .. 3 :
                 ByteOf(s, j) = CASE j = i     -> ByteOf(v, 0)
                                  [] j = i + 1 -> ByteOf(v, 1)
                                  [] OTHER     -> ByteOf(w, j)
<1> DEFINE U == Byte ^ i
           V == Byte ^ (i + 1)
           b == ByteOf(w, i)
           c == ByteOf(w, i + 1)
           x == ByteOf(v, 0)
           y == ByteOf(v, 1)
           n == PutIn(w, i, x)
           p == PutIn(n, i + 1, y)
<1>1. /\ U \in Nat \ {0} /\ V = Byte * U /\ V \in Nat \ {0}
      /\ i * ByteBits \in Nat /\ 2 ^ (i * ByteBits) = U
      /\ i \in 0 .. 3 /\ i + 1 \in 0 .. 3 /\ i # i + 1
      /\ Byte \in Nat \ {0} /\ w \in Int
      /\ 2 ^ (2 * ByteBits) = Half /\ Half = Byte * Byte /\ Half \in Nat \ {0}
      /\ 2 * ByteBits \in Nat \ {0} /\ i * ByteBits + 2 * ByteBits <= Bits
  <2>1. i * ByteBits + 2 * ByteBits <= Bits
    BY ByteSize
  <2>2. w \in Int
    BY BytePlace DEF Word
  <2>3. i \in 0 .. 3 /\ i + 1 \in 0 .. 3 /\ i # i + 1 /\ i \in Nat
    OBVIOUS
  <2>4. V = Byte * U /\ V \in Nat \ {0}
    BY <2>3, ByteSize DEF Powers
  <2>5. 2 * ByteBits \in Nat \ {0}
    BY ByteSize
  <2> QED
    BY <2>1, <2>2, <2>3, <2>4, <2>5, ByteUnits, ByteSize
<1>2. /\ b \in 0 .. Byte - 1 /\ c \in 0 .. Byte - 1
      /\ x \in 0 .. Byte - 1 /\ y \in 0 .. Byte - 1
      /\ b \in Int /\ c \in Int /\ x \in Int /\ y \in Int
  <2>1. b \in 0 .. Byte - 1 /\ c \in 0 .. Byte - 1
    BY <1>1, BytesByDivision
  <2>2. x \in 0 .. Byte - 1 /\ y \in 0 .. Byte - 1
    BY BytesByDivision
  <2> QED
    BY <2>1, <2>2
<1>3. \A u \in Int : u % Half = (u % Byte) + ((u \div Byte) % Byte) * Byte
  BY <1>1, ModSquare
<1>4. v % Half = x + y * Byte
  BY <1>3, BytesByDivision
<1>5. (w \div U) % Half = b + c * Byte
  <2>1. w \div U \in Int /\ b = (w \div U) % Byte
    BY <1>1, DivIs DEF ByteOf
  <2>2. w \div (U * Byte) = (w \div U) \div Byte /\ U * Byte = V
    <3> HIDE DEF U, V
    <3>1. w \div (U * Byte) = (w \div U) \div Byte
      BY <1>1, DivTwice
    <3> QED
      BY <1>1, <3>1
  <2>3. c = ((w \div U) \div Byte) % Byte
    BY <2>2 DEF ByteOf
  <2> QED
    BY <1>3, <2>1, <2>3
<1>6. And(w, Wrap(-1 - (Half - 1) * U)) = Wrap(w - (b + c * Byte) * U)
  <2> DEFINE l == i * ByteBits
             m == 2 * ByteBits
  <2>1. l \in Nat /\ 2 ^ l = U /\ m \in Nat \ {0} /\ 2 ^ m = Half /\ l + m <= Bits
    BY <1>1
  <2> HIDE DEF l, m, U, b, c
  <2>2. And(w, Wrap(-1 - (2 ^ m - 1) * 2 ^ l)) = Wrap(w - ((w \div 2 ^ l) % 2 ^ m) * 2 ^ l)
    BY <2>1, AndMask
  <2> QED
    BY <1>5, <2>1, <2>2
<1>7. /\ n \in Int
      /\ \A j \in 0 .. 3 : ByteOf(n, j) = IF j = i THEN x ELSE ByteOf(w, j)
  <2>1. w \in Int /\ x \in 0 .. Byte - 1
    BY <1>1, <1>2
  <2> HIDE DEF x
  <2>2. ASSUME NEW j \in 0 .. 3
        PROVE  ByteOf(PutIn(w, i, x), j) = IF j = i THEN x ELSE ByteOf(w, j)
    BY <2>1, <2>2, PutByteAt
  <2>3. PutIn(w, i, x) \in Int
    BY <2>1, PutByteIn
  <2> QED
    BY <2>2, <2>3
<1>8. c = ByteOf(n, i + 1)
  BY <1>1, <1>7
<1>9. /\ p \in Int
      /\ \A j \in 0 .. 3 : ByteOf(p, j) = IF j = i + 1 THEN y ELSE ByteOf(n, j)
  <2> DEFINE k == i + 1
  <2>1. k \in 0 .. 3 /\ n \in Int /\ y \in 0 .. Byte - 1
    BY <1>1, <1>2, <1>7
  <2> HIDE DEF n, k, y
  <2>2. ASSUME NEW j \in 0 .. 3
        PROVE  ByteOf(PutIn(n, k, y), j) = IF j = k THEN y ELSE ByteOf(n, j)
    BY <2>1, <2>2, PutByteAt
  <2>3. PutIn(n, k, y) \in Int
    BY <2>1, PutByteIn
  <2> QED
    BY <2>2, <2>3 DEF k
<1>13. n = w + (x - b) * U /\ p = n + (y - c) * V
  BY <1>8 DEF PutIn
<1> HIDE DEF b, c, x, y, U, V, n, p
<1>10. Add(Wrap(w - (b + c * Byte) * U), Times(x + y * Byte, U)) = Wrap(p)
  <2> DEFINE g == w - (b + c * Byte) * U
             z == (x + y * Byte) * U
  <2>1. g \in Int /\ z \in Int /\ g + z = p
    BY <1>1, <1>2, <1>13
  <2> HIDE DEF g, z
  <2>2. Wrap(g + Wrap(z)) = Wrap(g + z)
    BY <2>1, WrapInside
  <2>3. Wrap(Wrap(g) + Wrap(z)) = Wrap(g + Wrap(z))
    <3>1. Wrap(z) \in Int
      BY <2>1, WrapFacts
    <3> QED
      BY <2>1, <3>1, WrapInside
  <2> QED
    BY <2>1, <2>2, <2>3 DEF Add, Times, g, z
<1>11. \A j \in 0 .. 3 :
         ByteOf(p, j) = CASE j = i     -> x
                          [] j = i + 1 -> y
                          [] OTHER     -> ByteOf(w, j)
  BY <1>1, <1>7, <1>9
<1>12. Wrap(p) \in Word /\ \A j \in 0 .. 3 : ByteOf(Wrap(p), j) = ByteOf(p, j)
  BY <1>9, WrapFacts, WrapBytes
<1> QED
  BY <1>4, <1>6, <1>10, <1>11, <1>12 DEF Mod, x, y, U

-----------------------------------------------------------------------------
(***************************************************************************)
(* Division and lshr.                                                      *)
(***************************************************************************)
LEMMA HighHalf ==
  ASSUME Powers, NEW s \in 0 .. Bits - 1
  PROVE  /\ 2 ^ s \in Nat \ {0} /\ 2 ^ (Bits - 1 - s) \in Nat \ {0}
         /\ HighBit = 2 ^ (Bits - 1 - s) * 2 ^ s
         /\ s < Bits - 1 => 2 ^ s < HighBit
         /\ 0 < s => 2 ^ (Bits - 1 - s) < HighBit
<1> DEFINE t == Bits - 1 - s
           P == 2 ^ s
           Q == 2 ^ t
<1>1. Bits \in Nat /\ s \in Nat /\ t \in Nat /\ t + s = Bits - 1 /\ HighBit = 2 ^ (Bits - 1)
  BY ByteSize, BytePlace
<1> HIDE DEF t
<1>2. 2 ^ (t + s) = Q * P /\ P \in Nat \ {0} /\ Q \in Nat \ {0}
  BY <1>1, PowerSum
<1>3. ASSUME NEW n \in Nat, n # 0
      PROVE  2 <= 2 ^ n
  <2>1. n - 1 \in Nat /\ n - 1 + 1 = n
    BY <1>3
  <2>2. 2 ^ (n - 1) \in Nat \ {0} /\ 2 ^ (n - 1 + 1) = 2 * 2 ^ (n - 1)
    BY <2>1 DEF Powers
  <2> QED
    BY <2>1, <2>2
<1> HIDE DEF P, Q
<1>4. HighBit = Q * P
  BY <1>1, <1>2
<1>5. s < Bits - 1 => P < HighBit
  <2> SUFFICES ASSUME s < Bits - 1 PROVE P < HighBit
    OBVIOUS
  <2>1. t # 0
    BY <1>1
  <2>2. 2 <= Q
    BY <1>1, <1>3, <2>1 DEF Q
  <2> QED
    BY <1>2, <1>4, <2>2
<1>6. 0 < s => Q < HighBit
  <2> SUFFICES ASSUME 0 < s PROVE Q < HighBit
    OBVIOUS
  <2>1. s # 0
    OBVIOUS
  <2>2. 2 <= P
    BY <1>1, <1>3, <2>1 DEF P
  <2> QED
    BY <1>2, <1>4, <2>2
<1> QED
  BY <1>2, <1>4, <1>5, <1>6 DEF P, Q, t

(* Division of what is not negative.                                       *)
LEMMA OverIs ==
  ASSUME Powers, NEW a \in 0 .. HighBit - 1, NEW b \in Nat \ {0}
  PROVE  Over(a, b) = a \div b /\ a \div b \in 0 .. a
<1> DEFINE q == a \div b
<1>1. q \in 0 .. a
  <2>1. q \in Int /\ (a % b) \in 0 .. b - 1 /\ a = q * b + (a % b)
    BY DivIs
  <2> HIDE DEF q
  <2>2. PICK r \in 0 .. b - 1 : a = q * b + r
    BY <2>1
  <2>3. 0 <= q
    <3> SUFFICES ASSUME q <= -1 PROVE FALSE
      BY <2>1
    <3>1. q * b <= (-1) * b
      BY <2>1
    <3> QED
      BY <2>1, <2>2, <3>1
  <2>4. q <= q * b
    BY <2>1, <2>3
  <2> QED
    BY <2>1, <2>2, <2>3, <2>4
<1> HIDE DEF q
<1>2. HighBit \in Nat
  BY BytePlace
<1>3. q \in Word /\ q \in Int
  BY <1>1, <1>2 DEF Word
<1>4. Wrap(q) = q
  BY <1>3, WrapFacts
<1>5. Over(a, b) = Wrap(a \div b)
  BY DEF Over
<1> QED
  BY <1>1, <1>4, <1>5 DEF q

LEMMA OverPower ==
  ASSUME Powers, NEW a \in 0 .. HighBit - 1, NEW s \in 0 .. Bits - 1
  PROVE  Over(a, Power(s)) = a \div 2 ^ s
<1> DEFINE P == 2 ^ s
<1>1. P \in Nat \ {0} /\ (s < Bits - 1 => P < HighBit) /\ HighBit \in Nat \ {0}
  BY HighHalf, BytePlace
<1>2. CASE s < Bits - 1
  <2>1. P \in Word
    BY <1>1, <1>2 DEF Word
  <2>2. Power(s) = P
    BY <1>1, <2>1, WrapFacts DEF Power
  <2> QED
    BY <1>1, <2>2, OverIs
<1>3. CASE s = Bits - 1
  <2>1. P = HighBit
    BY <1>3, BytePlace
  <2>2. Power(s) = -HighBit
    <3>1. -HighBit \in Word /\ 1 \in Int /\ 1 * Modulus + (-HighBit) = HighBit
      BY <1>1 DEF Word, Modulus
    <3>2. Wrap(1 * Modulus + (-HighBit)) = -HighBit
      BY <3>1, WrapWord
    <3> QED
      BY <2>1, <3>1, <3>2 DEF Power
  <2>3. a \div HighBit = 0
    BY <1>1
  <2>4. Over(a, -HighBit) = Wrap(0)
    BY <1>1, <2>3 DEF Over
  <2>5. Wrap(0) = 0
    <3>1. 0 \in Word /\ 0 \in Int
      BY <1>1 DEF Word
    <3> QED
      BY <3>1, WrapFacts
  <2> QED
    BY <2>1, <2>2, <2>3, <2>4, <2>5
<1> QED
  BY <1>2, <1>3, ByteSize

LEMMA LshrIs ==
  ASSUME Powers, NEW a \in Word, NEW s \in 1 .. Bits - 1
  PROVE  Lshr(a, s) = (a % Modulus) \div 2 ^ s
<1> DEFINE P == 2 ^ s
           Q == 2 ^ (Bits - 1 - s)
<1>1. /\ P \in Nat \ {0} /\ Q \in Nat \ {0} /\ HighBit = Q * P /\ Q < HighBit
      /\ HighBit \in Nat \ {0} /\ Bits \in Nat /\ s \in 0 .. Bits - 1
  <2>1. s \in 0 .. Bits - 1 /\ 0 < s
    OBVIOUS
  <2> QED
    BY <2>1, HighHalf, BytePlace, ByteSize
<1>2. a \in Int /\ -HighBit <= a /\ a < HighBit /\ Modulus = 2 * HighBit
  BY <1>1 DEF Word, Modulus
<1>3. ~ (s >= Bits) /\ ~ (s < 1)
  BY <1>1
<1>4. CASE a >= 0
  <2>1. a % Modulus = a
    BY <1>1, <1>2, <1>4
  <2>2. a \in 0 .. HighBit - 1
    BY <1>1, <1>2, <1>4
  <2>3. Over(a, Power(s)) = a \div P
    BY <1>1, <2>2, OverPower
  <2>4. Lshr(a, s) = Over(a, Power(s))
    <3>1. ~ (a < 0)
      BY <1>2, <1>4
    <3> QED
      BY <1>3, <1>4, <3>1 DEF Lshr
  <2> QED
    BY <2>1, <2>3, <2>4
<1>5. CASE a < 0
  <2> DEFINE c == a + HighBit
             q == c \div P
  <2>1. c \in 0 .. HighBit - 1 /\ c \in Word
    BY <1>1, <1>2, <1>5 DEF Word
  <2>2. Add(a, -HighBit) = c
    <3>1. -1 \in Int /\ (-1) * Modulus + c = a + (-HighBit)
      BY <1>1, <1>2
    <3>2. Wrap((-1) * Modulus + c) = c
      BY <2>1, <3>1, WrapWord
    <3> QED
      BY <3>1, <3>2 DEF Add
  <2>3. Over(c, Power(s)) = q
    BY <1>1, <2>1, OverPower
  <2>4. Power(Bits - 1 - s) = Q
    <3>1. Q \in Word
      BY <1>1 DEF Word
    <3> QED
      BY <1>1, <3>1, WrapFacts DEF Power
  <2>5. a % Modulus = c + HighBit
    BY <1>1, <1>2, <1>5
  <2>6. (a % Modulus) \div P = q + Q
    <3>1. c \in Int /\ Q \in Int
      BY <1>1, <2>1
    <3> HIDE DEF c, P, Q
    <3>2. (c + Q * P) \div P = (c \div P) + Q
      BY <1>1, <3>1, Shifted
    <3> QED
      BY <1>1, <2>5, <3>2
  <2>7. q + Q \in Word /\ q + Q \in Int
    <3>1. q \in Int /\ (c % P) \in 0 .. P - 1 /\ c = q * P + (c % P)
      <4>1. c \in Int
        BY <2>1
      <4> HIDE DEF c, P
      <4> QED
        BY <1>1, <4>1, DivIs
    <3> HIDE DEF q
    <3>2. PICK r \in 0 .. P - 1 : c = q * P + r
      BY <3>1
    <3> HIDE DEF P, Q, c
    <3>3. q < Q
      <4> SUFFICES ASSUME Q <= q PROVE FALSE
        BY <1>1, <3>1
      <4>1. Q * P <= q * P
        BY <1>1, <3>1
      <4> QED
        BY <1>1, <2>1, <3>1, <3>2, <4>1
    <3>4. 0 <= q
      <4> SUFFICES ASSUME q <= -1 PROVE FALSE
        BY <3>1
      <4>1. q * P <= (-1) * P
        BY <1>1, <3>1
      <4> QED
        BY <1>1, <2>1, <3>1, <3>2, <4>1
    <3>5. 2 <= P
      <4>1. s - 1 \in Nat /\ s - 1 + 1 = s
        BY <1>1
      <4>2. 2 ^ (s - 1) \in Nat \ {0} /\ 2 ^ (s - 1 + 1) = 2 * 2 ^ (s - 1)
        BY <4>1 DEF Powers
      <4> QED
        BY <4>1, <4>2 DEF P
    <3>6. Q + Q <= HighBit
      <4>1. Q * 2 <= Q * P
        BY <1>1, <3>5
      <4> QED
        BY <1>1, <4>1
    <3> QED
      BY <1>1, <3>1, <3>3, <3>4, <3>6 DEF Word
  <2>8. Lshr(a, s) = Add(Over(Add(a, -HighBit), Power(s)), Power(Bits - 1 - s))
    BY <1>1, <1>3, <1>5 DEF Lshr
  <2>9. Wrap(q + Q) = q + Q
    BY <2>7, WrapFacts
  <2> QED
    BY <2>2, <2>3, <2>4, <2>6, <2>8, <2>9 DEF Add
<1> QED
  BY <1>2, <1>4, <1>5

-----------------------------------------------------------------------------
(***************************************************************************)
(* Bytes that are read.                                                    *)
(***************************************************************************)

(* The word that n wraps to, without its sign, and its upper bytes.        *)
LEMMA UpperBytes ==
  ASSUME Powers, NEW n \in Int
  PROVE  /\ (n % Modulus) \div 2 ^ (3 * ByteBits) = ByteOf(n, 3)
         /\ (n % Modulus) \div 2 ^ (2 * ByteBits) = ByteOf(n, 2) + ByteOf(n, 3) * Byte
         /\ Wrap(n) % Modulus = n % Modulus
<1> DEFINE k == n \div Modulus
           b0 == ByteOf(n, 0)  b1 == ByteOf(n, 1)
           b2 == ByteOf(n, 2)  b3 == ByteOf(n, 3)
           j == ((b3 * Byte + b2) * Byte + b1) * Byte + b0
<1>1. n = Join(k, b0, b1, b2, b3) /\ k \in Int
  BY JoinOfBytes
<1>2. /\ b0 \in 0 .. Byte - 1 /\ b1 \in 0 .. Byte - 1
      /\ b2 \in 0 .. Byte - 1 /\ b3 \in 0 .. Byte - 1
  BY BytesByDivision
<1>3. Byte \in Nat \ {0} /\ Modulus = Byte * Byte * Byte * Byte /\ Modulus \in Nat \ {0}
  BY ByteSize, BytePlace DEF Modulus
<1>4. 2 ^ (2 * ByteBits) = Byte * Byte /\ 2 ^ (3 * ByteBits) = Byte * Byte * Byte
      /\ Byte * Byte \in Nat \ {0} /\ Byte * Byte * Byte \in Nat \ {0}
  BY <1>3, BytePlace
<1> HIDE DEF k, b0, b1, b2, b3
<1>5. ASSUME NEW B \in Nat \ {0}, NEW x0 \in 0 .. B - 1, NEW x1 \in 0 .. B - 1
      PROVE  x1 * B + x0 \in 0 .. B * B - 1
  <2>1. x1 * B <= (B - 1) * B
    OBVIOUS
  <2>2. 0 <= x1 * B
    OBVIOUS
  <2> QED
    BY <2>1, <2>2
<1>6. b1 * Byte + b0 \in 0 .. Byte * Byte - 1 /\ b3 * Byte + b2 \in 0 .. Byte * Byte - 1
  BY <1>2, <1>3, <1>5
<1>7. j \in 0 .. Modulus - 1 /\ j = (b3 * Byte + b2) * (Byte * Byte) + (b1 * Byte + b0)
  <2> DEFINE c == Byte * Byte
             lo == b1 * Byte + b0
             hi == b3 * Byte + b2
  <2>1. c \in Nat \ {0} /\ lo \in 0 .. c - 1 /\ hi \in 0 .. c - 1
    BY <1>4, <1>6
  <2>2. j = hi * c + lo
    BY <1>2, <1>3
  <2>3. Modulus = c * c
    BY <1>3
  <2> HIDE DEF c, lo, hi, j
  <2>4. hi * c + lo \in 0 .. c * c - 1
    BY <1>5, <2>1
  <2>5. j \in 0 .. Modulus - 1
    BY <2>2, <2>3, <2>4
  <2> QED
    BY <2>2, <2>5 DEF c, lo, hi
<1>8. n = k * Modulus + j
  <2>1. \A B \in Nat : (((k * B + b3) * B + b2) * B + b1) * B + b0
                         = k * (B * B * B * B) + (((b3 * B + b2) * B + b1) * B + b0)
    BY <1>1, <1>2
  <2> QED
    BY <1>1, <1>3, <2>1 DEF Join
<1>9. n % Modulus = j
  <2>1. k \in Int /\ Modulus \in Nat \ {0} /\ j \in 0 .. Modulus - 1
    BY <1>1, <1>3, <1>7
  <2> HIDE DEF j
  <2>2. (k * Modulus + j) % Modulus = j
    BY <2>1, DivUnique
  <2> QED
    BY <1>8, <2>2
<1>10. j \div (Byte * Byte) = b3 * Byte + b2
  <2> DEFINE c == Byte * Byte
             lo == b1 * Byte + b0
             hi == b3 * Byte + b2
  <2>1. c \in Nat \ {0} /\ lo \in 0 .. c - 1 /\ hi \in Int /\ j = hi * c + lo
    BY <1>4, <1>6, <1>7
  <2> HIDE DEF c, lo, hi, j
  <2>2. j \div c = hi
    BY <2>1, DivUnique
  <2> QED
    BY <2>2 DEF c, hi
<1>11. j \div (Byte * Byte * Byte) = b3
  <2> DEFINE c == Byte * Byte
  <2>1. j \in Int /\ c \in Nat \ {0}
    BY <1>4, <1>7
  <2>2. j \div c = b3 * Byte + b2
    BY <1>10
  <2>3. (b3 * Byte + b2) \div Byte = b3
    <3>1. b3 \in Int
      BY <1>2
    <3> QED
      BY <1>2, <1>3, <3>1, DivUnique
  <2> HIDE DEF c, j
  <2>4. j \div (c * Byte) = (j \div c) \div Byte
    BY <1>3, <2>1, DivTwice
  <2> QED
    BY <2>2, <2>3, <2>4 DEF c
<1>12. Wrap(n) % Modulus = n % Modulus
  <2> DEFINE w == Wrap(n)
  <2>1. PICK i \in Int : n = i * Modulus + w
    BY WrapFacts
  <2>2. w \in Int
    BY WrapFacts
  <2> HIDE DEF w
  <2>3. (w + i * Modulus) % Modulus = w % Modulus
    BY <1>3, <2>1, <2>2, Shifted
  <2>4. i * Modulus + w = w + i * Modulus
    BY <1>3, <2>1, <2>2
  <2> QED
    BY <2>1, <2>3, <2>4 DEF w
<1>13. b3 * Byte + b2 = b2 + b3 * Byte
  BY <1>2, <1>3
<1> QED
  BY <1>4, <1>9, <1>10, <1>11, <1>12, <1>13 DEF b2, b3

(* A product with a power of Byte has the bytes further up.                *)
LEMMA ByteShift ==
  ASSUME Powers, NEW w \in Int, NEW c \in 0 .. 3, NEW i \in 0 .. 3, c + i <= 3
  PROVE  /\ w * Byte ^ c \in Int
         /\ ByteOf(w * Byte ^ c, c + i) = ByteOf(w, i)
<1> DEFINE C == Byte ^ c
           D == Byte ^ i
<1>1. c \in Nat /\ i \in Nat /\ Byte \in Nat \ {0}
  BY ByteSize
<1>2. Byte ^ (c + i) = C * D /\ C \in Nat \ {0} /\ D \in Nat \ {0}
  BY <1>1, PowerSum
<1> HIDE DEF C, D
<1>3. w * C \in Int
  BY <1>2
<1>4. (w * C) \div (C * D) = ((w * C) \div C) \div D
  BY <1>2, <1>3, DivTwice
<1>5. (w * C) \div C = w
  <2>1. 0 \in 0 .. C - 1 /\ w * C + 0 = w * C
    BY <1>2, <1>3
  <2>2. (w * C + 0) \div C = w
    BY <1>2, <2>1, DivUnique
  <2> QED
    BY <2>1, <2>2
<1>6. ByteOf(w * C, c + i) = ByteOf(w, i)
  BY <1>2, <1>4, <1>5 DEF ByteOf, D
<1> QED
  BY <1>3, <1>6 DEF C

(* What load_byte returns of a word.                                       *)
LEMMA LoadedByte ==
  ASSUME Powers, NEW w \in Word, NEW i \in 0 .. 3
  PROVE  Lshr(Times(w, Byte ^ (3 - i)), 3 * ByteBits) = ByteOf(w, i)
<1> DEFINE c == 3 - i
           n == w * Byte ^ c
<1>1. c \in 0 .. 3 /\ c + i <= 3 /\ c + i = 3
  OBVIOUS
<1>2. w \in Int /\ 3 * ByteBits \in 1 .. Bits - 1
  BY BytePlace, ByteSize DEF Word
<1> HIDE DEF c
<1>3. n \in Int /\ ByteOf(n, c + i) = ByteOf(w, i)
  BY <1>1, <1>2, ByteShift
<1> HIDE DEF n
<1>4. Wrap(n) \in Word
  BY <1>3, WrapFacts
<1>5. Lshr(Wrap(n), 3 * ByteBits) = (Wrap(n) % Modulus) \div 2 ^ (3 * ByteBits)
  <2> DEFINE s == 3 * ByteBits
  <2>1. s \in 1 .. Bits - 1
    BY <1>2
  <2> HIDE DEF s
  <2>2. Lshr(Wrap(n), s) = (Wrap(n) % Modulus) \div 2 ^ s
    BY <1>4, <2>1, LshrIs
  <2> QED
    BY <2>2 DEF s
<1>6. Lshr(Wrap(n), 3 * ByteBits) = ByteOf(n, 3)
  BY <1>3, <1>5, UpperBytes
<1> QED
  BY <1>1, <1>3, <1>6 DEF Times, c, n

(* What load_halfword returns of a word, at the places 0 and 2.            *)
LEMMA LoadedHalf ==
  ASSUME Powers, NEW w \in Word, NEW i \in {0, 2}
  PROVE  Lshr(Times(w, IF i = 0 THEN Half ELSE 1), 2 * ByteBits)
           = ByteOf(w, i) + ByteOf(w, i + 1) * Byte
<1> DEFINE c == 2 - i
           n == w * Byte ^ c
           i1 == i + 1
<1>1. c \in 0 .. 3 /\ i \in 0 .. 3 /\ i1 \in 0 .. 3 /\ c + i <= 3 /\ c + i1 <= 3
      /\ c + i = 2 /\ c + i1 = 3
  OBVIOUS
<1>2. w \in Int /\ 2 * ByteBits \in 1 .. Bits - 1
  BY BytePlace, ByteSize DEF Word
<1>3. (IF i = 0 THEN Half ELSE 1) = Byte ^ c
  <2>1. CASE i = 0
    BY <2>1, ByteSize
  <2>2. CASE i = 2
    BY <2>2, ByteSize
  <2> QED
    BY <2>1, <2>2
<1> HIDE DEF c, i1
<1>4. n \in Int /\ ByteOf(n, c + i) = ByteOf(w, i)
  BY <1>1, <1>2, ByteShift
<1>5. ByteOf(n, c + i1) = ByteOf(w, i1)
  BY <1>1, <1>2, ByteShift
<1> HIDE DEF n
<1>6. Wrap(n) \in Word
  BY <1>4, WrapFacts
<1>7. Lshr(Wrap(n), 2 * ByteBits) = (Wrap(n) % Modulus) \div 2 ^ (2 * ByteBits)
  <2> DEFINE s == 2 * ByteBits
  <2>1. s \in 1 .. Bits - 1
    BY <1>2
  <2> HIDE DEF s
  <2>2. Lshr(Wrap(n), s) = (Wrap(n) % Modulus) \div 2 ^ s
    BY <1>6, <2>1, LshrIs
  <2> QED
    BY <2>2 DEF s
<1>8. Lshr(Wrap(n), 2 * ByteBits) = ByteOf(n, 2) + ByteOf(n, 3) * Byte
  BY <1>4, <1>7, UpperBytes
<1>9. Times(w, IF i = 0 THEN Half ELSE 1) = Wrap(n)
  BY <1>3 DEF Times, n
<1> QED
  BY <1>1, <1>4, <1>5, <1>8, <1>9 DEF i1

(* The low bytes of a word that lshr has moved down, as they are stored    *)
(* one by one.                                                             *)
LEMMA MovedDown ==
  ASSUME Powers, NEW v \in Word, NEW i \in 0 .. 3
  PROVE  Lshr(v, i * ByteBits) \in Int /\ Lshr(v, i * ByteBits) % Byte = ByteOf(v, i)
<1>1. /\ v \in Int /\ Byte \in Nat \ {0} /\ Bits \in Nat /\ Bits = 4 * ByteBits
      /\ ByteBits \in Nat \ {0} /\ Modulus \in Nat \ {0}
      /\ i * ByteBits \in Nat /\ 2 ^ (i * ByteBits) = Byte ^ i /\ Byte ^ i \in Nat \ {0}
  BY BytePlace, ByteSize, ByteUnits DEF Word, Modulus
<1>2. CASE i = 0
  <2>1. i * ByteBits = 0
    BY <1>1, <1>2
  <2>2. Lshr(v, 0) = v
    <3>1. ~ (0 >= Bits) /\ 0 < 1
      BY <1>1
    <3> QED
      BY <3>1 DEF Lshr
  <2> QED
    BY <1>1, <1>2, <2>1, <2>2, BytesByDivision
<1>3. CASE i # 0
  <2> DEFINE s == i * ByteBits
             P == Byte ^ i
             x == v % Modulus
  <2>1. s \in 1 .. Bits - 1
    <3>1. i = 1 \/ i = 2 \/ i = 3
      BY <1>3
    <3> QED
      BY <1>1, <3>1
  <2>2. Lshr(v, s) = x \div P
    <3>1. 2 ^ s = P
      BY <1>1
    <3> HIDE DEF s, P
    <3>2. Lshr(v, s) = (v % Modulus) \div 2 ^ s
      BY <2>1, LshrIs
    <3> QED
      BY <3>1, <3>2
  <2>3. x \in Int /\ (x \div P) % Byte = ByteOf(x, i)
    BY <1>1, DivIs DEF ByteOf
  <2>4. ByteOf(x, i) = ByteOf(v, i)
    <3>1. PICK k \in Int : v = k * Modulus + x
      BY <1>1, DivIs
    <3>2. Wrap(k * Modulus + x) = Wrap(x)
      <4> HIDE DEF x
      <4> QED
        BY <2>3, <3>1, WrapSame
    <3>3. Wrap(v) = Wrap(x)
      BY <3>1, <3>2
    <3>4. ByteOf(Wrap(v), i) = ByteOf(v, i) /\ ByteOf(Wrap(x), i) = ByteOf(x, i)
      <4> HIDE DEF x
      <4> QED
        BY <1>1, <2>3, WrapBytes
    <3> QED
      BY <3>3, <3>4
  <2>5. x \div P \in Int
    <3> HIDE DEF x, P
    <3> QED
      BY <1>1, <2>3, DivIs DEF P
  <2> QED
    BY <2>2, <2>3, <2>4, <2>5
<1> QED
  BY <1>2, <1>3

-----------------------------------------------------------------------------
(***************************************************************************)
(* The grid: setptr and get_index are inverse.                             *)
(***************************************************************************)
LEMMA GridSize ==
  /\ Side \in Nat \ {0} /\ Planes \in Nat \ {0}
  /\ Side * Side \in Nat \ {0} /\ Planes * Side \in Nat \ {0}
  /\ Planes * Side * Side \in Nat \ {0}
  /\ Size = 4 * (Planes * Side * Side)
  /\ Size \in Nat /\ 4 <= Size
<1>1. Side \in Nat \ {0} /\ Planes \in Nat \ {0}
  BY GridAssumption
<1>2. \A m, n \in Nat \ {0} : m * n \in Nat \ {0}
  OBVIOUS
<1>3. Side * Side \in Nat \ {0} /\ Planes * Side \in Nat \ {0}
  BY <1>1, <1>2
<1>4. Planes * Side * Side \in Nat \ {0}
  BY <1>1, <1>2, <1>3
<1>5. 4 * Planes * Side * Side = 4 * (Planes * Side * Side)
  BY <1>1
<1>6. Size = 4 * (Planes * Side * Side)
  BY <1>5 DEF Size
<1> DEFINE k == Planes * Side * Side
<1> HIDE DEF k
<1>7. k \in Nat \ {0} => 4 * k \in Nat /\ 4 <= 4 * k
  OBVIOUS
<1>8. Size \in Nat /\ 4 <= Size
  BY <1>4, <1>6, <1>7 DEF k
<1> QED
  BY <1>1, <1>3, <1>4, <1>6, <1>8

LEMMA QuotientBelow ==
  ASSUME NEW d \in Nat \ {0}, NEW m \in Nat \ {0}, NEW n \in 0 .. m * d - 1
  PROVE  n \div d \in 0 .. m - 1
<1> DEFINE q == n \div d
<1>5. n \in Int
  OBVIOUS
<1>2. q \in Int /\ (n % d) \in 0 .. d - 1 /\ n = q * d + (n % d)
  BY <1>5, DivIs
<1>1. PICK r \in 0 .. d - 1 : n = q * d + r
  BY <1>2
<1> HIDE DEF q
<1>3. 0 <= q
  <2> SUFFICES ASSUME q <= -1 PROVE FALSE
    BY <1>2
  <2>1. q * d <= (-1) * d
    BY <1>2
  <2> QED
    BY <1>1, <1>2, <2>1
<1>4. q < m
  <2> SUFFICES ASSUME m <= q PROVE FALSE
    BY <1>2
  <2>1. m * d <= q * d
    BY <1>2
  <2> QED
    BY <1>1, <1>2, <2>1
<1> QED
  BY <1>2, <1>3, <1>4 DEF q

LEMMA SetPtrIs ==
  ASSUME Powers, NEW p \in 0 .. Size - 1
  PROVE  /\ SetPtr(p) = <<((p \div 4) \div Side) \div Side,
                          ((p \div 4) \div Side) % Side, (p \div 4) % Side>>
         /\ SetPtr(p) \in Cells
         /\ Index(SetPtr(p)) = 4 * (p \div 4)
<1> DEFINE q == p \div 4
           r == q \div Side
           x == r \div Side
           y == r % Side
           z == q % Side
<1>1. Size \in Nat /\ Size < HighBit /\ HighBit \in Nat /\ Side \in Nat \ {0}
      /\ Planes \in Nat \ {0} /\ Planes * Side \in Nat \ {0}
      /\ Planes * Side * Side \in Nat \ {0} /\ Size = (Planes * Side * Side) * 4
  BY GridSize, BytePlace, SizeAssumption
<1>2. p \in 0 .. HighBit - 1 /\ 4 \in Nat \ {0} /\ p \in Int
  BY <1>1
<1>3. Over(p, 4) = q /\ q \in 0 .. p
  BY <1>2, OverIs
<1>4. q \in 0 .. Planes * Side * Side - 1
  <2> DEFINE m == Planes * Side * Side
  <2>1. m \in Nat \ {0} /\ p \in 0 .. m * 4 - 1
    BY <1>1
  <2> HIDE DEF m
  <2>2. p \div 4 \in 0 .. m - 1
    BY <1>2, <2>1, QuotientBelow
  <2> QED
    BY <2>2 DEF m
<1>5. q \in 0 .. HighBit - 1 /\ q \in Int
  BY <1>1, <1>3
<1> HIDE DEF q
<1>6. Over(q, Side) = r /\ r \in 0 .. q
  BY <1>1, <1>5, OverIs
<1>7. r \in 0 .. Planes * Side - 1
  <2> DEFINE m == Planes * Side
  <2>1. m \in Nat \ {0} /\ q \in 0 .. m * Side - 1
    BY <1>1, <1>4
  <2> HIDE DEF m
  <2>2. q \div Side \in 0 .. m - 1
    BY <1>1, <2>1, QuotientBelow
  <2> QED
    BY <2>2 DEF m
<1>8. r \in 0 .. HighBit - 1 /\ r \in Int
  BY <1>1, <1>5, <1>6
<1>9. q = r * Side + z /\ z \in 0 .. Side - 1
  BY <1>1, <1>5, DivIs
<1> HIDE DEF r, z
<1>10. Over(r, Side) = x
  BY <1>1, <1>8, OverIs
<1>11. x \in 0 .. Planes - 1
  BY <1>1, <1>7, QuotientBelow
<1>12. r = x * Side + y /\ y \in 0 .. Side - 1 /\ x \in Int
  BY <1>1, <1>8, DivIs
<1>13. SetPtr(p) = <<x, y, z>>
  BY <1>3, <1>6, <1>10 DEF SetPtr, Mod, r, z
<1> HIDE DEF x, y
<1>14. <<x, y, z>> \in Cells
  BY <1>9, <1>11, <1>12 DEF Cells
<1>15. Index(<<x, y, z>>) = 4 * q
  <2>1. x * Side * Side + y * Side + z = q
    <3>1. \A S \in Nat, u, v, w \in Int : u * S * S + v * S + w = (u * S + v) * S + w
      OBVIOUS
    <3>2. y \in Int /\ z \in Int /\ Side \in Nat
      BY <1>1, <1>9, <1>12
    <3>3. x * Side * Side + y * Side + z = (x * Side + y) * Side + z
      BY <1>12, <3>1, <3>2
    <3> QED
      BY <1>9, <1>12, <3>3
  <2>2. Index(<<x, y, z>>) = (x * Side * Side + y * Side + z) * 4
    BY DEF Index
  <2> QED
    BY <1>5, <2>1, <2>2
<1> QED
  BY <1>13, <1>14, <1>15 DEF x, y, z, r, q

LEMMA SetPtrOfIndex ==
  ASSUME Powers, NEW c \in Cells
  PROVE  Index(c) \in 0 .. Size - 4 /\ SetPtr(Index(c)) = c /\ Index(c) = 4 * (Index(c) \div 4)
<1>1. Size \in Nat /\ Side \in Nat \ {0} /\ Planes \in Nat \ {0}
      /\ Planes * Side \in Nat \ {0}
      /\ Planes * Side * Side \in Nat \ {0} /\ Size = (Planes * Side * Side) * 4
  BY GridSize
<1>2. PICK x \in 0 .. Planes - 1, y \in 0 .. Side - 1, z \in 0 .. Side - 1 : c = <<x, y, z>>
  BY DEF Cells
<1> DEFINE r == x * Side + y
           q == r * Side + z
<1>3. r \in 0 .. Planes * Side - 1 /\ r \in Int
  <2>1. x * Side <= (Planes - 1) * Side /\ 0 <= x * Side
    BY <1>1
  <2> QED
    BY <1>1, <2>1
<1>4. r \div Side = x /\ r % Side = y
  BY <1>1, DivUnique
<1> HIDE DEF r
<1>5. q \in 0 .. Planes * Side * Side - 1 /\ q \in Int
  <2> DEFINE m == Planes * Side
  <2>1. r \in 0 .. m - 1 /\ m \in Nat \ {0}
    BY <1>1, <1>3
  <2> HIDE DEF m
  <2>2. r * Side <= (m - 1) * Side /\ 0 <= r * Side
    BY <1>1, <2>1
  <2>3. q \in 0 .. m * Side - 1
    BY <1>1, <2>1, <2>2
  <2> QED
    BY <2>3 DEF m
<1>6. q \div Side = r /\ q % Side = z
  BY <1>1, <1>3, DivUnique
<1>7. x * Side * Side + y * Side + z = q
  <2>1. \A S \in Nat, u, v, w \in Int : u * S * S + v * S + w = (u * S + v) * S + w
    OBVIOUS
  <2>2. y \in Int /\ z \in Int /\ x \in Int /\ Side \in Nat
    BY <1>1
  <2> QED
    BY <2>1, <2>2 DEF r
<1> HIDE DEF q
<1>8. Index(c) = 4 * q
  <2>1. Index(c) = (x * Side * Side + y * Side + z) * 4
    BY <1>2 DEF Index
  <2> QED
    BY <1>5, <1>7, <2>1
<1>9. (4 * q) \div 4 = q
  BY <1>5
<1>10. 4 * q \in 0 .. Size - 4
  <2> DEFINE m == Planes * Side * Side
  <2>1. q \in 0 .. m - 1 /\ m \in Nat \ {0} /\ Size = m * 4
    BY <1>1, <1>5
  <2> HIDE DEF m
  <2> QED
    BY <2>1
<1>11. 4 * q \in 0 .. Size - 1
  BY <1>1, <1>10
<1>12. SetPtr(4 * q) = <<x, y, z>>
  <2> DEFINE p == 4 * q
  <2>1. p \in 0 .. Size - 1 /\ p \div 4 = q
    BY <1>9, <1>11
  <2> HIDE DEF p
  <2>2. SetPtr(p) = <<((p \div 4) \div Side) \div Side,
                      ((p \div 4) \div Side) % Side, (p \div 4) % Side>>
    BY <2>1, SetPtrIs
  <2>3. SetPtr(p) = <<x, y, z>>
    BY <1>4, <1>6, <2>1, <2>2
  <2> QED
    BY <2>3 DEF p
<1> QED
  BY <1>2, <1>8, <1>9, <1>10, <1>12

(* Two addresses are in one jukebox just when they are in one word.        *)
LEMMA SameJukebox ==
  ASSUME Powers, NEW p \in 0 .. Size - 1, NEW a \in 0 .. Size - 1
  PROVE  SetPtr(p) = SetPtr(a) <=> p \div 4 = a \div 4
<1>1. p \div 4 = a \div 4 => SetPtr(p) = SetPtr(a)
  BY SetPtrIs
<1>2. SetPtr(p) = SetPtr(a) => p \div 4 = a \div 4
  <2>1. Index(SetPtr(p)) = 4 * (p \div 4) /\ Index(SetPtr(a)) = 4 * (a \div 4)
    BY SetPtrIs
  <2>2. p \div 4 \in Int /\ a \div 4 \in Int
    OBVIOUS
  <2> QED
    BY <2>1, <2>2
<1> QED
  BY <1>1, <1>2

-----------------------------------------------------------------------------
(***************************************************************************)
(* Memory as bytes, and what the loads return of it.                       *)
(***************************************************************************)
Memories == [Cells -> Word]

BytesOf(m) == [a \in 0 .. Size - 1 |-> ByteOf(m[SetPtr(a)], a % 4)]

(* Two and four bytes as a number.                                         *)
Two(b, p)  == b[p] + b[p + 1] * Byte
Four(b, p) == b[p] + b[p + 1] * Byte + b[p + 2] * Half + b[p + 3] * (Byte * Half)

LEMMA PlaceIs ==
  ASSUME Powers, NEW m \in Memories, NEW p \in 0 .. Size - 1
  PROVE  /\ p \in Int /\ SetPtr(p) \in Cells /\ m[SetPtr(p)] \in Word
         /\ m[SetPtr(p)] \in Int
         /\ (p % 4) \in 0 .. 3 /\ p = 4 * (p \div 4) + (p % 4) /\ p \div 4 \in Int
         /\ BytesOf(m)[p] = ByteOf(m[SetPtr(p)], p % 4)
         /\ BytesOf(m)[p] \in 0 .. Byte - 1
<1>1. p \in Int /\ SetPtr(p) \in Cells
  BY SetPtrIs, GridSize
<1>2. m[SetPtr(p)] \in Word
  BY <1>1 DEF Memories
<1>3. m[SetPtr(p)] \in Int
  BY <1>2, BytePlace DEF Word
<1>4. (p % 4) \in 0 .. 3 /\ p = 4 * (p \div 4) + (p % 4) /\ p \div 4 \in Int
  BY <1>1
<1>5. BytesOf(m)[p] = ByteOf(m[SetPtr(p)], p % 4)
  BY DEF BytesOf
<1>6. BytesOf(m)[p] \in 0 .. Byte - 1
  BY <1>3, <1>4, <1>5, BytesByDivision
<1> QED
  BY <1>1, <1>2, <1>3, <1>4, <1>5, <1>6

(* The jukebox of a word, in the order of get_index, is the one that       *)
(* setptr moves to.                                                        *)
LEMMA CellAtIs ==
  ASSUME Powers, NEW a \in 0 .. Size - 1
  PROVE  CellAt[a \div 4] = SetPtr(a)
<1> DEFINE i == a \div 4
<1>1. i \in 0 .. Planes * Side * Side - 1 /\ Size \div 4 = Planes * Side * Side
      /\ Size \in Nat
  <2> DEFINE z == Planes * Side * Side
  <2>1. z \in Nat \ {0} /\ Size = z * 4 /\ a \in 0 .. z * 4 - 1
    BY GridSize
  <2> HIDE DEF z
  <2>2. a \div 4 \in 0 .. z - 1
    BY <2>1, QuotientBelow
  <2>3. (z * 4) \div 4 = z
    BY <2>1
  <2> QED
    BY <2>1, <2>2, <2>3 DEF z
<1>2. CellAt[i] = CHOOSE c \in Cells : Index(c) = 4 * i
  BY <1>1 DEF CellAt
<1>3. SetPtr(a) \in Cells /\ Index(SetPtr(a)) = 4 * i
  BY SetPtrIs
<1>4. CellAt[i] \in Cells /\ Index(CellAt[i]) = 4 * i
  BY <1>2, <1>3
<1> DEFINE c == CellAt[i]
<1>5. SetPtr(Index(c)) = c /\ SetPtr(Index(SetPtr(a))) = SetPtr(a)
  BY <1>3, <1>4, SetPtrOfIndex
<1> QED
  BY <1>3, <1>4, <1>5

LEMMA BytesIn ==
  ASSUME Powers, NEW m \in Memories
  PROVE  BytesOf(m) \in [0 .. Size - 1 -> 0 .. Byte - 1]
<1>1. \A p \in 0 .. Size - 1 : BytesOf(m)[p] \in 0 .. Byte - 1
  BY PlaceIs
<1>2. BytesOf(m) = [p \in 0 .. Size - 1 |-> BytesOf(m)[p]]
  BY DEF BytesOf
<1> QED
  BY <1>1, <1>2

LEMMA LoadByteIs ==
  ASSUME Powers, NEW m \in Memories, NEW p \in 0 .. Size - 1
  PROVE  LoadByte(m, p) = BytesOf(m)[p]
<1> DEFINE i == p % 4
           w == m[SetPtr(p)]
<1>1. i \in 0 .. 3 /\ w \in Word /\ BytesOf(m)[p] = ByteOf(w, i)
  BY PlaceIs
<1> HIDE DEF i, w
<1>2. Lshr(Times(w, Byte ^ (3 - i)), 3 * ByteBits) = ByteOf(w, i)
  BY <1>1, LoadedByte
<1> QED
  BY <1>1, <1>2 DEF LoadByte, Mod, i, w

(* The bytes that follow the byte at p in its word.                        *)
LEMMA Following ==
  ASSUME Powers, NEW m \in Memories, NEW p \in 0 .. Size - 1, NEW k \in 0 .. 3,
         (p % 4) + k <= 3
  PROVE  /\ p + k \in 0 .. Size - 1 /\ SetPtr(p + k) = SetPtr(p)
         /\ (p + k) % 4 = (p % 4) + k
         /\ BytesOf(m)[p + k] = ByteOf(m[SetPtr(p)], (p % 4) + k)
<1> DEFINE i == p % 4
           q == p \div 4
           n == p + k
<1>1. i \in 0 .. 3 /\ q \in Int /\ p = 4 * q + i /\ i + k \in 0 .. 3 /\ n = 4 * q + (i + k)
  BY PlaceIs
<1>2. q \in 0 .. Planes * Side * Side - 1 /\ Planes * Side * Side \in Nat
      /\ Size = 4 * (Planes * Side * Side)
  <2> DEFINE z == Planes * Side * Side
  <2>1. z \in Nat \ {0} /\ p \in 0 .. z * 4 - 1
    BY GridSize
  <2> HIDE DEF z
  <2>2. p \div 4 \in 0 .. z - 1
    BY <2>1, QuotientBelow
  <2> QED
    BY <2>2, GridSize DEF z
<1> HIDE DEF i, q, n
<1>3. n \in 0 .. Size - 1
  <2> DEFINE z == Planes * Side * Side
  <2>1. q \in 0 .. z - 1 /\ z \in Nat /\ Size = 4 * z
    BY <1>2
  <2> HIDE DEF z
  <2> QED
    BY <1>1, <2>1
<1>4. n \div 4 = q /\ n % 4 = i + k
  BY <1>1
<1>5. SetPtr(n) = SetPtr(p)
  BY <1>3, <1>4, SameJukebox DEF q
<1>6. BytesOf(m)[n] = ByteOf(m[SetPtr(n)], n % 4)
  BY <1>3 DEF BytesOf
<1> QED
  BY <1>3, <1>4, <1>5, <1>6 DEF n, i

LEMMA LoadHalfwordIs ==
  ASSUME Powers, NEW m \in Memories, NEW p \in 0 .. Size - 1, p % 2 = 0
  PROVE  LoadHalfword(m, p) = Two(BytesOf(m), p)
<1> DEFINE i == p % 4
           w == m[SetPtr(p)]
<1>1. i \in {0, 2} /\ w \in Word /\ BytesOf(m)[p] = ByteOf(w, i)
  BY PlaceIs
<1>2. BytesOf(m)[p + 1] = ByteOf(w, i + 1)
  <2>1. (p % 4) + 1 <= 3 /\ 1 \in 0 .. 3
    BY <1>1
  <2> QED
    BY <2>1, Following
<1> HIDE DEF i, w
<1>3. Lshr(Times(w, IF i = 0 THEN Half ELSE 1), 2 * ByteBits)
        = ByteOf(w, i) + ByteOf(w, i + 1) * Byte
  BY <1>1, LoadedHalf
<1> QED
  BY <1>1, <1>2, <1>3 DEF LoadHalfword, Mod, Two, i, w

LEMMA LoadHalfwordUnalignedIs ==
  ASSUME Powers, NEW m \in Memories, NEW p \in 0 .. Size - 2
  PROVE  LoadHalfwordUnaligned(m, p) = Wrap(Two(BytesOf(m), p))
<1> DEFINE x == BytesOf(m)[p]
           y == BytesOf(m)[p + 1]
           z == y * Byte
<1>1. p \in 0 .. Size - 1 /\ p + 1 \in 0 .. Size - 1
  BY GridSize
<1>2. LoadByte(m, p) = x /\ LoadByte(m, p + 1) = y
  BY <1>1, LoadByteIs
<1>3. x \in Int /\ y \in Int /\ Byte \in Int
  <2>1. x \in 0 .. Byte - 1 /\ y \in 0 .. Byte - 1
    BY <1>1, PlaceIs
  <2> QED
    BY <2>1, ByteSize
<1> HIDE DEF x, y
<1>4. z \in Int
  BY <1>3
<1> HIDE DEF z
<1>5. Wrap(x + Wrap(z)) = Wrap(x + z)
  BY <1>3, <1>4, WrapInside
<1> QED
  BY <1>2, <1>5 DEF LoadHalfwordUnaligned, Add, Times, Two, x, y, z

(* Four bytes in one jukebox.                                              *)
LEMMA WordIs ==
  ASSUME Powers, NEW m \in Memories, NEW p \in 0 .. Size - 1, p % 4 = 0
  PROVE  m[SetPtr(p)] = Wrap(Four(BytesOf(m), p))
<1> DEFINE w == m[SetPtr(p)]
           k == w \div Modulus
           b0 == ByteOf(w, 0)  b1 == ByteOf(w, 1)
           b2 == ByteOf(w, 2)  b3 == ByteOf(w, 3)
<1>1. w \in Word /\ w \in Int
  BY PlaceIs
<1>2. /\ BytesOf(m)[p] = b0 /\ BytesOf(m)[p + 1] = b1
      /\ BytesOf(m)[p + 2] = b2 /\ BytesOf(m)[p + 3] = b3
  <2>1. BytesOf(m)[p] = b0
    BY PlaceIs
  <2>2. ASSUME NEW j \in 1 .. 3
        PROVE  BytesOf(m)[p + j] = ByteOf(w, j)
    <3>1. j \in 0 .. 3 /\ (p % 4) + j <= 3 /\ (p % 4) + j = j
      OBVIOUS
    <3>2. BytesOf(m)[p + j] = ByteOf(w, (p % 4) + j)
      BY <3>1, Following
    <3> QED
      BY <3>1, <3>2
  <2> QED
    BY <2>1, <2>2
<1>3. w = Join(k, b0, b1, b2, b3) /\ k \in Int /\ Wrap(w) = w
  BY <1>1, JoinOfBytes, WrapFacts
<1>4. b0 \in Int /\ b1 \in Int /\ b2 \in Int /\ b3 \in Int
  <2>1. /\ b0 \in 0 .. Byte - 1 /\ b1 \in 0 .. Byte - 1
        /\ b2 \in 0 .. Byte - 1 /\ b3 \in 0 .. Byte - 1
    BY <1>1, BytesByDivision
  <2> QED
    BY <2>1, ByteSize
<1> HIDE DEF w, k, b0, b1, b2, b3
<1>5. Wrap(Join(k, b0, b1, b2, b3)) = Wrap(Join(0, b0, b1, b2, b3))
  <2>1. 0 \in Int
    OBVIOUS
  <2> QED
    BY <1>3, <1>4, <2>1, SameJoin
<1>6. Join(0, b0, b1, b2, b3) = b0 + b1 * Byte + b2 * Half + b3 * (Byte * Half)
  <2>1. \A B \in Nat : (((0 * B + b3) * B + b2) * B + b1) * B + b0
                         = b0 + b1 * B + b2 * (B * B) + b3 * (B * (B * B))
    BY <1>4
  <2> QED
    BY <2>1, ByteSize DEF Join
<1> QED
  BY <1>2, <1>3, <1>5, <1>6 DEF Four, w

LEMMA LoadWordUnalignedIs ==
  ASSUME Powers, NEW m \in Memories, NEW p \in 0 .. Size - 4
  PROVE  LoadWordUnaligned(m, p) = Wrap(Four(BytesOf(m), p))
<1> DEFINE x0 == BytesOf(m)[p]      x1 == BytesOf(m)[p + 1]
           x2 == BytesOf(m)[p + 2]  x3 == BytesOf(m)[p + 3]
           y1 == x1 * Byte
           y2 == x2 * Half
           y3 == x3 * (Byte * Half)
           s1 == x0 + y1
           s2 == s1 + y2
<1>1. /\ p \in 0 .. Size - 1 /\ p + 1 \in 0 .. Size - 1
      /\ p + 2 \in 0 .. Size - 1 /\ p + 3 \in 0 .. Size - 1
  BY GridSize
<1>2. /\ LoadByte(m, p) = x0 /\ LoadByte(m, p + 1) = x1
      /\ LoadByte(m, p + 2) = x2 /\ LoadByte(m, p + 3) = x3
  BY <1>1, LoadByteIs
<1>3. /\ x0 \in Int /\ x1 \in Int /\ x2 \in Int /\ x3 \in Int
      /\ Byte \in Int /\ Half \in Int /\ Byte * Half \in Int
  <2>1. /\ x0 \in 0 .. Byte - 1 /\ x1 \in 0 .. Byte - 1
        /\ x2 \in 0 .. Byte - 1 /\ x3 \in 0 .. Byte - 1
    BY <1>1, PlaceIs
  <2>2. Byte \in Int /\ Half \in Int
    BY ByteSize, ByteUnits
  <2> QED
    BY <2>1, <2>2
<1> HIDE DEF x0, x1, x2, x3
<1>4. y1 \in Int /\ y2 \in Int /\ y3 \in Int
  BY <1>3
<1> HIDE DEF y1, y2, y3
<1>5. s1 \in Int /\ s2 \in Int
  BY <1>3, <1>4
<1>6. Add(x0, Times(x1, Byte)) = Wrap(s1)
  BY <1>3, <1>4, WrapInside DEF Add, Times, y1
<1> HIDE DEF s1
<1>7. Add(Wrap(s1), Times(x2, Half)) = Wrap(s2)
  <2>1. Wrap(s1) \in Int
    BY <1>5, WrapFacts
  <2>2. Wrap(Wrap(s1) + Wrap(y2)) = Wrap(Wrap(s1) + y2)
    BY <1>4, <2>1, WrapInside
  <2>3. Wrap(Wrap(s1) + y2) = Wrap(s1 + y2)
    BY <1>4, <1>5, WrapInside
  <2> QED
    BY <2>2, <2>3 DEF Add, Times, y2
<1> HIDE DEF s2
<1>8. Add(Wrap(s2), Times(x3, Byte * Half)) = Wrap(s2 + y3)
  <2>1. Wrap(s2) \in Int
    BY <1>5, WrapFacts
  <2>2. Wrap(Wrap(s2) + Wrap(y3)) = Wrap(Wrap(s2) + y3)
    BY <1>4, <2>1, WrapInside
  <2>3. Wrap(Wrap(s2) + y3) = Wrap(s2 + y3)
    BY <1>4, <1>5, WrapInside
  <2> QED
    BY <2>2, <2>3 DEF Add, Times, y3
<1>9. LoadWordUnaligned(m, p) = Wrap(s2 + y3)
  BY <1>2, <1>6, <1>7, <1>8 DEF LoadWordUnaligned
<1>10. s2 + y3 = Four(BytesOf(m), p)
  BY DEF s1, s2, y1, y2, y3, x0, x1, x2, x3, Four
<1> QED
  BY <1>9, <1>10

-----------------------------------------------------------------------------
(***************************************************************************)
(* What the stores make of memory.                                         *)
(***************************************************************************)
LEMMA StoreWordIs ==
  ASSUME Powers, NEW m \in Memories, NEW p \in 0 .. Size - 1, NEW s \in Word
  PROVE  /\ StoreWord(m, p, s) \in Memories
         /\ \A a \in 0 .. Size - 1 :
              BytesOf(StoreWord(m, p, s))[a]
                = IF a \div 4 = p \div 4 THEN ByteOf(s, a % 4) ELSE BytesOf(m)[a]
<1> DEFINE c == SetPtr(p)
           n == StoreWord(m, p, s)
<1>1. c \in Cells
  BY PlaceIs
<1>2. n = [m EXCEPT ![c] = s]
  BY DEF StoreWord
<1>3. n \in Memories
  BY <1>1, <1>2 DEF Memories
<1>4. ASSUME NEW a \in 0 .. Size - 1
      PROVE  BytesOf(n)[a] = IF a \div 4 = p \div 4 THEN ByteOf(s, a % 4) ELSE BytesOf(m)[a]
  <2>1. SetPtr(a) \in Cells /\ (SetPtr(a) = c <=> a \div 4 = p \div 4)
    BY PlaceIs, SameJukebox
  <2>2. BytesOf(n)[a] = ByteOf(n[SetPtr(a)], a % 4)
    BY DEF BytesOf
  <2>3. BytesOf(m)[a] = ByteOf(m[SetPtr(a)], a % 4)
    BY DEF BytesOf
  <2>4. n[SetPtr(a)] = IF SetPtr(a) = c THEN s ELSE m[SetPtr(a)]
    BY <1>2, <2>1 DEF Memories
  <2> HIDE DEF n, c
  <2> QED
    BY <2>1, <2>2, <2>3, <2>4
<1> QED
  BY <1>3, <1>4

LEMMA StoreByteIs ==
  ASSUME Powers, NEW m \in Memories, NEW p \in 0 .. Size - 1, NEW v \in Int
  PROVE  /\ StoreByte(m, p, v) \in Memories
         /\ \A a \in 0 .. Size - 1 :
              BytesOf(StoreByte(m, p, v))[a] = IF a = p THEN v % Byte ELSE BytesOf(m)[a]
<1> DEFINE c == SetPtr(p)
           i == p % 4
           w == m[c]
           s == Add(And(w, Wrap(-1 - (Byte - 1) * Byte ^ i)), Times(Mod(v, Byte), Byte ^ i))
<1>1. i \in 0 .. 3 /\ w \in Word /\ p = 4 * (p \div 4) + i /\ p \div 4 \in Int
  BY PlaceIs
<1>2. StoreByte(m, p, v) = StoreWord(m, p, s)
  BY DEF StoreByte, StoreWord, Mod
<1> HIDE DEF i, w
<1>3. s \in Word /\ \A j \in 0 .. 3 : ByteOf(s, j) = IF j = i THEN v % Byte ELSE ByteOf(w, j)
  BY <1>1, StoredByte
<1> HIDE DEF s
<1>4. StoreWord(m, p, s) \in Memories
  BY <1>3, StoreWordIs
<1>5. ASSUME NEW a \in 0 .. Size - 1
      PROVE  BytesOf(StoreWord(m, p, s))[a] = IF a = p THEN v % Byte ELSE BytesOf(m)[a]
  <2>1. BytesOf(StoreWord(m, p, s))[a]
          = IF a \div 4 = p \div 4 THEN ByteOf(s, a % 4) ELSE BytesOf(m)[a]
    BY <1>3, StoreWordIs
  <2>2. (a % 4) \in 0 .. 3 /\ a = 4 * (a \div 4) + (a % 4) /\ a \div 4 \in Int
        /\ BytesOf(m)[a] = ByteOf(m[SetPtr(a)], a % 4)
    BY PlaceIs
  <2>3. CASE a \div 4 = p \div 4
    <3>1. SetPtr(a) = c
      BY <2>3, SameJukebox
    <3>2. a = p <=> a % 4 = i
      BY <1>1, <2>2, <2>3
    <3>3. BytesOf(m)[a] = ByteOf(w, a % 4)
      BY <2>2, <3>1 DEF w
    <3>4. ByteOf(s, a % 4) = IF a % 4 = i THEN v % Byte ELSE ByteOf(w, a % 4)
      BY <1>3, <2>2
    <3> QED
      BY <2>1, <2>3, <3>2, <3>3, <3>4
  <2>4. CASE a \div 4 # p \div 4
    BY <2>1, <2>4
  <2> QED
    BY <2>3, <2>4
<1> QED
  BY <1>2, <1>4, <1>5

LEMMA StoreHalfwordIs ==
  ASSUME Powers, NEW m \in Memories, NEW p \in 0 .. Size - 1, p % 2 = 0, NEW v \in Int
  PROVE  /\ StoreHalfword(m, p, v) \in Memories
         /\ \A a \in 0 .. Size - 1 :
              BytesOf(StoreHalfword(m, p, v))[a]
                = CASE a = p     -> ByteOf(v, 0)
                    [] a = p + 1 -> ByteOf(v, 1)
                    [] OTHER     -> BytesOf(m)[a]
<1> DEFINE c == SetPtr(p)
           i == p % 4
           w == m[c]
           s == Add(And(w, Wrap(-1 - (Half - 1) * Byte ^ i)), Times(Mod(v, Half), Byte ^ i))
<1>1. i \in {0, 2} /\ w \in Word /\ p = 4 * (p \div 4) + i /\ p \div 4 \in Int
  BY PlaceIs
<1>2. StoreHalfword(m, p, v) = StoreWord(m, p, s)
  BY DEF StoreHalfword, StoreWord, Mod
<1> HIDE DEF i, w
<1>3. s \in Word /\ \A j \in 0 .. 3 : ByteOf(s, j) = CASE j = i     -> ByteOf(v, 0)
                                                       [] j = i + 1 -> ByteOf(v, 1)
                                                       [] OTHER     -> ByteOf(w, j)
  BY <1>1, StoredHalf
<1> HIDE DEF s
<1>4. StoreWord(m, p, s) \in Memories
  BY <1>3, StoreWordIs
<1>5. ASSUME NEW a \in 0 .. Size - 1
      PROVE  BytesOf(StoreWord(m, p, s))[a]
               = CASE a = p     -> ByteOf(v, 0)
                   [] a = p + 1 -> ByteOf(v, 1)
                   [] OTHER     -> BytesOf(m)[a]
  <2>1. BytesOf(StoreWord(m, p, s))[a]
          = IF a \div 4 = p \div 4 THEN ByteOf(s, a % 4) ELSE BytesOf(m)[a]
    BY <1>3, StoreWordIs
  <2>2. (a % 4) \in 0 .. 3 /\ a = 4 * (a \div 4) + (a % 4) /\ a \div 4 \in Int
        /\ BytesOf(m)[a] = ByteOf(m[SetPtr(a)], a % 4)
    BY PlaceIs
  <2>3. CASE a \div 4 = p \div 4
    <3>1. SetPtr(a) = c
      BY <2>3, SameJukebox
    <3>2. (a = p <=> a % 4 = i) /\ (a = p + 1 <=> a % 4 = i + 1)
      BY <1>1, <2>2, <2>3
    <3>3. BytesOf(m)[a] = ByteOf(w, a % 4)
      BY <2>2, <3>1 DEF w
    <3>4. ByteOf(s, a % 4) = CASE a % 4 = i     -> ByteOf(v, 0)
                               [] a % 4 = i + 1 -> ByteOf(v, 1)
                               [] OTHER         -> ByteOf(w, a % 4)
      BY <1>3, <2>2
    <3> QED
      BY <2>1, <2>3, <3>2, <3>3, <3>4
  <2>4. CASE a \div 4 # p \div 4
    <3>1. a # p /\ a # p + 1
      BY <1>1, <2>2, <2>4
    <3> QED
      BY <2>1, <2>4, <3>1
  <2> QED
    BY <2>3, <2>4
<1> QED
  BY <1>2, <1>4, <1>5

(* The bytes that the stores leave when the k bytes at p are those of v.   *)
Covers(b, m, p, k, v) ==
  \A a \in 0 .. Size - 1 :
    b[a] = IF a - p \in 0 .. k - 1 THEN ByteOf(v, a - p) ELSE BytesOf(m)[a]

LEMMA StoreWordCovers ==
  ASSUME Powers, NEW m \in Memories, NEW p \in 0 .. Size - 4, p % 4 = 0, NEW s \in Word
  PROVE  StoreWord(m, p, s) \in Memories /\ Covers(BytesOf(StoreWord(m, p, s)), m, p, 4, s)
<1>1. p \in 0 .. Size - 1
  BY GridSize
<1>2. ASSUME NEW a \in 0 .. Size - 1
      PROVE  /\ a \div 4 = p \div 4 <=> a - p \in 0 .. 3
             /\ a - p \in 0 .. 3 => a % 4 = a - p
  <2>1. p \in Int /\ a \in Int
    BY GridSize
  <2> QED
    BY <2>1
<1> QED
  BY <1>1, <1>2, StoreWordIs DEF Covers

LEMMA StoreHalfwordCovers ==
  ASSUME Powers, NEW m \in Memories, NEW p \in 0 .. Size - 2, p % 2 = 0, NEW v \in Int
  PROVE  StoreHalfword(m, p, v) \in Memories
         /\ Covers(BytesOf(StoreHalfword(m, p, v)), m, p, 2, v)
<1>1. p \in 0 .. Size - 1
  BY GridSize
<1>2. ASSUME NEW a \in 0 .. Size - 1
      PROVE  /\ a - p \in 0 .. 1 <=> (a = p \/ a = p + 1)
             /\ a = p => a - p = 0
             /\ a = p + 1 => a - p = 1 /\ a # p
  <2>1. p \in Int /\ a \in Int
    BY GridSize
  <2> QED
    BY <2>1
<1> QED
  BY <1>1, <1>2, StoreHalfwordIs DEF Covers

(* The k bytes of store_bytes, one after the other.                        *)
LEMMA StoreBytesCovers ==
  ASSUME Powers, NEW m \in Memories, NEW k \in 1 .. 4, NEW p \in 0 .. Size - k, NEW v \in Word
  PROVE  StoreBytes(m, p, v, k) \in Memories
         /\ Covers(BytesOf(StoreBytes(m, p, v, k)), m, p, k, v)
<1> DEFINE g == [s \in Memories \X Nat |->
                   IF s[2] \in 1 .. k
                   THEN StoreByte(s[1], p + s[2] - 1, Lshr(v, (s[2] - 1) * ByteBits))
                   ELSE s[1]]
           E(f) == f = [i \in 0 .. k |->
                          IF i = 0 THEN m
                          ELSE StoreByte(f[i - 1], p + i - 1, Lshr(v, (i - 1) * ByteBits))]
<1>1. p \in Int /\ k \in Nat /\ Size \in Nat
  BY GridSize
<1>2. ASSUME NEW i \in 1 .. k
      PROVE  /\ p + i - 1 \in 0 .. Size - 1 /\ i - 1 \in 0 .. 3
             /\ Lshr(v, (i - 1) * ByteBits) \in Int
             /\ Lshr(v, (i - 1) * ByteBits) % Byte = ByteOf(v, i - 1)
  <2> DEFINE j == i - 1
  <2>1. p + i - 1 \in 0 .. Size - 1 /\ j \in 0 .. 3
    BY <1>1
  <2> HIDE DEF j
  <2>2. Lshr(v, j * ByteBits) \in Int /\ Lshr(v, j * ByteBits) % Byte = ByteOf(v, j)
    BY <2>1, MovedDown
  <2> QED
    BY <2>1, <2>2 DEF j
<1>3. ASSUME NEW n \in Memories, NEW i \in 1 .. k
      PROVE  /\ StoreByte(n, p + i - 1, Lshr(v, (i - 1) * ByteBits)) \in Memories
             /\ \A a \in 0 .. Size - 1 :
                  BytesOf(StoreByte(n, p + i - 1, Lshr(v, (i - 1) * ByteBits)))[a]
                    = IF a = p + i - 1 THEN ByteOf(v, i - 1) ELSE BytesOf(n)[a]
  <2> DEFINE q == p + i - 1
             x == Lshr(v, (i - 1) * ByteBits)
  <2>1. q \in 0 .. Size - 1 /\ x \in Int /\ x % Byte = ByteOf(v, i - 1)
    BY <1>2
  <2> HIDE DEF q, x
  <2>2. /\ StoreByte(n, q, x) \in Memories
        /\ \A a \in 0 .. Size - 1 :
             BytesOf(StoreByte(n, q, x))[a] = IF a = q THEN x % Byte ELSE BytesOf(n)[a]
    BY <2>1, StoreByteIs
  <2> QED
    BY <2>1, <2>2 DEF q, x
<1>4. g \in [Memories \X Nat -> Memories]
  <2> SUFFICES ASSUME NEW s \in Memories \X Nat
               PROVE  (IF s[2] \in 1 .. k
                       THEN StoreByte(s[1], p + s[2] - 1, Lshr(v, (s[2] - 1) * ByteBits))
                       ELSE s[1]) \in Memories
    OBVIOUS
  <2> QED
    BY <1>3
<1> HIDE DEF g
<1>5. PICK h \in [0 .. k -> Memories] :
        h[0] = m /\ \A i \in 1 .. k : h[i] = g[<<h[i - 1], i>>]
  <2>1. PICK n \in Nat : n = k
    BY <1>1
  <2>2. IsRule(g, Memories)
    BY <1>4 DEF IsRule
  <2>3. \E h : Solves(h, Memories, m, g, n)
    BY <2>2, RecursionExists
  <2> QED
    BY <2>1, <2>3 DEF Solves
<1>6. ASSUME NEW i \in 1 .. k
      PROVE  h[i - 1] \in Memories
             /\ h[i] = StoreByte(h[i - 1], p + i - 1, Lshr(v, (i - 1) * ByteBits))
  <2>1. i - 1 \in 0 .. k /\ i \in Nat
    BY <1>1
  <2>2. h[i - 1] \in Memories
    BY <1>5, <2>1
  <2>3. g[<<h[i - 1], i>>] = StoreByte(h[i - 1], p + i - 1, Lshr(v, (i - 1) * ByteBits))
    BY <2>1, <2>2 DEF g
  <2> QED
    BY <1>5, <2>2, <2>3
<1>7. E(h)
  <2>1. \A i \in 0 .. k :
          h[i] = IF i = 0 THEN m
                 ELSE StoreByte(h[i - 1], p + i - 1, Lshr(v, (i - 1) * ByteBits))
    <3> TAKE i \in 0 .. k
    <3>1. CASE i = 0
      BY <1>5, <3>1
    <3>2. CASE i # 0
      <4>1. i \in 1 .. k
        BY <1>1, <3>2
      <4> QED
        BY <1>6, <3>2, <4>1
    <3> QED
      BY <3>1, <3>2
  <2>2. h = [i \in 0 .. k |-> h[i]]
    BY <1>5
  <2> QED
    BY <2>1, <2>2
<1> DEFINE f == CHOOSE e : E(e)
<1>8. E(f)
  BY <1>7
<1>9. StoreBytes(m, p, v, k) = f[k]
  BY DEF StoreBytes
<1> HIDE DEF f
<1>10. f[0] = m /\ \A i \in 1 .. k :
                      f[i] = StoreByte(f[i - 1], p + i - 1, Lshr(v, (i - 1) * ByteBits))
  <2>1. 0 \in 0 .. k /\ \A i \in 1 .. k : i \in 0 .. k /\ i # 0
    BY <1>1
  <2>2. \A i \in 0 .. k :
          f[i] = IF i = 0 THEN m
                 ELSE StoreByte(f[i - 1], p + i - 1, Lshr(v, (i - 1) * ByteBits))
    BY <1>8
  <2> QED
    BY <2>1, <2>2
<1> HIDE DEF E
<1> DEFINE S == {i \in 0 .. k : f[i] \in Memories /\ Covers(BytesOf(f[i]), m, p, i, v)}
<1>11. 0 \in S
  <2>1. Covers(BytesOf(m), m, p, 0, v)
    <3>1. \A a \in 0 .. Size - 1 : ~ (a - p \in 0 .. 0 - 1)
      BY <1>1
    <3> QED
      BY <3>1 DEF Covers
  <2> QED
    BY <1>1, <1>10, <2>1
<1>12. ASSUME NEW i \in 0 .. k - 1, i \in S
       PROVE  i + 1 \in S
  <2> DEFINE j == i + 1
             x == Lshr(v, i * ByteBits)
  <2>1. j \in 1 .. k /\ j - 1 = i /\ p + j - 1 = p + i /\ j \in 0 .. k
    BY <1>1
  <2>2. f[i] \in Memories /\ Covers(BytesOf(f[i]), m, p, i, v)
    BY <1>12
  <2>3. f[j] = StoreByte(f[j - 1], p + j - 1, Lshr(v, (j - 1) * ByteBits))
    BY <1>10, <2>1
  <2> HIDE DEF j
  <2>4. /\ f[j] \in Memories
        /\ \A a \in 0 .. Size - 1 :
             BytesOf(f[j])[a] = IF a = p + i THEN ByteOf(v, i) ELSE BytesOf(f[i])[a]
    <3>1. f[j - 1] \in Memories
      BY <2>1, <2>2
    <3>2. /\ StoreByte(f[j - 1], p + j - 1, Lshr(v, (j - 1) * ByteBits)) \in Memories
          /\ \A a \in 0 .. Size - 1 :
               BytesOf(StoreByte(f[j - 1], p + j - 1, Lshr(v, (j - 1) * ByteBits)))[a]
                 = IF a = p + j - 1 THEN ByteOf(v, j - 1) ELSE BytesOf(f[j - 1])[a]
      BY <1>3, <2>1, <3>1
    <3>3. /\ f[j] \in Memories
          /\ \A a \in 0 .. Size - 1 :
               BytesOf(f[j])[a]
                 = IF a = p + j - 1 THEN ByteOf(v, j - 1) ELSE BytesOf(f[j - 1])[a]
      BY <2>3, <3>2
    <3> QED
      BY <2>1, <3>3
  <2>5. Covers(BytesOf(f[j]), m, p, j, v)
    <3> SUFFICES ASSUME NEW a \in 0 .. Size - 1
                 PROVE  BytesOf(f[j])[a] = IF a - p \in 0 .. j - 1 THEN ByteOf(v, a - p)
                                           ELSE BytesOf(m)[a]
      BY DEF Covers
    <3>1. BytesOf(f[i])[a] = IF a - p \in 0 .. i - 1 THEN ByteOf(v, a - p) ELSE BytesOf(m)[a]
      BY <2>2 DEF Covers
    <3>2. BytesOf(f[j])[a] = IF a = p + i THEN ByteOf(v, i) ELSE BytesOf(f[i])[a]
      BY <2>4
    <3>3. a \in Int /\ i \in Int
      BY <1>1
    <3>4. CASE a = p + i
      <4>1. a - p = i /\ a - p \in 0 .. j - 1
        BY <1>1, <2>1, <3>3, <3>4
      <4> QED
        BY <3>2, <3>4, <4>1
    <3>5. CASE a # p + i
      <4>1. a - p \in 0 .. j - 1 <=> a - p \in 0 .. i - 1
        BY <1>1, <2>1, <3>3, <3>5
      <4> QED
        BY <3>1, <3>2, <3>5, <4>1
    <3> QED
      BY <3>4, <3>5
  <2> QED
    BY <2>1, <2>4, <2>5 DEF j
<1> HIDE DEF S
<1>13. 0 .. k \subseteq S
  BY <1>1, <1>11, <1>12, BoundedInduction
<1>14. k \in S
  BY <1>1, <1>13
<1> QED
  BY <1>9, <1>14 DEF S

(* A value, word by word.                                                  *)
LEMMA LengthOf ==
  ASSUME NEW n \in Nat, NEW X, NEW v \in [1 .. n -> X]
  PROVE  Len(v) = n
<1>1. v \in Seq(X)
  BY SeqDef
<1>2. Len(v) \in Nat /\ DOMAIN v = 1 .. Len(v)
  BY <1>1, LenProperties
<1>3. DOMAIN v = 1 .. n
  OBVIOUS
<1> DEFINE l == Len(v)
<1>4. l \in Nat /\ 1 .. l = 1 .. n
  BY <1>2, <1>3
<1> HIDE DEF l
<1>5. l = n
  <2>1. ~ l < n
    <3> SUFFICES ASSUME l < n PROVE FALSE
      OBVIOUS
    <3>1. n \in 1 .. n /\ ~ (n \in 1 .. l)
      BY <1>4
    <3> QED
      BY <1>4, <3>1
  <2>2. ~ n < l
    <3> SUFFICES ASSUME n < l PROVE FALSE
      OBVIOUS
    <3>1. l \in 1 .. l /\ ~ (l \in 1 .. n)
      BY <1>4
    <3> QED
      BY <1>4, <3>1
  <2> QED
    BY <1>4, <2>1, <2>2
<1> QED
  BY <1>5 DEF l

(* The bytes when the k words at p are v's.                                *)
CoversWords(b, m, p, k, v) ==
  \A a \in 0 .. Size - 1 :
    b[a] = IF a - p \in 0 .. 4 * k - 1
           THEN ByteOf(v[(a - p) \div 4 + 1], (a - p) % 4)
           ELSE BytesOf(m)[a]

LEMMA StoreWordsCovers ==
  ASSUME Powers, NEW m \in Memories, NEW k \in Nat, NEW p \in 0 .. Size - 4 * k,
         NEW v \in [1 .. k -> Word], NEW aligned \in BOOLEAN, aligned => p % 4 = 0
  PROVE  StoreWords(m, p, v, aligned) \in Memories
         /\ CoversWords(BytesOf(StoreWords(m, p, v, aligned)), m, p, k, v)
<1> DEFINE Put(n, i) == IF aligned THEN StoreWord(n, p + 4 * (i - 1), v[i])
                        ELSE StoreBytes(n, p + 4 * (i - 1), v[i], 4)
           g == [s \in Memories \X Nat |-> IF s[2] \in 1 .. k THEN Put(s[1], s[2]) ELSE s[1]]
           E(f) == f = [i \in 0 .. k |-> IF i = 0 THEN m ELSE Put(f[i - 1], i)]
<1>1. p \in Int /\ k \in Nat /\ Size \in Nat /\ p + 4 * k <= Size /\ 0 <= p
  BY GridSize
<1>2. ASSUME NEW n \in Memories, NEW i \in 1 .. k
      PROVE  Put(n, i) \in Memories /\ Covers(BytesOf(Put(n, i)), n, p + 4 * (i - 1), 4, v[i])
  <2> DEFINE q == p + 4 * (i - 1)
             w == v[i]
  <2>1. q \in 0 .. Size - 4 /\ w \in Word
    BY <1>1
  <2>2. aligned => q % 4 = 0
    <3> SUFFICES ASSUME aligned PROVE q % 4 = 0
      OBVIOUS
    <3>1. p % 4 = 0 /\ i \in Int
      BY <1>1
    <3> QED
      BY <1>1, <3>1
  <2> HIDE DEF q, w
  <2>3. CASE aligned
    <3>1. StoreWord(n, q, w) \in Memories /\ Covers(BytesOf(StoreWord(n, q, w)), n, q, 4, w)
      BY <2>1, <2>2, <2>3, StoreWordCovers
    <3>2. Put(n, i) = StoreWord(n, q, w)
      BY <2>3 DEF q, w
    <3> HIDE DEF Put
    <3>3. Put(n, i) \in Memories /\ Covers(BytesOf(Put(n, i)), n, q, 4, w)
      BY <3>1, <3>2
    <3> QED
      BY <3>3 DEF q, w
  <2>4. CASE ~ aligned
    <3>0. 4 \in 1 .. 4
      OBVIOUS
    <3>1. StoreBytes(n, q, w, 4) \in Memories
          /\ Covers(BytesOf(StoreBytes(n, q, w, 4)), n, q, 4, w)
      BY <2>1, <3>0, StoreBytesCovers
    <3>2. Put(n, i) = StoreBytes(n, q, w, 4)
      BY <2>4 DEF q, w
    <3> HIDE DEF Put
    <3>3. Put(n, i) \in Memories /\ Covers(BytesOf(Put(n, i)), n, q, 4, w)
      BY <3>1, <3>2
    <3> QED
      BY <3>3 DEF q, w
  <2> QED
    BY <2>3, <2>4
<1> HIDE DEF Put
<1>3. IsRule(g, Memories)
  <2>1. ASSUME NEW s \in Memories \X Nat
        PROVE  (IF s[2] \in 1 .. k THEN Put(s[1], s[2]) ELSE s[1]) \in Memories
    BY <1>2
  <2> QED
    BY <2>1 DEF IsRule
<1> HIDE DEF g
<1>4. PICK h : Solves(h, Memories, m, g, k)
  BY <1>3, RecursionExists
<1>5. ASSUME NEW i \in 1 .. k
      PROVE  h[i - 1] \in Memories /\ h[i] = Put(h[i - 1], i)
  <2>1. i - 1 \in 0 .. k /\ i \in Nat
    BY <1>1
  <2>2. h[i - 1] \in Memories
    BY <1>4, <2>1 DEF Solves
  <2>3. g[<<h[i - 1], i>>] = Put(h[i - 1], i)
    BY <2>1, <2>2 DEF g
  <2> QED
    BY <1>4, <2>2, <2>3 DEF Solves
<1>6. E(h)
  <2>1. \A i \in 0 .. k : h[i] = IF i = 0 THEN m ELSE Put(h[i - 1], i)
    <3> TAKE i \in 0 .. k
    <3>1. CASE i = 0
      BY <1>4, <3>1 DEF Solves
    <3>2. CASE i # 0
      <4>1. i \in 1 .. k
        BY <1>1, <3>2
      <4> QED
        BY <1>5, <3>2, <4>1
    <3> QED
      BY <3>1, <3>2
  <2>2. h = [i \in 0 .. k |-> h[i]]
    BY <1>4 DEF Solves
  <2> QED
    BY <2>1, <2>2
<1> DEFINE f == CHOOSE e : E(e)
<1>7. E(f)
  BY <1>6
<1>8. StoreWords(m, p, v, aligned) = f[k]
  <2>1. Len(v) = k
    BY LengthOf
  <2> QED
    BY <2>1 DEF StoreWords, Put
<1> HIDE DEF f
<1>9. f[0] = m /\ \A i \in 1 .. k : f[i] = Put(f[i - 1], i)
  <2>1. 0 \in 0 .. k /\ \A i \in 1 .. k : i \in 0 .. k /\ i # 0
    BY <1>1
  <2>2. \A i \in 0 .. k : f[i] = IF i = 0 THEN m ELSE Put(f[i - 1], i)
    BY <1>7
  <2> QED
    BY <2>1, <2>2
<1> HIDE DEF E
<1> DEFINE S == {i \in 0 .. k : f[i] \in Memories /\ CoversWords(BytesOf(f[i]), m, p, i, v)}
<1>10. 0 \in S
  <2>1. CoversWords(BytesOf(m), m, p, 0, v)
    <3>1. \A a \in 0 .. Size - 1 : ~ (a - p \in 0 .. 4 * 0 - 1)
      BY <1>1
    <3> QED
      BY <3>1 DEF CoversWords
  <2> QED
    BY <1>1, <1>9, <2>1
<1>11. ASSUME NEW i \in 0 .. k - 1, i \in S
       PROVE  i + 1 \in S
  <2> DEFINE j == i + 1
             q == p + 4 * i
  <2>1. j \in 1 .. k /\ j - 1 = i /\ p + 4 * (j - 1) = q /\ j \in 0 .. k
        /\ i \in Int /\ q \in Int /\ 0 <= i
    BY <1>1
  <2>2. f[i] \in Memories /\ CoversWords(BytesOf(f[i]), m, p, i, v)
    BY <1>11
  <2>3. f[j] = Put(f[i], j)
    BY <1>9, <2>1
  <2>6. q = p + 4 * i /\ j = i + 1
    OBVIOUS
  <2> HIDE DEF j, q
  <2>4. f[j] \in Memories /\ Covers(BytesOf(f[j]), f[i], q, 4, v[j])
    <3>1. Put(f[i], j) \in Memories
          /\ Covers(BytesOf(Put(f[i], j)), f[i], p + 4 * (j - 1), 4, v[j])
      BY <1>2, <2>1, <2>2
    <3> QED
      BY <2>1, <2>3, <3>1
  <2>5. CoversWords(BytesOf(f[j]), m, p, j, v)
    <3> SUFFICES ASSUME NEW a \in 0 .. Size - 1
                 PROVE  BytesOf(f[j])[a]
                          = IF a - p \in 0 .. 4 * j - 1
                            THEN ByteOf(v[(a - p) \div 4 + 1], (a - p) % 4)
                            ELSE BytesOf(m)[a]
      BY DEF CoversWords
    <3>1. BytesOf(f[i])[a] = IF a - p \in 0 .. 4 * i - 1
                             THEN ByteOf(v[(a - p) \div 4 + 1], (a - p) % 4)
                             ELSE BytesOf(m)[a]
      BY <2>2 DEF CoversWords
    <3>2. BytesOf(f[j])[a] = IF a - q \in 0 .. 3 THEN ByteOf(v[j], a - q) ELSE BytesOf(f[i])[a]
      BY <2>4 DEF Covers
    <3>3. a \in Int
      BY <1>1
    <3>4. CASE a - q \in 0 .. 3
      <4>1. /\ a - p \in 0 .. 4 * j - 1
            /\ (a - p) \div 4 + 1 = j
            /\ (a - p) % 4 = a - q
        BY <1>1, <2>1, <2>6, <3>3, <3>4
      <4> QED
        BY <3>2, <3>4, <4>1
    <3>5. CASE ~ (a - q \in 0 .. 3)
      <4>1. a - p \in 0 .. 4 * j - 1 <=> a - p \in 0 .. 4 * i - 1
        BY <1>1, <2>1, <2>6, <3>3, <3>5
      <4> QED
        BY <3>1, <3>2, <3>5, <4>1
    <3> QED
      BY <3>4, <3>5
  <2> QED
    BY <2>1, <2>4, <2>5 DEF j
<1> HIDE DEF S
<1>12. 0 .. k \subseteq S
  BY <1>1, <1>10, <1>11, BoundedInduction
<1>13. k \in S
  BY <1>1, <1>12
<1> QED
  BY <1>8, <1>13 DEF S

(* Bytes, halfwords and what is three bytes long are words.                *)
LEMMA SmallWords ==
  ASSUME Powers
  PROVE  /\ 0 .. Byte * Half - 1 \subseteq Word
         /\ 0 .. Byte - 1 \subseteq Word /\ 0 .. Half - 1 \subseteq Word
         /\ Byte * Half \in Nat \ {0}
<1>1. Byte \in Nat \ {0} /\ 2 <= Byte /\ Half = Byte * Byte
      /\ 2 * HighBit = Byte * Byte * Byte * Byte /\ HighBit \in Nat
  BY ByteSize, BytePlace DEF Modulus
<1>2. \A B \in Nat, H \in Nat :
        2 <= B /\ 2 * H = B * B * B * B => B * (B * B) <= H /\ B * B <= B * (B * B) /\ B <= B * B
  <2> SUFFICES ASSUME NEW B \in Nat, NEW H \in Nat, 2 <= B, 2 * H = B * B * B * B
               PROVE  B * (B * B) <= H /\ B * B <= B * (B * B) /\ B <= B * B
    OBVIOUS
  <2>1. PICK C \in Nat : C = B * B
    OBVIOUS
  <2>2. PICK D \in Nat : D = B * C
    OBVIOUS
  <2>3. B * B * B * B = B * D
    BY <2>1, <2>2
  <2>4. 2 * D <= B * D /\ C <= B * C /\ B <= B * B
    OBVIOUS
  <2> QED
    BY <2>1, <2>2, <2>3, <2>4
<1>3. Byte * Half <= HighBit /\ Half <= Byte * Half /\ Byte <= Half
  BY <1>1, <1>2
<1>4. Byte * Half \in Nat \ {0} /\ Half \in Nat
  BY <1>1
<1> DEFINE z == Byte * Half
<1>5. z \in Nat \ {0} /\ z <= HighBit /\ Half <= z /\ Byte <= z
  BY <1>1, <1>3, <1>4
<1> HIDE DEF z
<1>6. 0 .. z - 1 \subseteq Word /\ 0 .. Byte - 1 \subseteq Word /\ 0 .. Half - 1 \subseteq Word
  BY <1>1, <1>4, <1>5 DEF Word
<1> QED
  BY <1>4, <1>6 DEF z
=============================================================================
