------------------------ MODULE CompiledModuleProofs ------------------------
(***************************************************************************)
(* compile_module and the program it makes, for every module: any          *)
(* variables of any size in any order, any functions, blocks and calls.    *)
(* First the layout of memory, then the names of the generated functions,  *)
(* then their places in the list, the return addresses among them.         *)
(***************************************************************************)
EXTENDS CompiledModule, SequenceTheorems, FiniteSetTheorems, WellFoundedInduction,
        TLAPS

(***************************************************************************)
(* Induction: a property of numbers is given as the set of those that have *)
(* it.  The provers know nothing of exponentiation but what Powers says.   *)
(***************************************************************************)
LEMMA LeastNumber ==
  ASSUME NEW S \in SUBSET Nat, S # {}
  PROVE  \E x \in S : \A y \in S : x <= y
<1> DEFINE T == {0 .. x : x \in S}
<1>1. \E t \in T : \A u \in T : ~ (<<u, t>> \in StrictSubsetOrdering(Nat))
  <2>1. IsWellFoundedOn(StrictSubsetOrdering(Nat), FiniteSubsetsOf(Nat))
    BY FS_StrictSubsetOrderingWellFounded
  <2>2. \A x \in S : 0 .. x \in SUBSET Nat /\ IsFiniteSet(0 .. x)
    <3> TAKE x \in S
    <3>1. x \in Int /\ 0 \in Int
      OBVIOUS
    <3>2. IsFiniteSet(0 .. x)
      BY <3>1, FS_Interval
    <3> QED
      BY <3>2
  <2>3. T \subseteq FiniteSubsetsOf(Nat) /\ T # {}
    BY <2>2 DEF FiniteSubsetsOf
  <2> QED
    BY <2>1, <2>3, WFMin
<1>2. PICK x \in S : \A u \in T : ~ (<<u, 0 .. x>> \in StrictSubsetOrdering(Nat))
  BY <1>1
<1>3. ASSUME NEW y \in S
      PROVE  x <= y
  <2>1. ~ (<<0 .. y, 0 .. x>> \in StrictSubsetOrdering(Nat))
    BY <1>2
  <2>2. 0 .. y \in SUBSET Nat /\ 0 .. x \in SUBSET Nat
    OBVIOUS
  <2>3. ~ (0 .. y \subseteq 0 .. x /\ 0 .. y # 0 .. x)
    BY <2>1, <2>2 DEF StrictSubsetOrdering
  <2>4. SUFFICES ASSUME y < x PROVE FALSE
    OBVIOUS
  <2>5. 0 .. y \subseteq 0 .. x
    BY <2>4
  <2>6. x \in 0 .. x /\ x \notin 0 .. y
    BY <2>4
  <2> QED
    BY <2>3, <2>5, <2>6
<1> QED
  BY <1>3

LEMMA Induction ==
  ASSUME NEW S, 0 \in S, \A n \in Nat : n \in S => n + 1 \in S
  PROVE  Nat \subseteq S
<1> SUFFICES ASSUME Nat \ S # {} PROVE FALSE
  OBVIOUS
<1>1. PICK x \in Nat \ S : \A y \in Nat \ S : x <= y
  BY LeastNumber
<1>2. x # 0 /\ x - 1 \in Nat /\ x - 1 < x
  BY <1>1
<1>3. x - 1 \in S
  BY <1>1, <1>2
<1> QED
  BY <1>1, <1>2, <1>3

(* Induction up to a bound.                                                *)
LEMMA BoundedInduction ==
  ASSUME NEW S, NEW k \in Nat, 0 \in S,
         \A n \in 0 .. k - 1 : n \in S => n + 1 \in S
  PROVE  0 .. k \subseteq S
<1> DEFINE T == {n \in Nat : n <= k => n \in S}
<1>1. 0 \in T
  OBVIOUS
<1>2. \A n \in Nat : n \in T => n + 1 \in T
  OBVIOUS
<1> HIDE DEF T
<1>3. Nat \subseteq T
  BY <1>1, <1>2, Induction
<1> QED
  BY <1>3 DEF T

(* What exponentiation is.                                                 *)
Powers ==
  \A b \in Nat \ {0} :
    /\ b ^ 0 = 1
    /\ \A n \in Nat : b ^ n \in Nat \ {0} /\ b ^ (n + 1) = b * b ^ n

LEMMA PowerSum ==
  ASSUME Powers, NEW b \in Nat \ {0}, NEW m \in Nat, NEW n \in Nat
  PROVE  /\ b ^ (m + n) = b ^ m * b ^ n
         /\ b ^ m \in Nat \ {0} /\ b ^ n \in Nat \ {0}
<1> DEFINE S == {i \in Nat : b ^ (m + i) = b ^ m * b ^ i}
<1>1. 0 \in S
  BY DEF Powers
<1>2. ASSUME NEW i \in Nat, i \in S
      PROVE  i + 1 \in S
  <2>1. /\ b ^ (m + i) = b ^ m * b ^ i
        /\ b ^ (m + i + 1) = b * b ^ (m + i)
        /\ b ^ (i + 1) = b * b ^ i
        /\ b ^ i \in Nat /\ b ^ m \in Nat
    BY <1>2 DEF Powers
  <2>2. b * (b ^ m * b ^ i) = b ^ m * (b * b ^ i)
    BY <2>1
  <2> QED
    BY <2>1, <2>2
<1> HIDE DEF S
<1>3. Nat \subseteq S
  BY <1>1, <1>2, Induction
<1> QED
  BY <1>3 DEF S, Powers

-----------------------------------------------------------------------------
(***************************************************************************)
(* The layout of types, and where the scalars of a type lie in it.  A type *)
(* comes after those it is made of: what holds of a type if it does of all *)
(* before holds of all.                                                    *)
(***************************************************************************)
IsLayout(l) == l \in [size : Nat, align : {1, 2, 4}]

LEMMA AlignIs ==
  ASSUME NEW l, IsLayout(l)
  PROVE  l.align \in Nat /\ l.align \in {1, 2, 4} /\ l.size \in Nat
  BY DEF IsLayout

LEMMA PadIs ==
  ASSUME NEW n \in Nat, NEW a \in {1, 2, 4}
  PROVE  PadTo(n, a) \in Nat /\ PadTo(n, a) % a = 0
<1>1. CASE a = 1
  BY <1>1 DEF PadTo
<1>2. CASE a = 2
  BY <1>2 DEF PadTo
<1>3. CASE a = 4
  <2>1. n % 4 \in 0 .. 3
    OBVIOUS
  <2>2. (4 - (n % 4)) % 4 = IF n % 4 = 0 THEN 0 ELSE 4 - (n % 4)
    BY <2>1
  <2> QED
    BY <1>3, <2>1, <2>2 DEF PadTo
<1> QED
  BY <1>1, <1>2, <1>3

LEMMA ExtendIs ==
  ASSUME NEW l, IsLayout(l), NEW m, IsLayout(m)
  PROVE  /\ IsLayout(Extend(l, m))
         /\ l.align <= Extend(l, m).align /\ m.align <= Extend(l, m).align
         /\ OffsetAfter(l, m) \in Nat /\ OffsetAfter(l, m) % m.align = 0
<1> DEFINE n == l.size  a == m.align  b == l.align
<1>1. n \in Nat /\ a \in {1, 2, 4} /\ b \in {1, 2, 4} /\ m.size \in Nat
  BY DEF IsLayout
<1>2. OffsetAfter(l, m) = PadTo(n, a)
  BY DEF OffsetAfter
<1>3. Extend(l, m).size = OffsetAfter(l, m) + m.size /\ Extend(l, m).align = Greater(b, a)
  BY DEF Extend
<1> HIDE DEF n, a, b
<1>4. PadTo(n, a) \in Nat /\ PadTo(n, a) % a = 0
  BY <1>1, PadIs
<1>5. Greater(b, a) \in {1, 2, 4} /\ a <= Greater(b, a) /\ b <= Greater(b, a)
  BY <1>1 DEF Greater
<1> DEFINE x == OffsetAfter(l, m) + m.size  y == Greater(b, a)
<1>6. Extend(l, m) = [size |-> x, align |-> y]
  BY DEF Extend, a, b
<1>7. x \in Nat /\ y \in {1, 2, 4}
  BY <1>1, <1>2, <1>4, <1>5
<1> HIDE DEF x, y
<1>8. IsLayout(Extend(l, m))
  BY <1>6, <1>7 DEF IsLayout
<1> QED
  BY <1>2, <1>3, <1>4, <1>5, <1>8 DEF a, b

LEMMA LastOf ==
  ASSUME NEW k \in Nat, NEW t \in SUBSET (1 .. k + 1)
  PROVE  /\ k + 1 \in t =>
              Max(t) = k + 1 /\ t # {} /\ t \ {k + 1} \in SUBSET (1 .. k)
         /\ k + 1 \notin t =>
              t \in SUBSET (1 .. k) /\ t \ {Max(t)} \in SUBSET (1 .. k)
<1>1. CASE k + 1 \in t
  <2>1. \A x \in t : (\A y \in t : x >= y) <=> x = k + 1
    BY <1>1
  <2>2. Max(t) = k + 1
    BY <1>1, <2>1 DEF Max
  <2>3. \A i \in t \ {k + 1} : i \in 1 .. k
    OBVIOUS
  <2> QED
    BY <1>1, <2>2, <2>3
<1>2. CASE k + 1 \notin t
  <2>1. \A i \in t : i \in 1 .. k
    BY <1>2
  <2> QED
    BY <1>2, <2>1
<1> QED
  BY <1>1, <1>2

LEMMA PrefixLast ==
  ASSUME NEW n \in Nat, NEW i \in 1 .. n
  PROVE  /\ 1 .. i \in SUBSET (1 .. n) /\ 1 .. i # {} /\ i - 1 \in 0 .. n
         /\ Max(1 .. i) = i /\ (1 .. i) \ {i} = 1 .. i - 1
<1>1. \A x \in 1 .. i : (\A y \in 1 .. i : x >= y) <=> x = i
  OBVIOUS
<1> QED
  BY <1>1 DEF Max

(* A struct or an array, part after part.                                  *)
LEMMA ExtendFold ==
  ASSUME NEW n \in Nat, NEW s, DOMAIN s = 1 .. n
  PROVE  \E q : /\ q[0] = EmptyLayout
                /\ \A j \in 1 .. n : q[j] = Extend(q[j - 1], s[j])
                /\ ExtendAll(s) = q[n]
<1> DEFINE a == EmptyLayout
           O(z, j) == Extend(z, s[j])
           E(r, t) == IF t = {} THEN a ELSE O(r[t \ {Max(t)}], Max(t))
           F == CHOOSE r : r = [t \in SUBSET (1 .. n) |-> E(r, t)]
           S == {k \in Nat : \E r : r = [t \in SUBSET (1 .. k) |-> E(r, t)]}
           q == [j \in 0 .. n |-> F[1 .. j]]
<1>1. ExtendAll(s) = F[1 .. n]
  BY DEF ExtendAll, FoldLeft, MapThenFoldSet
<1>2. \A j \in 1 .. n : O(q[j - 1], j) = Extend(q[j - 1], s[j])
  OBVIOUS
<1> HIDE DEF O, a
<1>3. 0 \in S
  <2> DEFINE r == [t \in SUBSET (1 .. 0) |-> a]
  <2>1. r = [t \in SUBSET (1 .. 0) |-> E(r, t)]
    BY \A t \in SUBSET (1 .. 0) : E(r, t) = a
  <2> QED
    BY <2>1
<1>4. ASSUME NEW k \in Nat, k \in S
      PROVE  k + 1 \in S
  <2>1. PICK r : r = [t \in SUBSET (1 .. k) |-> E(r, t)]
    BY <1>4
  <2> DEFINE h == [t \in SUBSET (1 .. k + 1) |->
                     IF k + 1 \in t THEN O(r[t \ {k + 1}], k + 1) ELSE r[t]]
  <2>2. \A t \in SUBSET (1 .. k) : r[t] = E(r, t)
    <3> HIDE DEF E
    <3> QED
      BY <2>1
  <2>3. \A t \in SUBSET (1 .. k) : h[t] = r[t]
    OBVIOUS
  <2>4. \A t \in SUBSET (1 .. k + 1) :
          k + 1 \in t => h[t] = O(r[t \ {k + 1}], k + 1)
    OBVIOUS
  <2>5. h = [t \in SUBSET (1 .. k + 1) |-> h[t]]
    OBVIOUS
  <2> HIDE DEF h
  <2>6. \A t \in SUBSET (1 .. k + 1) : h[t] = E(h, t)
    <3> TAKE t \in SUBSET (1 .. k + 1)
    <3>1. CASE k + 1 \in t
      BY <2>3, <2>4, <3>1, LastOf
    <3>2. CASE k + 1 \notin t
      BY <2>2, <2>3, <3>2, LastOf
    <3> QED
      BY <3>1, <3>2
  <2> HIDE DEF E
  <2>7. h = [t \in SUBSET (1 .. k + 1) |-> E(h, t)]
    BY <2>5, <2>6
  <2> QED
    BY <2>7
<1>5. F = [t \in SUBSET (1 .. n) |-> E(F, t)]
  <2> HIDE DEF S
  <2>1. \E r : r = [t \in SUBSET (1 .. n) |-> E(r, t)]
    BY <1>3, <1>4, Induction DEF S
  <2> HIDE DEF E
  <2> QED
    BY <2>1
<1> HIDE DEF F, S
<1>6. \A t \in SUBSET (1 .. n) : F[t] = E(F, t)
  <2> HIDE DEF E
  <2> QED
    BY <1>5
<1>7. \A j \in 0 .. n : q[j] = F[1 .. j]
  OBVIOUS
<1> HIDE DEF q
<1>8. q[0] = a
  <2>1. 1 .. 0 = {} /\ 1 .. 0 \in SUBSET (1 .. n) /\ 0 \in 0 .. n
    OBVIOUS
  <2> QED
    BY <1>6, <1>7, <2>1
<1>9. ASSUME NEW j \in 1 .. n
      PROVE  q[j] = O(q[j - 1], j)
  <2>1. /\ 1 .. j \in SUBSET (1 .. n) /\ 1 .. j # {}
        /\ Max(1 .. j) = j /\ (1 .. j) \ {j} = 1 .. j - 1
    BY PrefixLast
  <2>2. q[j] = F[1 .. j] /\ q[j - 1] = F[1 .. j - 1]
    BY <1>7
  <2> QED
    BY <1>6, <2>1, <2>2
<1>10. q[0] = EmptyLayout
  BY <1>8 DEF a
<1>11. \A j \in 1 .. n : q[j] = Extend(q[j - 1], s[j])
  BY <1>2, <1>9
<1>12. ExtendAll(s) = q[n]
  BY <1>1, <1>7
<1> QED
  BY <1>10, <1>11, <1>12

LEMMA SizesFold ==
  ASSUME NEW n \in Nat, NEW s, DOMAIN s = 1 .. n
  PROVE  \E q : /\ q[0] = 0
                /\ \A j \in 1 .. n : q[j] = q[j - 1] + s[j].size
                /\ SumSizes(s) = q[n]
<1> DEFINE a == 0
           O(z, j) == z + s[j].size
           E(r, t) == IF t = {} THEN a ELSE O(r[t \ {Max(t)}], Max(t))
           F == CHOOSE r : r = [t \in SUBSET (1 .. n) |-> E(r, t)]
           S == {k \in Nat : \E r : r = [t \in SUBSET (1 .. k) |-> E(r, t)]}
           q == [j \in 0 .. n |-> F[1 .. j]]
<1>1. SumSizes(s) = F[1 .. n]
  BY DEF SumSizes, FoldLeft, MapThenFoldSet
<1>2. \A j \in 1 .. n : O(q[j - 1], j) = q[j - 1] + s[j].size
  OBVIOUS
<1> HIDE DEF O, a
<1>3. 0 \in S
  <2> DEFINE r == [t \in SUBSET (1 .. 0) |-> a]
  <2>1. r = [t \in SUBSET (1 .. 0) |-> E(r, t)]
    BY \A t \in SUBSET (1 .. 0) : E(r, t) = a
  <2> QED
    BY <2>1
<1>4. ASSUME NEW k \in Nat, k \in S
      PROVE  k + 1 \in S
  <2>1. PICK r : r = [t \in SUBSET (1 .. k) |-> E(r, t)]
    BY <1>4
  <2> DEFINE h == [t \in SUBSET (1 .. k + 1) |->
                     IF k + 1 \in t THEN O(r[t \ {k + 1}], k + 1) ELSE r[t]]
  <2>2. \A t \in SUBSET (1 .. k) : r[t] = E(r, t)
    <3> HIDE DEF E
    <3> QED
      BY <2>1
  <2>3. \A t \in SUBSET (1 .. k) : h[t] = r[t]
    OBVIOUS
  <2>4. \A t \in SUBSET (1 .. k + 1) :
          k + 1 \in t => h[t] = O(r[t \ {k + 1}], k + 1)
    OBVIOUS
  <2>5. h = [t \in SUBSET (1 .. k + 1) |-> h[t]]
    OBVIOUS
  <2> HIDE DEF h
  <2>6. \A t \in SUBSET (1 .. k + 1) : h[t] = E(h, t)
    <3> TAKE t \in SUBSET (1 .. k + 1)
    <3>1. CASE k + 1 \in t
      BY <2>3, <2>4, <3>1, LastOf
    <3>2. CASE k + 1 \notin t
      BY <2>2, <2>3, <3>2, LastOf
    <3> QED
      BY <3>1, <3>2
  <2> HIDE DEF E
  <2>7. h = [t \in SUBSET (1 .. k + 1) |-> E(h, t)]
    BY <2>5, <2>6
  <2> QED
    BY <2>7
<1>5. F = [t \in SUBSET (1 .. n) |-> E(F, t)]
  <2> HIDE DEF S
  <2>1. \E r : r = [t \in SUBSET (1 .. n) |-> E(r, t)]
    BY <1>3, <1>4, Induction DEF S
  <2> HIDE DEF E
  <2> QED
    BY <2>1
<1> HIDE DEF F, S
<1>6. \A t \in SUBSET (1 .. n) : F[t] = E(F, t)
  <2> HIDE DEF E
  <2> QED
    BY <1>5
<1>7. \A j \in 0 .. n : q[j] = F[1 .. j]
  OBVIOUS
<1> HIDE DEF q
<1>8. q[0] = a
  <2>1. 1 .. 0 = {} /\ 1 .. 0 \in SUBSET (1 .. n) /\ 0 \in 0 .. n
    OBVIOUS
  <2> QED
    BY <1>6, <1>7, <2>1
<1>9. ASSUME NEW j \in 1 .. n
      PROVE  q[j] = O(q[j - 1], j)
  <2>1. /\ 1 .. j \in SUBSET (1 .. n) /\ 1 .. j # {}
        /\ Max(1 .. j) = j /\ (1 .. j) \ {j} = 1 .. j - 1
    BY PrefixLast
  <2>2. q[j] = F[1 .. j] /\ q[j - 1] = F[1 .. j - 1]
    BY <1>7
  <2> QED
    BY <1>6, <2>1, <2>2
<1>10. q[0] = 0
  BY <1>8 DEF a
<1>11. \A j \in 1 .. n : q[j] = q[j - 1] + s[j].size
  BY <1>2, <1>9
<1>12. SumSizes(s) = q[n]
  BY <1>1, <1>7
<1> QED
  BY <1>10, <1>11, <1>12

LEMMA ExtendAllIs ==
  ASSUME NEW n \in Nat, NEW s, DOMAIN s = 1 .. n, \A j \in 1 .. n : IsLayout(s[j])
  PROVE  /\ IsLayout(ExtendAll(s))
         /\ \A j \in 1 .. n : s[j].align <= ExtendAll(s).align
<1>1. PICK q : /\ q[0] = EmptyLayout
               /\ \A j \in 1 .. n : q[j] = Extend(q[j - 1], s[j])
               /\ ExtendAll(s) = q[n]
  BY ExtendFold
<1> DEFINE S == {k \in 0 .. n : /\ IsLayout(q[k])
                                /\ \A j \in 1 .. k : s[j].align <= q[k].align}
<1>2. 0 \in S
  BY <1>1 DEF EmptyLayout, IsLayout
<1>3. ASSUME NEW k \in 0 .. n - 1, k \in S
      PROVE  k + 1 \in S
  <2> DEFINE i == k + 1  l == q[k]  m == s[i]
  <2>1. i \in 1 .. n /\ i - 1 = k /\ i \in 0 .. n
    OBVIOUS
  <2>2. q[i] = Extend(l, m)
    BY <1>1, <2>1
  <2>3. IsLayout(l) /\ IsLayout(m) /\ \A j \in 1 .. k : s[j].align <= l.align
    BY <1>3, <2>1
  <2> HIDE DEF l, m
  <2>4. /\ IsLayout(q[i]) /\ l.align <= q[i].align /\ m.align <= q[i].align
    BY <2>2, <2>3, ExtendIs
  <2>5. ASSUME NEW j \in 1 .. i PROVE s[j].align <= q[i].align
    <3>1. CASE j = i
      BY <2>4, <3>1 DEF m
    <3>2. CASE j # i
      <4>1. j \in 1 .. k /\ j \in 1 .. n
        BY <2>1, <3>2
      <4>2. s[j].align <= l.align /\ IsLayout(s[j])
        BY <2>3, <4>1
      <4>3. s[j].align \in Nat /\ l.align \in Nat /\ q[i].align \in Nat
        BY <2>3, <2>4, <4>2, AlignIs
      <4> QED
        BY <2>4, <4>2, <4>3
    <3> QED
      BY <3>1, <3>2
  <2> HIDE DEF i
  <2>6. i \in S
    BY <2>1, <2>4, <2>5
  <2> QED
    BY <2>6 DEF i
<1> HIDE DEF S
<1>4. n \in S
  <2>1. 0 .. n \subseteq S
    BY <1>2, <1>3, BoundedInduction
  <2> QED
    BY <2>1
<1> QED
  BY <1>1, <1>4 DEF S

LEMMA SumSizesIs ==
  ASSUME NEW n \in Nat, NEW s, DOMAIN s = 1 .. n, \A j \in 1 .. n : IsLayout(s[j])
  PROVE  SumSizes(s) \in Nat
<1>1. PICK q : /\ q[0] = 0
               /\ \A j \in 1 .. n : q[j] = q[j - 1] + s[j].size
               /\ SumSizes(s) = q[n]
  BY SizesFold
<1> DEFINE S == {k \in 0 .. n : q[k] \in Nat}
<1>2. 0 \in S
  BY <1>1
<1>3. ASSUME NEW k \in 0 .. n - 1, k \in S
      PROVE  k + 1 \in S
  <2>1. k + 1 \in 1 .. n /\ (k + 1) - 1 = k
    OBVIOUS
  <2>2. q[k + 1] = q[k] + s[k + 1].size /\ s[k + 1].size \in Nat
    BY <1>1, <2>1 DEF IsLayout
  <2> QED
    BY <1>3, <2>1, <2>2
<1> HIDE DEF S
<1>4. n \in S
  <2>1. 0 .. n \subseteq S
    BY <1>2, <1>3, BoundedInduction
  <2> QED
    BY <2>1
<1> QED
  BY <1>1, <1>4 DEF S

-----------------------------------------------------------------------------
(* What the table says of a type.                                          *)
LEMMA TypeIs ==
  /\ Len(Ty) \in Nat /\ Type = 1 .. Len(Ty)
  /\ \A t \in Type : WellFormedType(t)
<1>1. Ty \in Seq(ToSet(Ty)) /\ \A t \in Type : WellFormedType(t)
  BY TypesAssumption
<1>2. Len(Ty) \in Nat /\ DOMAIN Ty = 1 .. Len(Ty)
  BY <1>1
<1> QED
  BY <1>1, <1>2 DEF Type

LEMMA BeforeType ==
  ASSUME NEW t \in Type, NEW u \in 1 .. t - 1
  PROVE  u \in Type /\ t \in Nat
  BY TypeIs

LEMMA StructIs ==
  ASSUME NEW t \in Type, Kind(t) = "struct"
  PROVE  /\ Ty[t].packed \in BOOLEAN /\ Len(Ty[t].elems) \in Nat
         /\ DOMAIN Ty[t].elems = 1 .. Len(Ty[t].elems)
         /\ \A i \in 1 .. Len(Ty[t].elems) : Ty[t].elems[i] \in 1 .. t - 1
<1> DEFINE e == Ty[t].elems
<1>1. WellFormedType(t)
  BY TypeIs
<1>2. Ty[t].packed \in BOOLEAN /\ e \in Seq(1 .. t - 1)
  BY <1>1, Zenon DEF WellFormedType
<1> DEFINE U == 1 .. t - 1
<1> HIDE DEF e, U
<1>3. e \in Seq(U)
  BY <1>2, Zenon DEF U
<1>4. Len(e) \in Nat /\ DOMAIN e = 1 .. Len(e) /\ \A i \in 1 .. Len(e) : e[i] \in U
  BY <1>3
<1> QED
  BY <1>2, <1>4, Zenon DEF e, U

LEMMA ArrayIs ==
  ASSUME NEW t \in Type, Kind(t) = "array"
  PROVE  Ty[t].n \in Nat /\ Ty[t].of \in 1 .. t - 1
<1>1. WellFormedType(t)
  BY TypeIs
<1> QED
  BY <1>1, Zenon DEF WellFormedType

LEMMA NamedIs ==
  ASSUME NEW t \in Type, Kind(t) = "named"
  PROVE  Ty[t].of \in 1 .. t - 1 /\ Kind(Ty[t].of) = "struct"
<1>1. WellFormedType(t)
  BY TypeIs
<1> QED
  BY <1>1, Zenon DEF WellFormedType

LEMMA Kinds ==
  ASSUME NEW t \in Type
  PROVE  /\ \/ Kind(t) = "int" \/ Kind(t) \in {"ptr", "code"} \/ Kind(t) = "struct"
            \/ Kind(t) = "named" \/ Kind(t) = "array"
         /\ Kind(t) = "int" => Ty[t].bits \in {1, 8, 16, 24, 32, 48, 64}
<1>1. WellFormedType(t)
  BY TypeIs
<1> QED
  BY <1>1, Zenon DEF WellFormedType

(* What holds of a type if it does of all before holds of all.             *)
LEMMA TypesInduction ==
  ASSUME NEW S, \A t \in Type : (1 .. t - 1 \subseteq S) => t \in S
  PROVE  Type \subseteq S
<1> DEFINE n == Len(Ty)  T == {k \in 0 .. n : 1 .. k \subseteq S}
<1>1. n \in Nat /\ Type = 1 .. n
  BY TypeIs
<1> HIDE DEF n
<1>2. 0 \in T
  BY <1>1
<1>3. ASSUME NEW k \in 0 .. n - 1, k \in T
      PROVE  k + 1 \in T
  <2>1. k + 1 \in Type /\ 1 .. (k + 1) - 1 = 1 .. k
    BY <1>1
  <2>2. k + 1 \in S
    BY <1>3, <2>1
  <2>3. \A j \in 1 .. k + 1 : j = k + 1 \/ j \in 1 .. k
    OBVIOUS
  <2> QED
    BY <1>1, <1>3, <2>2, <2>3
<1> HIDE DEF T
<1>4. n \in T
  <2>1. 0 .. n \subseteq T
    BY <1>1, <1>2, <1>3, BoundedInduction
  <2> QED
    BY <1>1, <2>1
<1> QED
  BY <1>1, <1>4 DEF T

(* type_layout of a type from the layouts f of those before.               *)
LayoutOf(f, t) ==
  LET elems    == [i \in DOMAIN Ty[t].elems |-> f[Ty[t].elems[i]]]
      copies   == [i \in 1 .. Ty[t].n |-> f[Ty[t].of]]
  IN CASE Kind(t) = "int"    -> IntLayout(Ty[t].bits)
       [] Kind(t) \in {"ptr", "code"} -> PointerLayout
       [] Kind(t) = "struct" -> IF Ty[t].packed
                                THEN [size |-> SumSizes(elems), align |-> 1]
                                ELSE ExtendAll(elems)
       [] Kind(t) = "named"  -> f[Ty[t].of]
       [] Kind(t) = "array"  -> ExtendAll(copies)

LEMMA LayoutCases ==
  ASSUME NEW f, NEW t
  PROVE  /\ Kind(t) = "int" => LayoutOf(f, t) = IntLayout(Ty[t].bits)
         /\ Kind(t) \in {"ptr", "code"} => LayoutOf(f, t) = PointerLayout
         /\ Kind(t) = "struct" =>
              LayoutOf(f, t) =
                IF Ty[t].packed
                THEN [size |-> SumSizes([i \in DOMAIN Ty[t].elems |-> f[Ty[t].elems[i]]]),
                      align |-> 1]
                ELSE ExtendAll([i \in DOMAIN Ty[t].elems |-> f[Ty[t].elems[i]]])
         /\ Kind(t) = "named" => LayoutOf(f, t) = f[Ty[t].of]
         /\ Kind(t) = "array" =>
              LayoutOf(f, t) = ExtendAll([i \in 1 .. Ty[t].n |-> f[Ty[t].of]])
  BY DEF LayoutOf

LEMMA LayoutOfSame ==
  ASSUME NEW t \in Type, NEW f, NEW h, \A u \in 1 .. t - 1 : f[u] = h[u]
  PROVE  LayoutOf(f, t) = LayoutOf(h, t)
<1>1. CASE Kind(t) = "int"
  BY <1>1, LayoutCases, Zenon
<1>2. CASE Kind(t) \in {"ptr", "code"}
  BY <1>2, LayoutCases, Zenon
<1>3. CASE Kind(t) = "struct"
  <2> DEFINE e == Ty[t].elems
             a == [i \in DOMAIN e |-> f[e[i]]]
             b == [i \in DOMAIN e |-> h[e[i]]]
  <2>1. \A i \in DOMAIN e : e[i] \in 1 .. t - 1
    BY <1>3, StructIs, Zenon
  <2> HIDE DEF e
  <2>2. a = b
    BY <2>1
  <2> HIDE DEF a, b
  <2>3. /\ LayoutOf(f, t) = IF Ty[t].packed THEN [size |-> SumSizes(a), align |-> 1]
                            ELSE ExtendAll(a)
        /\ LayoutOf(h, t) = IF Ty[t].packed THEN [size |-> SumSizes(b), align |-> 1]
                            ELSE ExtendAll(b)
    BY <1>3, LayoutCases, Zenon DEF a, b, e
  <2> QED
    BY <2>2, <2>3
<1>4. CASE Kind(t) = "named"
  <2>1. LayoutOf(f, t) = f[Ty[t].of] /\ LayoutOf(h, t) = h[Ty[t].of]
    BY <1>4, LayoutCases, Zenon
  <2>2. Ty[t].of \in 1 .. t - 1
    BY <1>4, NamedIs, Zenon
  <2> QED
    BY <2>1, <2>2
<1>5. CASE Kind(t) = "array"
  <2> DEFINE a == [i \in 1 .. Ty[t].n |-> f[Ty[t].of]]
             b == [i \in 1 .. Ty[t].n |-> h[Ty[t].of]]
  <2>1. Ty[t].of \in 1 .. t - 1
    BY <1>5, ArrayIs, Zenon
  <2>2. a = b
    BY <2>1
  <2> HIDE DEF a, b
  <2>3. LayoutOf(f, t) = ExtendAll(a) /\ LayoutOf(h, t) = ExtendAll(b)
    BY <1>5, LayoutCases, Zenon DEF a, b
  <2> QED
    BY <2>2, <2>3
<1> QED
  BY <1>1, <1>2, <1>3, <1>4, <1>5, Kinds, Zenon

LEMMA LayoutOfTypes == \A t \in Type : typeLayout[t] = LayoutOf(typeLayout, t)
<1> DEFINE n == Len(Ty)
           G(k) == \E f : f = [t \in 1 .. k |-> LayoutOf(f, t)]
           S == {k \in 0 .. n : G(k)}
<1>1. n \in Nat /\ Type = 1 .. n
  BY TypeIs
<1> HIDE DEF n
<1>2. 0 \in S
  <2> DEFINE f == [t \in 1 .. 0 |-> 0]
  <2>1. f = [t \in 1 .. 0 |-> LayoutOf(f, t)]
    OBVIOUS
  <2> HIDE DEF f
  <2>2. G(0)
    BY <2>1, Zenon
  <2> HIDE DEF G
  <2> QED
    BY <1>1, <2>2
<1>3. ASSUME NEW k \in 0 .. n - 1, k \in S
      PROVE  k + 1 \in S
  <2>0. G(k)
    <3> HIDE DEF G
    <3> QED
      BY <1>3
  <2>1. PICK f : f = [t \in 1 .. k |-> LayoutOf(f, t)]
    BY <2>0
  <2> DEFINE h == [t \in 1 .. k + 1 |-> LayoutOf(f, t)]
  <2>2. \A t \in 1 .. k : h[t] = f[t]
    <3>1. \A t \in 1 .. k : f[t] = LayoutOf(f, t)
      BY <2>1
    <3> QED
      BY <3>1
  <2>3. \A t \in 1 .. k + 1 : h[t] = LayoutOf(f, t)
    OBVIOUS
  <2>4. h = [t \in 1 .. k + 1 |-> h[t]]
    OBVIOUS
  <2> HIDE DEF h
  <2>5. \A t \in 1 .. k + 1 : LayoutOf(f, t) = LayoutOf(h, t)
    <3> TAKE t \in 1 .. k + 1
    <3>1. t \in Type /\ \A u \in 1 .. t - 1 : f[u] = h[u]
      BY <1>1, <2>2
    <3> QED
      BY <3>1, LayoutOfSame
  <2>6. h = [t \in 1 .. k + 1 |-> LayoutOf(h, t)]
    BY <2>3, <2>4, <2>5
  <2>7. G(k + 1)
    BY <2>6, Zenon
  <2> HIDE DEF G
  <2> QED
    BY <1>1, <2>7
<1> HIDE DEF G, S
<1>4. n \in S
  <2>1. 0 .. n \subseteq S
    BY <1>1, <1>2, <1>3, BoundedInduction
  <2> QED
    BY <1>1, <2>1
<1>5. PICK f : f = [t \in Type |-> LayoutOf(f, t)]
  <2>1. G(n)
    BY <1>4 DEF S
  <2> QED
    BY <1>1, <2>1 DEF G
<1>6. typeLayout = [t \in Type |-> LayoutOf(typeLayout, t)]
  BY <1>5, Zenon DEF typeLayout, LayoutOf
<1> QED
  BY <1>6

LEMMA LayoutsAre == \A t \in Type : IsLayout(typeLayout[t])
<1> DEFINE L == typeLayout  S == {t \in Type : IsLayout(L[t])}
<1>0. \A t \in Type : L[t] = LayoutOf(L, t)
  BY LayoutOfTypes
<1> HIDE DEF L
<1>1. ASSUME NEW t \in Type, 1 .. t - 1 \subseteq S
      PROVE  t \in S
  <2>1. L[t] = LayoutOf(L, t)
    BY <1>0
  <2>2. \A u \in 1 .. t - 1 : IsLayout(L[u])
    BY <1>1
  <2>3. CASE Kind(t) = "int"
    <3> DEFINE b == Ty[t].bits
    <3>1. b \in {1, 8, 16, 24, 32, 48, 64}
      BY <2>3, Kinds, Zenon
    <3>2. L[t] = IntLayout(b)
      BY <2>1, <2>3, LayoutCases, Zenon
    <3> HIDE DEF b
    <3>3. IsLayout(IntLayout(b))
      BY <3>1 DEF IntLayout, IsLayout
    <3> QED
      BY <3>2, <3>3
  <2>4. CASE Kind(t) \in {"ptr", "code"}
    <3>1. L[t] = PointerLayout
      BY <2>1, <2>4, LayoutCases, Zenon
    <3> QED
      BY <3>1 DEF PointerLayout, IsLayout
  <2>5. CASE Kind(t) = "struct"
    <3> DEFINE e == Ty[t].elems  n == Len(e)  s == [i \in DOMAIN e |-> L[e[i]]]
    <3>1. n \in Nat /\ DOMAIN e = 1 .. n /\ \A j \in 1 .. n : e[j] \in 1 .. t - 1
      BY <2>5, StructIs, Zenon
    <3>2. L[t] = IF Ty[t].packed THEN [size |-> SumSizes(s), align |-> 1] ELSE ExtendAll(s)
      BY <2>1, <2>5, LayoutCases, Zenon
    <3> HIDE DEF e, n
    <3>3. DOMAIN s = 1 .. n /\ \A j \in 1 .. n : IsLayout(s[j])
      BY <2>2, <3>1
    <3> HIDE DEF s
    <3>5. IsLayout(ExtendAll(s))
      BY <3>1, <3>3, ExtendAllIs
    <3>6. SumSizes(s) \in Nat
      BY <3>1, <3>3, SumSizesIs
    <3> QED
      BY <3>2, <3>5, <3>6 DEF IsLayout
  <2>6. CASE Kind(t) = "named"
    <3>1. L[t] = L[Ty[t].of]
      BY <2>1, <2>6, LayoutCases, Zenon
    <3>2. Ty[t].of \in 1 .. t - 1
      BY <2>6, NamedIs, Zenon
    <3> QED
      BY <2>2, <3>1, <3>2
  <2>7. CASE Kind(t) = "array"
    <3> DEFINE n == Ty[t].n  s == [i \in 1 .. n |-> L[Ty[t].of]]
    <3>1. n \in Nat /\ Ty[t].of \in 1 .. t - 1
      BY <2>7, ArrayIs, Zenon
    <3>2. L[t] = ExtendAll(s)
      BY <2>1, <2>7, LayoutCases, Zenon
    <3> HIDE DEF n
    <3>3. DOMAIN s = 1 .. n /\ \A j \in 1 .. n : IsLayout(s[j])
      BY <2>2, <3>1
    <3> HIDE DEF s
    <3>4. IsLayout(ExtendAll(s))
      BY <3>1, <3>3, ExtendAllIs
    <3> QED
      BY <3>2, <3>4
  <2>8. IsLayout(L[t])
    BY <2>3, <2>4, <2>5, <2>6, <2>7, Kinds, Zenon
  <2> QED
    BY <2>8
<1> HIDE DEF S
<1>2. Type \subseteq S
  BY <1>1, TypesInduction
<1> QED
  BY <1>2 DEF S, L

-----------------------------------------------------------------------------
(* The parts of a type.                                                    *)
NotPacked(t) ==
  /\ Kind(t) = "struct" => ~ Ty[t].packed
  /\ Kind(t) = "named"  => ~ Ty[Ty[t].of].packed

HasPart(t, i) == ~ Scalar(t) /\ i \in 0 .. PartCount(t) - 1

LEMMA Composite ==
  ASSUME NEW t \in Type, ~ Scalar(t)
  PROVE  Kind(t) = "struct" \/ Kind(t) = "named" \/ Kind(t) = "array"
  BY Kinds, Zenon DEF Scalar

LEMMA PartIs ==
  ASSUME NEW t \in Type, NEW i, Indexed(t, i)
  PROVE  Part(t, i) \in 1 .. t - 1
<1>1. \/ Kind(t) = "array"
      \/ Kind(t) \in {"struct", "named"} /\ i \in 0 .. PartCount(t) - 1
  BY Zenon DEF Indexed
<1>2. CASE Kind(t) = "struct"
  <2> DEFINE e == Ty[t].elems  n == Len(e)
  <2>1. n \in Nat /\ \A j \in 1 .. n : e[j] \in 1 .. t - 1
    BY <1>2, StructIs, Zenon
  <2>2. PartCount(t) = n /\ Part(t, i) = e[i + 1]
    BY <1>2 DEF PartCount, Part
  <2> HIDE DEF e, n
  <2> QED
    BY <1>1, <1>2, <2>1, <2>2
<1>3. CASE Kind(t) = "array"
  <2>1. PartCount(t) = Ty[t].n /\ Part(t, i) = Ty[t].of
    BY <1>3 DEF PartCount, Part
  <2>2. Ty[t].n \in Nat /\ Ty[t].of \in 1 .. t - 1
    BY <1>3, ArrayIs, Zenon
  <2> QED
    BY <2>1, <2>2
<1>4. CASE Kind(t) = "named"
  <2> DEFINE u == Ty[t].of  e == Ty[u].elems  n == Len(e)
  <2>1. u \in 1 .. t - 1 /\ Kind(u) = "struct"
    BY <1>4, NamedIs, Zenon
  <2>2. PartCount(t) = n /\ Part(t, i) = e[i + 1]
    BY <1>4 DEF PartCount, Part
  <2> HIDE DEF u
  <2>3. u \in Type /\ t \in Nat
    BY <2>1, BeforeType
  <2>4. n \in Nat /\ \A j \in 1 .. n : e[j] \in 1 .. u - 1
    BY <2>1, <2>3, StructIs, Zenon
  <2> HIDE DEF e, n
  <2>5. e[i + 1] \in 1 .. u - 1
    BY <1>1, <1>4, <2>2, <2>4
  <2>6. u \in Nat /\ u < t /\ e[i + 1] \in 1 .. t - 1
    BY <2>1, <2>3, <2>5
  <2> QED
    BY <1>1, <2>2, <2>4, <2>6
<1> QED
  BY <1>1, <1>2, <1>3, <1>4

LEMMA HasPartIs ==
  ASSUME NEW t \in Type, NEW i, HasPart(t, i)
  PROVE  Indexed(t, i) /\ i \in Int /\ Part(t, i) \in 1 .. t - 1
<1>1. Indexed(t, i) /\ i \in Int
  BY Composite DEF HasPart, Indexed
<1> QED
  BY <1>1, PartIs

(* A part of a struct that is not packed.                                  *)
LEMMA StructPart ==
  ASSUME NEW t \in Type, Kind(t) = "struct", ~ Ty[t].packed,
         NEW i \in 0 .. Len(Ty[t].elems) - 1
  PROVE  /\ OffsetOf(t, i) \in Nat
         /\ OffsetOf(t, i) % typeLayout[Ty[t].elems[i + 1]].align = 0
         /\ typeLayout[Ty[t].elems[i + 1]].align <= typeLayout[t].align
<1> DEFINE L == typeLayout  e == Ty[t].elems  n == Len(e)
           s == [j \in DOMAIN e |-> L[e[j]]]  k == i + 1
           r == [j \in 1 .. i |-> L[e[j]]]  l == ExtendAll(r)  m == L[e[k]]
<1>1. n \in Nat /\ DOMAIN e = 1 .. n /\ \A j \in 1 .. n : e[j] \in 1 .. t - 1
  BY StructIs, Zenon
<1>2. L[t] = ExtendAll(s)
  BY LayoutOfTypes, LayoutCases, Zenon
<1>3. OffsetOf(t, i) = OffsetAfter(l, m)
  BY DEF OffsetOf
<1>4. \A u \in Type : IsLayout(L[u])
  BY LayoutsAre
<1> HIDE DEF L, e
<1>5. i \in 0 .. n - 1
  BY DEF e
<1> HIDE DEF n
<1>6. \A j \in 1 .. n : IsLayout(L[e[j]])
  BY <1>1, <1>4, BeforeType
<1>7. k \in 1 .. n /\ i \in Nat
  BY <1>1, <1>5
<1>8. DOMAIN s = 1 .. n /\ (\A j \in 1 .. n : IsLayout(s[j])) /\ s[k] = m
  BY <1>1, <1>6, <1>7
<1>9. DOMAIN r = 1 .. i /\ \A j \in 1 .. i : IsLayout(r[j])
  BY <1>1, <1>5, <1>6
<1> HIDE DEF r, s
<1>10. IsLayout(l)
  BY <1>7, <1>9, ExtendAllIs
<1>11. s[k].align <= ExtendAll(s).align
  BY <1>1, <1>7, <1>8, ExtendAllIs
<1>12. IsLayout(m)
  BY <1>6, <1>7
<1> HIDE DEF l, m
<1>13. OffsetAfter(l, m) \in Nat /\ OffsetAfter(l, m) % m.align = 0
  BY <1>10, <1>12, ExtendIs
<1>14. m.align <= L[t].align
  BY <1>2, <1>8, <1>11
<1> QED
  BY <1>3, <1>13, <1>14 DEF m, L, e, k

LEMMA Multiples ==
  ASSUME NEW m \in Nat, NEW a \in {1, 2, 4}, m % a = 0, NEW i \in Nat
  PROVE  m * i \in Nat /\ (m * i) % a = 0
<1>1. PICK q \in Nat : m = a * q
  <2> DEFINE d == m \div a
  <2>1. m = a * d /\ d \in Nat
    OBVIOUS
  <2> HIDE DEF d
  <2> QED
    BY <2>1
<1>2. q * i \in Nat /\ m * i = a * (q * i)
  BY <1>1
<1> DEFINE x == q * i
<1> HIDE DEF x
<1>3. x \in Nat /\ m * i = a * x
  BY <1>2 DEF x
<1>4. (a * x) % a = 0 /\ a * x \in Nat
  BY <1>3
<1> QED
  BY <1>3, <1>4

LEMMA PartAligned ==
  ASSUME NEW t \in Type, NEW i, HasPart(t, i), NotPacked(t)
  PROVE  /\ PartOffset(t, i) \in Nat
         /\ PartOffset(t, i) % typeLayout[Part(t, i)].align = 0
         /\ typeLayout[Part(t, i)].align <= typeLayout[t].align
<1>1. ~ Scalar(t) /\ i \in 0 .. PartCount(t) - 1
  BY DEF HasPart
<1>2. CASE Kind(t) = "struct"
  <2>1. /\ PartCount(t) = Len(Ty[t].elems) /\ Part(t, i) = Ty[t].elems[i + 1]
        /\ PartOffset(t, i) = OffsetOf(t, i) /\ ~ Ty[t].packed
    BY <1>2 DEF PartCount, Part, PartOffset, NotPacked
  <2>2. i \in 0 .. Len(Ty[t].elems) - 1
    BY <1>1, <2>1
  <2> QED
    BY <1>2, <2>1, <2>2, StructPart
<1>3. CASE Kind(t) = "named"
  <2> DEFINE u == Ty[t].of
  <2>1. u \in 1 .. t - 1 /\ Kind(u) = "struct"
    BY <1>3, NamedIs, Zenon
  <2>2. /\ PartCount(t) = Len(Ty[u].elems) /\ Part(t, i) = Ty[u].elems[i + 1]
        /\ PartOffset(t, i) = OffsetOf(u, i) /\ ~ Ty[u].packed
    BY <1>3 DEF PartCount, Part, PartOffset, NotPacked
  <2>3. typeLayout[t] = typeLayout[u]
    BY <1>3, LayoutOfTypes, LayoutCases, Zenon
  <2> HIDE DEF u
  <2>4. u \in Type /\ i \in 0 .. Len(Ty[u].elems) - 1
    BY <1>1, <2>1, <2>2, BeforeType
  <2> QED
    BY <2>1, <2>2, <2>3, <2>4, StructPart
<1>4. CASE Kind(t) = "array"
  <2> DEFINE u == Ty[t].of  n == Ty[t].n  s == [j \in 1 .. n |-> typeLayout[u]]
             l == typeLayout[u]  k == i + 1
  <2>1. n \in Nat /\ u \in 1 .. t - 1
    BY <1>4, ArrayIs, Zenon
  <2>2. PartCount(t) = n /\ Part(t, i) = u /\ PartOffset(t, i) = Stride(u) * i
    BY <1>4 DEF PartCount, Part, PartOffset
  <2>3. typeLayout[t] = ExtendAll(s)
    BY <1>4, LayoutOfTypes, LayoutCases, Zenon
  <2> HIDE DEF u, n
  <2>4. IsLayout(l)
    BY <2>1, BeforeType, LayoutsAre
  <2>5. DOMAIN s = 1 .. n /\ (\A j \in 1 .. n : IsLayout(s[j])) /\ \A j \in 1 .. n : s[j] = l
    BY <2>4
  <2> HIDE DEF s
  <2>6. k \in 1 .. n /\ i \in Nat
    BY <1>1, <2>1, <2>2
  <2>7. s[k].align <= ExtendAll(s).align
    BY <2>1, <2>5, <2>6, ExtendAllIs
  <2>8. l.align <= typeLayout[t].align
    BY <2>3, <2>5, <2>6, <2>7
  <2>9. Stride(u) = PadTo(l.size, l.align)
    BY <2>4 DEF Stride, PadToAlign, IsLayout
  <2> DEFINE z == l.size  a == l.align  m == Stride(u)
  <2>10. z \in Nat /\ a \in {1, 2, 4}
    BY <2>4 DEF IsLayout
  <2>11. m = PadTo(z, a)
    BY <2>9
  <2> HIDE DEF z, a, m
  <2>12. m \in Nat /\ m % a = 0
    BY <2>10, <2>11, PadIs
  <2>13. m * i \in Nat /\ (m * i) % a = 0
    BY <2>6, <2>10, <2>12, Multiples
  <2> QED
    BY <2>2, <2>8, <2>13 DEF m, a
<1> QED
  BY <1>1, <1>2, <1>3, <1>4, Composite

-----------------------------------------------------------------------------
(* Paths.  What a function of a type takes from the parts of the type is   *)
(* taken from functions of the types before.                               *)
PathsOf(f, t) ==
  IF Scalar(t) THEN {<<>>}
  ELSE UNION {{<<i>> \o p : p \in f[Part(t, i)]} : i \in 0 .. PartCount(t) - 1}

TypeAtOf(f, t) ==
  [path \in Seq(Int) |->
     IF path = <<>> \/ ~ Indexed(t, Head(path)) THEN t
     ELSE f[Part(t, Head(path))][Tail(path)]]

PathOffsetOf(f, t) ==
  [path \in Seq(Int) |->
     IF path = <<>> \/ ~ Indexed(t, Head(path)) THEN 0
     ELSE PartOffset(t, Head(path)) + f[Part(t, Head(path))][Tail(path)]]

LEMMA PathsOfSame ==
  ASSUME NEW t \in Type, NEW f, NEW h, \A u \in 1 .. t - 1 : f[u] = h[u]
  PROVE  PathsOf(f, t) = PathsOf(h, t)
<1>1. CASE Scalar(t)
  BY <1>1 DEF PathsOf
<1>2. CASE ~ Scalar(t)
  <2> DEFINE n == PartCount(t) - 1
             A(i) == {<<i>> \o p : p \in f[Part(t, i)]}
             B(i) == {<<i>> \o p : p \in h[Part(t, i)]}
  <2>1. \A i \in 0 .. n : HasPart(t, i)
    BY <1>2, Zenon DEF HasPart
  <2> HIDE DEF n
  <2>2. \A i \in 0 .. n : f[Part(t, i)] = h[Part(t, i)]
    BY <2>1, HasPartIs
  <2>3. \A i \in 0 .. n : A(i) = B(i)
    BY <2>2
  <2> HIDE DEF A, B
  <2>4. UNION {A(i) : i \in 0 .. n} = UNION {B(i) : i \in 0 .. n}
    BY <2>3
  <2>5. /\ PathsOf(f, t) = UNION {A(i) : i \in 0 .. n}
        /\ PathsOf(h, t) = UNION {B(i) : i \in 0 .. n}
    BY <1>2, Zenon DEF PathsOf, A, B, n
  <2> QED
    BY <2>4, <2>5
<1> QED
  BY <1>1, <1>2

LEMMA TypeAtOfSame ==
  ASSUME NEW t \in Type, NEW f, NEW h, \A u \in 1 .. t - 1 : f[u] = h[u]
  PROVE  TypeAtOf(f, t) = TypeAtOf(h, t)
<1> DEFINE A(p) == IF p = <<>> \/ ~ Indexed(t, Head(p)) THEN t
                   ELSE f[Part(t, Head(p))][Tail(p)]
           B(p) == IF p = <<>> \/ ~ Indexed(t, Head(p)) THEN t
                   ELSE h[Part(t, Head(p))][Tail(p)]
<1>1. ASSUME NEW p \in Seq(Int)
      PROVE  A(p) = B(p)
  <2>1. CASE Indexed(t, Head(p))
    <3>1. f[Part(t, Head(p))] = h[Part(t, Head(p))]
      BY <2>1, PartIs
    <3> QED
      BY <3>1, Zenon
  <2>2. CASE ~ Indexed(t, Head(p))
    BY <2>2, Zenon
  <2> QED
    BY <2>1, <2>2, Zenon
<1>2. TypeAtOf(f, t) = [p \in Seq(Int) |-> A(p)] /\ TypeAtOf(h, t) = [p \in Seq(Int) |-> B(p)]
  BY Zenon DEF TypeAtOf
<1> HIDE DEF A, B
<1> QED
  BY <1>1, <1>2

LEMMA PathOffsetOfSame ==
  ASSUME NEW t \in Type, NEW f, NEW h, \A u \in 1 .. t - 1 : f[u] = h[u]
  PROVE  PathOffsetOf(f, t) = PathOffsetOf(h, t)
<1> DEFINE A(p) == IF p = <<>> \/ ~ Indexed(t, Head(p)) THEN 0
                   ELSE PartOffset(t, Head(p)) + f[Part(t, Head(p))][Tail(p)]
           B(p) == IF p = <<>> \/ ~ Indexed(t, Head(p)) THEN 0
                   ELSE PartOffset(t, Head(p)) + h[Part(t, Head(p))][Tail(p)]
<1>1. ASSUME NEW p \in Seq(Int)
      PROVE  A(p) = B(p)
  <2>1. CASE Indexed(t, Head(p))
    <3>1. f[Part(t, Head(p))] = h[Part(t, Head(p))]
      BY <2>1, PartIs
    <3> QED
      BY <3>1, Zenon
  <2>2. CASE ~ Indexed(t, Head(p))
    BY <2>2, Zenon
  <2> QED
    BY <2>1, <2>2, Zenon
<1>2. PathOffsetOf(f, t) = [p \in Seq(Int) |-> A(p)] /\ PathOffsetOf(h, t) = [p \in Seq(Int) |-> B(p)]
  BY Zenon DEF PathOffsetOf
<1> HIDE DEF A, B
<1> QED
  BY <1>1, <1>2

LEMMA PathsOfTypes == \A t \in Type : leafPaths[t] = PathsOf(leafPaths, t)
<1> DEFINE n == Len(Ty)
           G(k) == \E f : f = [t \in 1 .. k |-> PathsOf(f, t)]
           S == {k \in 0 .. n : G(k)}
<1>1. n \in Nat /\ Type = 1 .. n
  BY TypeIs
<1> HIDE DEF n
<1>2. 0 \in S
  <2> DEFINE f == [t \in 1 .. 0 |-> 0]
  <2>1. f = [t \in 1 .. 0 |-> PathsOf(f, t)]
    OBVIOUS
  <2> HIDE DEF f
  <2>2. G(0)
    BY <2>1, Zenon
  <2> HIDE DEF G
  <2> QED
    BY <1>1, <2>2
<1>3. ASSUME NEW k \in 0 .. n - 1, k \in S
      PROVE  k + 1 \in S
  <2>0. G(k)
    <3> HIDE DEF G
    <3> QED
      BY <1>3
  <2>1. PICK f : f = [t \in 1 .. k |-> PathsOf(f, t)]
    BY <2>0
  <2> DEFINE h == [t \in 1 .. k + 1 |-> PathsOf(f, t)]
  <2>2. \A t \in 1 .. k : h[t] = f[t]
    <3>1. \A t \in 1 .. k : f[t] = PathsOf(f, t)
      BY <2>1
    <3> QED
      BY <3>1
  <2>3. \A t \in 1 .. k + 1 : h[t] = PathsOf(f, t)
    OBVIOUS
  <2>4. h = [t \in 1 .. k + 1 |-> h[t]]
    OBVIOUS
  <2> HIDE DEF h
  <2>5. \A t \in 1 .. k + 1 : PathsOf(f, t) = PathsOf(h, t)
    <3> TAKE t \in 1 .. k + 1
    <3>1. t \in Type /\ \A u \in 1 .. t - 1 : f[u] = h[u]
      BY <1>1, <2>2
    <3> QED
      BY <3>1, PathsOfSame
  <2>6. h = [t \in 1 .. k + 1 |-> PathsOf(h, t)]
    BY <2>3, <2>4, <2>5
  <2>7. G(k + 1)
    BY <2>6, Zenon
  <2> HIDE DEF G
  <2> QED
    BY <1>1, <2>7
<1> HIDE DEF G, S
<1>4. n \in S
  <2>1. 0 .. n \subseteq S
    BY <1>1, <1>2, <1>3, BoundedInduction
  <2> QED
    BY <1>1, <2>1
<1>5. PICK f : f = [t \in Type |-> PathsOf(f, t)]
  <2>1. G(n)
    BY <1>4 DEF S
  <2> QED
    BY <1>1, <2>1 DEF G
<1>6. leafPaths = [t \in Type |-> PathsOf(leafPaths, t)]
  BY <1>5, Zenon DEF leafPaths, PathsOf
<1> QED
  BY <1>6

LEMMA TypeAtOfTypes == \A t \in Type : typeAt[t] = TypeAtOf(typeAt, t)
<1> DEFINE n == Len(Ty)
           G(k) == \E f : f = [t \in 1 .. k |-> TypeAtOf(f, t)]
           S == {k \in 0 .. n : G(k)}
<1>1. n \in Nat /\ Type = 1 .. n
  BY TypeIs
<1> HIDE DEF n
<1>2. 0 \in S
  <2> DEFINE f == [t \in 1 .. 0 |-> 0]
  <2>1. f = [t \in 1 .. 0 |-> TypeAtOf(f, t)]
    OBVIOUS
  <2> HIDE DEF f
  <2>2. G(0)
    BY <2>1, Zenon
  <2> HIDE DEF G
  <2> QED
    BY <1>1, <2>2
<1>3. ASSUME NEW k \in 0 .. n - 1, k \in S
      PROVE  k + 1 \in S
  <2>0. G(k)
    <3> HIDE DEF G
    <3> QED
      BY <1>3
  <2>1. PICK f : f = [t \in 1 .. k |-> TypeAtOf(f, t)]
    BY <2>0
  <2> DEFINE h == [t \in 1 .. k + 1 |-> TypeAtOf(f, t)]
  <2>2. \A t \in 1 .. k : h[t] = f[t]
    <3>1. \A t \in 1 .. k : f[t] = TypeAtOf(f, t)
      BY <2>1
    <3> QED
      BY <3>1
  <2>3. \A t \in 1 .. k + 1 : h[t] = TypeAtOf(f, t)
    OBVIOUS
  <2>4. h = [t \in 1 .. k + 1 |-> h[t]]
    OBVIOUS
  <2> HIDE DEF h
  <2>5. \A t \in 1 .. k + 1 : TypeAtOf(f, t) = TypeAtOf(h, t)
    <3> TAKE t \in 1 .. k + 1
    <3>1. t \in Type /\ \A u \in 1 .. t - 1 : f[u] = h[u]
      BY <1>1, <2>2
    <3> QED
      BY <3>1, TypeAtOfSame
  <2>6. h = [t \in 1 .. k + 1 |-> TypeAtOf(h, t)]
    BY <2>3, <2>4, <2>5
  <2>7. G(k + 1)
    BY <2>6, Zenon
  <2> HIDE DEF G
  <2> QED
    BY <1>1, <2>7
<1> HIDE DEF G, S
<1>4. n \in S
  <2>1. 0 .. n \subseteq S
    BY <1>1, <1>2, <1>3, BoundedInduction
  <2> QED
    BY <1>1, <2>1
<1>5. PICK f : f = [t \in Type |-> TypeAtOf(f, t)]
  <2>1. G(n)
    BY <1>4 DEF S
  <2> QED
    BY <1>1, <2>1 DEF G
<1>6. typeAt = [t \in Type |-> TypeAtOf(typeAt, t)]
  BY <1>5, Zenon DEF typeAt, TypeAtOf
<1> QED
  BY <1>6

LEMMA PathOffsetOfTypes == \A t \in Type : pathOffset[t] = PathOffsetOf(pathOffset, t)
<1> DEFINE n == Len(Ty)
           G(k) == \E f : f = [t \in 1 .. k |-> PathOffsetOf(f, t)]
           S == {k \in 0 .. n : G(k)}
<1>1. n \in Nat /\ Type = 1 .. n
  BY TypeIs
<1> HIDE DEF n
<1>2. 0 \in S
  <2> DEFINE f == [t \in 1 .. 0 |-> 0]
  <2>1. f = [t \in 1 .. 0 |-> PathOffsetOf(f, t)]
    OBVIOUS
  <2> HIDE DEF f
  <2>2. G(0)
    BY <2>1, Zenon
  <2> HIDE DEF G
  <2> QED
    BY <1>1, <2>2
<1>3. ASSUME NEW k \in 0 .. n - 1, k \in S
      PROVE  k + 1 \in S
  <2>0. G(k)
    <3> HIDE DEF G
    <3> QED
      BY <1>3
  <2>1. PICK f : f = [t \in 1 .. k |-> PathOffsetOf(f, t)]
    BY <2>0
  <2> DEFINE h == [t \in 1 .. k + 1 |-> PathOffsetOf(f, t)]
  <2>2. \A t \in 1 .. k : h[t] = f[t]
    <3>1. \A t \in 1 .. k : f[t] = PathOffsetOf(f, t)
      BY <2>1
    <3> QED
      BY <3>1
  <2>3. \A t \in 1 .. k + 1 : h[t] = PathOffsetOf(f, t)
    OBVIOUS
  <2>4. h = [t \in 1 .. k + 1 |-> h[t]]
    OBVIOUS
  <2> HIDE DEF h
  <2>5. \A t \in 1 .. k + 1 : PathOffsetOf(f, t) = PathOffsetOf(h, t)
    <3> TAKE t \in 1 .. k + 1
    <3>1. t \in Type /\ \A u \in 1 .. t - 1 : f[u] = h[u]
      BY <1>1, <2>2
    <3> QED
      BY <3>1, PathOffsetOfSame
  <2>6. h = [t \in 1 .. k + 1 |-> PathOffsetOf(h, t)]
    BY <2>3, <2>4, <2>5
  <2>7. G(k + 1)
    BY <2>6, Zenon
  <2> HIDE DEF G
  <2> QED
    BY <1>1, <2>7
<1> HIDE DEF G, S
<1>4. n \in S
  <2>1. 0 .. n \subseteq S
    BY <1>1, <1>2, <1>3, BoundedInduction
  <2> QED
    BY <1>1, <2>1
<1>5. PICK f : f = [t \in Type |-> PathOffsetOf(f, t)]
  <2>1. G(n)
    BY <1>4 DEF S
  <2> QED
    BY <1>1, <2>1 DEF G
<1>6. pathOffset = [t \in Type |-> PathOffsetOf(pathOffset, t)]
  BY <1>5, Zenon DEF pathOffset, PathOffsetOf
<1> QED
  BY <1>6

-----------------------------------------------------------------------------
(* No part that the path goes through is packed.                           *)
Along(t, p) == \A n \in 0 .. Len(p) - 1 : NotPacked(typeAt[t][SubSeq(p, 1, n)])

LEMMA PathCons ==
  ASSUME NEW i \in Int, NEW p \in Seq(Int)
  PROVE  /\ <<i>> \o p \in Seq(Int) /\ <<i>> \o p # <<>>
         /\ Head(<<i>> \o p) = i /\ Tail(<<i>> \o p) = p
         /\ Len(<<i>> \o p) = Len(p) + 1
<1> DEFINE q == <<i>> \o p
<1>1. q \in Seq(Int) /\ Len(q) = Len(p) + 1 /\ Len(p) \in Nat
  OBVIOUS
<1>2. q[1] = i /\ \A j \in 1 .. Len(p) : q[j + 1] = p[j]
  OBVIOUS
<1> HIDE DEF q
<1>3. q # <<>> /\ Head(q) = i
  BY <1>1, <1>2
<1>4. Tail(q) = p
  <2> DEFINE r == Tail(q)  k == Len(p)
  <2>1. r \in Seq(Int) /\ Len(r) = k /\ \A j \in 1 .. k : r[j] = p[j]
    BY <1>1, <1>2, <1>3
  <2>0. p \in Seq(Int) /\ Len(p) = k /\ k \in Nat
    BY <1>1
  <2> HIDE DEF r, k
  <2>2. r = p
    <3>1. DOMAIN r = 1 .. k /\ DOMAIN p = 1 .. k
      BY <2>1, <2>0
    <3>2. r = [j \in 1 .. k |-> r[j]] /\ p = [j \in 1 .. k |-> p[j]]
      BY <2>1, <2>0, <3>1
    <3> QED
      BY <2>1, <3>2
  <2> QED
    BY <2>2 DEF r
<1> QED
  BY <1>1, <1>3, <1>4 DEF q

LEMMA PathPrefix ==
  ASSUME NEW i \in Int, NEW p \in Seq(Int), NEW n \in 0 .. Len(p)
  PROVE  /\ SubSeq(p, 1, n) \in Seq(Int)
         /\ SubSeq(<<i>> \o p, 1, n + 1) = <<i>> \o SubSeq(p, 1, n)
<1> DEFINE q == <<i>> \o p  r == SubSeq(p, 1, n)  s == SubSeq(q, 1, n + 1)  c == <<i>> \o r
<1>1. q \in Seq(Int) /\ Len(q) = Len(p) + 1 /\ Len(p) \in Nat
  OBVIOUS
<1>2. q[1] = i /\ \A j \in 1 .. Len(p) : q[j + 1] = p[j]
  OBVIOUS
<1>3. r \in Seq(Int) /\ Len(r) = n /\ \A j \in 1 .. n : r[j] = p[j]
  OBVIOUS
<1> HIDE DEF q, r
<1>4. s \in Seq(Int) /\ Len(s) = n + 1 /\ \A j \in 1 .. n + 1 : s[j] = q[j]
  BY <1>1
<1>5. c \in Seq(Int) /\ Len(c) = n + 1 /\ c[1] = i /\ \A j \in 1 .. n : c[j + 1] = r[j]
  BY <1>3
<1> HIDE DEF s, c
<1>6. \A j \in 1 .. n + 1 : s[j] = c[j]
  <2> TAKE j \in 1 .. n + 1
  <2>1. CASE j = 1
    BY <1>2, <1>4, <1>5, <2>1
  <2>2. CASE j # 1
    <3> DEFINE k == j - 1
    <3>1. k \in 1 .. n /\ k \in 1 .. Len(p) /\ j = k + 1
      BY <1>1, <2>2
    <3> HIDE DEF k
    <3> QED
      BY <1>2, <1>3, <1>4, <1>5, <3>1
  <2> QED
    BY <2>1, <2>2
<1>7. s = c
  BY <1>4, <1>5, <1>6
<1> QED
  BY <1>3, <1>7 DEF q, r, s, c

LEMMA AtRoot ==
  ASSUME NEW t \in Type
  PROVE  typeAt[t][<<>>] = t /\ pathOffset[t][<<>>] = 0
<1>1. typeAt[t] = TypeAtOf(typeAt, t) /\ pathOffset[t] = PathOffsetOf(pathOffset, t)
  BY TypeAtOfTypes, PathOffsetOfTypes
<1>2. <<>> \in Seq(Int)
  OBVIOUS
<1>3. TypeAtOf(typeAt, t)[<<>>] = t
  BY <1>2, Zenon DEF TypeAtOf
<1>4. PathOffsetOf(pathOffset, t)[<<>>] = 0
  BY <1>2, Zenon DEF PathOffsetOf
<1> QED
  BY <1>1, <1>3, <1>4, Zenon

LEMMA AtPart ==
  ASSUME NEW t \in Type, NEW i \in Int, Indexed(t, i), NEW p \in Seq(Int)
  PROVE  /\ typeAt[t][<<i>> \o p] = typeAt[Part(t, i)][p]
         /\ pathOffset[t][<<i>> \o p] = PartOffset(t, i) + pathOffset[Part(t, i)][p]
<1> DEFINE q == <<i>> \o p
<1>1. typeAt[t] = TypeAtOf(typeAt, t) /\ pathOffset[t] = PathOffsetOf(pathOffset, t)
  BY TypeAtOfTypes, PathOffsetOfTypes
<1>2. q \in Seq(Int) /\ q # <<>> /\ Head(q) = i /\ Tail(q) = p
  BY PathCons
<1> HIDE DEF q
<1>3. TypeAtOf(typeAt, t)[q] =
        IF q = <<>> \/ ~ Indexed(t, Head(q)) THEN t
        ELSE typeAt[Part(t, Head(q))][Tail(q)]
  BY <1>2, Zenon DEF TypeAtOf
<1>4. PathOffsetOf(pathOffset, t)[q] =
        IF q = <<>> \/ ~ Indexed(t, Head(q)) THEN 0
        ELSE PartOffset(t, Head(q)) + pathOffset[Part(t, Head(q))][Tail(q)]
  BY <1>2, Zenon DEF PathOffsetOf
<1>5. TypeAtOf(typeAt, t)[q] = typeAt[Part(t, i)][p]
  BY <1>2, <1>3, Zenon
<1>6. PathOffsetOf(pathOffset, t)[q] = PartOffset(t, i) + pathOffset[Part(t, i)][p]
  BY <1>2, <1>4, Zenon
<1> QED
  BY <1>1, <1>5, <1>6, Zenon DEF q

LEMMA AlongPart ==
  ASSUME NEW t \in Type, NEW i \in Int, Indexed(t, i), NEW p \in Seq(Int),
         Along(t, <<i>> \o p)
  PROVE  NotPacked(t) /\ Along(Part(t, i), p)
<1> DEFINE q == <<i>> \o p  n == Len(p)
<1>1. Len(q) = n + 1 /\ n \in Nat /\ q \in Seq(Int)
  BY PathCons
<1>2. \A k \in 0 .. Len(q) - 1 : NotPacked(typeAt[t][SubSeq(q, 1, k)])
  BY DEF Along
<1>3. NotPacked(t)
  <2>1. SubSeq(q, 1, 0) = <<>>
    <3> HIDE DEF q
    <3> QED
      BY <1>1
  <2>2. 0 \in 0 .. Len(q) - 1
    BY <1>1
  <2>3. NotPacked(typeAt[t][SubSeq(q, 1, 0)])
    BY <1>2, <2>2, Zenon
  <2>4. NotPacked(typeAt[t][<<>>])
    BY <2>1, <2>3, Zenon
  <2> QED
    BY <2>4, AtRoot, Zenon
<1>4. ASSUME NEW k \in 0 .. n - 1
      PROVE  NotPacked(typeAt[Part(t, i)][SubSeq(p, 1, k)])
  <2> DEFINE r == SubSeq(p, 1, k)
  <2>1. k \in 0 .. Len(p) /\ k + 1 \in 0 .. Len(q) - 1
    BY <1>1
  <2>2. r \in Seq(Int) /\ SubSeq(q, 1, k + 1) = <<i>> \o r
    BY <2>1, PathPrefix, Zenon
  <2>3. NotPacked(typeAt[t][SubSeq(q, 1, k + 1)])
    BY <1>2, <2>1, Zenon
  <2> HIDE DEF r, q
  <2>4. typeAt[t][<<i>> \o r] = typeAt[Part(t, i)][r]
    BY <2>2, AtPart, Zenon
  <2>5. NotPacked(typeAt[Part(t, i)][r])
    BY <2>2, <2>3, <2>4, Zenon
  <2> QED
    BY <2>5 DEF r
<1>5. Along(Part(t, i), p)
  BY <1>4 DEF Along
<1> QED
  BY <1>3, <1>5

-----------------------------------------------------------------------------
(* A scalar lies at a multiple of its alignment from where its value does, *)
(* and the alignment of the value is no smaller.                           *)
InPlace(t, p) ==
  LET u == typeAt[t][p]
  IN /\ u \in Type /\ pathOffset[t][p] \in Nat
     /\ pathOffset[t][p] % typeLayout[u].align = 0
     /\ typeLayout[u].align <= typeLayout[t].align

LEMMA LeafOf ==
  ASSUME NEW t \in Type, ~ Scalar(t), NEW q \in leafPaths[t]
  PROVE  \E i : HasPart(t, i) /\ \E p \in leafPaths[Part(t, i)] : q = <<i>> \o p
<1>1. leafPaths[t] = PathsOf(leafPaths, t)
  BY PathsOfTypes
<1>2. q \in UNION {{<<i>> \o p : p \in leafPaths[Part(t, i)]} : i \in 0 .. PartCount(t) - 1}
  BY <1>1, Zenon DEF PathsOf
<1> QED
  BY <1>2, Zenon DEF HasPart

(* Offsets to add: what is aligned in a part is aligned in the whole.      *)
LEMMA OffsetsAdd ==
  ASSUME NEW a \in {1, 2, 4}, NEW b \in {1, 2, 4}, a <= b,
         NEW m \in Nat, m % b = 0, NEW n \in Nat, n % a = 0
  PROVE  m + n \in Nat /\ (m + n) % a = 0
  OBVIOUS

LEMMA LeavesInPlace ==
  \A t \in Type : \A p \in leafPaths[t] : p \in Seq(Int) /\ (Along(t, p) => InPlace(t, p))
<1> DEFINE G(t) == \A p \in leafPaths[t] : p \in Seq(Int) /\ (Along(t, p) => InPlace(t, p))
           S == {t \in Type : G(t)}
<1>1. ASSUME NEW t \in Type, 1 .. t - 1 \subseteq S
      PROVE  G(t)
  <2>1. \A u \in 1 .. t - 1 : u \in Type /\ G(u)
    <3> HIDE DEF G
    <3> QED
      BY <1>1
  <2>2. CASE Scalar(t)
    <3>1. leafPaths[t] = {<<>>}
      BY <2>2, PathsOfTypes, Zenon DEF PathsOf
    <3>2. typeAt[t][<<>>] = t /\ pathOffset[t][<<>>] = 0
      BY AtRoot
    <3> DEFINE a == typeLayout[t].align
    <3>3. a \in {1, 2, 4}
      BY LayoutsAre, AlignIs
    <3> HIDE DEF a
    <3>4. 0 \in Nat /\ 0 % a = 0 /\ a <= a
      BY <3>3
    <3>5. InPlace(t, <<>>)
      BY <3>2, <3>4, Zenon DEF InPlace, a
    <3>6. <<>> \in Seq(Int)
      OBVIOUS
    <3> QED
      BY <3>1, <3>5, <3>6, Zenon
  <2>3. CASE ~ Scalar(t)
    <3> SUFFICES ASSUME NEW q \in leafPaths[t]
                 PROVE  q \in Seq(Int) /\ (Along(t, q) => InPlace(t, q))
      OBVIOUS
    <3>1. PICK i : HasPart(t, i) /\ \E p \in leafPaths[Part(t, i)] : q = <<i>> \o p
      BY <2>3, LeafOf
    <3>2. PICK p \in leafPaths[Part(t, i)] : q = <<i>> \o p
      BY <3>1
    <3> DEFINE w == Part(t, i)
    <3>3. w \in 1 .. t - 1 /\ i \in Int /\ Indexed(t, i)
      BY <3>1, HasPartIs
    <3> HIDE DEF w
    <3>4. w \in Type /\ p \in Seq(Int) /\ (Along(w, p) => InPlace(w, p))
      BY <2>1, <3>3, Zenon DEF w
    <3>5. q \in Seq(Int)
      BY <3>2, <3>3, <3>4, PathCons, Zenon
    <3>6. ASSUME Along(t, q)
          PROVE  InPlace(t, q)
      <4>1. Along(t, <<i>> \o p)
        BY <3>2, <3>6, Zenon
      <4>2. NotPacked(t) /\ Along(w, p)
        BY <3>3, <3>4, <4>1, AlongPart, Zenon DEF w
      <4> DEFINE u == typeAt[w][p]  a == typeLayout[u].align  b == typeLayout[w].align
                 c == typeLayout[t].align  m == PartOffset(t, i)  n == pathOffset[w][p]
      <4>3. u \in Type /\ n \in Nat /\ n % a = 0 /\ a <= b
        BY <3>4, <4>2, Zenon DEF InPlace
      <4>4. m \in Nat /\ m % b = 0 /\ b <= c
        BY <3>1, <4>2, PartAligned, Zenon DEF w
      <4>5. typeAt[t][q] = u /\ pathOffset[t][q] = m + n
        BY <3>2, <3>3, <3>4, AtPart, Zenon DEF w
      <4> HIDE DEF u
      <4>6. a \in {1, 2, 4} /\ b \in {1, 2, 4} /\ c \in {1, 2, 4}
        BY <3>4, <4>3, LayoutsAre, AlignIs
      <4> HIDE DEF a, b, c, m, n
      <4>7. m + n \in Nat /\ (m + n) % a = 0
        BY <4>3, <4>4, <4>6, OffsetsAdd
      <4>8. a <= c
        BY <4>3, <4>4, <4>6
      <4> DEFINE x == m + n
      <4> HIDE DEF x
      <4>9. x \in Nat /\ x % a = 0 /\ pathOffset[t][q] = x
        BY <4>5, <4>7 DEF x
      <4> QED
        BY <4>3, <4>5, <4>8, <4>9, Zenon DEF InPlace, a, c
    <3> QED
      BY <3>5, <3>6
  <2> QED
    BY <2>2, <2>3
<1> HIDE DEF G
<1>2. \A t \in Type : (1 .. t - 1 \subseteq S) => t \in S
  BY <1>1
<1> HIDE DEF S
<1>3. Type \subseteq S
  BY <1>2, TypesInduction
<1>4. \A t \in Type : G(t)
  BY <1>3 DEF S
<1> QED
  BY <1>4 DEF G

-----------------------------------------------------------------------------
(***************************************************************************)
(* The layout of memory.  The invariant is that what was reserved ends     *)
(* where the free memory begins, on a word; nothing is reserved for a      *)
(* variable once the stacks are.                                           *)
(***************************************************************************)
(* The words reserved for v.                                               *)
Room(v) == Reserved(Size(VarType[v]))

Below(a) == \A v \in DOMAIN addr : addr[v] + Room(v) <= a

VariablesInv ==
  /\ alloc \in Nat /\ alloc % 4 = 0 /\ alloc >= 4
  /\ DOMAIN addr \subseteq Var
  /\ \A v \in DOMAIN addr : addr[v] \in Nat /\ addr[v] % 4 = 0 /\ addr[v] >= 4
  /\ \A v, w \in DOMAIN addr :
       v # w => addr[v] + Room(v) <= addr[w] \/ addr[w] + Room(w) <= addr[v]
  /\ Below(alloc)

StacksInv ==
  /\ order \in Seq(Var) /\ laid \in Nat
  /\ condstackptr \in Nat /\ main_return \in Nat /\ stackptr \in Nat
  /\ phase \in {"layout", "compile", "link", "relocate", "finish"} => stackptr = 0
  /\ stackptr # 0 => /\ Below(condstackptr)
                     /\ condstackptr + CondStackBytes <= main_return
                     /\ stackptr = main_return + 4

LayoutInv == VariablesInv /\ StacksInv

(* Reserving rounds up to words.                                           *)
LEMMA ReservedWords ==
  ASSUME NEW n \in Nat
  PROVE  Reserved(n) \in Nat /\ Reserved(n) % 4 = 0 /\ Reserved(n) >= n
<1>1. n % 4 \in 0 .. 3
  OBVIOUS
<1>2. (4 - (n % 4)) % 4 = IF n % 4 = 0 THEN 0 ELSE 4 - (n % 4)
  BY <1>1
<1> QED
  BY <1>1, <1>2 DEF Reserved, PadTo

LEMMA RoomWords ==
  ASSUME NEW v \in Var
  PROVE  Room(v) \in Nat /\ Room(v) % 4 = 0
<1>1. Size(VarType[v]) \in Nat
  BY VariablesAssumption, LayoutsAre, AlignIs DEF Size
<1> QED
  BY <1>1, ReservedWords DEF Room

LEMMA LayoutInitInv == Init => LayoutInv
<1> SUFFICES ASSUME Init PROVE LayoutInv
  OBVIOUS
<1> USE DEF Init, LayoutInit
<1>1. DOMAIN addr = {}
  OBVIOUS
<1>2. VariablesInv
  BY <1>1 DEF VariablesInv, Below
<1>3. StacksInv
  BY GlobalsAssumption DEF StacksInv
<1> QED
  BY <1>2, <1>3 DEF LayoutInv

(* Laying out a variable.                                                  *)
LEMMA LayOutInv == LayoutInv /\ LayOutVariable => LayoutInv'
<1> SUFFICES ASSUME LayoutInv, LayOutVariable PROVE LayoutInv'
  OBVIOUS
<1> DEFINE v == order[laid + 1]
<1>1. v \in Var
  BY DEF LayoutInv, StacksInv, LayOutVariable, LayOut
<1>2. Room(v) \in Nat /\ Room(v) % 4 = 0
  BY <1>1, RoomWords
<1>3. \A w \in DOMAIN addr : Room(w) \in Nat
  BY RoomWords DEF LayoutInv, VariablesInv
<1>4. /\ alloc' = alloc + Room(v)
      /\ addr' = [w \in DOMAIN addr \cup {v} |-> IF w = v THEN alloc ELSE addr[w]]
      /\ laid' = laid + 1
      /\ UNCHANGED <<order, condstackptr, main_return, stackptr>>
  BY DEF LayOutVariable, LayOut, Room
<1>5. VariablesInv'
  <2>1. alloc' \in Nat /\ alloc' % 4 = 0 /\ alloc' >= 4 /\ alloc' >= alloc
    BY <1>2, <1>4 DEF LayoutInv, VariablesInv
  <2>2. DOMAIN addr' = DOMAIN addr \cup {v}
    BY <1>4
  <2>3. addr'[v] = alloc
    BY <1>4
  <2>4. \A w \in DOMAIN addr' : w # v => w \in DOMAIN addr /\ addr'[w] = addr[w]
    BY <1>4, <2>2
  <2>5. DOMAIN addr' \subseteq Var
    BY <1>1, <2>2 DEF LayoutInv, VariablesInv
  <2>6. \A w \in DOMAIN addr' : addr'[w] \in Nat /\ addr'[w] % 4 = 0 /\ addr'[w] >= 4
    BY <2>3, <2>4 DEF LayoutInv, VariablesInv
  <2>7. Below(alloc)'
    BY <1>2, <1>3, <1>4, <2>1, <2>3, <2>4 DEF LayoutInv, VariablesInv, Below, Room
  <2>8. \A w \in DOMAIN addr' : w # v => addr'[w] + Room(w) <= addr'[v]
    BY <2>3, <2>4 DEF LayoutInv, VariablesInv, Below
  <2>9. \A w, x \in DOMAIN addr' :
          w # x => addr'[w] + Room(w) <= addr'[x] \/ addr'[x] + Room(x) <= addr'[w]
    BY <2>4, <2>8 DEF LayoutInv, VariablesInv
  <2> QED
    BY <2>1, <2>5, <2>6, <2>7, <2>9 DEF VariablesInv, Room
<1>6. StacksInv'
  BY <1>4 DEF LayoutInv, StacksInv, LayOutVariable
<1> QED
  BY <1>5, <1>6 DEF LayoutInv

(* The stacks come last.                                                   *)
LEMMA FinishInv == LayoutInv /\ Finish => LayoutInv'
<1> SUFFICES ASSUME LayoutInv, Finish PROVE LayoutInv'
  OBVIOUS
<1>1. /\ Reserved(4) = 4
      /\ Reserved(CondStackBytes) \in Nat /\ Reserved(CondStackBytes) % 4 = 0
      /\ Reserved(CondStackBytes) >= CondStackBytes
  BY GlobalsAssumption, ReservedWords DEF Reserved, PadTo
<1>2. /\ condstackptr' = alloc
      /\ main_return' = alloc + Reserved(CondStackBytes)
      /\ stackptr' = main_return' + 4
      /\ alloc' = stackptr' + 4
      /\ UNCHANGED <<order, laid, addr>>
  BY <1>1 DEF Finish, ReserveStacks
<1>3. alloc' \in Nat /\ alloc' % 4 = 0 /\ alloc' >= alloc
  BY <1>1, <1>2 DEF LayoutInv, VariablesInv
<1>4. \A w \in DOMAIN addr : Room(w) \in Nat
  BY RoomWords DEF LayoutInv, VariablesInv
<1>5. VariablesInv'
  BY <1>2, <1>3, <1>4 DEF LayoutInv, VariablesInv, Below, Room
<1>6. StacksInv'
  <2>1. phase' = "ready"
    BY DEF Finish
  <2>2. /\ condstackptr' \in Nat /\ main_return' \in Nat /\ stackptr' \in Nat
        /\ condstackptr' + CondStackBytes <= main_return'
    BY <1>1, <1>2, GlobalsAssumption DEF LayoutInv, VariablesInv
  <2>3. Below(condstackptr)'
    BY <1>2 DEF LayoutInv, VariablesInv, Below, Room
  <2> QED
    BY <1>2, <2>1, <2>2, <2>3 DEF LayoutInv, StacksInv
<1> QED
  BY <1>5, <1>6 DEF LayoutInv

(* The other actions leave the layout alone, and none goes back to it.     *)
LEMMA OthersInv ==
  ASSUME LayoutInv, UNCHANGED layout,
         phase' \in {"layout", "compile", "link", "relocate", "finish"} =>
           phase \in {"layout", "compile", "link", "relocate", "finish"}
  PROVE  LayoutInv'
<1>1. VariablesInv'
  BY DEF LayoutInv, VariablesInv, Below, Room, layout
<1>2. StacksInv'
  BY DEF LayoutInv, StacksInv, Below, Room, layout
<1> QED
  BY <1>1, <1>2 DEF LayoutInv

LEMMA LayoutStepInv == LayoutInv /\ [Next]_vars => LayoutInv'
<1> SUFFICES ASSUME LayoutInv, [Next]_vars PROVE LayoutInv'
  OBVIOUS
<1>1. CASE LayOutVariable
  BY <1>1, LayOutInv
<1>2. CASE CompileNext
  BY <1>2, OthersInv DEF CompileNext
<1>3. CASE Link
  BY <1>3, OthersInv DEF Link
<1>4. CASE Relocate
  BY <1>4, OthersInv DEF Relocate
<1>5. CASE Finish
  BY <1>5, FinishInv
<1>6. CASE Start
  <2>1. UNCHANGED layout /\ phase' = "started"
    BY <1>6 DEF Start
  <2> QED
    BY <2>1, OthersInv
<1>7. CASE RunFunction
  <2>1. UNCHANGED layout /\ UNCHANGED phase
    BY <1>7 DEF RunFunction, compiler
  <2> QED
    BY <2>1, OthersInv
<1>8. CASE UNCHANGED vars
  <2>1. UNCHANGED layout /\ UNCHANGED phase
    BY <1>8 DEF vars, compiler
  <2> QED
    BY <2>1, OthersInv
<1> QED
  BY <1>1, <1>2, <1>3, <1>4, <1>5, <1>6, <1>7, <1>8 DEF Next

LEMMA LayoutInvApart == LayoutInv => GlobalsApart
<1> SUFFICES ASSUME LayoutInv PROVE GlobalsApart
  OBVIOUS
<1>1. \A v \in DOMAIN addr :
        addr[v] \in Nat /\ Room(v) \in Nat /\ Extent(v) = addr[v] .. addr[v] + Room(v) - 1
  BY RoomWords DEF LayoutInv, VariablesInv, Extent, Room
<1>2. \A v, w \in DOMAIN addr : v # w => Extent(v) \cap Extent(w) = {}
  <2> SUFFICES ASSUME NEW v \in DOMAIN addr, NEW w \in DOMAIN addr, v # w,
                      NEW a \in Extent(v) \cap Extent(w)
               PROVE  FALSE
    OBVIOUS
  <2> QED
    BY <1>1 DEF LayoutInv, VariablesInv
<1>3. \A v \in DOMAIN addr : \A a \in Extent(v) : a < alloc
  BY <1>1 DEF LayoutInv, VariablesInv, Below
<1>4. stackptr # 0 => \A v \in DOMAIN addr : \A a \in Extent(v) : a < condstackptr
  BY <1>1 DEF LayoutInv, StacksInv, Below
<1> QED
  BY <1>2, <1>3, <1>4 DEF GlobalsApart, LayoutInv, VariablesInv, StacksInv

(* Whatever the variables of a module are and in which order they come, no *)
(* two share a word, none is at the null address, and the stacks of the    *)
(* program come after them.                                                *)
THEOREM VariablesApart == Spec => []GlobalsApart
<1>1. Init => LayoutInv
  BY LayoutInitInv
<1>2. LayoutInv /\ [Next]_vars => LayoutInv'
  BY LayoutStepInv
<1>3. LayoutInv => GlobalsApart
  BY LayoutInvApart
<1> QED
  BY <1>1, <1>2, <1>3, PTL DEF Spec

LEMMA LayoutInvAligned == LayoutInv => LeavesAligned
<1> SUFFICES ASSUME LayoutInv, NEW l \in Leaf, l[1] \in DOMAIN addr, Unpacked(l)
             PROVE  AddressOf(l) % typeLayout[TypeOf(l)].align = 0
  BY Zenon DEF LeavesAligned
<1>1. PICK v \in Var : l \in {<<v, p>> : p \in leafPaths[VarType[v]]}
  BY Zenon DEF Leaf
<1>2. PICK p \in leafPaths[VarType[v]] : l = <<v, p>>
  BY <1>1
<1>3. l[1] = v /\ l[2] = p
  BY <1>2
<1> DEFINE t == VarType[v]
<1>4. t \in Type
  BY VariablesAssumption
<1>5. Along(t, p)
  BY <1>3, Zenon DEF Unpacked, Along, NotPacked
<1>6. InPlace(t, p)
  BY <1>4, <1>5, LeavesInPlace, Zenon
<1> DEFINE u == typeAt[t][p]  n == pathOffset[t][p]  a == typeLayout[u].align  m == addr[v]
<1>7. u \in Type /\ n \in Nat /\ n % a = 0
  BY <1>6, Zenon DEF InPlace
<1>8. TypeOf(l) = u /\ AddressOf(l) = m + n
  BY <1>3, Zenon DEF TypeOf, AddressOf
<1>9. m \in Nat /\ m % 4 = 0
  BY <1>3 DEF LayoutInv, VariablesInv
<1> HIDE DEF u
<1>10. a \in {1, 2, 4}
  BY <1>7, LayoutsAre, AlignIs
<1> HIDE DEF a, m, n
<1> DEFINE b == 4
<1>11. b \in {1, 2, 4} /\ a <= b /\ m % b = 0
  BY <1>9, <1>10
<1> HIDE DEF b
<1>12. (m + n) % a = 0
  BY <1>7, <1>9, <1>10, <1>11, OffsetsAdd
<1> QED
  BY <1>8, <1>12, Zenon DEF a

(* Every scalar of every variable that is in no packed struct lies at a    *)
(* multiple of its own alignment, at the end of a path however long.       *)
THEOREM ScalarsAligned == Spec => []LeavesAligned
<1>1. Init => LayoutInv
  BY LayoutInitInv
<1>2. LayoutInv /\ [Next]_vars => LayoutInv'
  BY LayoutStepInv
<1>3. LayoutInv => LeavesAligned
  BY LayoutInvAligned
<1> QED
  BY <1>1, <1>2, <1>3, PTL DEF Spec

-----------------------------------------------------------------------------
(***************************************************************************)
(* The list of generated functions.  The invariant follows it through the  *)
(* compilation: what compile_function leaves (parts of blocks, cut behind  *)
(* calls), what reify_block makes of them (commands), and what the fixups  *)
(* put for the names that were pushed.                                     *)
(***************************************************************************)
PlainOps == {"input", "assign", "add", "read", "write", "param", "fetch", "phi", "ended"}
EndOps   == {"prolog", "test", "edge", "pointer", "call", "result", "load_regs",
             "return", "stop"}
AllOps   == PlainOps \cup EndOps \cup {"push"}

HasOp(c, ops) == "op" \in DOMAIN c /\ c.op \in ops

(* The blocks that an id can have.                                         *)
BlockIds    == {Zero} \cup {NormBlock(b) : b \in UNION {Names(f) : f \in Fn}}
IsId(id)    == id = <<id[1], id[2], id[3]>> /\ id[2] \in BlockIds /\ id[3] \in Nat
Known(s, id) == \E i \in DOMAIN s : s[i].id = id
EndsWithCall(p) == p.term.op \in {"static", "dyn"}

(* A part of a block of f: it may push its own name, and does so before a  *)
(* call.                                                                   *)
PartCommand(p, c) ==
  \/ HasOp(c, PlainOps)
  \/ c = Push(text(p.id)) /\ EndsWithCall(p)

PartTerm(f, t) ==
  \/ WellFormedTerm(f, t)
  \/ t.op = "static" /\ t.f \in Fn
  \/ t.op = "dyn"

IsPart(f, p) ==
  /\ p.parent = f /\ IsId(p.id) /\ p.id[1] = Norm[f]
  /\ IsSequence(p.cmds) /\ \A i \in DOMAIN p.cmds : PartCommand(p, p.cmds[i])
  /\ PartTerm(f, p.term)

Distinct(s) == \A i, j \in DOMAIN s : s[i].id = s[j].id => i = j

(* The parts of all blocks of f.                                           *)
AreParts(f, s) ==
  /\ IsSequence(s) /\ s # <<>>
  /\ \A i \in DOMAIN s : IsPart(f, s[i])
  /\ Distinct(s)
  /\ \A i \in DOMAIN s : EndsWithCall(s[i]) => Known(s, ReturnTo(s[i].id))
  /\ \A b \in Names(f) : Known(s, Id(f, b, 0))

(* The parts of the functions that have a start in st.                     *)
Compiled(s, st) ==
  /\ IsSequence(s)
  /\ \A i \in DOMAIN s : s[i].parent \in DOMAIN st /\ IsPart(s[i].parent, s[i])
  /\ Distinct(s)
  /\ \A i \in DOMAIN s : EndsWithCall(s[i]) => Known(s, ReturnTo(s[i].id))
  /\ \A f \in DOMAIN st : \A b \in Names(f) : Known(s, Id(f, b, 0))
  /\ \A f \in DOMAIN st : Known(s, st[f])

CompileInv ==
  phase \in {"layout", "compile", "link"} =>
    /\ compiled \in 0 .. Len(FnOrder)
    /\ phase # "link" => compiled < Len(FnOrder)
    /\ phase = "link" => compiled = Len(FnOrder)
    /\ IsSequence(heads) /\ IsSequence(tails)
    /\ DOMAIN starts = {FnOrder[i] : i \in 1 .. compiled}
    /\ Compiled(heads \o tails, starts)
    /\ list = <<>> /\ table = <<>>

(* Every edge goes to a function, a return comes last.                     *)
Leads(s, c) ==
  c.op = "edge" => "what" \notin DOMAIN c /\ \E i \in DOMAIN s : Text(s[i].id) = c.to

IsCommand(s, cmds, j) ==
  /\ HasOp(cmds[j], AllOps) /\ Leads(s, cmds[j])
  /\ cmds[j].op = "return" => j = Len(cmds)

AreFunctions(s) ==
  /\ IsSequence(s) /\ Distinct(s)
  /\ \A i \in DOMAIN s : /\ DOMAIN s[i] = {"id", "cmds"}
                          /\ IsId(s[i].id) /\ IsSequence(s[i].cmds)
  /\ \A i \in DOMAIN s : \A j \in DOMAIN s[i].cmds : IsCommand(s, s[i].cmds, j)

NamesToCome == {"init", "__langcraft_on_tick", ""}

Unused(s, names) == \A i \in DOMAIN s : s[i].id[1] \notin names

(* A push before the fixups and after them.                                *)
PushesName(s) ==
  \A i \in DOMAIN s : \A j \in DOMAIN s[i].cmds :
    s[i].cmds[j].op = "push" =>
      s[i].cmds[j] = Push(text(s[i].id)) /\ Known(s, ReturnTo(s[i].id))

ReturnPlace(s, n) == n + 1 \in DOMAIN s /\ s[n + 1].id[3] > 0

PushesPlace(s) ==
  \A i \in DOMAIN s : \A j \in DOMAIN s[i].cmds :
    s[i].cmds[j].op = "push" =>
      s[i].cmds[j].what.op = "lit" /\ ReturnPlace(s, s[i].cmds[j].what.n)

ListInv ==
  phase \in {"relocate", "finish", "ready", "started"} =>
    /\ AreFunctions(list)
    /\ DOMAIN starts = Fn /\ \A f \in Fn : Known(list, starts[f])
    /\ phase = "relocate" => PushesName(list) /\ Unused(list, RuntimeNames)
    /\ phase = "finish" => Unused(list, NamesToCome)
    /\ phase # "relocate" =>
         /\ PushesPlace(list)
         /\ IsSequence(table)
         /\ \A i \in DOMAIN table : i \in DOMAIN list /\ table[i] = list[i].id
         /\ \A f \in Fn : /\ fnAddr[f] + 1 \in DOMAIN list
                          /\ list[fnAddr[f] + 1].id = starts[f]

(* The return addresses, that of main first; once it was popped, the       *)
(* program stops.                                                          *)
AreReturns(s) ==
  /\ IsSequence(s)
  /\ \A i \in DOMAIN s : IF i = 1 THEN s[i] = -1 ELSE ReturnPlace(list, s[i])

IsNext(n) == n = NoFunction \/ \E i \in DOMAIN list : Text(list[i].id) = n

RunInv ==
  /\ DOMAIN mem = 0 .. MemBytes - 1
  /\ IsNext(next) /\ AreReturns(rets)
  /\ next # NoFunction => rets # <<>>
  /\ phase # "started" => next = NoFunction /\ rets = <<>>

PhaseInv ==
  /\ phase \in {"layout", "compile", "link", "relocate", "finish", "ready", "started"}
  /\ phase \in {"ready", "started"} => stackptr # 0

ListsInv == PhaseInv /\ CompileInv /\ ListInv

-----------------------------------------------------------------------------
(* Sequences of anything.                                                  *)
LEMMA SeqIs ==
  ASSUME NEW s, IsSequence(s)
  PROVE  /\ Len(s) \in Nat /\ DOMAIN s = 1 .. Len(s)
         /\ s = [i \in 1 .. Len(s) |-> s[i]]
  BY DEF IsSequence

LEMMA SeqMade ==
  ASSUME NEW n \in Nat, NEW s, s = [i \in 1 .. n |-> s[i]]
  PROVE  IsSequence(s) /\ Len(s) = n
<1>1. DOMAIN s = 1 .. n
  OBVIOUS
<1>2. \A i \in 1 .. n : s[i] \in ToSet(s)
  BY <1>1 DEF ToSet
<1>3. s \in [1 .. n -> ToSet(s)]
  BY <1>2
<1>4. s \in Seq(ToSet(s))
  BY <1>3
<1> QED
  BY <1>3, <1>4 DEF IsSequence

LEMMA SeqGiven ==
  ASSUME NEW S, NEW s \in Seq(S)
  PROVE  IsSequence(s)
<1>1. Len(s) \in Nat /\ s \in [1 .. Len(s) -> S]
  OBVIOUS
<1>2. s = [i \in 1 .. Len(s) |-> s[i]]
  BY <1>1
<1> QED
  BY <1>1, <1>2, SeqMade

LEMMA NoneSeq == IsSequence(<<>>) /\ Len(<<>>) = 0
  BY DEF IsSequence

LEMMA OneSeq ==
  ASSUME NEW x
  PROVE  IsSequence(<<x>>) /\ Len(<<x>>) = 1 /\ <<x>>[1] = x
<1>1. ToSet(<<x>>) = {x}
  BY DEF ToSet
<1> QED
  BY <1>1 DEF IsSequence

LEMMA ConcatSeq ==
  ASSUME NEW s, NEW t, IsSequence(s), IsSequence(t)
  PROVE  /\ IsSequence(s \o t) /\ Len(s \o t) = Len(s) + Len(t)
         /\ DOMAIN (s \o t) = 1 .. Len(s) + Len(t)
         /\ \A i \in 1 .. Len(s) : (s \o t)[i] = s[i]
         /\ \A i \in 1 .. Len(t) : (s \o t)[Len(s) + i] = t[i]
<1> DEFINE S == ToSet(s) \cup ToSet(t)
<1>1. s \in Seq(S) /\ t \in Seq(S)
  BY DEF IsSequence
<1> HIDE DEF S
<1>2. /\ s \o t \in Seq(S) /\ Len(s \o t) = Len(s) + Len(t)
      /\ Len(s) \in Nat /\ Len(t) \in Nat
      /\ \A i \in 1 .. Len(s) : (s \o t)[i] = s[i]
      /\ \A i \in 1 .. Len(t) : (s \o t)[Len(s) + i] = t[i]
  BY <1>1
<1>3. \A u \in Seq(S) : IsSequence(u) /\ DOMAIN u = 1 .. Len(u)
  BY SeqGiven
<1> QED
  BY <1>2, <1>3

LEMMA AppendSeq ==
  ASSUME NEW s, NEW x, IsSequence(s)
  PROVE  /\ IsSequence(Append(s, x)) /\ Len(Append(s, x)) = Len(s) + 1
         /\ DOMAIN Append(s, x) = 1 .. Len(s) + 1
         /\ \A i \in 1 .. Len(s) : Append(s, x)[i] = s[i]
         /\ Append(s, x)[Len(s) + 1] = x
<1> DEFINE S == ToSet(s) \cup {x}
<1>1. s \in Seq(S) /\ x \in S
  BY DEF IsSequence
<1> HIDE DEF S
<1>2. /\ Append(s, x) \in Seq(S) /\ Len(Append(s, x)) = Len(s) + 1 /\ Len(s) \in Nat
      /\ \A i \in 1 .. Len(s) : Append(s, x)[i] = s[i]
      /\ Append(s, x)[Len(s) + 1] = x
  BY <1>1
<1>3. \A u \in Seq(S) : IsSequence(u) /\ DOMAIN u = 1 .. Len(u)
  BY SeqGiven
<1> QED
  BY <1>2, <1>3

(* All elements of s, and all of t.                                        *)
LEMMA ConcatElements ==
  ASSUME NEW s, NEW t, IsSequence(s), IsSequence(t), NEW i \in DOMAIN (s \o t)
  PROVE  \/ i \in DOMAIN s /\ (s \o t)[i] = s[i]
         \/ i - Len(s) \in DOMAIN t /\ (s \o t)[i] = t[i - Len(s)]
<1>1. /\ DOMAIN (s \o t) = 1 .. Len(s) + Len(t)
      /\ \A j \in 1 .. Len(s) : (s \o t)[j] = s[j]
      /\ \A j \in 1 .. Len(t) : (s \o t)[Len(s) + j] = t[j]
  BY ConcatSeq
<1>2. Len(s) \in Nat /\ DOMAIN s = 1 .. Len(s) /\ Len(t) \in Nat /\ DOMAIN t = 1 .. Len(t)
  BY SeqIs
<1>3. CASE i <= Len(s)
  BY <1>1, <1>2, <1>3
<1>4. CASE i > Len(s)
  <2> DEFINE j == i - Len(s)
  <2>1. j \in 1 .. Len(t) /\ Len(s) + j = i
    BY <1>1, <1>2, <1>4
  <2>2. (s \o t)[Len(s) + j] = t[j]
    BY <1>1, <2>1
  <2> QED
    BY <1>2, <2>1, <2>2
<1> QED
  BY <1>1, <1>2, <1>3, <1>4

LEMMA ConcatHas ==
  ASSUME NEW s, NEW t, IsSequence(s), IsSequence(t)
  PROVE  /\ \A i \in DOMAIN s : i \in DOMAIN (s \o t) /\ (s \o t)[i] = s[i]
         /\ \A i \in DOMAIN t : Len(s) + i \in DOMAIN (s \o t)
                                /\ (s \o t)[Len(s) + i] = t[i]
<1>1. /\ DOMAIN (s \o t) = 1 .. Len(s) + Len(t)
      /\ \A j \in 1 .. Len(s) : (s \o t)[j] = s[j]
      /\ \A j \in 1 .. Len(t) : (s \o t)[Len(s) + j] = t[j]
  BY ConcatSeq
<1>2. Len(s) \in Nat /\ DOMAIN s = 1 .. Len(s) /\ Len(t) \in Nat /\ DOMAIN t = 1 .. Len(t)
  BY SeqIs
<1> QED
  BY <1>1, <1>2

-----------------------------------------------------------------------------
(* Names.                                                                  *)
LEMMA Zeros == Zero[2] = "0" /\ Read("0") = Zero
<1>1. \A t : number(t)[2] = t
  BY DEF number
<1>2. Read("0") = number("0")
  BY NumeralsAssumption, Zenon DEF Read
<1> QED
  BY <1>1, <1>2, Zenon DEF Zero

(* FromStr finds the block of a name again.                                *)
LEMMA BlockReads ==
  ASSUME NamesApart, NEW n \in BlockIds
  PROVE  Read(n[2]) = n
<1>1. CASE n = Zero
  BY <1>1, Zeros
<1>2. CASE n # Zero
  <2>1. PICK b \in UNION {Names(f) : f \in Fn} : n = NormBlock(b)
    BY <1>2 DEF BlockIds
  <2>2. PICK f \in Fn : b \in Names(f)
    BY <2>1
  <2> QED
    BY <2>1, <2>2 DEF NamesApart
<1> QED
  BY <1>1, <1>2

LEMMA Single == \A v, w : <<v>> # <<>> /\ <<v>>[1] = v /\ (<<v>> = <<w>> => v = w)
<1> SUFFICES ASSUME NEW v, NEW w
             PROVE  <<v>> # <<>> /\ <<v>>[1] = v /\ (<<v>> = <<w>> => v = w)
  OBVIOUS
<1>1. Len(<<v>>) = 1 /\ Len(<<>>) = 0 /\ <<v>>[1] = v /\ <<w>>[1] = w
  BY OneSeq, NoneSeq
<1> QED
  BY <1>1, Zenon

BlockText(id) == IF id[2] # Zero \/ id[3] # 0 THEN <<id[2][2]>> ELSE <<>>
SubText(id)   == IF id[3] # 0 THEN <<id[3]>> ELSE <<>>

LEMMA TextIs ==
  ASSUME NEW x
  PROVE  /\ Text(x)[1] = x[1] /\ Text(x)[2] = BlockText(x) /\ Text(x)[3] = SubText(x)
<1>1. Text(x) = <<x[1], BlockText(x), SubText(x)>>
  BY Zenon DEF Text, BlockText, SubText
<1> QED
  BY <1>1

(* Display gives different names to different ids.                         *)
LEMMA TextInjective ==
  ASSUME NamesApart, NEW x, NEW y, IsId(x), IsId(y), Text(x) = Text(y)
  PROVE  x = y
<1>1. x[1] = y[1] /\ BlockText(x) = BlockText(y) /\ SubText(x) = SubText(y)
  <2>1. /\ Text(x)[1] = x[1] /\ Text(x)[2] = BlockText(x) /\ Text(x)[3] = SubText(x)
        /\ Text(y)[1] = y[1] /\ Text(y)[2] = BlockText(y) /\ Text(y)[3] = SubText(y)
    BY TextIs
  <2> QED
    BY <2>1
<1>2. x[3] = y[3]
  BY <1>1, Single, Zenon DEF SubText
<1>3. Read(x[2][2]) = x[2] /\ Read(y[2][2]) = y[2]
  BY BlockReads DEF IsId
<1>4. x[2] = y[2]
  BY <1>1, <1>2, <1>3, Single, Zenon DEF BlockText
<1> QED
  BY <1>1, <1>2, <1>4, Zenon DEF IsId

(* FromStr is the inverse of Display.                                      *)
LEMMA ParseText ==
  ASSUME NamesApart, NEW x, IsId(x)
  PROVE  Parse(Text(x)) = x
<1> DEFINE block == IF BlockText(x) = <<>> THEN Zero ELSE Read(BlockText(x)[1])
           sub   == IF SubText(x) = <<>> THEN 0 ELSE SubText(x)[1]
<1>1. Parse(Text(x)) = <<x[1], block, sub>>
  BY TextIs, Zenon DEF Parse
<1>2. Read(x[2][2]) = x[2]
  BY BlockReads DEF IsId
<1>3. sub = x[3]
  BY Single, Zenon DEF SubText
<1>4. block = x[2]
  BY <1>2, Single, Zenon DEF BlockText
<1> QED
  BY <1>1, <1>3, <1>4, Zenon DEF IsId

LEMMA IdIs ==
  ASSUME NEW f \in Fn, NEW b \in Names(f), NEW k \in Nat
  PROVE  /\ IsId(Id(f, b, k)) /\ Id(f, b, k)[1] = Norm[f]
         /\ Id(f, b, k)[2] = NormBlock(b) /\ Id(f, b, k)[3] = k
         /\ ReturnTo(Id(f, b, k)) = Id(f, b, k + 1)
<1>1. NormBlock(b) \in BlockIds
  BY DEF BlockIds
<1> DEFINE n == NormBlock(b)
<1> HIDE DEF n
<1>2. n \in BlockIds
  BY <1>1 DEF n
<1>3. Id(f, b, k) = <<Norm[f], n, k>> /\ Id(f, b, k + 1) = <<Norm[f], n, k + 1>>
  BY DEF Id, n
<1> QED
  BY <1>2, <1>3 DEF IsId, ReturnTo, n

(* The place of a name that only one function has.                         *)
LEMMA PositionIs ==
  ASSUME NEW s, IsSequence(s), Distinct(s), NEW i \in DOMAIN s
  PROVE  Position(s, s[i].id) = i - 1
<1>1. i \in Nat
  BY SeqIs
<1>2. {j \in DOMAIN s : s[j].id = s[i].id} = {i}
  BY DEF Distinct
<1>3. Min({i}) = i
  BY <1>1 DEF Min
<1> QED
  BY <1>2, <1>3 DEF Position

-----------------------------------------------------------------------------
PhiStep(f, b, cmds, j) == cmds \o CompilePhi(f, b.phis[j])
BlockStep(f, bs, j)    == bs \o CompileBlock(f, j)

(* The commands of a function, one after the other.                        *)
After(m, s) == FoldLeft(Execute, m, s)

LEMMA ExecuteFold ==
  ASSUME NEW n \in Nat, NEW m, NEW s, DOMAIN s = 1 .. n
  PROVE  \E q : /\ q[0] = m
                /\ \A j \in 1 .. n : q[j] = Execute(q[j - 1], s[j])
                /\ After(m, s) = q[n]
<1> DEFINE a == m
           O(z, j) == Execute(z, s[j])
           E(r, t) == IF t = {} THEN a ELSE O(r[t \ {Max(t)}], Max(t))
           F == CHOOSE r : r = [t \in SUBSET (1 .. n) |-> E(r, t)]
           S == {k \in Nat : \E r : r = [t \in SUBSET (1 .. k) |-> E(r, t)]}
           q == [j \in 0 .. n |-> F[1 .. j]]
<1>1. After(m, s) = F[1 .. n]
  BY DEF After, FoldLeft, MapThenFoldSet
<1>2. \A j \in 1 .. n : O(q[j - 1], j) = Execute(q[j - 1], s[j])
  OBVIOUS
<1> HIDE DEF O, a
<1>3. 0 \in S
  <2> DEFINE r == [t \in SUBSET (1 .. 0) |-> a]
  <2>1. r = [t \in SUBSET (1 .. 0) |-> E(r, t)]
    BY \A t \in SUBSET (1 .. 0) : E(r, t) = a
  <2> QED
    BY <2>1
<1>4. ASSUME NEW k \in Nat, k \in S
      PROVE  k + 1 \in S
  <2>1. PICK r : r = [t \in SUBSET (1 .. k) |-> E(r, t)]
    BY <1>4
  <2> DEFINE h == [t \in SUBSET (1 .. k + 1) |->
                     IF k + 1 \in t THEN O(r[t \ {k + 1}], k + 1) ELSE r[t]]
  <2>2. \A t \in SUBSET (1 .. k) : r[t] = E(r, t)
    <3> HIDE DEF E
    <3> QED
      BY <2>1
  <2>3. \A t \in SUBSET (1 .. k) : h[t] = r[t]
    OBVIOUS
  <2>4. \A t \in SUBSET (1 .. k + 1) :
          k + 1 \in t => h[t] = O(r[t \ {k + 1}], k + 1)
    OBVIOUS
  <2>5. h = [t \in SUBSET (1 .. k + 1) |-> h[t]]
    OBVIOUS
  <2> HIDE DEF h
  <2>6. \A t \in SUBSET (1 .. k + 1) : h[t] = E(h, t)
    <3> TAKE t \in SUBSET (1 .. k + 1)
    <3>1. CASE k + 1 \in t
      BY <2>3, <2>4, <3>1, LastOf
    <3>2. CASE k + 1 \notin t
      BY <2>2, <2>3, <3>2, LastOf
    <3> QED
      BY <3>1, <3>2
  <2> HIDE DEF E
  <2>7. h = [t \in SUBSET (1 .. k + 1) |-> E(h, t)]
    BY <2>5, <2>6
  <2> QED
    BY <2>7
<1>5. F = [t \in SUBSET (1 .. n) |-> E(F, t)]
  <2> HIDE DEF S
  <2>1. \E r : r = [t \in SUBSET (1 .. n) |-> E(r, t)]
    BY <1>3, <1>4, Induction DEF S
  <2> HIDE DEF E
  <2> QED
    BY <2>1
<1> HIDE DEF F, S
<1>6. \A t \in SUBSET (1 .. n) : F[t] = E(F, t)
  <2> HIDE DEF E
  <2> QED
    BY <1>5
<1>7. \A j \in 0 .. n : q[j] = F[1 .. j]
  OBVIOUS
<1> HIDE DEF q
<1>8. q[0] = a
  <2>1. 1 .. 0 = {} /\ 1 .. 0 \in SUBSET (1 .. n) /\ 0 \in 0 .. n
    OBVIOUS
  <2> QED
    BY <1>6, <1>7, <2>1
<1>9. ASSUME NEW j \in 1 .. n
      PROVE  q[j] = O(q[j - 1], j)
  <2>1. /\ 1 .. j \in SUBSET (1 .. n) /\ 1 .. j # {}
        /\ Max(1 .. j) = j /\ (1 .. j) \ {j} = 1 .. j - 1
    BY PrefixLast
  <2>2. q[j] = F[1 .. j] /\ q[j - 1] = F[1 .. j - 1]
    BY <1>7
  <2> QED
    BY <1>6, <2>1, <2>2
<1>10. q[0] = m
  BY <1>8 DEF a
<1>11. \A j \in 1 .. n : q[j] = Execute(q[j - 1], s[j])
  BY <1>2, <1>9
<1>12. After(m, s) = q[n]
  BY <1>1, <1>7
<1> QED
  BY <1>10, <1>11, <1>12

(* The instructions of a block.                                            *)
LEMMA CutFold ==
  ASSUME NEW n \in Nat, NEW f, NEW i, NEW b, DOMAIN b.items = 1 .. n
  PROVE  \E q : /\ q[0] = [done |-> <<>>, cmds |-> CompilePhis(f, b)]
                /\ \A j \in 1 .. n : q[j] = Cut(f, i = 1, b, q[j - 1], b.items[j])
                /\ CutBlock(f, i, b) = q[n]
<1> DEFINE a == [done |-> <<>>, cmds |-> CompilePhis(f, b)]
           O(z, j) == Cut(f, i = 1, b, z, b.items[j])
           E(r, t) == IF t = {} THEN a ELSE O(r[t \ {Max(t)}], Max(t))
           F == CHOOSE r : r = [t \in SUBSET (1 .. n) |-> E(r, t)]
           S == {k \in Nat : \E r : r = [t \in SUBSET (1 .. k) |-> E(r, t)]}
           q == [j \in 0 .. n |-> F[1 .. j]]
<1>1. CutBlock(f, i, b) = F[1 .. n]
  BY DEF CutBlock, FoldLeft, MapThenFoldSet
<1>2. \A j \in 1 .. n : O(q[j - 1], j) = Cut(f, i = 1, b, q[j - 1], b.items[j])
  OBVIOUS
<1> HIDE DEF O, a
<1>3. 0 \in S
  <2> DEFINE r == [t \in SUBSET (1 .. 0) |-> a]
  <2>1. r = [t \in SUBSET (1 .. 0) |-> E(r, t)]
    BY \A t \in SUBSET (1 .. 0) : E(r, t) = a
  <2> QED
    BY <2>1
<1>4. ASSUME NEW k \in Nat, k \in S
      PROVE  k + 1 \in S
  <2>1. PICK r : r = [t \in SUBSET (1 .. k) |-> E(r, t)]
    BY <1>4
  <2> DEFINE h == [t \in SUBSET (1 .. k + 1) |->
                     IF k + 1 \in t THEN O(r[t \ {k + 1}], k + 1) ELSE r[t]]
  <2>2. \A t \in SUBSET (1 .. k) : r[t] = E(r, t)
    <3> HIDE DEF E
    <3> QED
      BY <2>1
  <2>3. \A t \in SUBSET (1 .. k) : h[t] = r[t]
    OBVIOUS
  <2>4. \A t \in SUBSET (1 .. k + 1) :
          k + 1 \in t => h[t] = O(r[t \ {k + 1}], k + 1)
    OBVIOUS
  <2>5. h = [t \in SUBSET (1 .. k + 1) |-> h[t]]
    OBVIOUS
  <2> HIDE DEF h
  <2>6. \A t \in SUBSET (1 .. k + 1) : h[t] = E(h, t)
    <3> TAKE t \in SUBSET (1 .. k + 1)
    <3>1. CASE k + 1 \in t
      BY <2>3, <2>4, <3>1, LastOf
    <3>2. CASE k + 1 \notin t
      BY <2>2, <2>3, <3>2, LastOf
    <3> QED
      BY <3>1, <3>2
  <2> HIDE DEF E
  <2>7. h = [t \in SUBSET (1 .. k + 1) |-> E(h, t)]
    BY <2>5, <2>6
  <2> QED
    BY <2>7
<1>5. F = [t \in SUBSET (1 .. n) |-> E(F, t)]
  <2> HIDE DEF S
  <2>1. \E r : r = [t \in SUBSET (1 .. n) |-> E(r, t)]
    BY <1>3, <1>4, Induction DEF S
  <2> HIDE DEF E
  <2> QED
    BY <2>1
<1> HIDE DEF F, S
<1>6. \A t \in SUBSET (1 .. n) : F[t] = E(F, t)
  <2> HIDE DEF E
  <2> QED
    BY <1>5
<1>7. \A j \in 0 .. n : q[j] = F[1 .. j]
  OBVIOUS
<1> HIDE DEF q
<1>8. q[0] = a
  <2>1. 1 .. 0 = {} /\ 1 .. 0 \in SUBSET (1 .. n) /\ 0 \in 0 .. n
    OBVIOUS
  <2> QED
    BY <1>6, <1>7, <2>1
<1>9. ASSUME NEW j \in 1 .. n
      PROVE  q[j] = O(q[j - 1], j)
  <2>1. /\ 1 .. j \in SUBSET (1 .. n) /\ 1 .. j # {}
        /\ Max(1 .. j) = j /\ (1 .. j) \ {j} = 1 .. j - 1
    BY PrefixLast
  <2>2. q[j] = F[1 .. j] /\ q[j - 1] = F[1 .. j - 1]
    BY <1>7
  <2> QED
    BY <1>6, <2>1, <2>2
<1>10. q[0] = [done |-> <<>>, cmds |-> CompilePhis(f, b)]
  BY <1>8 DEF a
<1>11. \A j \in 1 .. n : q[j] = Cut(f, i = 1, b, q[j - 1], b.items[j])
  BY <1>2, <1>9
<1>12. CutBlock(f, i, b) = q[n]
  BY <1>1, <1>7
<1> QED
  BY <1>10, <1>11, <1>12

(* The phis of a block.                                                    *)
LEMMA PhisFold ==
  ASSUME NEW n \in Nat, NEW f, NEW b, DOMAIN b.phis = 1 .. n
  PROVE  \E q : /\ q[0] = <<>>
                /\ \A j \in 1 .. n : q[j] = PhiStep(f, b, q[j - 1], j)
                /\ CompilePhis(f, b) = q[n]
<1> DEFINE a == <<>>
           O(z, j) == z \o CompilePhi(f, b.phis[j])
           E(r, t) == IF t = {} THEN a ELSE O(r[t \ {Max(t)}], Max(t))
           F == CHOOSE r : r = [t \in SUBSET (1 .. n) |-> E(r, t)]
           S == {k \in Nat : \E r : r = [t \in SUBSET (1 .. k) |-> E(r, t)]}
           q == [j \in 0 .. n |-> F[1 .. j]]
<1>1. CompilePhis(f, b) = F[1 .. n]
  BY DEF CompilePhis, FoldLeft, MapThenFoldSet
<1>2. \A j \in 1 .. n : O(q[j - 1], j) = PhiStep(f, b, q[j - 1], j)
  BY DEF PhiStep
<1> HIDE DEF O, a
<1>3. 0 \in S
  <2> DEFINE r == [t \in SUBSET (1 .. 0) |-> a]
  <2>1. r = [t \in SUBSET (1 .. 0) |-> E(r, t)]
    BY \A t \in SUBSET (1 .. 0) : E(r, t) = a
  <2> QED
    BY <2>1
<1>4. ASSUME NEW k \in Nat, k \in S
      PROVE  k + 1 \in S
  <2>1. PICK r : r = [t \in SUBSET (1 .. k) |-> E(r, t)]
    BY <1>4
  <2> DEFINE h == [t \in SUBSET (1 .. k + 1) |->
                     IF k + 1 \in t THEN O(r[t \ {k + 1}], k + 1) ELSE r[t]]
  <2>2. \A t \in SUBSET (1 .. k) : r[t] = E(r, t)
    <3> HIDE DEF E
    <3> QED
      BY <2>1
  <2>3. \A t \in SUBSET (1 .. k) : h[t] = r[t]
    OBVIOUS
  <2>4. \A t \in SUBSET (1 .. k + 1) :
          k + 1 \in t => h[t] = O(r[t \ {k + 1}], k + 1)
    OBVIOUS
  <2>5. h = [t \in SUBSET (1 .. k + 1) |-> h[t]]
    OBVIOUS
  <2> HIDE DEF h
  <2>6. \A t \in SUBSET (1 .. k + 1) : h[t] = E(h, t)
    <3> TAKE t \in SUBSET (1 .. k + 1)
    <3>1. CASE k + 1 \in t
      BY <2>3, <2>4, <3>1, LastOf
    <3>2. CASE k + 1 \notin t
      BY <2>2, <2>3, <3>2, LastOf
    <3> QED
      BY <3>1, <3>2
  <2> HIDE DEF E
  <2>7. h = [t \in SUBSET (1 .. k + 1) |-> E(h, t)]
    BY <2>5, <2>6
  <2> QED
    BY <2>7
<1>5. F = [t \in SUBSET (1 .. n) |-> E(F, t)]
  <2> HIDE DEF S
  <2>1. \E r : r = [t \in SUBSET (1 .. n) |-> E(r, t)]
    BY <1>3, <1>4, Induction DEF S
  <2> HIDE DEF E
  <2> QED
    BY <2>1
<1> HIDE DEF F, S
<1>6. \A t \in SUBSET (1 .. n) : F[t] = E(F, t)
  <2> HIDE DEF E
  <2> QED
    BY <1>5
<1>7. \A j \in 0 .. n : q[j] = F[1 .. j]
  OBVIOUS
<1> HIDE DEF q
<1>8. q[0] = a
  <2>1. 1 .. 0 = {} /\ 1 .. 0 \in SUBSET (1 .. n) /\ 0 \in 0 .. n
    OBVIOUS
  <2> QED
    BY <1>6, <1>7, <2>1
<1>9. ASSUME NEW j \in 1 .. n
      PROVE  q[j] = O(q[j - 1], j)
  <2>1. /\ 1 .. j \in SUBSET (1 .. n) /\ 1 .. j # {}
        /\ Max(1 .. j) = j /\ (1 .. j) \ {j} = 1 .. j - 1
    BY PrefixLast
  <2>2. q[j] = F[1 .. j] /\ q[j - 1] = F[1 .. j - 1]
    BY <1>7
  <2> QED
    BY <1>6, <2>1, <2>2
<1>10. q[0] = <<>>
  BY <1>8 DEF a
<1>11. \A j \in 1 .. n : q[j] = PhiStep(f, b, q[j - 1], j)
  BY <1>2, <1>9
<1>12. CompilePhis(f, b) = q[n]
  BY <1>1, <1>7
<1> QED
  BY <1>10, <1>11, <1>12

(* The blocks of a function.                                               *)
LEMMA BlocksFold ==
  ASSUME NEW n \in Nat, NEW f, DOMAIN Blocks[f] = 1 .. n
  PROVE  \E q : /\ q[0] = <<>>
                /\ \A j \in 1 .. n : q[j] = BlockStep(f, q[j - 1], j)
                /\ CompileFunction(f) = q[n]
<1> DEFINE a == <<>>
           O(z, j) == z \o CompileBlock(f, [i \in DOMAIN Blocks[f] |-> i][j])
           E(r, t) == IF t = {} THEN a ELSE O(r[t \ {Max(t)}], Max(t))
           F == CHOOSE r : r = [t \in SUBSET (1 .. n) |-> E(r, t)]
           S == {k \in Nat : \E r : r = [t \in SUBSET (1 .. k) |-> E(r, t)]}
           q == [j \in 0 .. n |-> F[1 .. j]]
<1>1. CompileFunction(f) = F[1 .. n]
  BY DEF CompileFunction, FoldLeft, MapThenFoldSet
<1>2. \A j \in 1 .. n : O(q[j - 1], j) = BlockStep(f, q[j - 1], j)
  BY DEF BlockStep
<1> HIDE DEF O, a
<1>3. 0 \in S
  <2> DEFINE r == [t \in SUBSET (1 .. 0) |-> a]
  <2>1. r = [t \in SUBSET (1 .. 0) |-> E(r, t)]
    BY \A t \in SUBSET (1 .. 0) : E(r, t) = a
  <2> QED
    BY <2>1
<1>4. ASSUME NEW k \in Nat, k \in S
      PROVE  k + 1 \in S
  <2>1. PICK r : r = [t \in SUBSET (1 .. k) |-> E(r, t)]
    BY <1>4
  <2> DEFINE h == [t \in SUBSET (1 .. k + 1) |->
                     IF k + 1 \in t THEN O(r[t \ {k + 1}], k + 1) ELSE r[t]]
  <2>2. \A t \in SUBSET (1 .. k) : r[t] = E(r, t)
    <3> HIDE DEF E
    <3> QED
      BY <2>1
  <2>3. \A t \in SUBSET (1 .. k) : h[t] = r[t]
    OBVIOUS
  <2>4. \A t \in SUBSET (1 .. k + 1) :
          k + 1 \in t => h[t] = O(r[t \ {k + 1}], k + 1)
    OBVIOUS
  <2>5. h = [t \in SUBSET (1 .. k + 1) |-> h[t]]
    OBVIOUS
  <2> HIDE DEF h
  <2>6. \A t \in SUBSET (1 .. k + 1) : h[t] = E(h, t)
    <3> TAKE t \in SUBSET (1 .. k + 1)
    <3>1. CASE k + 1 \in t
      BY <2>3, <2>4, <3>1, LastOf
    <3>2. CASE k + 1 \notin t
      BY <2>2, <2>3, <3>2, LastOf
    <3> QED
      BY <3>1, <3>2
  <2> HIDE DEF E
  <2>7. h = [t \in SUBSET (1 .. k + 1) |-> E(h, t)]
    BY <2>5, <2>6
  <2> QED
    BY <2>7
<1>5. F = [t \in SUBSET (1 .. n) |-> E(F, t)]
  <2> HIDE DEF S
  <2>1. \E r : r = [t \in SUBSET (1 .. n) |-> E(r, t)]
    BY <1>3, <1>4, Induction DEF S
  <2> HIDE DEF E
  <2> QED
    BY <2>1
<1> HIDE DEF F, S
<1>6. \A t \in SUBSET (1 .. n) : F[t] = E(F, t)
  <2> HIDE DEF E
  <2> QED
    BY <1>5
<1>7. \A j \in 0 .. n : q[j] = F[1 .. j]
  OBVIOUS
<1> HIDE DEF q
<1>8. q[0] = a
  <2>1. 1 .. 0 = {} /\ 1 .. 0 \in SUBSET (1 .. n) /\ 0 \in 0 .. n
    OBVIOUS
  <2> QED
    BY <1>6, <1>7, <2>1
<1>9. ASSUME NEW j \in 1 .. n
      PROVE  q[j] = O(q[j - 1], j)
  <2>1. /\ 1 .. j \in SUBSET (1 .. n) /\ 1 .. j # {}
        /\ Max(1 .. j) = j /\ (1 .. j) \ {j} = 1 .. j - 1
    BY PrefixLast
  <2>2. q[j] = F[1 .. j] /\ q[j - 1] = F[1 .. j - 1]
    BY <1>7
  <2> QED
    BY <1>6, <2>1, <2>2
<1>10. q[0] = <<>>
  BY <1>8 DEF a
<1>11. \A j \in 1 .. n : q[j] = BlockStep(f, q[j - 1], j)
  BY <1>2, <1>9
<1>12. CompileFunction(f) = q[n]
  BY <1>1, <1>7
<1> QED
  BY <1>10, <1>11, <1>12

(* The indices of a getelementptr.                                         *)
LEMMA GepFold ==
  ASSUME NEW n \in Nat, NEW x, DOMAIN Tail(x.path) = 1 .. n
  PROVE  \E q : /\ q[0] = GepStart(x, PointeeOf(x.base))
                /\ \A j \in 1 .. n : q[j] = GepPart(x.dest, q[j - 1], Tail(x.path)[j])
                /\ GepEnd(x) = q[n]
<1> DEFINE a == GepStart(x, PointeeOf(x.base))
           O(z, j) == GepPart(x.dest, z, Tail(x.path)[j])
           E(r, t) == IF t = {} THEN a ELSE O(r[t \ {Max(t)}], Max(t))
           F == CHOOSE r : r = [t \in SUBSET (1 .. n) |-> E(r, t)]
           S == {k \in Nat : \E r : r = [t \in SUBSET (1 .. k) |-> E(r, t)]}
           q == [j \in 0 .. n |-> F[1 .. j]]
<1>1. GepEnd(x) = F[1 .. n]
  BY DEF GepEnd, FoldLeft, MapThenFoldSet
<1>2. \A j \in 1 .. n : O(q[j - 1], j) = GepPart(x.dest, q[j - 1], Tail(x.path)[j])
  OBVIOUS
<1> HIDE DEF O, a
<1>3. 0 \in S
  <2> DEFINE r == [t \in SUBSET (1 .. 0) |-> a]
  <2>1. r = [t \in SUBSET (1 .. 0) |-> E(r, t)]
    BY \A t \in SUBSET (1 .. 0) : E(r, t) = a
  <2> QED
    BY <2>1
<1>4. ASSUME NEW k \in Nat, k \in S
      PROVE  k + 1 \in S
  <2>1. PICK r : r = [t \in SUBSET (1 .. k) |-> E(r, t)]
    BY <1>4
  <2> DEFINE h == [t \in SUBSET (1 .. k + 1) |->
                     IF k + 1 \in t THEN O(r[t \ {k + 1}], k + 1) ELSE r[t]]
  <2>2. \A t \in SUBSET (1 .. k) : r[t] = E(r, t)
    <3> HIDE DEF E
    <3> QED
      BY <2>1
  <2>3. \A t \in SUBSET (1 .. k) : h[t] = r[t]
    OBVIOUS
  <2>4. \A t \in SUBSET (1 .. k + 1) :
          k + 1 \in t => h[t] = O(r[t \ {k + 1}], k + 1)
    OBVIOUS
  <2>5. h = [t \in SUBSET (1 .. k + 1) |-> h[t]]
    OBVIOUS
  <2> HIDE DEF h
  <2>6. \A t \in SUBSET (1 .. k + 1) : h[t] = E(h, t)
    <3> TAKE t \in SUBSET (1 .. k + 1)
    <3>1. CASE k + 1 \in t
      BY <2>3, <2>4, <3>1, LastOf
    <3>2. CASE k + 1 \notin t
      BY <2>2, <2>3, <3>2, LastOf
    <3> QED
      BY <3>1, <3>2
  <2> HIDE DEF E
  <2>7. h = [t \in SUBSET (1 .. k + 1) |-> E(h, t)]
    BY <2>5, <2>6
  <2> QED
    BY <2>7
<1>5. F = [t \in SUBSET (1 .. n) |-> E(F, t)]
  <2> HIDE DEF S
  <2>1. \E r : r = [t \in SUBSET (1 .. n) |-> E(r, t)]
    BY <1>3, <1>4, Induction DEF S
  <2> HIDE DEF E
  <2> QED
    BY <2>1
<1> HIDE DEF F, S
<1>6. \A t \in SUBSET (1 .. n) : F[t] = E(F, t)
  <2> HIDE DEF E
  <2> QED
    BY <1>5
<1>7. \A j \in 0 .. n : q[j] = F[1 .. j]
  OBVIOUS
<1> HIDE DEF q
<1>8. q[0] = a
  <2>1. 1 .. 0 = {} /\ 1 .. 0 \in SUBSET (1 .. n) /\ 0 \in 0 .. n
    OBVIOUS
  <2> QED
    BY <1>6, <1>7, <2>1
<1>9. ASSUME NEW j \in 1 .. n
      PROVE  q[j] = O(q[j - 1], j)
  <2>1. /\ 1 .. j \in SUBSET (1 .. n) /\ 1 .. j # {}
        /\ Max(1 .. j) = j /\ (1 .. j) \ {j} = 1 .. j - 1
    BY PrefixLast
  <2>2. q[j] = F[1 .. j] /\ q[j - 1] = F[1 .. j - 1]
    BY <1>7
  <2> QED
    BY <1>6, <2>1, <2>2
<1>10. q[0] = GepStart(x, PointeeOf(x.base))
  BY <1>8 DEF a
<1>11. \A j \in 1 .. n : q[j] = GepPart(x.dest, q[j - 1], Tail(x.path)[j])
  BY <1>2, <1>9
<1>12. GepEnd(x) = q[n]
  BY <1>1, <1>7
<1> QED
  BY <1>10, <1>11, <1>12

(* The variables that init writes.                                         *)
LEMMA WrittenFold ==
  ASSUME NEW n \in Nat, NEW m, DOMAIN order = 1 .. n
  PROVE  \E q : /\ q[0] = m
                /\ \A j \in 1 .. n : q[j] = Put(q[j - 1], addr[order[j]], VarBytes(order[j]))
                /\ VariablesWritten(m) = q[n]
<1> DEFINE a == m
           O(z, j) == Put(z, addr[order[j]], VarBytes(order[j]))
           E(r, t) == IF t = {} THEN a ELSE O(r[t \ {Max(t)}], Max(t))
           F == CHOOSE r : r = [t \in SUBSET (1 .. n) |-> E(r, t)]
           S == {k \in Nat : \E r : r = [t \in SUBSET (1 .. k) |-> E(r, t)]}
           q == [j \in 0 .. n |-> F[1 .. j]]
<1>1. VariablesWritten(m) = F[1 .. n]
  BY DEF VariablesWritten, FoldLeft, MapThenFoldSet
<1>2. \A j \in 1 .. n : O(q[j - 1], j) = Put(q[j - 1], addr[order[j]], VarBytes(order[j]))
  OBVIOUS
<1> HIDE DEF O, a
<1>3. 0 \in S
  <2> DEFINE r == [t \in SUBSET (1 .. 0) |-> a]
  <2>1. r = [t \in SUBSET (1 .. 0) |-> E(r, t)]
    BY \A t \in SUBSET (1 .. 0) : E(r, t) = a
  <2> QED
    BY <2>1
<1>4. ASSUME NEW k \in Nat, k \in S
      PROVE  k + 1 \in S
  <2>1. PICK r : r = [t \in SUBSET (1 .. k) |-> E(r, t)]
    BY <1>4
  <2> DEFINE h == [t \in SUBSET (1 .. k + 1) |->
                     IF k + 1 \in t THEN O(r[t \ {k + 1}], k + 1) ELSE r[t]]
  <2>2. \A t \in SUBSET (1 .. k) : r[t] = E(r, t)
    <3> HIDE DEF E
    <3> QED
      BY <2>1
  <2>3. \A t \in SUBSET (1 .. k) : h[t] = r[t]
    OBVIOUS
  <2>4. \A t \in SUBSET (1 .. k + 1) :
          k + 1 \in t => h[t] = O(r[t \ {k + 1}], k + 1)
    OBVIOUS
  <2>5. h = [t \in SUBSET (1 .. k + 1) |-> h[t]]
    OBVIOUS
  <2> HIDE DEF h
  <2>6. \A t \in SUBSET (1 .. k + 1) : h[t] = E(h, t)
    <3> TAKE t \in SUBSET (1 .. k + 1)
    <3>1. CASE k + 1 \in t
      BY <2>3, <2>4, <3>1, LastOf
    <3>2. CASE k + 1 \notin t
      BY <2>2, <2>3, <3>2, LastOf
    <3> QED
      BY <3>1, <3>2
  <2> HIDE DEF E
  <2>7. h = [t \in SUBSET (1 .. k + 1) |-> E(h, t)]
    BY <2>5, <2>6
  <2> QED
    BY <2>7
<1>5. F = [t \in SUBSET (1 .. n) |-> E(F, t)]
  <2> HIDE DEF S
  <2>1. \E r : r = [t \in SUBSET (1 .. n) |-> E(r, t)]
    BY <1>3, <1>4, Induction DEF S
  <2> HIDE DEF E
  <2> QED
    BY <2>1
<1> HIDE DEF F, S
<1>6. \A t \in SUBSET (1 .. n) : F[t] = E(F, t)
  <2> HIDE DEF E
  <2> QED
    BY <1>5
<1>7. \A j \in 0 .. n : q[j] = F[1 .. j]
  OBVIOUS
<1> HIDE DEF q
<1>8. q[0] = a
  <2>1. 1 .. 0 = {} /\ 1 .. 0 \in SUBSET (1 .. n) /\ 0 \in 0 .. n
    OBVIOUS
  <2> QED
    BY <1>6, <1>7, <2>1
<1>9. ASSUME NEW j \in 1 .. n
      PROVE  q[j] = O(q[j - 1], j)
  <2>1. /\ 1 .. j \in SUBSET (1 .. n) /\ 1 .. j # {}
        /\ Max(1 .. j) = j /\ (1 .. j) \ {j} = 1 .. j - 1
    BY PrefixLast
  <2>2. q[j] = F[1 .. j] /\ q[j - 1] = F[1 .. j - 1]
    BY <1>7
  <2> QED
    BY <1>6, <2>1, <2>2
<1>10. q[0] = m
  BY <1>8 DEF a
<1>11. \A j \in 1 .. n : q[j] = Put(q[j - 1], addr[order[j]], VarBytes(order[j]))
  BY <1>2, <1>9
<1>12. VariablesWritten(m) = q[n]
  BY <1>1, <1>7
<1> QED
  BY <1>10, <1>11, <1>12

(* The bytes of a number.                                                  *)
LEMMA NumberFold ==
  ASSUME NEW n \in Nat, NEW bytes, DOMAIN bytes = 1 .. n
  PROVE  \E q : /\ q[0] = 0
                /\ \A j \in 1 .. n : q[j] = q[j - 1] + bytes[j] * Byte ^ (j - 1)
                /\ Number(bytes) = q[n]
<1> DEFINE a == 0
           O(z, j) == z + bytes[[i \in DOMAIN bytes |-> i][j]] * Byte ^ ([i \in DOMAIN bytes |-> i][j] - 1)
           E(r, t) == IF t = {} THEN a ELSE O(r[t \ {Max(t)}], Max(t))
           F == CHOOSE r : r = [t \in SUBSET (1 .. n) |-> E(r, t)]
           S == {k \in Nat : \E r : r = [t \in SUBSET (1 .. k) |-> E(r, t)]}
           q == [j \in 0 .. n |-> F[1 .. j]]
<1>1. Number(bytes) = F[1 .. n]
  BY DEF Number, FoldLeft, MapThenFoldSet
<1>2. \A j \in 1 .. n : O(q[j - 1], j) = q[j - 1] + bytes[j] * Byte ^ (j - 1)
  OBVIOUS
<1> HIDE DEF O, a
<1>3. 0 \in S
  <2> DEFINE r == [t \in SUBSET (1 .. 0) |-> a]
  <2>1. r = [t \in SUBSET (1 .. 0) |-> E(r, t)]
    BY \A t \in SUBSET (1 .. 0) : E(r, t) = a
  <2> QED
    BY <2>1
<1>4. ASSUME NEW k \in Nat, k \in S
      PROVE  k + 1 \in S
  <2>1. PICK r : r = [t \in SUBSET (1 .. k) |-> E(r, t)]
    BY <1>4
  <2> DEFINE h == [t \in SUBSET (1 .. k + 1) |->
                     IF k + 1 \in t THEN O(r[t \ {k + 1}], k + 1) ELSE r[t]]
  <2>2. \A t \in SUBSET (1 .. k) : r[t] = E(r, t)
    <3> HIDE DEF E
    <3> QED
      BY <2>1
  <2>3. \A t \in SUBSET (1 .. k) : h[t] = r[t]
    OBVIOUS
  <2>4. \A t \in SUBSET (1 .. k + 1) :
          k + 1 \in t => h[t] = O(r[t \ {k + 1}], k + 1)
    OBVIOUS
  <2>5. h = [t \in SUBSET (1 .. k + 1) |-> h[t]]
    OBVIOUS
  <2> HIDE DEF h
  <2>6. \A t \in SUBSET (1 .. k + 1) : h[t] = E(h, t)
    <3> TAKE t \in SUBSET (1 .. k + 1)
    <3>1. CASE k + 1 \in t
      BY <2>3, <2>4, <3>1, LastOf
    <3>2. CASE k + 1 \notin t
      BY <2>2, <2>3, <3>2, LastOf
    <3> QED
      BY <3>1, <3>2
  <2> HIDE DEF E
  <2>7. h = [t \in SUBSET (1 .. k + 1) |-> E(h, t)]
    BY <2>5, <2>6
  <2> QED
    BY <2>7
<1>5. F = [t \in SUBSET (1 .. n) |-> E(F, t)]
  <2> HIDE DEF S
  <2>1. \E r : r = [t \in SUBSET (1 .. n) |-> E(r, t)]
    BY <1>3, <1>4, Induction DEF S
  <2> HIDE DEF E
  <2> QED
    BY <2>1
<1> HIDE DEF F, S
<1>6. \A t \in SUBSET (1 .. n) : F[t] = E(F, t)
  <2> HIDE DEF E
  <2> QED
    BY <1>5
<1>7. \A j \in 0 .. n : q[j] = F[1 .. j]
  OBVIOUS
<1> HIDE DEF q
<1>8. q[0] = a
  <2>1. 1 .. 0 = {} /\ 1 .. 0 \in SUBSET (1 .. n) /\ 0 \in 0 .. n
    OBVIOUS
  <2> QED
    BY <1>6, <1>7, <2>1
<1>9. ASSUME NEW j \in 1 .. n
      PROVE  q[j] = O(q[j - 1], j)
  <2>1. /\ 1 .. j \in SUBSET (1 .. n) /\ 1 .. j # {}
        /\ Max(1 .. j) = j /\ (1 .. j) \ {j} = 1 .. j - 1
    BY PrefixLast
  <2>2. q[j] = F[1 .. j] /\ q[j - 1] = F[1 .. j - 1]
    BY <1>7
  <2> QED
    BY <1>6, <2>1, <2>2
<1>10. q[0] = 0
  BY <1>8 DEF a
<1>11. \A j \in 1 .. n : q[j] = q[j - 1] + bytes[j] * Byte ^ (j - 1)
  BY <1>2, <1>9
<1>12. Number(bytes) = q[n]
  BY <1>1, <1>7
<1> QED
  BY <1>10, <1>11, <1>12

-----------------------------------------------------------------------------
(***************************************************************************)
(* compile_instr and the phis: commands that neither push nor choose what  *)
(* runs next.                                                              *)
(***************************************************************************)
Plain(s) == IsSequence(s) /\ \A i \in DOMAIN s : HasOp(s[i], PlainOps)

LEMMA PlainNone == Plain(<<>>)
<1>1. \A i \in DOMAIN <<>> : HasOp(<<>>[i], PlainOps)
  OBVIOUS
<1> QED
  BY <1>1, NoneSeq DEF Plain

LEMMA PlainOne ==
  ASSUME NEW c, HasOp(c, PlainOps)
  PROVE  Plain(<<c>>)
<1>1. IsSequence(<<c>>) /\ Len(<<c>>) = 1 /\ <<c>>[1] = c
  BY OneSeq
<1>2. \A i \in DOMAIN <<c>> : i = 1
  OBVIOUS
<1> QED
  BY <1>1, <1>2 DEF Plain

LEMMA PlainConcat ==
  ASSUME NEW s, NEW t, Plain(s), Plain(t)
  PROVE  Plain(s \o t)
<1>1. IsSequence(s) /\ IsSequence(t)
  BY DEF Plain
<1>2. IsSequence(s \o t)
  BY <1>1, ConcatSeq
<1>3. \A i \in DOMAIN (s \o t) : HasOp((s \o t)[i], PlainOps)
  <2> TAKE i \in DOMAIN (s \o t)
  <2>1. \/ i \in DOMAIN s /\ (s \o t)[i] = s[i]
        \/ i - Len(s) \in DOMAIN t /\ (s \o t)[i] = t[i - Len(s)]
    BY <1>1, ConcatElements
  <2> QED
    BY <2>1 DEF Plain
<1> QED
  BY <1>2, <1>3 DEF Plain

LEMMA PlainTwo ==
  ASSUME NEW c, NEW d, HasOp(c, PlainOps), HasOp(d, PlainOps)
  PROVE  Plain(<<c, d>>)
<1>1. <<c, d>> \in Seq({c, d}) /\ DOMAIN <<c, d>> = {1, 2}
  OBVIOUS
<1>2. IsSequence(<<c, d>>)
  BY <1>1, SeqGiven
<1>3. <<c, d>>[1] = c /\ <<c, d>>[2] = d
  OBVIOUS
<1> QED
  BY <1>1, <1>2, <1>3 DEF Plain

LEMMA PlainAppend ==
  ASSUME NEW s, NEW c, Plain(s), HasOp(c, PlainOps)
  PROVE  Plain(Append(s, c))
<1>1. IsSequence(s)
  BY DEF Plain
<1>2. /\ IsSequence(Append(s, c)) /\ DOMAIN Append(s, c) = 1 .. Len(s) + 1
      /\ \A i \in 1 .. Len(s) : Append(s, c)[i] = s[i]
      /\ Append(s, c)[Len(s) + 1] = c
  BY <1>1, AppendSeq
<1>3. Len(s) \in Nat /\ DOMAIN s = 1 .. Len(s)
  BY <1>1, SeqIs
<1>4. \A i \in 1 .. Len(s) + 1 : i \in 1 .. Len(s) \/ i = Len(s) + 1
  BY <1>3
<1> QED
  BY <1>2, <1>3, <1>4 DEF Plain

(* getelementptr: what its indices add.                                    *)
IsGep(g) == DOMAIN g = {"type", "offset", "adds"} /\ Plain(g.adds)

LEMMA GepIndexIs ==
  ASSUME NEW r, NEW g, IsGep(g), NEW x, NEW stride, NEW inner
  PROVE  IsGep(GepIndex(r, g, x, stride, inner))
<1>1. HasOp(Added(r, x, stride), PlainOps)
  BY DEF Added, PlainOps, HasOp
<1>2. Plain(g.adds)
  BY DEF IsGep
<1>3. Plain(Append(g.adds, Added(r, x, stride)))
  <2> DEFINE s == g.adds  c == Added(r, x, stride)
  <2> HIDE DEF s, c
  <2>1. Plain(s) /\ HasOp(c, PlainOps)
    BY <1>1, <1>2 DEF s, c
  <2>2. Plain(Append(s, c))
    BY <2>1, PlainAppend
  <2> QED
    BY <2>2 DEF s, c
<1> DEFINE y == Append(g.adds, Added(r, x, stride))
<1> HIDE DEF y
<1>4. GepIndex(r, g, x, stride, inner) =
        IF x.op = "lit" THEN [g EXCEPT !.offset = @ + stride * x.n, !.type = inner]
        ELSE [g EXCEPT !.adds = y, !.type = inner]
  BY DEF GepIndex, y
<1> QED
  BY <1>2, <1>3, <1>4 DEF IsGep, y

LEMMA GepPartIs ==
  ASSUME NEW r, NEW g, IsGep(g), NEW x
  PROVE  IsGep(GepPart(r, g, x))
<1> DEFINE stride == Stride(Ty[g.type].of)  inner == Ty[g.type].of
<1> HIDE DEF stride, inner
<1>1. IsGep(GepIndex(r, g, x, stride, inner))
  BY GepIndexIs
<1>2. IsGep([g EXCEPT !.offset = @ + PartOffset(g.type, x.n), !.type = Part(g.type, x.n)])
  BY DEF IsGep
<1> QED
  BY <1>1, <1>2 DEF GepPart, stride, inner

LEMMA GepStartIs ==
  ASSUME NEW x, NEW from
  PROVE  IsGep(GepStart(x, from))
<1> DEFINE g == [type |-> from, offset |-> 0, adds |-> <<>>]
           r == x.dest  y == Head(x.path)  stride == Stride(from)
<1>1. DOMAIN g = {"type", "offset", "adds"} /\ g.adds = <<>>
  OBVIOUS
<1>2. IsGep(g)
  BY <1>1, PlainNone DEF IsGep
<1>3. GepStart(x, from) = GepIndex(r, g, y, stride, from)
  BY DEF GepStart
<1> HIDE DEF g, r, y, stride
<1>4. IsGep(GepIndex(r, g, y, stride, from))
  BY <1>2, GepIndexIs
<1> QED
  BY <1>3, <1>4

LEMMA GepEndIs ==
  ASSUME NEW x, IsSequence(x.path), x.path # <<>>
  PROVE  IsGep(GepEnd(x))
<1> DEFINE n == Len(x.path) - 1
<1>1. n \in Nat /\ DOMAIN Tail(x.path) = 1 .. n
  <2> DEFINE p == x.path
             X == ToSet(p)
  <2>1. p \in Seq(X) /\ p # <<>>
    BY DEF IsSequence
  <2> HIDE DEF X, p
  <2>2. Len(p) \in Nat \ {0} /\ Tail(p) \in Seq(X) /\ Len(Tail(p)) = Len(p) - 1
    BY <2>1
  <2>3. DOMAIN Tail(p) = 1 .. Len(Tail(p))
    BY <2>2
  <2> QED
    BY <2>2, <2>3 DEF p
<1> HIDE DEF n
<1>2. PICK q : /\ q[0] = GepStart(x, PointeeOf(x.base))
               /\ \A j \in 1 .. n : q[j] = GepPart(x.dest, q[j - 1], Tail(x.path)[j])
               /\ GepEnd(x) = q[n]
  BY <1>1, GepFold
<1> DEFINE S == {j \in 0 .. n : IsGep(q[j])}
<1>3. 0 \in S
  <2> DEFINE from == PointeeOf(x.base)
  <2> HIDE DEF from
  <2>1. IsGep(GepStart(x, from))
    BY GepStartIs
  <2> QED
    BY <1>1, <1>2, <2>1 DEF from
<1>4. ASSUME NEW j \in 0 .. n - 1, j \in S
      PROVE  j + 1 \in S
  <2> DEFINE r == x.dest  g == q[j]  y == Tail(x.path)[j + 1]
  <2>1. j + 1 \in 1 .. n /\ (j + 1) - 1 = j
    BY <1>1
  <2>2. q[j + 1] = GepPart(r, g, y)
    BY <1>2, <2>1
  <2>3. IsGep(g)
    BY <1>4
  <2> HIDE DEF r, g, y
  <2>4. IsGep(GepPart(r, g, y))
    BY <2>3, GepPartIs
  <2> QED
    BY <2>1, <2>2, <2>4
<1> HIDE DEF S
<1>5. 0 .. n \subseteq S
  BY <1>1, <1>3, <1>4, BoundedInduction
<1>6. n \in S
  BY <1>1, <1>5
<1> QED
  BY <1>2, <1>6 DEF S

LEMMA PlainGep ==
  ASSUME NEW x, IsSequence(x.path), x.path # <<>>
  PROVE  Plain(CompileGep(x))
<1> DEFINE g == GepEnd(x)  base == EvalOperand(x.base)
           c == Assigned(x.dest, lit(base.n + g.offset))
           d == Assigned(x.dest, base)
           e == Added(x.dest, lit(g.offset), 1)
           s == IF base.op = "lit" THEN <<c>> ELSE <<d, e>>
           t == g.adds
<1>1. Plain(t)
  BY GepEndIs DEF IsGep
<1>2. HasOp(c, PlainOps) /\ HasOp(d, PlainOps) /\ HasOp(e, PlainOps)
  BY DEF Assigned, Added, PlainOps, HasOp
<1>3. CompileGep(x) = s \o t
  BY DEF CompileGep, GepAdded
<1> HIDE DEF c, d, e, t
<1>4. Plain(s)
  BY <1>2, PlainOne, PlainTwo
<1> HIDE DEF s
<1>5. Plain(s \o t)
  BY <1>1, <1>4, PlainConcat
<1> QED
  BY <1>3, <1>5

LEMMA PlainInstr ==
  ASSUME NEW x, WellFormedItem(x), ~IsCall(x)
  PROVE  Plain(CompileInstr(x))
<1>1. x.op \in {"input", "gep", "load", "store"}
  BY DEF WellFormedItem, IsCall
<1>2. CASE x.op = "input"
  <2> DEFINE c == input(x.dest, x.from)
  <2>1. CompileInstr(x) = <<c>>
    BY <1>2 DEF CompileInstr
  <2>2. HasOp(c, PlainOps)
    BY DEF PlainOps, HasOp, input
  <2> HIDE DEF c
  <2> QED
    BY <2>1, <2>2, PlainOne
<1>3. CASE x.op = "gep"
  <2>1. CompileInstr(x) = CompileGep(x) /\ IsSequence(x.path) /\ x.path # <<>>
    BY <1>3 DEF CompileInstr, WellFormedItem
  <2> QED
    BY <2>1, PlainGep
<1>4. CASE x.op = "load"
  <2> DEFINE c == [op |-> "read", dest |-> x.dest, what |-> EvalOperand(x.from),
                   size |-> Size(RegType[x.dest])]
  <2>1. CompileInstr(x) = <<c>> /\ HasOp(c, PlainOps)
    BY <1>4 DEF CompileInstr, PlainOps, HasOp
  <2> HIDE DEF c
  <2> QED
    BY <2>1, PlainOne
<1>5. CASE x.op = "store"
  <2> DEFINE c == [op |-> "write", to |-> EvalOperand(x.to), what |-> EvalOperand(x.what),
                   size |-> Size(x.type)]
  <2>1. CompileInstr(x) = <<c>> /\ HasOp(c, PlainOps)
    BY <1>5 DEF CompileInstr, PlainOps, HasOp
  <2> HIDE DEF c
  <2> QED
    BY <2>1, PlainOne
<1> QED
  BY <1>1, <1>2, <1>3, <1>4, <1>5

LEMMA PlainPhi ==
  ASSUME NEW f, NEW p, IsSequence(p.from)
  PROVE  Plain(CompilePhi(f, p))
<1> DEFINE n == Len(p.from)
           s == [i \in 1 .. n |-> PhiFrom(IndexOf(f, p.from[i][1]) - 1, p.dest,
                                          EvalOperand(p.from[i][2]))]
<1>1. n \in Nat /\ DOMAIN p.from = 1 .. n
  BY SeqIs
<1>2. CompilePhi(f, p) = s
  BY <1>1 DEF CompilePhi
<1>3. \A i \in 1 .. n : HasOp(s[i], PlainOps)
  BY DEF PhiFrom, PlainOps, HasOp
<1>4. s = [i \in 1 .. n |-> s[i]] /\ DOMAIN s = 1 .. n
  OBVIOUS
<1> HIDE DEF s, n
<1>5. IsSequence(s)
  BY <1>1, <1>4, SeqMade
<1> QED
  BY <1>2, <1>3, <1>4, <1>5 DEF Plain

LEMMA PlainPhis ==
  ASSUME NEW f, NEW b, IsSequence(b.phis), \A j \in DOMAIN b.phis : IsSequence(b.phis[j].from)
  PROVE  Plain(CompilePhis(f, b))
<1> DEFINE n == Len(b.phis)
<1>1. n \in Nat /\ DOMAIN b.phis = 1 .. n
  BY SeqIs
<1> HIDE DEF n
<1>2. PICK q : /\ q[0] = <<>>
               /\ \A j \in 1 .. n : q[j] = PhiStep(f, b, q[j - 1], j)
               /\ CompilePhis(f, b) = q[n]
  BY <1>1, PhisFold
<1> DEFINE S == {j \in 0 .. n : Plain(q[j])}
<1>3. 0 \in S
  BY <1>1, <1>2, PlainNone
<1>4. ASSUME NEW j \in 0 .. n - 1, j \in S
      PROVE  j + 1 \in S
  <2> DEFINE p == b.phis[j + 1]  s == q[j]  t == CompilePhi(f, p)
  <2>1. j + 1 \in 1 .. n /\ (j + 1) - 1 = j
    BY <1>1
  <2>2. q[j + 1] = s \o t
    BY <1>2, <2>1 DEF PhiStep
  <2>3. Plain(s) /\ IsSequence(p.from)
    BY <1>1, <1>4, <2>1
  <2> HIDE DEF s, p
  <2>4. Plain(t)
    BY <2>3, PlainPhi
  <2> HIDE DEF t
  <2>5. Plain(s \o t)
    BY <2>3, <2>4, PlainConcat
  <2>6. Plain(q[j + 1])
    BY <2>2, <2>5, Zenon
  <2> QED
    BY <2>1, <2>6
<1> HIDE DEF S
<1>5. 0 .. n \subseteq S
  BY <1>1, <1>3, <1>4, BoundedInduction
<1>6. n \in S
  BY <1>1, <1>5
<1> QED
  BY <1>2, <1>6 DEF S

-----------------------------------------------------------------------------
(***************************************************************************)
(* compile_function: the parts of a block are numbered, all but the last   *)
(* end with a call, and so each call has a part to return to.              *)
(***************************************************************************)
LEMMA CallCommands ==
  ASSUME NEW id, NEW x, IsSequence(x.args)
  PROVE  /\ IsSequence(BeforeCall(id, x))
         /\ \A i \in DOMAIN BeforeCall(id, x) :
              \/ BeforeCall(id, x)[i] = Push(text(id))
              \/ HasOp(BeforeCall(id, x)[i], PlainOps)
<1> DEFINE n == Len(x.args)
           c == Push(text(id))
           s == <<c>>
           t == [i \in 1 .. n |-> Param(i, EvalOperand(x.args[i]))]
<1>1. n \in Nat /\ DOMAIN x.args = 1 .. n
  BY SeqIs
<1>2. BeforeCall(id, x) = s \o t
  BY <1>1 DEF BeforeCall
<1>3. \A i \in 1 .. n : HasOp(t[i], PlainOps)
  BY DEF Param, PlainOps, HasOp
<1>4. t = [i \in 1 .. n |-> t[i]] /\ DOMAIN t = 1 .. n
  OBVIOUS
<1> HIDE DEF c, t, n
<1>5. IsSequence(t)
  BY <1>1, <1>4, SeqMade
<1>6. IsSequence(s) /\ Len(s) = 1 /\ s[1] = c
  BY OneSeq
<1>7. \A i \in DOMAIN s : i = 1
  OBVIOUS
<1> HIDE DEF s
<1>8. IsSequence(s \o t)
  BY <1>5, <1>6, ConcatSeq
<1>9. \A i \in DOMAIN (s \o t) : (s \o t)[i] = c \/ HasOp((s \o t)[i], PlainOps)
  <2> TAKE i \in DOMAIN (s \o t)
  <2>1. \/ i \in DOMAIN s /\ (s \o t)[i] = s[i]
        \/ i - Len(s) \in DOMAIN t /\ (s \o t)[i] = t[i - Len(s)]
    BY <1>5, <1>6, ConcatElements
  <2> QED
    BY <1>3, <1>4, <1>6, <1>7, <2>1
<1> QED
  BY <1>2, <1>8, <1>9 DEF c

CutInv(f, b, c) ==
  /\ DOMAIN c = {"done", "cmds"}
  /\ Plain(c.cmds)
  /\ IsSequence(c.done)
  /\ \A k \in DOMAIN c.done : /\ IsPart(f, c.done[k])
                              /\ c.done[k].id = Id(f, b.name, k - 1)
                              /\ EndsWithCall(c.done[k])

LEMMA CutIs ==
  ASSUME NEW f \in Fn, NEW first, NEW b, b.name \in Names(f),
         NEW c, CutInv(f, b, c), NEW x, WellFormedItem(x)
  PROVE  CutInv(f, b, Cut(f, first, b, c, x))
<1>1. CASE IsCall(x)
  <2> DEFINE n == Len(c.done)
             id == Id(f, b.name, n)
             s == c.cmds
             t == BeforeCall(id, x)
             p == [parent |-> f, id |-> id, cmds |-> s \o t,
                   prolog |-> first /\ c.done = <<>>, term |-> CallEnd(x)]
             d == c.done
             u == Append(d, p)
  <2>1. Cut(f, first, b, c, x) = [done |-> u, cmds |-> AfterCall(x)]
    BY <1>1 DEF Cut
  <2>2. n \in Nat /\ DOMAIN d = 1 .. n /\ IsSequence(d)
    BY SeqIs DEF CutInv
  <2>3. IsId(id) /\ id[1] = Norm[f]
    <3> DEFINE m == b.name
    <3> HIDE DEF n, m
    <3>1. m \in Names(f) /\ n \in Nat
      BY <2>2 DEF m
    <3>2. IsId(Id(f, m, n)) /\ Id(f, m, n)[1] = Norm[f]
      BY <3>1, IdIs
    <3> QED
      BY <3>2 DEF m
  <2>4. /\ p.parent = f /\ p.id = id /\ p.cmds = s \o t /\ p.term = CallEnd(x)
    BY Zenon
  <2>5. IsSequence(x.args) /\ (x.callee.op = "fn" => x.callee.f \in Fn)
    BY <1>1 DEF WellFormedItem, IsCall
  <2>6. PartTerm(f, p.term) /\ EndsWithCall(p)
    <3>1. CASE x.callee.op = "fn"
      <4>1. CallEnd(x).op = "static" /\ CallEnd(x).f = x.callee.f
        BY <3>1 DEF CallEnd
      <4> QED
        BY <2>4, <2>5, <3>1, <4>1 DEF PartTerm, EndsWithCall
    <3>2. CASE x.callee.op # "fn"
      <4>1. CallEnd(x).op = "dyn"
        BY <3>2 DEF CallEnd
      <4> QED
        BY <2>4, <4>1 DEF PartTerm, EndsWithCall
    <3> QED
      BY <3>1, <3>2
  <2>7. /\ IsSequence(t)
        /\ \A i \in DOMAIN t : t[i] = Push(text(id)) \/ HasOp(t[i], PlainOps)
    <3> HIDE DEF id
    <3> QED
      BY <2>5, CallCommands
  <2>8. IsSequence(s) /\ \A i \in DOMAIN s : HasOp(s[i], PlainOps)
    BY DEF CutInv, Plain
  <2> HIDE DEF s, t, id, p, d, n
  <2>9. IsSequence(s \o t)
    BY <2>7, <2>8, ConcatSeq
  <2>10. \A i \in DOMAIN (s \o t) : PartCommand(p, (s \o t)[i])
    <3> TAKE i \in DOMAIN (s \o t)
    <3>1. \/ i \in DOMAIN s /\ (s \o t)[i] = s[i]
          \/ i - Len(s) \in DOMAIN t /\ (s \o t)[i] = t[i - Len(s)]
      BY <2>7, <2>8, ConcatElements
    <3> QED
      BY <2>4, <2>6, <2>7, <2>8, <3>1 DEF PartCommand
  <2>11. IsPart(f, p)
    BY <2>3, <2>4, <2>6, <2>9, <2>10 DEF IsPart
  <2>12. /\ IsSequence(u) /\ DOMAIN u = 1 .. n + 1
         /\ \A k \in 1 .. n : u[k] = d[k]
         /\ u[n + 1] = p
    BY <2>2, AppendSeq DEF n, d
  <2>13. Plain(AfterCall(x))
    <3>1. HasOp(Fetched(x.dest), PlainOps)
      BY DEF Fetched, PlainOps, HasOp
    <3> QED
      BY <3>1, PlainOne DEF AfterCall
  <2>14. \A k \in DOMAIN u : /\ IsPart(f, u[k])
                             /\ u[k].id = Id(f, b.name, k - 1)
                             /\ EndsWithCall(u[k])
    <3> TAKE k \in DOMAIN u
    <3>1. CASE k = n + 1
      <4>1. k - 1 = n
        BY <2>2, <3>1
      <4> QED
        BY <2>4, <2>6, <2>11, <2>12, <3>1, <4>1 DEF id
    <3>2. CASE k \in 1 .. n
      BY <2>2, <2>12, <3>2 DEF CutInv, d
    <3> QED
      BY <2>2, <2>12, <3>1, <3>2
  <2> HIDE DEF u
  <2> DEFINE e == [done |-> u, cmds |-> AfterCall(x)]
  <2>15. DOMAIN e = {"done", "cmds"} /\ e.done = u /\ e.cmds = AfterCall(x)
    OBVIOUS
  <2> HIDE DEF e
  <2>16. CutInv(f, b, e)
    BY <2>12, <2>13, <2>14, <2>15 DEF CutInv
  <2> QED
    BY <2>1, <2>16 DEF e
<1>2. CASE ~IsCall(x)
  <2> DEFINE s == c.cmds
             t == CompileInstr(x)
             e == [c EXCEPT !.cmds = s \o t]
  <2>1. Plain(s) /\ Plain(t)
    BY <1>2, PlainInstr DEF CutInv
  <2>2. Cut(f, first, b, c, x) = e
    BY <1>2 DEF Cut
  <2> HIDE DEF t
  <2>3. Plain(s \o t)
    <3> HIDE DEF s
    <3> QED
      BY <2>1, PlainConcat
  <2> DEFINE v == s \o t
  <2>4. DOMAIN e = {"done", "cmds"} /\ e.done = c.done /\ e.cmds = v
    <3> HIDE DEF v
    <3>1. e = [c EXCEPT !.cmds = v]
      BY DEF v
    <3> HIDE DEF e
    <3> QED
      BY <3>1 DEF CutInv
  <2> HIDE DEF e, v
  <2>5. Plain(v)
    BY <2>3 DEF v
  <2>6. CutInv(f, b, e)
    BY <2>4, <2>5 DEF CutInv
  <2> QED
    BY <2>2, <2>6
<1> QED
  BY <1>1, <1>2

LEMMA CutBlockIs ==
  ASSUME NEW f \in Fn, NEW i \in DOMAIN Blocks[f]
  PROVE  CutInv(f, Blocks[f][i], CutBlock(f, i, Blocks[f][i]))
<1> DEFINE b == Blocks[f][i]
           n == Len(b.items)
<1>1. /\ b.name \in Names(f)
      /\ IsSequence(b.phis) /\ \A j \in DOMAIN b.phis : IsSequence(b.phis[j].from)
      /\ IsSequence(b.items) /\ \A j \in DOMAIN b.items : WellFormedItem(b.items[j])
  BY BlocksAssumption DEF Names
<1> HIDE DEF b
<1>2. n \in Nat /\ DOMAIN b.items = 1 .. n
  BY <1>1, SeqIs
<1> HIDE DEF n
<1> DEFINE first == i = 1
           a == [done |-> <<>>, cmds |-> CompilePhis(f, b)]
<1>3. PICK q : /\ q[0] = a
               /\ \A j \in 1 .. n : q[j] = Cut(f, first, b, q[j - 1], b.items[j])
               /\ CutBlock(f, i, b) = q[n]
  BY <1>2, CutFold
<1> DEFINE S == {j \in 0 .. n : CutInv(f, b, q[j])}
<1> HIDE DEF first
<1>4. 0 \in S
  <2>1. Plain(CompilePhis(f, b))
    BY <1>1, PlainPhis
  <2> DEFINE s == CompilePhis(f, b)
  <2> HIDE DEF s
  <2>2. DOMAIN a = {"done", "cmds"} /\ a.done = <<>> /\ a.cmds = s
    BY DEF s
  <2> HIDE DEF a
  <2>3. CutInv(f, b, a)
    <3>1. \A k \in DOMAIN a.done : FALSE
      BY <2>2
    <3>2. IsSequence(a.done)
      BY <2>2, NoneSeq, Zenon
    <3>3. Plain(a.cmds)
      BY <2>1, <2>2 DEF s
    <3> QED
      BY <2>2, <3>1, <3>2, <3>3 DEF CutInv
  <2> QED
    BY <1>2, <1>3, <2>3
<1> HIDE DEF a
<1>5. ASSUME NEW j \in 0 .. n - 1, j \in S
      PROVE  j + 1 \in S
  <2> DEFINE c == q[j]  x == b.items[j + 1]
  <2>1. j + 1 \in 1 .. n /\ (j + 1) - 1 = j
    BY <1>2
  <2>2. q[j + 1] = Cut(f, first, b, c, x)
    BY <1>3, <2>1
  <2>3. CutInv(f, b, c) /\ WellFormedItem(x)
    BY <1>1, <1>2, <1>5, <2>1
  <2> HIDE DEF c, x
  <2>4. CutInv(f, b, Cut(f, first, b, c, x))
    BY <1>1, <2>3, CutIs
  <2> QED
    BY <2>1, <2>2, <2>4
<1> HIDE DEF S
<1>6. 0 .. n \subseteq S
  BY <1>2, <1>4, <1>5, BoundedInduction
<1>7. n \in S
  BY <1>2, <1>6
<1> QED
  BY <1>3, <1>7 DEF S, b

(* The parts of block number i of f.                                       *)
ArePartsOf(f, i, s) ==
  /\ IsSequence(s) /\ 1 \in DOMAIN s
  /\ \A k \in DOMAIN s : /\ IsPart(f, s[k])
                         /\ s[k].id = Id(f, Blocks[f][i].name, k - 1)
                         /\ EndsWithCall(s[k]) => k + 1 \in DOMAIN s

LEMMA BlockIs ==
  ASSUME NEW f \in Fn, NEW i \in DOMAIN Blocks[f]
  PROVE  ArePartsOf(f, i, CompileBlock(f, i))
<1> DEFINE b == Blocks[f][i]
           c == CutBlock(f, i, b)
           d == c.done
           n == Len(d)
           id == Id(f, b.name, n)
           s == Append(c.cmds, Ended(i - 1))
           p == [parent |-> f, id |-> id, cmds |-> s,
                 prolog |-> i = 1 /\ d = <<>>, term |-> b.term]
           u == Append(d, p)
<1>1. b.name \in Names(f) /\ WellFormedTerm(f, b.term)
  BY BlocksAssumption DEF Names
<1>2. CutInv(f, b, c)
  BY CutBlockIs
<1>3. CompileBlock(f, i) = u
  BY DEF CompileBlock, LastPart
<1> HIDE DEF b, c
<1>4. n \in Nat /\ DOMAIN d = 1 .. n /\ IsSequence(d)
  BY <1>2, SeqIs DEF CutInv
<1>5. IsId(id) /\ id[1] = Norm[f]
  <2> DEFINE m == b.name
  <2> HIDE DEF n, m
  <2>1. m \in Names(f) /\ n \in Nat
    BY <1>1, <1>4 DEF m
  <2>2. IsId(Id(f, m, n)) /\ Id(f, m, n)[1] = Norm[f]
    BY <2>1, IdIs
  <2> QED
    BY <2>2 DEF m
<1>6. Plain(s)
  <2> DEFINE e == Ended(i - 1)  t == c.cmds
  <2>1. HasOp(e, PlainOps)
    BY DEF Ended, PlainOps, HasOp
  <2>2. Plain(t)
    BY <1>2 DEF CutInv
  <2> HIDE DEF e, t
  <2>3. Plain(Append(t, e))
    BY <2>1, <2>2, PlainAppend
  <2> QED
    BY <2>3 DEF e, t
<1>7. p.parent = f /\ p.id = id /\ p.cmds = s /\ p.term = b.term
  BY Zenon
<1> HIDE DEF s, p, id, d, n
<1>8. IsPart(f, p) /\ ~EndsWithCall(p)
  <2>1. \A k \in DOMAIN s : PartCommand(p, s[k])
    BY <1>6 DEF Plain, PartCommand
  <2>2. PartTerm(f, p.term)
    BY <1>1, <1>7 DEF PartTerm
  <2>3. ~EndsWithCall(p)
    BY <1>1, <1>7 DEF EndsWithCall, WellFormedTerm
  <2> QED
    BY <1>5, <1>6, <1>7, <2>1, <2>2, <2>3 DEF IsPart, Plain
<1>9. /\ IsSequence(u) /\ DOMAIN u = 1 .. n + 1
      /\ \A k \in 1 .. n : u[k] = d[k]
      /\ u[n + 1] = p
  BY <1>4, AppendSeq DEF n
<1> HIDE DEF u
<1>10. \A k \in DOMAIN u : /\ IsPart(f, u[k])
                           /\ u[k].id = Id(f, b.name, k - 1)
                           /\ EndsWithCall(u[k]) => k + 1 \in DOMAIN u
  <2> TAKE k \in DOMAIN u
  <2>1. CASE k = n + 1
    <3>1. k - 1 = n
      BY <1>4, <2>1
    <3> QED
      BY <1>7, <1>8, <1>9, <2>1, <3>1 DEF id
  <2>2. CASE k \in 1 .. n
    <3>1. k + 1 \in 1 .. n + 1
      BY <1>4, <2>2
    <3> QED
      BY <1>2, <1>4, <1>9, <2>2, <3>1 DEF CutInv, d
  <2> QED
    BY <1>4, <1>9, <2>1, <2>2
<1>11. 1 \in DOMAIN u
  BY <1>4, <1>9
<1> QED
  BY <1>3, <1>9, <1>10, <1>11 DEF ArePartsOf, b

-----------------------------------------------------------------------------
(* The parts of the first j blocks of f.                                   *)
AreFirstParts(f, j, s) ==
  /\ IsSequence(s)
  /\ \A k \in DOMAIN s : IsPart(f, s[k])
  /\ Distinct(s)
  /\ \A k \in DOMAIN s : EndsWithCall(s[k]) => Known(s, ReturnTo(s[k].id))
  /\ \A i \in 1 .. j : Known(s, Id(f, Blocks[f][i].name, 0))
  /\ \A k \in DOMAIN s : \E i \in 1 .. j : s[k].id[2] = NormBlock(Blocks[f][i].name)

LEMMA NextBlock ==
  ASSUME NamesApart, NEW f \in Fn, NEW j \in Nat, j + 1 \in DOMAIN Blocks[f],
         NEW s, AreFirstParts(f, j, s),
         NEW t, ArePartsOf(f, j + 1, t)
  PROVE  AreFirstParts(f, j + 1, s \o t)
<1> DEFINE b == Blocks[f][j + 1].name
           c == NormBlock(b)
           u == s \o t
           n == Len(s)
<1>1. IsSequence(s) /\ IsSequence(t)
  BY DEF AreFirstParts, ArePartsOf
<1>2. IsSequence(u) /\ n \in Nat
  BY <1>1, ConcatSeq, SeqIs
<1>3. \A k \in DOMAIN u : \/ k \in DOMAIN s /\ u[k] = s[k]
                          \/ k - n \in DOMAIN t /\ u[k] = t[k - n]
  BY <1>1, ConcatElements
<1>4. /\ \A k \in DOMAIN s : k \in DOMAIN u /\ u[k] = s[k]
      /\ \A k \in DOMAIN t : n + k \in DOMAIN u /\ u[n + k] = t[k]
  BY <1>1, ConcatHas
<1>5. b \in Names(f) /\ \A i \in 1 .. j : i \in DOMAIN Blocks[f]
  <2>1. IsSequence(Blocks[f]) /\ b \in Names(f)
    BY BlocksAssumption DEF Names
  <2>2. DOMAIN Blocks[f] = 1 .. Len(Blocks[f]) /\ Len(Blocks[f]) \in Nat
    BY <2>1, SeqIs
  <2> QED
    BY <2>1, <2>2
<1>6. \A i \in 1 .. j : NormBlock(Blocks[f][i].name) # c
  <2> TAKE i \in 1 .. j
  <2> DEFINE a == Blocks[f][i].name
  <2>1. i # j + 1
    OBVIOUS
  <2>2. a # b
    BY <1>5, <2>1, ModuleAssumption
  <2>3. a \in Names(f)
    BY <1>5 DEF Names
  <2> HIDE DEF a, b
  <2>4. NormBlock(a) # NormBlock(b)
    BY <1>5, <2>2, <2>3 DEF NamesApart
  <2> QED
    BY <2>4 DEF a
<1> HIDE DEF u, n, c
<1>7. DOMAIN t \subseteq Nat \ {0} /\ DOMAIN u \subseteq Nat
  <2>1. DOMAIN t = 1 .. Len(t) /\ DOMAIN u = 1 .. Len(u)
    BY <1>1, <1>2, SeqIs
  <2> QED
    BY <2>1
<1>8. \A k \in DOMAIN t : t[k].id = Id(f, b, k - 1)
  BY DEF ArePartsOf
<1>9. \A k \in DOMAIN t : /\ t[k].id[2] = c /\ t[k].id[3] = k - 1
                          /\ ReturnTo(t[k].id) = Id(f, b, k)
  <2> TAKE k \in DOMAIN t
  <2>1. t[k].id = <<Norm[f], c, k - 1>>
    BY <1>8 DEF Id, c
  <2>2. ReturnTo(t[k].id) = <<Norm[f], c, k>>
    BY <1>7, <2>1 DEF ReturnTo
  <2> HIDE DEF b
  <2>3. Id(f, b, k) = <<Norm[f], c, k>>
    BY DEF Id, c
  <2> QED
    BY <2>1, <2>2, <2>3
<1>10. \A k \in DOMAIN u : IsPart(f, u[k])
  BY <1>3 DEF AreFirstParts, ArePartsOf
<1>11. \A k \in DOMAIN s : s[k].id[2] # c
  BY <1>6 DEF AreFirstParts
<1> HIDE DEF b
<1>12. Distinct(u)
  <2> SUFFICES ASSUME NEW k \in DOMAIN u, NEW l \in DOMAIN u, u[k].id = u[l].id
               PROVE  k = l
    BY DEF Distinct
  <2>1. CASE /\ k \in DOMAIN s /\ u[k] = s[k]
             /\ l \in DOMAIN s /\ u[l] = s[l]
    BY <2>1 DEF AreFirstParts, Distinct
  <2>2. CASE /\ k - n \in DOMAIN t /\ u[k] = t[k - n]
             /\ l - n \in DOMAIN t /\ u[l] = t[l - n]
    <3>1. (k - n) - 1 = (l - n) - 1
      BY <1>9, <2>2
    <3> QED
      BY <1>2, <1>7, <3>1
  <2>3. CASE /\ k \in DOMAIN s /\ u[k] = s[k]
             /\ l - n \in DOMAIN t /\ u[l] = t[l - n]
    BY <1>9, <1>11, <2>3
  <2>4. CASE /\ k - n \in DOMAIN t /\ u[k] = t[k - n]
             /\ l \in DOMAIN s /\ u[l] = s[l]
    BY <1>9, <1>11, <2>4
  <2> QED
    BY <1>3, <2>1, <2>2, <2>3, <2>4
<1>13. \A k \in DOMAIN u : EndsWithCall(u[k]) => Known(u, ReturnTo(u[k].id))
  <2> SUFFICES ASSUME NEW k \in DOMAIN u, EndsWithCall(u[k])
               PROVE  Known(u, ReturnTo(u[k].id))
    OBVIOUS
  <2>1. CASE k \in DOMAIN s /\ u[k] = s[k]
    BY <1>4, <2>1 DEF AreFirstParts, Known
  <2>2. CASE k - n \in DOMAIN t /\ u[k] = t[k - n]
    <3> DEFINE m == k - n
    <3>1. m \in DOMAIN t /\ u[k] = t[m] /\ m \in Nat
      BY <1>7, <2>2
    <3> HIDE DEF m
    <3>2. m + 1 \in DOMAIN t
      BY <3>1 DEF ArePartsOf
    <3>3. t[m + 1].id = Id(f, b, m)
      <4>1. (m + 1) - 1 = m
        BY <3>1
      <4> QED
        BY <1>8, <3>2, <4>1
    <3>4. ReturnTo(u[k].id) = Id(f, b, m)
      BY <1>9, <3>1
    <3>5. n + (m + 1) \in DOMAIN u /\ u[n + (m + 1)] = t[m + 1]
      BY <1>4, <3>2
    <3> QED
      BY <3>3, <3>4, <3>5 DEF Known
  <2> QED
    BY <1>3, <2>1, <2>2
<1>14. \A i \in 1 .. j + 1 : Known(u, Id(f, Blocks[f][i].name, 0))
  <2> TAKE i \in 1 .. j + 1
  <2>1. CASE i \in 1 .. j
    BY <1>4, <2>1 DEF AreFirstParts, Known
  <2>2. CASE i = j + 1
    <3>1. t[1].id = Id(f, b, 0) /\ 1 \in DOMAIN t
      <4>1. 1 \in DOMAIN t /\ 1 - 1 = 0
        BY DEF ArePartsOf
      <4> QED
        BY <1>8, <4>1
    <3>2. n + 1 \in DOMAIN u /\ u[n + 1] = t[1]
      BY <1>4, <3>1
    <3> QED
      BY <2>2, <3>1, <3>2 DEF Known, b
  <2> QED
    BY <2>1, <2>2
<1>15. \A k \in DOMAIN u : \E i \in 1 .. j + 1 : u[k].id[2] = NormBlock(Blocks[f][i].name)
  <2> TAKE k \in DOMAIN u
  <2>1. CASE k \in DOMAIN s /\ u[k] = s[k]
    <3>1. PICK i \in 1 .. j : s[k].id[2] = NormBlock(Blocks[f][i].name)
      BY <2>1 DEF AreFirstParts
    <3>2. i \in 1 .. j + 1
      OBVIOUS
    <3> QED
      BY <2>1, <3>1, <3>2
  <2>2. CASE k - n \in DOMAIN t /\ u[k] = t[k - n]
    <3>1. u[k].id[2] = c /\ j + 1 \in 1 .. j + 1
      BY <1>9, <2>2
    <3> QED
      BY <3>1 DEF b, c
  <2> QED
    BY <1>3, <2>1, <2>2
<1>16. AreFirstParts(f, j + 1, u)
  BY <1>2, <1>10, <1>12, <1>13, <1>14, <1>15 DEF AreFirstParts
<1> QED
  BY <1>16 DEF u

LEMMA FunctionIs ==
  ASSUME NamesApart, NEW f \in Fn
  PROVE  AreParts(f, CompileFunction(f))
<1> DEFINE n == Len(Blocks[f])
<1>1. IsSequence(Blocks[f]) /\ Blocks[f] # <<>>
  BY BlocksAssumption, ModuleAssumption
<1>2. n \in Nat /\ DOMAIN Blocks[f] = 1 .. n /\ n # 0
  <2>1. n \in Nat /\ DOMAIN Blocks[f] = 1 .. n
    BY <1>1, SeqIs
  <2>2. n # 0
    BY <1>1 DEF IsSequence
  <2> QED
    BY <2>1, <2>2
<1> HIDE DEF n
<1>3. PICK q : /\ q[0] = <<>>
               /\ \A j \in 1 .. n : q[j] = BlockStep(f, q[j - 1], j)
               /\ CompileFunction(f) = q[n]
  BY <1>2, BlocksFold
<1> DEFINE S == {j \in 0 .. n : AreFirstParts(f, j, q[j])}
<1>4. 0 \in S
  <2> DEFINE s == q[0]
  <2>1. IsSequence(s) /\ DOMAIN s = {}
    <3>1. IsSequence(s)
      BY <1>3, NoneSeq, Zenon
    <3>2. DOMAIN <<>> = {}
      OBVIOUS
    <3>3. s = <<>>
      BY <1>3
    <3> QED
      BY <3>1, <3>2, <3>3, Zenon
  <2> HIDE DEF s
  <2>2. AreFirstParts(f, 0, s)
    BY <2>1 DEF AreFirstParts, Distinct
  <2> QED
    BY <1>2, <2>2 DEF s
<1>5. ASSUME NEW j \in 0 .. n - 1, j \in S
      PROVE  j + 1 \in S
  <2> DEFINE s == q[j]  t == CompileBlock(f, j + 1)
  <2>1. j + 1 \in 1 .. n /\ (j + 1) - 1 = j /\ j \in Nat
    BY <1>2
  <2>2. q[j + 1] = s \o t
    BY <1>3, <2>1 DEF BlockStep
  <2>3. AreFirstParts(f, j, s)
    BY <1>5
  <2>4. ArePartsOf(f, j + 1, t)
    <3> DEFINE i == j + 1
    <3>1. i \in DOMAIN Blocks[f]
      BY <1>2, <2>1
    <3> HIDE DEF i
    <3>2. ArePartsOf(f, i, CompileBlock(f, i))
      BY <3>1, BlockIs
    <3> QED
      BY <3>2 DEF i
  <2>5. j + 1 \in DOMAIN Blocks[f]
    BY <1>2, <2>1
  <2> HIDE DEF s, t
  <2>6. AreFirstParts(f, j + 1, s \o t)
    BY <2>1, <2>3, <2>4, <2>5, NextBlock
  <2>7. AreFirstParts(f, j + 1, q[j + 1])
    BY <2>2, <2>6, Zenon
  <2> QED
    BY <2>1, <2>7
<1> HIDE DEF S
<1>6. 0 .. n \subseteq S
  BY <1>2, <1>4, <1>5, BoundedInduction
<1>7. n \in S
  BY <1>2, <1>6
<1> DEFINE s == q[n]
<1>8. AreFirstParts(f, n, s)
  BY <1>7 DEF S
<1> HIDE DEF s
<1>9. \A b \in Names(f) : Known(s, Id(f, b, 0))
  <2> TAKE b \in Names(f)
  <2>1. PICK i \in 1 .. n : b = Blocks[f][i].name
    BY <1>2 DEF Names
  <2> QED
    BY <1>8, <2>1 DEF AreFirstParts
<1>10. s # <<>>
  <2>1. Known(s, Id(f, Blocks[f][1].name, 0))
    <3>1. 1 \in 1 .. n
      BY <1>2
    <3> QED
      BY <1>8, <3>1 DEF AreFirstParts
  <2>2. \A i \in DOMAIN <<>> : FALSE
    OBVIOUS
  <2> QED
    BY <2>1, <2>2 DEF Known
<1>11. AreParts(f, s)
  BY <1>8, <1>9, <1>10 DEF AreParts, AreFirstParts
<1> QED
  BY <1>3, <1>11 DEF s

-----------------------------------------------------------------------------
(***************************************************************************)
(* compile_module_abstract: the first part of a function goes to the end   *)
(* of the first parts, the others to the end of the others.                *)
(***************************************************************************)
(* The list u is s with the elements of t put in: the first behind number  *)
(* h, the others at the end.                                               *)
Inserted(s, h, t, u) ==
  /\ IsSequence(u) /\ Len(u) = Len(s) + Len(t)
  /\ \A k \in 1 .. h : u[k] = s[k]
  /\ u[h + 1] = t[1]
  /\ \A k \in h + 1 .. Len(s) : u[k + 1] = s[k]
  /\ \A k \in 2 .. Len(t) : u[Len(s) + k] = t[k]

LEMMA InsertedIs ==
  ASSUME NEW s, NEW r, IsSequence(s), IsSequence(r), NEW t, IsSequence(t), t # <<>>
  PROVE  Inserted(s \o r, Len(s), t, Append(s, Head(t)) \o (r \o Tail(t)))
<1> DEFINE X == ToSet(s) \cup ToSet(r) \cup ToSet(t)
           u == Append(s, Head(t)) \o (r \o Tail(t))
<1>1. s \in Seq(X) /\ r \in Seq(X) /\ t \in Seq(X)
  BY DEF IsSequence
<1> HIDE DEF X
<1>2. /\ Len(s) \in Nat /\ Len(r) \in Nat /\ Len(t) \in Nat \ {0}
      /\ Head(t) = t[1] /\ Head(t) \in X
      /\ Tail(t) \in Seq(X) /\ Len(Tail(t)) = Len(t) - 1
      /\ \A k \in 1 .. Len(t) - 1 : Tail(t)[k] = t[k + 1]
  BY <1>1
<1> DEFINE a == Append(s, Head(t))  e == Tail(t)  b == r \o e
<1> HIDE DEF e
<1>3. /\ IsSequence(a) /\ Len(a) = Len(s) + 1
      /\ \A k \in 1 .. Len(s) : a[k] = s[k]
      /\ a[Len(s) + 1] = t[1]
  BY <1>2, AppendSeq
<1>4. IsSequence(e) /\ Len(e) = Len(t) - 1 /\ \A k \in 1 .. Len(t) - 1 : e[k] = t[k + 1]
  BY <1>2, SeqGiven DEF e
<1>5. /\ IsSequence(b) /\ Len(b) = Len(r) + Len(e)
      /\ \A k \in 1 .. Len(r) : b[k] = r[k]
      /\ \A k \in 1 .. Len(e) : b[Len(r) + k] = e[k]
  <2>1. IsSequence(e)
    BY <1>4
  <2> QED
    BY <2>1, ConcatSeq
<1> HIDE DEF a, b
<1>6. /\ IsSequence(a \o b) /\ Len(a \o b) = Len(a) + Len(b)
      /\ \A k \in 1 .. Len(a) : (a \o b)[k] = a[k]
      /\ \A k \in 1 .. Len(b) : (a \o b)[Len(a) + k] = b[k]
  <2>1. IsSequence(a) /\ IsSequence(b)
    BY <1>3, <1>5
  <2> QED
    BY <2>1, ConcatSeq
<1> DEFINE v == a \o b  w == s \o r  h == Len(s)
<1>7. /\ Len(w) = h + Len(r)
      /\ \A k \in 1 .. h : w[k] = s[k]
      /\ \A k \in 1 .. Len(r) : w[h + k] = r[k]
  BY ConcatSeq
<1> HIDE DEF v, w, h
<1>8. /\ IsSequence(v) /\ Len(v) = Len(a) + Len(b)
      /\ \A k \in 1 .. Len(a) : v[k] = a[k]
      /\ \A k \in 1 .. Len(b) : v[Len(a) + k] = b[k]
  BY <1>6 DEF v
<1>9. h \in Nat /\ Len(a) = h + 1 /\ Len(b) = Len(r) + (Len(t) - 1) /\ Len(e) = Len(t) - 1
  BY <1>2, <1>3, <1>4, <1>5 DEF h
<1>10. Len(v) = Len(w) + Len(t)
  BY <1>2, <1>7, <1>8, <1>9
<1>11. \A k \in 1 .. h : v[k] = w[k]
  <2> TAKE k \in 1 .. h
  <2>1. k \in 1 .. Len(a) /\ k \in 1 .. Len(s)
    BY <1>9 DEF h
  <2> QED
    BY <1>3, <1>7, <1>8, <2>1
<1>12. v[h + 1] = t[1]
  <2>1. h + 1 \in 1 .. Len(a)
    BY <1>9
  <2> QED
    BY <1>3, <1>8, <2>1 DEF h
<1>13. \A k \in h + 1 .. Len(w) : v[k + 1] = w[k]
  <2> TAKE k \in h + 1 .. Len(w)
  <2> DEFINE m == k - h
  <2>1. m \in 1 .. Len(r) /\ h + m = k /\ Len(a) + m = k + 1 /\ m \in 1 .. Len(b)
    BY <1>2, <1>7, <1>9
  <2> HIDE DEF m
  <2>2. w[h + m] = r[m] /\ b[m] = r[m] /\ v[Len(a) + m] = b[m]
    BY <1>5, <1>7, <1>8, <2>1
  <2> QED
    BY <2>1, <2>2
<1>14. \A k \in 2 .. Len(t) : v[Len(w) + k] = t[k]
  <2> TAKE k \in 2 .. Len(t)
  <2> DEFINE m == k - 1  l == Len(r) + m
  <2>1. /\ m \in 1 .. Len(e) /\ m + 1 = k /\ m \in 1 .. Len(t) - 1
        /\ l \in 1 .. Len(b) /\ Len(a) + l = Len(w) + k
    BY <1>2, <1>7, <1>9
  <2>2. v[Len(a) + l] = b[l]
    BY <1>8, <2>1
  <2>3. b[l] = e[m]
    BY <1>5, <2>1
  <2>4. e[m] = t[k]
    BY <1>4, <2>1
  <2> QED
    BY <2>1, <2>2, <2>3, <2>4
<1>15. Inserted(w, h, t, v)
  BY <1>8, <1>10, <1>11, <1>12, <1>13, <1>14 DEF Inserted
<1> QED
  BY <1>15 DEF v, w, h, a, b, e

(* Where an element of u comes from, and where those of s and t went.      *)
LEMMA InsertedFrom ==
  ASSUME NEW s, NEW h \in Nat, NEW t, NEW u, IsSequence(s), IsSequence(t),
         t # <<>>, h <= Len(s), Inserted(s, h, t, u)
  PROVE  /\ \A k \in DOMAIN u :
              \/ k \in 1 .. h /\ k \in DOMAIN s /\ u[k] = s[k]
              \/ k = h + 1 /\ 1 \in DOMAIN t /\ u[k] = t[1]
              \/ k \in h + 2 .. Len(s) + 1 /\ k - 1 \in DOMAIN s /\ u[k] = s[k - 1]
              \/ k \in Len(s) + 2 .. Len(s) + Len(t) /\ k - Len(s) \in DOMAIN t
                 /\ u[k] = t[k - Len(s)]
         /\ \A k \in DOMAIN s : \E l \in DOMAIN u : u[l] = s[k]
         /\ \A k \in DOMAIN t : \E l \in DOMAIN u : u[l] = t[k]
<1> DEFINE n == Len(s)  m == Len(t)
<1>1. n \in Nat /\ DOMAIN s = 1 .. n /\ m \in Nat /\ DOMAIN t = 1 .. m /\ m # 0
  <2>1. m # 0
    BY DEF IsSequence
  <2> QED
    BY <2>1, SeqIs
<1>2. /\ DOMAIN u = 1 .. n + m
      /\ \A k \in 1 .. h : u[k] = s[k]
      /\ u[h + 1] = t[1]
      /\ \A k \in h + 1 .. n : u[k + 1] = s[k]
      /\ \A k \in 2 .. m : u[n + k] = t[k]
  BY SeqIs DEF Inserted
<1>3. h <= n
  OBVIOUS
<1> HIDE DEF n, m
<1>4. ASSUME NEW k \in DOMAIN u
      PROVE  \/ k \in 1 .. h /\ k \in DOMAIN s /\ u[k] = s[k]
             \/ k = h + 1 /\ 1 \in DOMAIN t /\ u[k] = t[1]
             \/ k \in h + 2 .. n + 1 /\ k - 1 \in DOMAIN s /\ u[k] = s[k - 1]
             \/ k \in n + 2 .. n + m /\ k - n \in DOMAIN t /\ u[k] = t[k - n]
  <2>1. CASE k \in 1 .. h
    BY <1>1, <1>2, <1>3, <2>1
  <2>2. CASE k = h + 1
    BY <1>1, <1>2, <2>2
  <2>3. CASE k \in h + 2 .. n + 1
    <3> DEFINE j == k - 1
    <3>1. j \in h + 1 .. n /\ j \in 1 .. n /\ j + 1 = k
      BY <1>1, <2>3
    <3> HIDE DEF j
    <3>2. u[j + 1] = s[j]
      BY <1>2, <3>1
    <3> QED
      BY <1>1, <2>3, <3>1, <3>2 DEF j
  <2>4. CASE k \in n + 2 .. n + m
    <3> DEFINE j == k - n
    <3>1. j \in 2 .. m /\ j \in 1 .. m /\ n + j = k
      BY <1>1, <2>4
    <3> HIDE DEF j
    <3>2. u[n + j] = t[j]
      BY <1>2, <3>1
    <3> QED
      BY <1>1, <2>4, <3>1, <3>2 DEF j
  <2> QED
    BY <1>1, <1>2, <1>3, <2>1, <2>2, <2>3, <2>4
<1>5. ASSUME NEW k \in DOMAIN s
      PROVE  \E l \in DOMAIN u : u[l] = s[k]
  <2>1. CASE k <= h
    <3>1. k \in 1 .. h /\ k \in DOMAIN u
      BY <1>1, <1>2, <2>1
    <3> QED
      BY <1>2, <3>1
  <2>2. CASE k > h
    <3>1. k \in h + 1 .. n /\ k + 1 \in DOMAIN u
      BY <1>1, <1>2, <2>2
    <3> QED
      BY <1>2, <3>1
  <2> QED
    BY <1>1, <2>1, <2>2
<1>6. ASSUME NEW k \in DOMAIN t
      PROVE  \E l \in DOMAIN u : u[l] = t[k]
  <2>1. CASE k = 1
    <3>1. h + 1 \in DOMAIN u
      BY <1>1, <1>2, <1>3
    <3> QED
      BY <1>2, <2>1, <3>1
  <2>2. CASE k # 1
    <3>1. k \in 2 .. m /\ n + k \in DOMAIN u
      BY <1>1, <1>2, <2>2
    <3> QED
      BY <1>2, <3>1
  <2> QED
    BY <2>1, <2>2
<1> QED
  BY <1>4, <1>5, <1>6 DEF n, m

LEMMA InsertedDistinct ==
  ASSUME NEW s, NEW h \in Nat, NEW t, NEW u, IsSequence(s), IsSequence(t),
         t # <<>>, h <= Len(s), Inserted(s, h, t, u),
         Distinct(s), Distinct(t),
         \A i \in DOMAIN s : \A j \in DOMAIN t : s[i].id # t[j].id
  PROVE  Distinct(u)
<1> DEFINE n == Len(s)  m == Len(t)
           A(k) == k \in 1 .. h /\ k \in DOMAIN s /\ u[k] = s[k]
           B(k) == k = h + 1 /\ 1 \in DOMAIN t /\ u[k] = t[1]
           C(k) == k \in h + 2 .. n + 1 /\ k - 1 \in DOMAIN s /\ u[k] = s[k - 1]
           D(k) == k \in n + 2 .. n + m /\ k - n \in DOMAIN t /\ u[k] = t[k - n]
<1>1. \A k \in DOMAIN u : A(k) \/ B(k) \/ C(k) \/ D(k)
  BY InsertedFrom
<1>2. n \in Nat /\ m \in Nat
  BY SeqIs
<1> HIDE DEF n, m
<1>3. SUFFICES ASSUME NEW k \in DOMAIN u, NEW l \in DOMAIN u, u[k].id = u[l].id
               PROVE  k = l
  BY DEF Distinct
<1>4. A(k) /\ A(l) => k = l
  BY <1>3 DEF Distinct
<1>5. A(k) /\ C(l) => k = l
  <2> SUFFICES ASSUME A(k), C(l) PROVE FALSE
    OBVIOUS
  <2>1. k = l - 1
    BY <1>3 DEF Distinct
  <2> QED
    BY <2>1
<1>6. C(k) /\ A(l) => k = l
  <2> SUFFICES ASSUME C(k), A(l) PROVE FALSE
    OBVIOUS
  <2>1. l = k - 1
    BY <1>3 DEF Distinct
  <2> QED
    BY <2>1
<1>7. C(k) /\ C(l) => k = l
  <2> SUFFICES ASSUME C(k), C(l) PROVE k = l
    OBVIOUS
  <2>1. k - 1 = l - 1
    BY <1>3 DEF Distinct
  <2> QED
    BY <2>1
<1>8. D(k) /\ D(l) => k = l
  <2> SUFFICES ASSUME D(k), D(l) PROVE k = l
    OBVIOUS
  <2>1. k - n = l - n
    BY <1>3 DEF Distinct
  <2> QED
    BY <1>2, <2>1
<1>9. B(k) /\ B(l) => k = l
  OBVIOUS
<1>10. B(k) /\ D(l) => k = l
  <2> SUFFICES ASSUME B(k), D(l) PROVE FALSE
    OBVIOUS
  <2>1. 1 = l - n
    BY <1>3 DEF Distinct
  <2> QED
    BY <1>2, <2>1
<1>11. D(k) /\ B(l) => k = l
  <2> SUFFICES ASSUME D(k), B(l) PROVE FALSE
    OBVIOUS
  <2>1. 1 = k - n
    BY <1>3 DEF Distinct
  <2> QED
    BY <1>2, <2>1
<1>12. (A(k) \/ C(k)) /\ (B(l) \/ D(l)) => FALSE
  BY <1>3
<1>13. (B(k) \/ D(k)) /\ (A(l) \/ C(l)) => FALSE
  BY <1>3
<1> HIDE DEF A, B, C, D
<1> QED
  BY <1>1, <1>4, <1>5, <1>6, <1>7, <1>8, <1>9, <1>10, <1>11, <1>12, <1>13

-----------------------------------------------------------------------------
(* A function of which no part is in the list yet joins it.                *)
Joins(s, h, st, f, t, u, st2) ==
  /\ Compiled(s, st) /\ DOMAIN st \subseteq Fn
  /\ f \in Fn /\ f \notin DOMAIN st
  /\ AreParts(f, t) /\ h \in Nat /\ h <= Len(s) /\ Inserted(s, h, t, u)
  /\ DOMAIN st2 = DOMAIN st \cup {f} /\ st2[f] = t[1].id
  /\ \A g \in DOMAIN st : st2[g] = st[g]

LEMMA CompiledMore ==
  ASSUME NamesApart, NEW s, NEW h, NEW st, NEW f, NEW t, NEW u, NEW st2,
         Joins(s, h, st, f, t, u, st2)
  PROVE  Compiled(u, st2)
<1> USE DEF Joins
<1>1. /\ IsSequence(s) /\ IsSequence(t) /\ t # <<>>
      /\ Distinct(s) /\ Distinct(t)
  BY DEF Compiled, AreParts
<1>2. \A i \in DOMAIN s : \A j \in DOMAIN t : s[i].id # t[j].id
  <2> TAKE i \in DOMAIN s
  <2> TAKE j \in DOMAIN t
  <2>1. s[i].parent \in DOMAIN st /\ s[i].id[1] = Norm[s[i].parent]
    BY DEF Compiled, IsPart
  <2>2. t[j].id[1] = Norm[f]
    BY DEF AreParts, IsPart
  <2>3. s[i].parent \in Fn /\ s[i].parent # f
    BY <2>1
  <2> QED
    BY <2>1, <2>2, <2>3 DEF NamesApart
<1>3. Distinct(u)
  BY <1>1, <1>2, InsertedDistinct
<1>4. /\ \A k \in DOMAIN u : \/ \E i \in DOMAIN s : u[k] = s[i]
                             \/ \E i \in DOMAIN t : u[k] = t[i]
      /\ \A k \in DOMAIN s : \E l \in DOMAIN u : u[l] = s[k]
      /\ \A k \in DOMAIN t : \E l \in DOMAIN u : u[l] = t[k]
  <2>1. /\ \A k \in DOMAIN u :
              \/ k \in 1 .. h /\ k \in DOMAIN s /\ u[k] = s[k]
              \/ k = h + 1 /\ 1 \in DOMAIN t /\ u[k] = t[1]
              \/ k \in h + 2 .. Len(s) + 1 /\ k - 1 \in DOMAIN s /\ u[k] = s[k - 1]
              \/ k \in Len(s) + 2 .. Len(s) + Len(t) /\ k - Len(s) \in DOMAIN t
                 /\ u[k] = t[k - Len(s)]
        /\ \A k \in DOMAIN s : \E l \in DOMAIN u : u[l] = s[k]
        /\ \A k \in DOMAIN t : \E l \in DOMAIN u : u[l] = t[k]
    BY <1>1, InsertedFrom
  <2> QED
    BY <2>1
<1>5. /\ \A id : Known(s, id) => Known(u, id)
      /\ \A id : Known(t, id) => Known(u, id)
  <2>1. ASSUME NEW v, \A k \in DOMAIN v : \E l \in DOMAIN u : u[l] = v[k],
               NEW id, Known(v, id)
        PROVE  Known(u, id)
    <3> PICK k \in DOMAIN v : v[k].id = id
      BY <2>1 DEF Known
    <3> PICK l \in DOMAIN u : u[l] = v[k]
      BY <2>1
    <3> QED
      BY DEF Known
  <2> QED
    BY <1>4, <2>1
<1>6. 1 \in DOMAIN t
  <2>1. Len(t) # 0 /\ Len(t) \in Nat /\ DOMAIN t = 1 .. Len(t)
    BY <1>1, SeqIs DEF IsSequence
  <2> QED
    BY <2>1
<1>7. \A k \in DOMAIN u : u[k].parent \in DOMAIN st2 /\ IsPart(u[k].parent, u[k])
  <2> TAKE k \in DOMAIN u
  <2>1. CASE \E i \in DOMAIN s : u[k] = s[i]
    BY <2>1 DEF Compiled
  <2>2. CASE \E i \in DOMAIN t : u[k] = t[i]
    <3> PICK i \in DOMAIN t : u[k] = t[i]
      BY <2>2
    <3>1. IsPart(f, t[i])
      BY DEF AreParts
    <3>2. t[i].parent = f
      BY <3>1 DEF IsPart
    <3> QED
      BY <3>1, <3>2
  <2> QED
    BY <1>4, <2>1, <2>2
<1>8. \A k \in DOMAIN u : EndsWithCall(u[k]) => Known(u, ReturnTo(u[k].id))
  <2> TAKE k \in DOMAIN u
  <2>1. CASE \E i \in DOMAIN s : u[k] = s[i]
    BY <1>5, <2>1 DEF Compiled
  <2>2. CASE \E i \in DOMAIN t : u[k] = t[i]
    BY <1>5, <2>2 DEF AreParts
  <2> QED
    BY <1>4, <2>1, <2>2
<1>9. \A g \in DOMAIN st2 : \A b \in Names(g) : Known(u, Id(g, b, 0))
  <2> TAKE g \in DOMAIN st2
  <2> TAKE b \in Names(g)
  <2>1. CASE g = f
    BY <1>5, <2>1 DEF AreParts
  <2>2. CASE g \in DOMAIN st
    BY <1>5, <2>2 DEF Compiled
  <2> QED
    BY <2>1, <2>2
<1>10. \A g \in DOMAIN st2 : Known(u, st2[g])
  <2> TAKE g \in DOMAIN st2
  <2>1. CASE g = f
    BY <1>5, <1>6, <2>1 DEF Known
  <2>2. CASE g \in DOMAIN st
    BY <1>5, <2>2 DEF Compiled
  <2> QED
    BY <2>1, <2>2
<1>11. IsSequence(u)
  BY DEF Inserted
<1> QED
  BY <1>3, <1>7, <1>8, <1>9, <1>10, <1>11 DEF Compiled

LEMMA OrderIs ==
  ASSUME NEW k \in 0 .. Len(FnOrder), k < Len(FnOrder)
  PROVE  /\ FnOrder[k + 1] \in Fn
         /\ FnOrder[k + 1] \notin {FnOrder[i] : i \in 1 .. k}
         /\ {FnOrder[i] : i \in 1 .. k + 1}
              = {FnOrder[i] : i \in 1 .. k} \cup {FnOrder[k + 1]}
         /\ {FnOrder[i] : i \in 1 .. k} \subseteq Fn
         /\ k + 1 \in 0 .. Len(FnOrder)
<1> DEFINE n == Len(FnOrder)  s == FnOrder
<1>1. n \in Nat /\ DOMAIN s = 1 .. n /\ \A i \in 1 .. n : s[i] \in Fn
  BY BlocksAssumption
<1>2. \A i, j \in 1 .. n : s[i] = s[j] => i = j
  BY <1>1, ModuleAssumption DEF IsInjective
<1>3. k \in Nat /\ k < n
  BY <1>1
<1> HIDE DEF n, s
<1>4. /\ s[k + 1] \in Fn
      /\ {s[i] : i \in 1 .. k} \subseteq Fn
      /\ k + 1 \in 0 .. n
  BY <1>1, <1>3
<1>5. s[k + 1] \notin {s[i] : i \in 1 .. k}
  BY <1>1, <1>2, <1>3
<1>6. {s[i] : i \in 1 .. k + 1} = {s[i] : i \in 1 .. k} \cup {s[k + 1]}
  <2>1. 1 .. k + 1 = (1 .. k) \cup {k + 1}
    BY <1>3
  <2> QED
    BY <2>1
<1> QED
  BY <1>4, <1>5, <1>6 DEF n, s

LEMMA CompileNextInv ==
  ASSUME NamesApart PROVE CompileInv /\ CompileNext => CompileInv'
<1> SUFFICES ASSUME CompileInv, CompileNext PROVE CompileInv'
  OBVIOUS
<1> DEFINE k == compiled  n == Len(FnOrder)
<1>1. /\ phase = "compile" /\ phase' = (IF compiled' = n THEN "link" ELSE "compile")
      /\ k' = k + 1 /\ list' = list /\ table' = table
  BY DEF CompileNext
<1>2. /\ k \in 0 .. n /\ k < n
      /\ IsSequence(heads) /\ IsSequence(tails)
      /\ DOMAIN starts = {FnOrder[i] : i \in 1 .. k}
      /\ Compiled(heads \o tails, starts)
      /\ list = <<>> /\ table = <<>>
  BY <1>1 DEF CompileInv
<1> DEFINE f == FnOrder[k + 1]  t == CompileFunction(f)
<1>3. /\ starts' = [g \in DOMAIN starts \cup {f} |->
                     IF g = f THEN Head(t).id ELSE starts[g]]
      /\ heads' = Append(heads, Head(t))
      /\ tails' = tails \o Tail(t)
  BY Zenon DEF CompileNext
<1>4. /\ f \in Fn /\ f \notin DOMAIN starts
      /\ {FnOrder[i] : i \in 1 .. k + 1} = DOMAIN starts \cup {f}
      /\ DOMAIN starts \subseteq Fn
      /\ k + 1 \in 0 .. n
  BY <1>2, OrderIs
<1>5. AreParts(f, t)
  <2> HIDE DEF f
  <2> QED
    BY <1>4, FunctionIs
<1> HIDE DEF f, t
<1>6. IsSequence(t) /\ t # <<>> /\ Head(t) = t[1]
  <2>1. t \in Seq(ToSet(t)) /\ t # <<>>
    BY <1>5 DEF AreParts, IsSequence
  <2> QED
    BY <2>1 DEF IsSequence
<1> DEFINE s == heads \o tails  h == Len(heads)  u == heads' \o tails'
<1>7. h \in Nat /\ IsSequence(s) /\ h <= Len(s)
  <2>1. Len(heads) \in Nat /\ Len(tails) \in Nat
    BY <1>2, SeqIs
  <2>2. IsSequence(heads \o tails) /\ Len(heads \o tails) = Len(heads) + Len(tails)
    BY <1>2, ConcatSeq
  <2> QED
    BY <2>1, <2>2
<1>8. u = Append(heads, Head(t)) \o (tails \o Tail(t))
  BY <1>3
<1>9. Inserted(s, h, t, u)
  <2>1. Inserted(s, h, t, Append(heads, Head(t)) \o (tails \o Tail(t)))
    BY <1>2, <1>6, InsertedIs
  <2> QED
    BY <1>8, <2>1
<1>10. /\ DOMAIN starts' = DOMAIN starts \cup {f}
       /\ starts'[f] = t[1].id
       /\ \A g \in DOMAIN starts : starts'[g] = starts[g]
  BY <1>3, <1>4, <1>6
<1>11. Compiled(u, starts')
  <2> DEFINE st == starts  st2 == starts'
  <2>1. /\ DOMAIN st2 = DOMAIN st \cup {f} /\ st2[f] = t[1].id
        /\ \A g \in DOMAIN st : st2[g] = st[g]
        /\ Compiled(s, st) /\ DOMAIN st \subseteq Fn /\ f \in Fn /\ f \notin DOMAIN st
        /\ AreParts(f, t) /\ Inserted(s, h, t, u) /\ h \in Nat /\ h <= Len(s)
    BY <1>2, <1>4, <1>5, <1>7, <1>9, <1>10
  <2> HIDE DEF s, u, h, st, st2
  <2>2. Compiled(u, st2)
    <3>1. Joins(s, h, st, f, t, u, st2)
      BY <2>1 DEF Joins
    <3> QED
      BY <3>1, CompiledMore
  <2> QED
    BY <2>2 DEF st2
<1>12. IsSequence(heads') /\ IsSequence(tails')
  <2>1. IsSequence(Append(heads, Head(t)))
    <3> DEFINE x == Head(t)
    <3> HIDE DEF x
    <3>1. IsSequence(Append(heads, x))
      BY <1>2, AppendSeq
    <3> QED
      BY <3>1 DEF x
  <2>2. IsSequence(Tail(t))
    <3>1. Tail(t) \in Seq(ToSet(t))
      BY <1>6 DEF IsSequence
    <3> QED
      BY <3>1, SeqGiven
  <2>3. IsSequence(tails \o Tail(t))
    <3> DEFINE x == Tail(t)
    <3> HIDE DEF x
    <3>1. IsSequence(x)
      BY <2>2 DEF x
    <3>2. IsSequence(tails \o x)
      BY <1>2, <3>1, ConcatSeq
    <3> QED
      BY <3>2 DEF x
  <2> QED
    BY <1>3, <2>1, <2>3
<1>13. /\ compiled' \in 0 .. n
       /\ phase' # "link" => compiled' < n
       /\ phase' = "link" => compiled' = n
       /\ DOMAIN starts' = {FnOrder[i] : i \in 1 .. compiled'}
  <2>1. n \in Nat
    BY BlocksAssumption
  <2>2. DOMAIN starts' = {FnOrder[i] : i \in 1 .. compiled'}
    BY <1>1, <1>4, <1>10
  <2>3. compiled' \in 0 .. n /\ (compiled' # n => compiled' < n)
    BY <1>1, <1>4, <2>1
  <2>4. phase' = "link" <=> compiled' = n
    BY <1>1
  <2> QED
    BY <2>2, <2>3, <2>4
<1>14. list' = <<>> /\ table' = <<>>
  BY <1>1, <1>2
<1> QED
  BY <1>11, <1>12, <1>13, <1>14 DEF CompileInv

-----------------------------------------------------------------------------
(* The other steps of the compilation of functions.                        *)
LEMMA CompileInitInv == Init => CompileInv
<1> SUFFICES ASSUME Init PROVE CompileInv
  OBVIOUS
<1>1. /\ phase = "layout" /\ compiled = 0 /\ heads = <<>> /\ tails = <<>>
      /\ starts = <<>> /\ list = <<>> /\ table = <<>>
  BY DEF Init
<1>2. Len(FnOrder) \in Nat /\ 0 < Len(FnOrder)
  <2>1. FnOrder \in Seq(Fn)
    BY BlocksAssumption
  <2>2. \E i \in DOMAIN FnOrder : FnOrder[i] = Main
    BY ModuleAssumption DEF ToSet
  <2> QED
    BY <2>1, <2>2
<1>3. DOMAIN starts = {FnOrder[i] : i \in 1 .. compiled}
  <2>1. DOMAIN starts = {} /\ 1 .. compiled = {}
    BY <1>1
  <2> QED
    BY <2>1
<1>4. Compiled(heads \o tails, starts)
  <2>1. heads \o tails = <<>> /\ DOMAIN starts = {}
    BY <1>1
  <2>2. IsSequence(<<>>) /\ DOMAIN <<>> = {}
    BY NoneSeq
  <2> QED
    BY <2>1, <2>2 DEF Compiled, Distinct
<1> QED
  BY <1>1, <1>2, <1>3, <1>4, NoneSeq DEF CompileInv

LEMMA CompileOthersInv ==
  ASSUME NamesApart PROVE CompileInv /\ [Next]_vars => CompileInv'
<1> SUFFICES ASSUME CompileInv, [Next]_vars PROVE CompileInv'
  OBVIOUS
<1>1. CASE LayOutVariable
  <2>1. /\ phase = "layout" /\ phase' \in {"layout", "compile"}
        /\ UNCHANGED <<compiled, heads, tails, starts, list, table>>
    BY <1>1 DEF LayOutVariable
  <2> QED
    BY <2>1 DEF CompileInv
<1>2. CASE CompileNext
  BY <1>2, CompileNextInv
<1>3. CASE Link
  BY <1>3 DEF Link, CompileInv
<1>4. CASE Relocate
  BY <1>4 DEF Relocate, CompileInv
<1>5. CASE Finish
  BY <1>5 DEF Finish, CompileInv
<1>6. CASE Start
  BY <1>6 DEF Start, CompileInv
<1>7. CASE RunFunction
  BY <1>7 DEF RunFunction, CompileInv, compiler
<1>8. CASE UNCHANGED vars
  BY <1>8 DEF CompileInv, vars, compiler
<1> QED
  BY <1>1, <1>2, <1>3, <1>4, <1>5, <1>6, <1>7, <1>8 DEF Next

-----------------------------------------------------------------------------
(***************************************************************************)
(* reify_block: what compile_block_end puts behind the commands of a part  *)
(* goes to functions that are in the list, and returns last of all.        *)
(***************************************************************************)
Ahead(s, e) ==
  /\ IsSequence(e)
  /\ \A j \in DOMAIN e : /\ HasOp(e[j], EndOps) /\ e[j].op # "return"
                         /\ Leads(s, e[j])

Ending(s, e) ==
  /\ IsSequence(e)
  /\ \A j \in DOMAIN e : /\ HasOp(e[j], EndOps) /\ Leads(s, e[j])
                         /\ e[j].op = "return" => j = Len(e)

LEMMA AheadEnds ==
  ASSUME NEW s, NEW e, Ahead(s, e)
  PROVE  Ending(s, e)
  BY DEF Ahead, Ending

LEMMA AheadOne ==
  ASSUME NEW s, NEW c, HasOp(c, EndOps), c.op # "return", Leads(s, c)
  PROVE  Ahead(s, <<c>>)
<1>1. IsSequence(<<c>>) /\ Len(<<c>>) = 1 /\ <<c>>[1] = c
  BY OneSeq
<1>2. \A i \in DOMAIN <<c>> : i = 1
  OBVIOUS
<1> QED
  BY <1>1, <1>2 DEF Ahead

LEMMA EndsOne ==
  ASSUME NEW s, NEW c, HasOp(c, EndOps), Leads(s, c)
  PROVE  Ending(s, <<c>>)
<1>1. IsSequence(<<c>>) /\ Len(<<c>>) = 1 /\ <<c>>[1] = c
  BY OneSeq
<1>2. \A i \in DOMAIN <<c>> : i = 1
  OBVIOUS
<1> QED
  BY <1>1, <1>2 DEF Ending

LEMMA AheadConcat ==
  ASSUME NEW s, NEW d, NEW e, Ahead(s, d), Ahead(s, e)
  PROVE  Ahead(s, d \o e)
<1>1. IsSequence(d) /\ IsSequence(e)
  BY DEF Ahead
<1>2. IsSequence(d \o e)
  BY <1>1, ConcatSeq
<1>3. \A j \in DOMAIN (d \o e) : \/ j \in DOMAIN d /\ (d \o e)[j] = d[j]
                                 \/ j - Len(d) \in DOMAIN e
                                    /\ (d \o e)[j] = e[j - Len(d)]
  BY <1>1, ConcatElements
<1> DEFINE u == d \o e
<1> HIDE DEF u
<1>4. \A j \in DOMAIN u : HasOp(u[j], EndOps) /\ u[j].op # "return" /\ Leads(s, u[j])
  BY <1>3 DEF Ahead, u
<1> QED
  BY <1>2, <1>4 DEF Ahead, u

LEMMA EndsConcat ==
  ASSUME NEW s, NEW d, NEW e, Ahead(s, d), Ending(s, e)
  PROVE  Ending(s, d \o e)
<1>1. IsSequence(d) /\ IsSequence(e)
  BY DEF Ahead, Ending
<1>2. IsSequence(d \o e) /\ Len(d \o e) = Len(d) + Len(e) /\ Len(d) \in Nat /\ Len(e) \in Nat
      /\ DOMAIN (d \o e) = 1 .. Len(d) + Len(e)
  BY <1>1, ConcatSeq, SeqIs
<1>3. \A j \in DOMAIN (d \o e) : \/ j \in DOMAIN d /\ (d \o e)[j] = d[j]
                                 \/ j - Len(d) \in DOMAIN e
                                    /\ (d \o e)[j] = e[j - Len(d)]
  BY <1>1, ConcatElements
<1> DEFINE u == d \o e  m == Len(d)  n == Len(e)
<1> HIDE DEF u, m, n
<1>4. \A j \in DOMAIN u : /\ HasOp(u[j], EndOps) /\ Leads(s, u[j])
                          /\ u[j].op = "return" => j = m + n
  <2> TAKE j \in DOMAIN u
  <2>1. CASE j \in DOMAIN d /\ u[j] = d[j]
    BY <2>1 DEF Ahead
  <2>2. CASE j - m \in DOMAIN e /\ u[j] = e[j - m]
    <3> DEFINE k == j - m
    <3>1. HasOp(e[k], EndOps) /\ Leads(s, e[k]) /\ (e[k].op = "return" => k = n)
      BY <2>2 DEF Ending, n
    <3>2. j \in Int /\ m \in Int /\ n \in Int
      BY <1>2 DEF u, m, n
    <3> QED
      BY <2>2, <3>1, <3>2
  <2> QED
    BY <1>3, <2>1, <2>2 DEF u, m
<1> QED
  BY <1>2, <1>4 DEF Ending, u, m, n

LEMMA EdgeLeads ==
  ASSUME NEW s, NEW id, Known(s, id), NEW x, NEW y
  PROVE  /\ Edge(x, y, id).op = "edge" /\ "op" \in DOMAIN Edge(x, y, id)
         /\ Leads(s, Edge(x, y, id))
<1> DEFINE t == Text(id)
<1>1. Edge(x, y, id) = [op |-> "edge", ifs |-> x, unless |-> y, to |-> t]
  BY DEF Edge
<1> HIDE DEF t
<1>3. /\ Edge(x, y, id).op = "edge" /\ Edge(x, y, id).to = t
      /\ "op" \in DOMAIN Edge(x, y, id) /\ "what" \notin DOMAIN Edge(x, y, id)
  BY <1>1
<1>2. \E i \in DOMAIN s : Text(s[i].id) = Text(id)
  BY DEF Known
<1> QED
  BY <1>2, <1>3 DEF Leads, t

LEMMA TestIs ==
  ASSUME NEW s, NEW c, HasOp(c, EndOps), c.op # "return", c.op # "edge"
  PROVE  Ahead(s, <<c>>)
<1>1. Leads(s, c)
  BY DEF Leads
<1> QED
  BY <1>1, AheadOne

-----------------------------------------------------------------------------
LEMMA EdgeAhead ==
  ASSUME NEW s, NEW id, Known(s, id), NEW x, NEW y
  PROVE  Ahead(s, <<Edge(x, y, id)>>)
<1> DEFINE c == Edge(x, y, id)
<1>1. HasOp(c, EndOps) /\ c.op # "return" /\ Leads(s, c)
  BY EdgeLeads DEF EndOps, HasOp
<1> HIDE DEF c
<1>2. Ahead(s, <<c>>)
  BY <1>1, AheadOne
<1> QED
  BY <1>2 DEF c

LEMMA SwitchEnds ==
  ASSUME NEW s, NEW f, NEW t, IsSequence(t.cases),
         \A b \in Successors(t) : Known(s, Id(f, b, 0)), t.op = "switch"
  PROVE  Ahead(s, Switched(f, t))
<1> DEFINE n == Len(t.cases)
           c == Narrowed(t.on)
           d == [i \in 1 .. n |->
                   Edge({SwitchCase(t, i)}, {}, Id(f, t.cases[i][2], 0))]
           e == Edge({}, DefaultUnless(t), Id(f, t.default, 0))
<1>1. n \in Nat /\ DOMAIN t.cases = 1 .. n
  BY SeqIs
<1>2. Switched(f, t) = <<c>> \o d \o <<e>>
  BY <1>1 DEF Switched
<1>3. /\ t.default \in Successors(t)
      /\ \A i \in 1 .. n : t.cases[i][2] \in Successors(t)
  BY <1>1 DEF Successors
<1>4. c.op = "test" /\ "op" \in DOMAIN c
  BY DEF Narrowed
<1>5. Ahead(s, <<c>>)
  <2> HIDE DEF c
  <2>1. HasOp(c, EndOps) /\ c.op # "return" /\ c.op # "edge"
    BY <1>4 DEF EndOps, HasOp
  <2> QED
    BY <2>1, TestIs
<1>6. Ahead(s, <<e>>)
  <2> DEFINE id == Id(f, t.default, 0)  x == {}  y == DefaultUnless(t)
  <2>1. Known(s, id)
    BY <1>3
  <2> HIDE DEF id, x, y
  <2>2. Ahead(s, <<Edge(x, y, id)>>)
    BY <2>1, EdgeAhead
  <2> QED
    BY <2>2 DEF id, x, y
<1>7. Ahead(s, d)
  <2>1. \A i \in 1 .. n : d[i].op = "edge" /\ "op" \in DOMAIN d[i] /\ Leads(s, d[i])
    <3> TAKE i \in 1 .. n
    <3> DEFINE id == Id(f, t.cases[i][2], 0)  x == {SwitchCase(t, i)}  y == {}
    <3>1. Known(s, id)
      BY <1>3
    <3>2. d[i] = Edge(x, y, id)
      OBVIOUS
    <3> HIDE DEF d, id, x, y
    <3> QED
      BY <3>1, <3>2, EdgeLeads
  <2>2. d = [i \in 1 .. n |-> d[i]] /\ DOMAIN d = 1 .. n
    OBVIOUS
  <2> HIDE DEF d, n
  <2>3. IsSequence(d)
    BY <1>1, <2>2, SeqMade
  <2> QED
    BY <2>1, <2>2, <2>3 DEF Ahead, EndOps, HasOp
<1> HIDE DEF c, d, e
<1>8. Ahead(s, <<c>> \o d)
  <2> DEFINE v == <<c>>
  <2> HIDE DEF v
  <2>1. Ahead(s, v \o d)
    BY <1>5, <1>7, AheadConcat DEF v
  <2> QED
    BY <2>1 DEF v
<1>9. Ahead(s, (<<c>> \o d) \o <<e>>)
  <2> DEFINE v == <<c>> \o d  w == <<e>>
  <2>0. Ahead(s, v) /\ Ahead(s, w)
    BY <1>6, <1>8
  <2> HIDE DEF v, w
  <2>1. Ahead(s, v \o w)
    BY <2>0, AheadConcat
  <2> QED
    BY <2>1 DEF v, w
<1> QED
  BY <1>2, <1>9

LEMMA AheadTwo ==
  ASSUME NEW s, NEW c, NEW d, Ahead(s, <<c>>), Ahead(s, <<d>>)
  PROVE  Ahead(s, <<c, d>>)
<1>1. <<c, d>> \in Seq({c, d}) /\ DOMAIN <<c, d>> = {1, 2}
  OBVIOUS
<1>2. IsSequence(<<c, d>>)
  BY <1>1, SeqGiven
<1>3. <<c, d>>[1] = c /\ <<c, d>>[2] = d
  OBVIOUS
<1>4. \A e : Ahead(s, <<e>>) => HasOp(e, EndOps) /\ e.op # "return" /\ Leads(s, e)
  <2> TAKE e
  <2>1. <<e>>[1] = e /\ 1 \in DOMAIN <<e>>
    OBVIOUS
  <2> QED
    BY <2>1 DEF Ahead
<1>5. \A j \in DOMAIN <<c, d>> : <<c, d>>[j] \in {c, d}
  BY <1>1, <1>3
<1>6. \A e \in {c, d} : HasOp(e, EndOps) /\ e.op # "return" /\ Leads(s, e)
  BY <1>4
<1> QED
  BY <1>2, <1>5, <1>6 DEF Ahead

LEMMA EndsThree ==
  ASSUME NEW s, NEW c, NEW d, NEW e, Ahead(s, <<c>>), Ahead(s, <<d>>), Ending(s, <<e>>)
  PROVE  Ending(s, <<c, d, e>>)
<1> DEFINE v == <<c, d>>  w == <<e>>
<1>1. <<c, d, e>> = v \o w
  OBVIOUS
<1>2. Ahead(s, v)
  BY AheadTwo
<1> HIDE DEF v, w
<1>3. Ending(s, v \o w)
  BY <1>2, EndsConcat DEF w
<1> QED
  BY <1>1, <1>3

LEMMA BlockEnds ==
  ASSUME NEW s, NEW st, Compiled(s, st), DOMAIN st = Fn,
         NEW f \in Fn, NEW t, PartTerm(f, t)
  PROVE  Ending(s, CompileBlockEnd(f, t, st))
<1>1. t.op \in {"static", "dyn", "br", "condbr", "switch", "ret", "unreachable"}
  BY DEF PartTerm, WellFormedTerm
<1>2. ASSUME t.op \in {"br", "condbr", "switch"}
      PROVE  \A b \in Successors(t) : Known(s, Id(f, b, 0))
  <2>1. Successors(t) \subseteq Names(f)
    BY <1>2 DEF PartTerm, WellFormedTerm
  <2> QED
    BY <2>1 DEF Compiled
<1>3. CASE t.op = "static"
  <2> DEFINE id == st[t.f]  x == {}
  <2>1. CompileBlockEnd(f, t, st) = <<Edge(x, x, id)>>
    BY <1>3 DEF CompileBlockEnd
  <2>2. t.f \in Fn
    BY <1>3 DEF PartTerm, WellFormedTerm
  <2>3. Known(s, id)
    BY <2>2 DEF Compiled
  <2> HIDE DEF id, x
  <2>4. Ahead(s, <<Edge(x, x, id)>>)
    BY <2>3, EdgeAhead
  <2> QED
    BY <2>1, <2>4, AheadEnds
<1>4. CASE t.op = "dyn"
  <2> DEFINE c == CmdOf("pointer", t.what)  d == Cmd("call")
  <2>1. CompileBlockEnd(f, t, st) = <<c, d>>
    BY <1>4 DEF CompileBlockEnd
  <2>2. c.op = "pointer" /\ d.op = "call" /\ "op" \in DOMAIN c /\ "op" \in DOMAIN d
    BY DEF CmdOf, Cmd
  <2> HIDE DEF c, d
  <2>3. Ahead(s, <<c>>) /\ Ahead(s, <<d>>)
    <3>1. HasOp(c, EndOps) /\ c.op # "return" /\ c.op # "edge"
      BY <2>2 DEF EndOps, HasOp
    <3>2. HasOp(d, EndOps) /\ d.op # "return" /\ d.op # "edge"
      BY <2>2 DEF EndOps, HasOp
    <3>3. Ahead(s, <<c>>)
      BY <3>1, TestIs
    <3>4. Ahead(s, <<d>>)
      BY <3>2, TestIs
    <3> QED
      BY <3>3, <3>4
  <2>4. Ahead(s, <<c, d>>)
    BY <2>3, AheadTwo
  <2> QED
    BY <2>1, <2>4, AheadEnds
<1>5. CASE t.op = "ret"
  <2> DEFINE c == CmdOf("result", EvalOperand(t.what))
             d == Cmd("load_regs")  e == Cmd("return")
  <2>1. CompileBlockEnd(f, t, st) = <<c, d, e>>
    BY <1>5 DEF CompileBlockEnd
  <2>2. /\ c.op = "result" /\ d.op = "load_regs" /\ e.op = "return"
        /\ "op" \in DOMAIN c /\ "op" \in DOMAIN d /\ "op" \in DOMAIN e
    BY DEF CmdOf, Cmd
  <2> HIDE DEF c, d, e
  <2>3. Ahead(s, <<c>>) /\ Ahead(s, <<d>>)
    <3>1. HasOp(c, EndOps) /\ c.op # "return" /\ c.op # "edge"
      BY <2>2 DEF EndOps, HasOp
    <3>2. HasOp(d, EndOps) /\ d.op # "return" /\ d.op # "edge"
      BY <2>2 DEF EndOps, HasOp
    <3>3. Ahead(s, <<c>>)
      BY <3>1, TestIs
    <3>4. Ahead(s, <<d>>)
      BY <3>2, TestIs
    <3> QED
      BY <3>3, <3>4
  <2>4. Ending(s, <<e>>)
    <3>1. HasOp(e, EndOps) /\ Leads(s, e)
      BY <2>2 DEF EndOps, HasOp, Leads
    <3> QED
      BY <3>1, EndsOne
  <2>5. Ending(s, <<c, d, e>>)
    BY <2>3, <2>4, EndsThree
  <2> QED
    BY <2>1, <2>5
<1>6. CASE t.op = "br"
  <2> DEFINE id == Id(f, t.to, 0)  x == {}
  <2>1. CompileBlockEnd(f, t, st) = <<Edge(x, x, id)>>
    BY <1>6 DEF CompileBlockEnd
  <2>2. t.to \in Successors(t)
    BY <1>6 DEF Successors
  <2>3. Known(s, id)
    BY <1>2, <1>6, <2>2
  <2> HIDE DEF id, x
  <2>4. Ahead(s, <<Edge(x, x, id)>>)
    BY <2>3, EdgeAhead
  <2> QED
    BY <2>1, <2>4, AheadEnds
<1>7. CASE t.op = "condbr"
  <2> DEFINE a == Id(f, t.yes, 0)  b == Id(f, t.no, 0)  x == {1}  y == {0}  z == {}
             c == [op |-> "test", what |-> reg(t.on), by |-> 0]
             d == Edge(x, z, a)
             e == Edge(y, z, b)
  <2>1. CompileBlockEnd(f, t, st) = <<c, d, e>>
    BY <1>7 DEF CompileBlockEnd
  <2>2. t.yes \in Successors(t) /\ t.no \in Successors(t)
    BY <1>7 DEF Successors
  <2>3. Known(s, a) /\ Known(s, b)
    BY <1>2, <1>7, <2>2
  <2>4. c.op = "test" /\ "op" \in DOMAIN c
    OBVIOUS
  <2> HIDE DEF a, b, c, x, y, z
  <2>5. Ahead(s, <<d>>) /\ Ahead(s, <<e>>)
    BY <2>3, EdgeAhead
  <2>6. Ahead(s, <<c>>)
    <3>1. HasOp(c, EndOps) /\ c.op # "return" /\ c.op # "edge"
      BY <2>4 DEF EndOps, HasOp
    <3> QED
      BY <3>1, TestIs
  <2> HIDE DEF d, e
  <2>7. Ending(s, <<e>>)
    BY <2>5, AheadEnds
  <2>8. Ending(s, <<c, d, e>>)
    BY <2>5, <2>6, <2>7, EndsThree
  <2> QED
    BY <2>1, <2>8
<1>8. CASE t.op = "switch"
  <2>1. CompileBlockEnd(f, t, st) = Switched(f, t)
    BY <1>8 DEF CompileBlockEnd
  <2>2. IsSequence(t.cases)
    BY <1>8 DEF PartTerm, WellFormedTerm
  <2>3. Ahead(s, Switched(f, t))
    BY <1>2, <1>8, <2>2, SwitchEnds
  <2> QED
    BY <2>1, <2>3, AheadEnds
<1>9. CASE t.op = "unreachable"
  <2> DEFINE c == Cmd("stop")
  <2>1. CompileBlockEnd(f, t, st) = <<c>>
    BY <1>9 DEF CompileBlockEnd
  <2>2. c.op = "stop" /\ "op" \in DOMAIN c
    BY DEF Cmd
  <2> HIDE DEF c
  <2>3. HasOp(c, EndOps) /\ c.op # "return" /\ c.op # "edge"
    BY <2>2 DEF EndOps, HasOp
  <2>4. Ahead(s, <<c>>)
    BY <2>3, TestIs
  <2> QED
    BY <2>1, <2>4, AheadEnds
<1> QED
  BY <1>1, <1>3, <1>4, <1>5, <1>6, <1>7, <1>8, <1>9

-----------------------------------------------------------------------------
(* The commands of a part, without those at its end.                       *)
PartOf(s, p, c) ==
  /\ HasOp(c, AllOps) /\ Leads(s, c)
  /\ c.op = "push" => c = Push(text(p.id)) /\ EndsWithCall(p)

Body(s, p, u) ==
  IsSequence(u) /\ \A j \in DOMAIN u : PartOf(s, p, u[j]) /\ u[j].op # "return"

Whole(s, p, u) ==
  /\ IsSequence(u)
  /\ \A j \in DOMAIN u : PartOf(s, p, u[j]) /\ (u[j].op = "return" => j = Len(u))

LEMMA AheadBody ==
  ASSUME NEW s, NEW p, NEW e, Ahead(s, e)
  PROVE  Body(s, p, e)
<1>1. "push" \notin EndOps
  BY DEF EndOps
<1> QED
  BY <1>1 DEF Ahead, Body, PartOf, AllOps, HasOp

LEMMA PartBody ==
  ASSUME NEW s, NEW f, NEW p, IsPart(f, p)
  PROVE  Body(s, p, p.cmds)
<1> SUFFICES ASSUME NEW j \in DOMAIN p.cmds
             PROVE  PartOf(s, p, p.cmds[j]) /\ p.cmds[j].op # "return"
  BY DEF Body, IsPart
<1> DEFINE c == p.cmds[j]
<1>1. PartCommand(p, c)
  BY DEF IsPart
<1> HIDE DEF c
<1>2. CASE HasOp(c, PlainOps)
  <2>1. c.op # "push" /\ c.op # "edge" /\ c.op # "return"
    BY <1>2 DEF PlainOps, HasOp
  <2> QED
    BY <1>2, <2>1 DEF PartOf, AllOps, HasOp, Leads, c
<1>3. CASE c = Push(text(p.id)) /\ EndsWithCall(p)
  <2> DEFINE x == text(p.id)
  <2> HIDE DEF x
  <2>1. Push(x).op = "push" /\ "op" \in DOMAIN Push(x)
    BY DEF Push
  <2>2. c.op = "push" /\ "op" \in DOMAIN c
    BY <1>3, <2>1 DEF x
  <2> QED
    BY <1>3, <2>2 DEF PartOf, AllOps, HasOp, Leads, c
<1> QED
  BY <1>1, <1>2, <1>3 DEF PartCommand

LEMMA BodyConcat ==
  ASSUME NEW s, NEW p, NEW d, NEW e, Body(s, p, d), Body(s, p, e)
  PROVE  Body(s, p, d \o e)
<1>1. IsSequence(d) /\ IsSequence(e)
  BY DEF Body
<1>2. IsSequence(d \o e)
  BY <1>1, ConcatSeq
<1>3. \A j \in DOMAIN (d \o e) : \/ j \in DOMAIN d /\ (d \o e)[j] = d[j]
                                 \/ j - Len(d) \in DOMAIN e
                                    /\ (d \o e)[j] = e[j - Len(d)]
  BY <1>1, ConcatElements
<1> DEFINE u == d \o e
<1> HIDE DEF u
<1>4. \A j \in DOMAIN u : PartOf(s, p, u[j]) /\ u[j].op # "return"
  BY <1>3 DEF Body, u
<1> QED
  BY <1>2, <1>4 DEF Body, u

LEMMA BodyEnding ==
  ASSUME NEW s, NEW p, NEW d, NEW e, Body(s, p, d), Ending(s, e)
  PROVE  Whole(s, p, d \o e)
<1>1. IsSequence(d) /\ IsSequence(e)
  BY DEF Body, Ending
<1>2. IsSequence(d \o e) /\ Len(d \o e) = Len(d) + Len(e) /\ Len(d) \in Nat /\ Len(e) \in Nat
      /\ DOMAIN (d \o e) = 1 .. Len(d) + Len(e)
  BY <1>1, ConcatSeq, SeqIs
<1>3. \A j \in DOMAIN (d \o e) : \/ j \in DOMAIN d /\ (d \o e)[j] = d[j]
                                 \/ j - Len(d) \in DOMAIN e
                                    /\ (d \o e)[j] = e[j - Len(d)]
  BY <1>1, ConcatElements
<1> DEFINE u == d \o e  m == Len(d)  n == Len(e)
<1> HIDE DEF u, m, n
<1>4. \A j \in DOMAIN u : PartOf(s, p, u[j]) /\ (u[j].op = "return" => j = m + n)
  <2> TAKE j \in DOMAIN u
  <2>1. CASE j \in DOMAIN d /\ u[j] = d[j]
    BY <2>1 DEF Body
  <2>2. CASE j - m \in DOMAIN e /\ u[j] = e[j - m]
    <3> DEFINE k == j - m
    <3>1. HasOp(e[k], EndOps) /\ Leads(s, e[k]) /\ (e[k].op = "return" => k = n)
      BY <2>2 DEF Ending, n
    <3>2. j \in Int /\ m \in Int /\ n \in Int
      BY <1>2 DEF u, m, n
    <3>3. e[k].op # "push"
      BY <3>1 DEF EndOps, HasOp
    <3> QED
      BY <2>2, <3>1, <3>2, <3>3 DEF PartOf, AllOps, HasOp
  <2> QED
    BY <1>3, <2>1, <2>2 DEF u, m
<1> QED
  BY <1>2, <1>4 DEF Whole, u, m, n

LEMMA ReifyIs ==
  ASSUME NEW s, NEW st, Compiled(s, st), DOMAIN st = Fn, NEW i \in DOMAIN s
  PROVE  /\ ReifyBlock(s[i], st).id = s[i].id
         /\ DOMAIN ReifyBlock(s[i], st) = {"id", "cmds"}
         /\ Whole(s, s[i], ReifyBlock(s[i], st).cmds)
<1> DEFINE p == s[i]
           f == p.parent
           a == IF p.prolog THEN <<Prolog(f)>> ELSE <<>>
           c == p.cmds
           t == p.term
           e == CompileBlockEnd(f, t, st)
<1>1. f \in Fn /\ IsPart(f, p)
  BY DEF Compiled
<1> HIDE DEF p
<1>2. ReifyBlock(p, st).id = p.id /\ ReifyBlock(p, st).cmds = a \o c \o e
  BY Zenon DEF ReifyBlock
<1>9. DOMAIN ReifyBlock(p, st) = {"id", "cmds"}
  BY DEF ReifyBlock
<1> HIDE DEF f
<1>3. Ahead(s, a)
  <2>1. CASE p.prolog
    <3> DEFINE d == Prolog(f)
    <3>1. d.op = "prolog" /\ "op" \in DOMAIN d
      BY DEF Prolog
    <3>2. a = <<d>>
      BY <2>1
    <3> HIDE DEF d, a
    <3>3. HasOp(d, EndOps) /\ d.op # "return" /\ d.op # "edge"
      BY <3>1 DEF EndOps, HasOp
    <3>4. Ahead(s, <<d>>)
      BY <3>3, TestIs
    <3> QED
      BY <3>2, <3>4
  <2>2. CASE ~p.prolog
    <3>1. a = <<>>
      BY <2>2
    <3>2. IsSequence(<<>>) /\ DOMAIN <<>> = {}
      BY NoneSeq
    <3> QED
      BY <3>1, <3>2 DEF Ahead
  <2> QED
    BY <2>1, <2>2
<1> HIDE DEF a
<1>4. Body(s, p, a)
  BY <1>3, AheadBody
<1>5. Body(s, p, c)
  BY <1>1, PartBody
<1>6. Ending(s, e)
  <2>1. PartTerm(f, t)
    BY <1>1 DEF IsPart
  <2> HIDE DEF t
  <2> QED
    BY <1>1, <2>1, BlockEnds
<1> HIDE DEF c, e
<1>7. Body(s, p, a \o c)
  BY <1>4, <1>5, BodyConcat
<1>8. Whole(s, p, (a \o c) \o e)
  <2> DEFINE d == a \o c
  <2>1. Body(s, p, d)
    BY <1>7
  <2> HIDE DEF d
  <2>2. Whole(s, p, d \o e)
    BY <1>6, <2>1, BodyEnding
  <2> QED
    BY <2>2 DEF d
<1> QED
  BY <1>2, <1>8, <1>9 DEF p

-----------------------------------------------------------------------------
(* The list once the parts are linked and the intrinsics follow them.      *)
Linked(s, st) ==
  [i \in DOMAIN s |-> ReifyBlock(s[i], st)]
  \o [i \in DOMAIN Intrinsics |-> [id |-> <<Intrinsics[i], Zero, 0>>, cmds |-> <<>>]]

IsLinked(s, st, u) ==
  /\ IsSequence(u)
  /\ \A i \in DOMAIN s : i \in DOMAIN u /\ u[i] = ReifyBlock(s[i], st)
  /\ \A i \in DOMAIN u :
       \/ i \in DOMAIN s
       \/ \E j \in DOMAIN Intrinsics : /\ i = Len(s) + j
                                       /\ u[i].id = <<Intrinsics[j], Zero, 0>>
                                       /\ u[i].cmds = <<>>
                                       /\ DOMAIN u[i] = {"id", "cmds"}

LEMMA LinkedIs ==
  ASSUME NEW s, IsSequence(s), NEW st
  PROVE  IsLinked(s, st, Linked(s, st))
<1> DEFINE n == Len(s)  m == Len(Intrinsics)
           a == [i \in 1 .. n |-> ReifyBlock(s[i], st)]
           b == [i \in 1 .. m |-> [id |-> <<Intrinsics[i], Zero, 0>>, cmds |-> <<>>]]
<1>1. n \in Nat /\ DOMAIN s = 1 .. n
  BY SeqIs
<1>2. m \in Nat /\ DOMAIN Intrinsics = 1 .. m
  BY SeqIs, NamesAssumption
<1>3. Linked(s, st) = a \o b
  BY <1>1, <1>2 DEF Linked
<1>4. /\ a = [i \in 1 .. n |-> a[i]] /\ DOMAIN a = 1 .. n
      /\ \A i \in 1 .. n : a[i] = ReifyBlock(s[i], st)
  OBVIOUS
<1>5. /\ b = [i \in 1 .. m |-> b[i]] /\ DOMAIN b = 1 .. m
      /\ \A j \in 1 .. m : b[j].id = <<Intrinsics[j], Zero, 0>> /\ b[j].cmds = <<>>
                           /\ DOMAIN b[j] = {"id", "cmds"}
  OBVIOUS
<1> HIDE DEF a, b, n, m
<1>6. IsSequence(a) /\ Len(a) = n
  BY <1>1, <1>4, SeqMade
<1>7. IsSequence(b)
  BY <1>2, <1>5, SeqMade
<1>8. /\ IsSequence(a \o b)
      /\ \A i \in DOMAIN a : i \in DOMAIN (a \o b) /\ (a \o b)[i] = a[i]
  BY <1>6, <1>7, ConcatSeq, ConcatHas
<1>9. \A i \in DOMAIN (a \o b) : \/ i \in DOMAIN a /\ (a \o b)[i] = a[i]
                                 \/ i - Len(a) \in DOMAIN b /\ (a \o b)[i] = b[i - Len(a)]
  BY <1>6, <1>7, ConcatElements
<1> DEFINE u == a \o b
<1> HIDE DEF u
<1>10. ASSUME NEW i \in DOMAIN u, i \notin DOMAIN s
       PROVE  \E j \in DOMAIN Intrinsics : /\ i = n + j
                                           /\ u[i].id = <<Intrinsics[j], Zero, 0>>
                                           /\ u[i].cmds = <<>>
                                           /\ DOMAIN u[i] = {"id", "cmds"}
  <2> DEFINE j == i - n
  <2>1. j \in DOMAIN b /\ u[i] = b[j]
    BY <1>1, <1>4, <1>6, <1>9, <1>10 DEF u
  <2>2. i \in Int
    <3>1. IsSequence(u)
      BY <1>8 DEF u
    <3>2. DOMAIN u = 1 .. Len(u) /\ Len(u) \in Nat
      BY <3>1, SeqIs
    <3> QED
      BY <3>2
  <2>3. i = n + j
    BY <1>1, <2>2
  <2> QED
    BY <1>2, <1>5, <2>1, <2>3
<1>11. \A i \in DOMAIN s : i \in DOMAIN u /\ u[i] = ReifyBlock(s[i], st)
  BY <1>1, <1>4, <1>8 DEF u
<1> QED
  BY <1>3, <1>8, <1>10, <1>11 DEF u, n, IsLinked

LEMMA LinkedKnown ==
  ASSUME NEW s, NEW st, Compiled(s, st), DOMAIN st = Fn, NEW u, IsLinked(s, st, u)
  PROVE  /\ \A i \in DOMAIN s : i \in DOMAIN u /\ u[i].id = s[i].id
                                /\ DOMAIN u[i] = {"id", "cmds"}
                                /\ Whole(s, s[i], u[i].cmds)
         /\ \A id : Known(s, id) => Known(u, id)
         /\ \A c : Leads(s, c) => Leads(u, c)
<1>1. \A i \in DOMAIN s : i \in DOMAIN u /\ u[i].id = s[i].id
                          /\ DOMAIN u[i] = {"id", "cmds"}
                          /\ Whole(s, s[i], u[i].cmds)
  BY ReifyIs DEF IsLinked
<1>2. ASSUME NEW id, Known(s, id) PROVE Known(u, id)
  <2> PICK i \in DOMAIN s : s[i].id = id
    BY <1>2 DEF Known
  <2> QED
    BY <1>1 DEF Known
<1>3. ASSUME NEW c, Leads(s, c) PROVE Leads(u, c)
  <2> SUFFICES ASSUME c.op = "edge"
               PROVE  \E i \in DOMAIN u : Text(u[i].id) = c.to
    BY <1>3 DEF Leads
  <2> PICK i \in DOMAIN s : Text(s[i].id) = c.to
    BY <1>3 DEF Leads
  <2> QED
    BY <1>1
<1> QED
  BY <1>1, <1>2, <1>3

LEMMA LinkedFunctions ==
  ASSUME NEW s, NEW st, Compiled(s, st), DOMAIN st = Fn, NEW u, IsLinked(s, st, u)
  PROVE  AreFunctions(u) /\ PushesName(u) /\ Unused(u, RuntimeNames)
<1>1. \A i \in DOMAIN s : i \in DOMAIN u /\ u[i].id = s[i].id
                          /\ DOMAIN u[i] = {"id", "cmds"}
                          /\ Whole(s, s[i], u[i].cmds)
  BY LinkedKnown
<1>2. /\ \A id : Known(s, id) => Known(u, id)
      /\ \A c : Leads(s, c) => Leads(u, c)
  BY LinkedKnown
<1>3. \A i \in DOMAIN s : IsId(s[i].id) /\ \E f \in Fn : s[i].id[1] = Norm[f]
  <2> TAKE i \in DOMAIN s
  <2>1. s[i].parent \in Fn /\ IsPart(s[i].parent, s[i])
    BY DEF Compiled
  <2> QED
    BY <2>1 DEF IsPart
<1>4. \A i \in DOMAIN u :
        \/ i \in DOMAIN s
        \/ \E j \in DOMAIN Intrinsics : /\ i = Len(s) + j
                                        /\ u[i].id = <<Intrinsics[j], Zero, 0>>
                                        /\ u[i].cmds = <<>>
                                        /\ DOMAIN u[i] = {"id", "cmds"}
  BY DEF IsLinked
<1>5. \A j \in DOMAIN Intrinsics :
        /\ IsId(<<Intrinsics[j], Zero, 0>>) /\ <<Intrinsics[j], Zero, 0>>[1] = Intrinsics[j]
        /\ Intrinsics[j] \notin RuntimeNames
        /\ \A f \in Fn : Norm[f] # Intrinsics[j]
  <2> TAKE j \in DOMAIN Intrinsics
  <2>1. Intrinsics[j] \in ToSet(Intrinsics)
    BY DEF ToSet
  <2>2. Intrinsics[j] \notin RuntimeNames /\ \A f \in Fn : Norm[f] # Intrinsics[j]
    BY <2>1, NamesAssumption
  <2>3. IsId(<<Intrinsics[j], Zero, 0>>) /\ <<Intrinsics[j], Zero, 0>>[1] = Intrinsics[j]
    BY DEF IsId, BlockIds
  <2> QED
    BY <2>2, <2>3
<1>6. \A i \in DOMAIN u : /\ DOMAIN u[i] = {"id", "cmds"}
                          /\ IsId(u[i].id) /\ IsSequence(u[i].cmds)
  <2> TAKE i \in DOMAIN u
  <2>1. CASE i \in DOMAIN s
    BY <1>1, <1>3, <2>1 DEF Whole
  <2>2. CASE i \notin DOMAIN s
    <3> PICK j \in DOMAIN Intrinsics : /\ u[i].id = <<Intrinsics[j], Zero, 0>>
                                        /\ u[i].cmds = <<>>
                                        /\ DOMAIN u[i] = {"id", "cmds"}
      BY <1>4, <2>2
    <3> DEFINE x == <<Intrinsics[j], Zero, 0>>
    <3>1. IsId(x) /\ u[i].id = x
      BY <1>5
    <3> HIDE DEF x
    <3> QED
      BY <3>1, NoneSeq
  <2> QED
    BY <2>1, <2>2
<1>7. Unused(u, RuntimeNames)
  <2> SUFFICES ASSUME NEW i \in DOMAIN u PROVE u[i].id[1] \notin RuntimeNames
    BY DEF Unused
  <2>1. CASE i \in DOMAIN s
    <3>1. PICK f \in Fn : s[i].id[1] = Norm[f]
      BY <1>3, <2>1
    <3>2. Norm[f] \notin RuntimeNames
      BY NamesAssumption
    <3>3. u[i].id = s[i].id
      BY <1>1, <2>1
    <3> QED
      BY <3>1, <3>2, <3>3
  <2>2. CASE i \notin DOMAIN s
    <3> PICK j \in DOMAIN Intrinsics : u[i].id = <<Intrinsics[j], Zero, 0>>
      BY <1>4, <2>2
    <3> DEFINE x == <<Intrinsics[j], Zero, 0>>
    <3>1. x[1] = Intrinsics[j] /\ Intrinsics[j] \notin RuntimeNames /\ u[i].id = x
      BY <1>5
    <3> HIDE DEF x
    <3> QED
      BY <3>1
  <2> QED
    BY <2>1, <2>2
<1>8. Distinct(u)
  <2> SUFFICES ASSUME NEW i \in DOMAIN u, NEW k \in DOMAIN u, u[i].id = u[k].id
               PROVE  i = k
    BY DEF Distinct
  <2>1. CASE i \in DOMAIN s /\ k \in DOMAIN s
    BY <1>1, <2>1 DEF Compiled, Distinct
  <2>2. ASSUME NEW a \in DOMAIN u, NEW b \in DOMAIN u, a \in DOMAIN s, b \notin DOMAIN s
        PROVE  u[a].id # u[b].id
    <3> PICK f \in Fn : s[a].id[1] = Norm[f]
      BY <1>3, <2>2
    <3> PICK j \in DOMAIN Intrinsics : u[b].id = <<Intrinsics[j], Zero, 0>>
      BY <1>4, <2>2
    <3> DEFINE x == <<Intrinsics[j], Zero, 0>>
    <3>1. x[1] = Intrinsics[j] /\ u[b].id = x /\ u[a].id = s[a].id /\ Norm[f] # Intrinsics[j]
      BY <1>1, <1>5, <2>2
    <3> HIDE DEF x
    <3> QED
      BY <3>1
  <2>3. CASE i \notin DOMAIN s /\ k \notin DOMAIN s
    <3> PICK j \in DOMAIN Intrinsics :
               i = Len(s) + j /\ u[i].id = <<Intrinsics[j], Zero, 0>>
      BY <1>4, <2>3
    <3> PICK l \in DOMAIN Intrinsics :
               k = Len(s) + l /\ u[k].id = <<Intrinsics[l], Zero, 0>>
      BY <1>4, <2>3
    <3> DEFINE x == <<Intrinsics[j], Zero, 0>>  y == <<Intrinsics[l], Zero, 0>>
    <3>1. x = y /\ x[1] = Intrinsics[j] /\ y[1] = Intrinsics[l]
      BY <1>5
    <3> HIDE DEF x, y
    <3>2. Intrinsics[j] = Intrinsics[l]
      BY <3>1
    <3>3. j = l
      BY <3>2, NamesAssumption DEF IsInjective
    <3> QED
      BY <3>3
  <2> QED
    BY <2>1, <2>2, <2>3
<1>9. ASSUME NEW i \in DOMAIN u, NEW j \in DOMAIN u[i].cmds
      PROVE  /\ IsCommand(u, u[i].cmds, j)
             /\ u[i].cmds[j].op = "push" =>
                  u[i].cmds[j] = Push(text(u[i].id)) /\ Known(u, ReturnTo(u[i].id))
  <2>1. i \in DOMAIN s
    <3> SUFFICES ASSUME i \notin DOMAIN s PROVE FALSE
      OBVIOUS
    <3>1. u[i].cmds = <<>>
      BY <1>4
    <3>2. DOMAIN <<>> = {}
      OBVIOUS
    <3> QED
      BY <1>9, <3>1, <3>2
  <2> DEFINE p == s[i]  w == u[i].cmds  c == w[j]
  <2>2. Whole(s, p, w) /\ u[i].id = p.id
    BY <1>1, <2>1
  <2> HIDE DEF w
  <2>3. PartOf(s, p, c) /\ (c.op = "return" => j = Len(w))
    BY <1>9, <2>2 DEF Whole, w
  <2>4. Leads(u, c)
    BY <1>2, <2>3 DEF PartOf
  <2>5. EndsWithCall(p) => Known(u, ReturnTo(p.id))
    BY <1>2, <2>1 DEF Compiled
  <2> HIDE DEF p
  <2>6. IsCommand(u, w, j)
    BY <2>3, <2>4 DEF IsCommand, PartOf
  <2>7. c.op = "push" => c = Push(text(p.id)) /\ Known(u, ReturnTo(p.id))
    BY <2>3, <2>5 DEF PartOf
  <2> QED
    BY <2>2, <2>6, <2>7 DEF w
<1>10. IsSequence(u)
  BY DEF IsLinked
<1>11. AreFunctions(u)
  BY <1>6, <1>8, <1>9, <1>10 DEF AreFunctions
<1>12. PushesName(u)
  BY <1>9 DEF PushesName
<1> QED
  BY <1>7, <1>11, <1>12

LEMMA LinkInv == CompileInv /\ Link => ListInv'
<1> SUFFICES ASSUME CompileInv, Link PROVE ListInv'
  OBVIOUS
<1> DEFINE s == heads \o tails
<1>1. phase = "link" /\ phase' = "relocate" /\ starts' = starts
  BY DEF Link
<1>2. list' = Linked(s, starts)
  BY Zenon DEF Link, Linked
<1>3. compiled = Len(FnOrder) /\ Compiled(s, starts)
      /\ DOMAIN starts = {FnOrder[i] : i \in 1 .. compiled}
  BY <1>1 DEF CompileInv
<1>4. DOMAIN starts = Fn
  <2>1. DOMAIN FnOrder = 1 .. Len(FnOrder)
    BY BlocksAssumption
  <2> QED
    BY <1>3, <2>1, ModuleAssumption DEF ToSet
<1> DEFINE u == Linked(s, starts)
<1>5. IsLinked(s, starts, u)
  <2>1. IsSequence(s)
    BY <1>3 DEF Compiled
  <2> HIDE DEF s
  <2> QED
    BY <2>1, LinkedIs
<1> HIDE DEF s, u
<1>6. AreFunctions(u) /\ PushesName(u) /\ Unused(u, RuntimeNames)
  BY <1>3, <1>4, <1>5, LinkedFunctions
<1>7. \A f \in Fn : Known(u, starts[f])
  BY <1>3, <1>4, <1>5, LinkedKnown DEF Compiled
<1>8. list' = u
  BY <1>2 DEF u
<1> QED
  BY <1>1, <1>4, <1>6, <1>7, <1>8 DEF ListInv

-----------------------------------------------------------------------------
(***************************************************************************)
(* do_relocation and the fixups.  Functions without commands may be put at *)
(* the end of the list: nothing moves.                                     *)
(***************************************************************************)
Apart(s, r) ==
  /\ IsSequence(r) /\ Distinct(r)
  /\ \A i \in DOMAIN r : /\ DOMAIN r[i] = {"id", "cmds"}
                         /\ IsId(r[i].id) /\ r[i].cmds = <<>>
                         /\ \A k \in DOMAIN s : s[k].id # r[i].id

LEMMA ExtendedIs ==
  ASSUME NEW s, AreFunctions(s), NEW r, Apart(s, r)
  PROVE  /\ \A i \in DOMAIN s : i \in DOMAIN (s \o r) /\ (s \o r)[i] = s[i]
         /\ AreFunctions(s \o r)
         /\ PushesName(s) => PushesName(s \o r)
         /\ PushesPlace(s) => PushesPlace(s \o r)
         /\ \A id : Known(s, id) => Known(s \o r, id)
<1> DEFINE u == s \o r  n == Len(s)
<1>1. IsSequence(s) /\ IsSequence(r) /\ n \in Nat
  BY SeqIs DEF AreFunctions, Apart
<1>2. IsSequence(u) /\ \A i \in DOMAIN s : i \in DOMAIN u /\ u[i] = s[i]
  BY <1>1, ConcatSeq, ConcatHas
<1>3. \A i \in DOMAIN u : \/ i \in DOMAIN s /\ u[i] = s[i]
                          \/ i - n \in DOMAIN r /\ u[i] = r[i - n]
  BY <1>1, ConcatElements
<1>4. \A i \in DOMAIN u : i \in Int
  <2>1. DOMAIN u = 1 .. Len(u) /\ Len(u) \in Nat
    BY <1>2, SeqIs
  <2> QED
    BY <2>1
<1> HIDE DEF u, n
<1>5. ASSUME NEW c, Leads(s, c) PROVE Leads(u, c)
  <2> SUFFICES ASSUME c.op = "edge"
               PROVE  "what" \notin DOMAIN c /\ \E i \in DOMAIN u : Text(u[i].id) = c.to
    BY <1>5 DEF Leads
  <2> PICK i \in DOMAIN s : Text(s[i].id) = c.to
    BY <1>5 DEF Leads
  <2> QED
    BY <1>2, <1>5 DEF Leads
<1>6. ASSUME NEW id, Known(s, id) PROVE Known(u, id)
  <2> PICK i \in DOMAIN s : s[i].id = id
    BY <1>6 DEF Known
  <2> QED
    BY <1>2 DEF Known
<1>7. \A i \in DOMAIN u : /\ DOMAIN u[i] = {"id", "cmds"}
                          /\ IsId(u[i].id) /\ IsSequence(u[i].cmds)
  <2> TAKE i \in DOMAIN u
  <2>1. CASE i \in DOMAIN s /\ u[i] = s[i]
    BY <2>1 DEF AreFunctions
  <2>2. CASE i - n \in DOMAIN r /\ u[i] = r[i - n]
    BY <2>2, NoneSeq DEF Apart
  <2> QED
    BY <1>3, <2>1, <2>2
<1>8. ASSUME NEW i \in DOMAIN u, NEW j \in DOMAIN u[i].cmds
      PROVE  i \in DOMAIN s /\ u[i] = s[i] /\ j \in DOMAIN s[i].cmds
  <2>1. CASE i \in DOMAIN s /\ u[i] = s[i]
    BY <1>8, <2>1
  <2>2. CASE i - n \in DOMAIN r /\ u[i] = r[i - n]
    <3>1. u[i].cmds = <<>>
      BY <2>2 DEF Apart
    <3>2. DOMAIN <<>> = {}
      OBVIOUS
    <3> QED
      BY <1>8, <3>1, <3>2
  <2> QED
    BY <1>3, <2>1, <2>2
<1>9. \A i \in DOMAIN u : \A j \in DOMAIN u[i].cmds : IsCommand(u, u[i].cmds, j)
  BY <1>5, <1>8 DEF AreFunctions, IsCommand
<1>10. Distinct(u)
  <2> SUFFICES ASSUME NEW i \in DOMAIN u, NEW k \in DOMAIN u, u[i].id = u[k].id
               PROVE  i = k
    BY DEF Distinct
  <2> DEFINE a == i - n  b == k - n
  <2>1. /\ (i \in DOMAIN s /\ u[i] = s[i]) \/ (a \in DOMAIN r /\ u[i] = r[a])
        /\ (k \in DOMAIN s /\ u[k] = s[k]) \/ (b \in DOMAIN r /\ u[k] = r[b])
    BY <1>3
  <2>2. a = b => i = k
    BY <1>1, <1>4
  <2> HIDE DEF a, b
  <2> QED
    BY <2>1, <2>2 DEF Distinct, AreFunctions, Apart
<1>11. AreFunctions(u)
  BY <1>2, <1>7, <1>9, <1>10 DEF AreFunctions
<1>12. PushesName(s) => PushesName(u)
  <2> SUFFICES ASSUME PushesName(s), NEW i \in DOMAIN u, NEW j \in DOMAIN u[i].cmds,
                      u[i].cmds[j].op = "push"
               PROVE  u[i].cmds[j] = Push(text(u[i].id)) /\ Known(u, ReturnTo(u[i].id))
    BY DEF PushesName
  <2> QED
    BY <1>6, <1>8 DEF PushesName
<1>13. PushesPlace(s) => PushesPlace(u)
  <2> SUFFICES ASSUME PushesPlace(s), NEW i \in DOMAIN u, NEW j \in DOMAIN u[i].cmds,
                      u[i].cmds[j].op = "push"
               PROVE  /\ u[i].cmds[j].what.op = "lit"
                      /\ ReturnPlace(u, u[i].cmds[j].what.n)
    BY DEF PushesPlace
  <2>1. i \in DOMAIN s /\ u[i] = s[i] /\ j \in DOMAIN s[i].cmds
    BY <1>8
  <2>2. s[i].cmds[j].what.op = "lit" /\ ReturnPlace(s, s[i].cmds[j].what.n)
    BY <2>1 DEF PushesPlace
  <2> QED
    BY <1>2, <2>1, <2>2 DEF ReturnPlace
<1> QED
  BY <1>2, <1>6, <1>11, <1>12, <1>13 DEF u

(* A fixup changes the operand of a command and nothing else; for the name *)
(* of a part it puts the place behind it.                                  *)
LEMMA FixKeeps ==
  ASSUME NEW v, NEW st, NEW c, HasOp(c, AllOps)
  PROVE  /\ HasOp(FixCmd(v, st, c), AllOps)
         /\ FixCmd(v, st, c).op = c.op
         /\ "what" \notin DOMAIN c => FixCmd(v, st, c) = c
<1>1. CASE "what" \in DOMAIN c
  <2> DEFINE x == Fix(v, st, c.what)
  <2>1. FixCmd(v, st, c) = [c EXCEPT !.what = x]
    BY <1>1 DEF FixCmd
  <2> HIDE DEF x
  <2>2. "op" \in DOMAIN c
    BY DEF HasOp
  <2>3. /\ DOMAIN [c EXCEPT !.what = x] = DOMAIN c
        /\ [c EXCEPT !.what = x].op = c.op
    BY <2>2
  <2> QED
    BY <1>1, <2>1, <2>3 DEF HasOp
<1>2. CASE "what" \notin DOMAIN c
  BY <1>2 DEF FixCmd
<1> QED
  BY <1>1, <1>2

LEMMA FixPush ==
  ASSUME NamesApart, NEW v, IsSequence(v), Distinct(v), NEW st, NEW id, IsId(id), Known(v, ReturnTo(id))
  PROVE  /\ FixCmd(v, st, Push(text(id))).what.op = "lit"
         /\ ReturnPlace(v, FixCmd(v, st, Push(text(id))).what.n)
<1> DEFINE x == text(id)
           k == Position(v, ReturnTo(id))
<1>1. x.op = "text" /\ x.text = Text(id)
  <2> DEFINE t == Text(id)
  <2>1. x = [op |-> "text", text |-> t]
    BY DEF text
  <2> HIDE DEF t
  <2>2. x.op = "text" /\ x.text = t
    BY <2>1
  <2> QED
    BY <2>2 DEF t
<1> HIDE DEF x
<1>2. Parse(x.text) = id
  BY <1>1, ParseText
<1>3. Fix(v, st, x) = lit(k)
  BY <1>1, <1>2 DEF Fix
<1> DEFINE y == Fix(v, st, x)  c == Push(x)
<1>4. FixCmd(v, st, c) = [c EXCEPT !.what = y]
  <2>1. "what" \in DOMAIN c /\ c.what = x
    BY DEF Push
  <2> QED
    BY <2>1 DEF FixCmd
<1>5. [c EXCEPT !.what = y].what = y
  <2> HIDE DEF y
  <2>1. "what" \in DOMAIN c
    BY DEF Push
  <2> HIDE DEF c
  <2> QED
    BY <2>1
<1> HIDE DEF k
<1>6. y.op = "lit" /\ y.n = k
  BY <1>3 DEF lit
<1>7. ReturnPlace(v, k)
  <2> PICK i \in DOMAIN v : v[i].id = ReturnTo(id)
    BY DEF Known
  <2>1. Position(v, v[i].id) = i - 1
    BY PositionIs
  <2>2. i \in Nat
    <3>1. DOMAIN v = 1 .. Len(v) /\ Len(v) \in Nat
      BY SeqIs
    <3> QED
      BY <3>1
  <2>3. k + 1 = i
    BY <2>1, <2>2 DEF k
  <2>4. ReturnTo(id)[3] > 0
    <3> DEFINE a == id[1]  b == id[2]  d == id[3]
    <3>1. id = <<a, b, d>> /\ d \in Nat
      BY DEF IsId
    <3> HIDE DEF a, b, d
    <3>2. [id EXCEPT ![3] = @ + 1][3] = d + 1
      BY <3>1
    <3> QED
      BY <3>1, <3>2 DEF ReturnTo
  <2> QED
    BY <2>3, <2>4 DEF ReturnPlace
<1> HIDE DEF y, c
<1>8. FixCmd(v, st, c).what = y
  BY <1>4, <1>5
<1> QED
  BY <1>6, <1>7, <1>8 DEF c, x

LEMMA FixupsIs ==
  ASSUME NamesApart, NEW v, AreFunctions(v), PushesName(v), NEW st, NEW u, u = ApplyFixups(v, st)
  PROVE  /\ DOMAIN u = DOMAIN v /\ \A i \in DOMAIN v : u[i].id = v[i].id
         /\ AreFunctions(u) /\ PushesPlace(u)
<1>1. IsSequence(v) /\ Distinct(v)
  BY DEF AreFunctions
<1>2. DOMAIN u = DOMAIN v
  BY DEF ApplyFixups
<1>3. \A i \in DOMAIN v :
        /\ DOMAIN u[i] = {"id", "cmds"} /\ u[i].id = v[i].id
        /\ u[i].cmds = [j \in DOMAIN v[i].cmds |-> FixCmd(v, st, v[i].cmds[j])]
  <2> TAKE i \in DOMAIN v
  <2> DEFINE w == v[i]  x == [j \in DOMAIN w.cmds |-> FixCmd(v, st, w.cmds[j])]
  <2>1. u[i] = [w EXCEPT !.cmds = x]
    BY DEF ApplyFixups
  <2>2. DOMAIN w = {"id", "cmds"}
    BY DEF AreFunctions
  <2> HIDE DEF w, x
  <2>3. DOMAIN u[i] = {"id", "cmds"} /\ u[i].id = w.id /\ u[i].cmds = x
    BY <2>1, <2>2
  <2> QED
    BY <2>3 DEF w, x
<1>4. IsSequence(u)
  <2>1. Len(v) \in Nat /\ DOMAIN v = 1 .. Len(v)
    BY <1>1, SeqIs
  <2> DEFINE n == Len(v)
  <2>2. u = [i \in 1 .. n |-> u[i]]
    BY <2>1 DEF ApplyFixups
  <2> HIDE DEF n
  <2> QED
    BY <2>1, <2>2, SeqMade DEF n
<1>5. Distinct(u)
  BY <1>1, <1>2, <1>3 DEF Distinct
<1>6. ASSUME NEW i \in DOMAIN u
      PROVE  /\ IsSequence(u[i].cmds) /\ Len(u[i].cmds) = Len(v[i].cmds)
             /\ DOMAIN u[i].cmds = DOMAIN v[i].cmds
             /\ \A j \in DOMAIN v[i].cmds : u[i].cmds[j] = FixCmd(v, st, v[i].cmds[j])
  <2> DEFINE w == v[i].cmds  x == u[i].cmds  n == Len(w)
  <2>1. IsSequence(w) /\ x = [j \in DOMAIN w |-> FixCmd(v, st, w[j])]
    BY <1>2, <1>3 DEF AreFunctions
  <2> HIDE DEF w, x
  <2>2. n \in Nat /\ DOMAIN w = 1 .. n
    BY <2>1, SeqIs
  <2> HIDE DEF n
  <2>3. x = [j \in 1 .. n |-> x[j]]
    BY <2>1, <2>2
  <2>4. IsSequence(x) /\ Len(x) = n
    BY <2>2, <2>3, SeqMade
  <2> QED
    BY <2>1, <2>2, <2>4 DEF w, x, n
<1>7. \A i \in DOMAIN u : \A j \in DOMAIN u[i].cmds : IsCommand(u, u[i].cmds, j)
  <2> TAKE i \in DOMAIN u
  <2> TAKE j \in DOMAIN u[i].cmds
  <2> DEFINE c == v[i].cmds[j]  d == u[i].cmds[j]
  <2>1. i \in DOMAIN v /\ j \in DOMAIN v[i].cmds /\ d = FixCmd(v, st, c)
    BY <1>2, <1>6
  <2>2. IsCommand(v, v[i].cmds, j)
    BY <2>1 DEF AreFunctions
  <2>3. HasOp(c, AllOps) /\ Leads(v, c) /\ (c.op = "return" => j = Len(v[i].cmds))
    BY <2>2 DEF IsCommand
  <2> HIDE DEF c
  <2>4. HasOp(d, AllOps) /\ d.op = c.op /\ ("what" \notin DOMAIN c => d = c)
    BY <2>1, <2>3, FixKeeps
  <2>5. Leads(u, d)
    <3> SUFFICES ASSUME d.op = "edge"
                 PROVE  "what" \notin DOMAIN d /\ \E k \in DOMAIN u : Text(u[k].id) = d.to
      BY DEF Leads
    <3>1. d = c /\ "what" \notin DOMAIN c
      BY <2>3, <2>4 DEF Leads
    <3> PICK k \in DOMAIN v : Text(v[k].id) = c.to
      BY <2>3, <2>4 DEF Leads
    <3>2. Text(u[k].id) = c.to /\ k \in DOMAIN u
      BY <1>2, <1>3
    <3> QED
      BY <3>1, <3>2
  <2> QED
    BY <1>6, <2>3, <2>4, <2>5 DEF IsCommand
<1>8. AreFunctions(u)
  <2>1. \A i \in DOMAIN u : /\ DOMAIN u[i] = {"id", "cmds"}
                            /\ IsId(u[i].id) /\ IsSequence(u[i].cmds)
    BY <1>2, <1>3, <1>6 DEF AreFunctions
  <2> QED
    BY <1>4, <1>5, <1>7, <2>1 DEF AreFunctions
<1>9. PushesPlace(u)
  <2> SUFFICES ASSUME NEW i \in DOMAIN u, NEW j \in DOMAIN u[i].cmds,
                      u[i].cmds[j].op = "push"
               PROVE  /\ u[i].cmds[j].what.op = "lit"
                      /\ ReturnPlace(u, u[i].cmds[j].what.n)
    BY DEF PushesPlace
  <2> DEFINE c == v[i].cmds[j]  d == u[i].cmds[j]  id == v[i].id
  <2>1. i \in DOMAIN v /\ j \in DOMAIN v[i].cmds /\ d = FixCmd(v, st, c)
    BY <1>2, <1>6
  <2>2. HasOp(c, AllOps)
    BY <2>1 DEF AreFunctions, IsCommand
  <2> HIDE DEF c
  <2>3. c.op = "push"
    BY <2>1, <2>2, FixKeeps
  <2>4. c = Push(text(id)) /\ Known(v, ReturnTo(id)) /\ IsId(id)
    BY <2>1, <2>3 DEF PushesName, AreFunctions, c
  <2> HIDE DEF id
  <2>5. d.what.op = "lit" /\ ReturnPlace(v, d.what.n)
    BY <1>1, <2>1, <2>4, FixPush
  <2> DEFINE n == d.what.n
  <2> HIDE DEF d, n
  <2>6. ReturnPlace(u, n)
    BY <1>2, <1>3, <2>5 DEF ReturnPlace, n
  <2> QED
    BY <2>5, <2>6 DEF n, d
<1> QED
  BY <1>2, <1>3, <1>8, <1>9

-----------------------------------------------------------------------------
LEMMA RuntimeIs ==
  ASSUME NEW a
  PROVE  /\ Runtime(a).id = <<a, Zero, 0>> /\ Runtime(a).cmds = <<>>
         /\ DOMAIN Runtime(a) = {"id", "cmds"}
         /\ IsId(Runtime(a).id) /\ Runtime(a).id[1] = a
<1>1. /\ Runtime(a).id = <<a, Zero, 0>> /\ Runtime(a).cmds = <<>>
      /\ DOMAIN Runtime(a) = {"id", "cmds"}
  BY DEF Runtime
<1>2. IsId(<<a, Zero, 0>>) /\ <<a, Zero, 0>>[1] = a
  BY DEF IsId, BlockIds
<1> QED
  BY <1>1, <1>2

(* Functions of the runtime, by their names.                               *)
Named(names, r) ==
  /\ IsSequence(r) /\ DOMAIN r = DOMAIN names
  /\ \A i \in DOMAIN r : r[i] = Runtime(names[i])

LEMMA NamedApart ==
  ASSUME NEW s, NEW names, NEW r, Named(names, r),
         \A i, j \in DOMAIN names : names[i] = names[j] => i = j,
         \A i \in DOMAIN names : \A k \in DOMAIN s : s[k].id[1] # names[i]
  PROVE  Apart(s, r)
<1>1. ASSUME NEW i \in DOMAIN r
      PROVE  /\ DOMAIN r[i] = {"id", "cmds"} /\ IsId(r[i].id) /\ r[i].cmds = <<>>
             /\ r[i].id[1] = names[i]
             /\ \A k \in DOMAIN s : s[k].id # r[i].id
  <2> DEFINE a == names[i]
  <2>1. r[i] = Runtime(a)
    BY DEF Named
  <2> HIDE DEF a
  <2>2. /\ DOMAIN r[i] = {"id", "cmds"} /\ IsId(r[i].id) /\ r[i].cmds = <<>>
        /\ r[i].id[1] = a
    BY <2>1, RuntimeIs
  <2>3. \A k \in DOMAIN s : s[k].id[1] # a
    BY DEF a, Named
  <2> QED
    BY <2>2, <2>3 DEF a
<1>2. Distinct(r)
  <2> SUFFICES ASSUME NEW i \in DOMAIN r, NEW j \in DOMAIN r, r[i].id = r[j].id
               PROVE  i = j
    BY DEF Distinct
  <2>1. r[i].id[1] = names[i] /\ r[j].id[1] = names[j]
    BY <1>1
  <2>2. names[i] = names[j]
    BY <2>1
  <2> QED
    BY <2>2 DEF Named
<1> QED
  BY <1>1, <1>2 DEF Apart, Named

LEMMA NamedTwo ==
  ASSUME NEW a, NEW b
  PROVE  Named(<<a, b>>, <<Runtime(a), Runtime(b)>>)
<1> DEFINE x == Runtime(a)  y == Runtime(b)
<1> HIDE DEF x, y
<1>1. /\ <<x, y>> \in Seq({x, y}) /\ DOMAIN <<x, y>> = {1, 2}
      /\ <<x, y>>[1] = x /\ <<x, y>>[2] = y
      /\ DOMAIN <<a, b>> = {1, 2} /\ <<a, b>>[1] = a /\ <<a, b>>[2] = b
  OBVIOUS
<1>2. IsSequence(<<x, y>>)
  BY <1>1, SeqGiven
<1> QED
  BY <1>1, <1>2 DEF Named, x, y

LEMMA NamedThree ==
  ASSUME NEW a, NEW b, NEW c
  PROVE  Named(<<a, b, c>>, <<Runtime(a), Runtime(b), Runtime(c)>>)
<1> DEFINE x == Runtime(a)  y == Runtime(b)  z == Runtime(c)
<1> HIDE DEF x, y, z
<1>1. /\ <<x, y, z>> \in Seq({x, y, z}) /\ DOMAIN <<x, y, z>> = {1, 2, 3}
      /\ <<x, y, z>>[1] = x /\ <<x, y, z>>[2] = y /\ <<x, y, z>>[3] = z
      /\ DOMAIN <<a, b, c>> = {1, 2, 3} /\ <<a, b, c>>[1] = a /\ <<a, b, c>>[2] = b
      /\ <<a, b, c>>[3] = c
  OBVIOUS
<1>2. IsSequence(<<x, y, z>>)
  BY <1>1, SeqGiven
<1> QED
  BY <1>1, <1>2 DEF Named, x, y, z

LEMMA UnusedConcat ==
  ASSUME NEW s, IsSequence(s), NEW names, NEW r, Named(names, r),
         NEW others, Unused(s, others), \A i \in DOMAIN names : names[i] \notin others
  PROVE  Unused(s \o r, others)
<1>1. \A i \in DOMAIN (s \o r) : \/ i \in DOMAIN s /\ (s \o r)[i] = s[i]
                                 \/ i - Len(s) \in DOMAIN r /\ (s \o r)[i] = r[i - Len(s)]
  BY ConcatElements DEF Named
<1>2. ASSUME NEW i \in DOMAIN r PROVE r[i].id[1] \notin others
  <2> DEFINE a == names[i]
  <2>1. r[i] = Runtime(a) /\ a \notin others
    BY DEF Named
  <2> HIDE DEF a
  <2>2. r[i].id[1] = a
    BY <2>1, RuntimeIs
  <2> QED
    BY <2>1, <2>2
<1> QED
  BY <1>1, <1>2 DEF Unused

-----------------------------------------------------------------------------
Callers == <<"rust:__langcraft_call", "rust:__langcraft_return">>
Others  == <<"init", "__langcraft_on_tick", "">>

LEMMA NamesGiven ==
  /\ DOMAIN Callers = {1, 2} /\ DOMAIN Others = {1, 2, 3}
  /\ \A i, j \in DOMAIN Callers : Callers[i] = Callers[j] => i = j
  /\ \A i, j \in DOMAIN Others : Others[i] = Others[j] => i = j
  /\ \A i \in DOMAIN Callers : Callers[i] \in RuntimeNames \ NamesToCome
  /\ \A i \in DOMAIN Others : Others[i] \in NamesToCome
  /\ NamesToCome \subseteq RuntimeNames
<1>0. \A a, b, c :
        /\ DOMAIN <<a, b>> = {1, 2} /\ <<a, b>>[1] = a /\ <<a, b>>[2] = b
        /\ DOMAIN <<a, b, c>> = {1, 2, 3} /\ <<a, b, c>>[1] = a /\ <<a, b, c>>[2] = b
        /\ <<a, b, c>>[3] = c
  OBVIOUS
<1> DEFINE a == "rust:__langcraft_call"  b == "rust:__langcraft_return"
           c == "init"  d == "__langcraft_on_tick"  e == ""
<1>1. a # b /\ c # d /\ c # e /\ d # e /\ a \notin {c, d, e} /\ b \notin {c, d, e}
  BY Zenon
<1>2. /\ Callers = <<a, b>> /\ Others = <<c, d, e>>
      /\ RuntimeNames = {a, b, c, d, e} /\ NamesToCome = {c, d, e}
  BY Zenon DEF Callers, Others, RuntimeNames, NamesToCome
<1> HIDE DEF a, b, c, d, e
<1>3. /\ DOMAIN Callers = {1, 2} /\ Callers[1] = a /\ Callers[2] = b
  BY <1>0, <1>2
<1>4. DOMAIN Others = {1, 2, 3} /\ Others[1] = c /\ Others[2] = d /\ Others[3] = e
  BY <1>0, <1>2
<1>5. /\ \A i, j \in DOMAIN Callers : Callers[i] = Callers[j] => i = j
      /\ \A i, j \in DOMAIN Others : Others[i] = Others[j] => i = j
  BY <1>1, <1>3, <1>4
<1>6. /\ \A i \in DOMAIN Callers : Callers[i] \in RuntimeNames \ NamesToCome
      /\ \A i \in DOMAIN Others : Others[i] \in NamesToCome
      /\ NamesToCome \subseteq RuntimeNames
  BY <1>1, <1>2, <1>3, <1>4
<1> QED
  BY <1>3, <1>4, <1>5, <1>6

CallersRuntime == <<Runtime("rust:__langcraft_call"), Runtime("rust:__langcraft_return")>>
OthersRuntime  == <<Runtime("init"), Runtime("__langcraft_on_tick"), Runtime("")>>

LEMMA RuntimesNamed == Named(Callers, CallersRuntime) /\ Named(Others, OthersRuntime)
<1> DEFINE a == "rust:__langcraft_call"  b == "rust:__langcraft_return"
           c == "init"  d == "__langcraft_on_tick"  e == ""
<1>1. /\ Callers = <<a, b>> /\ Others = <<c, d, e>>
      /\ CallersRuntime = <<Runtime(a), Runtime(b)>>
      /\ OthersRuntime = <<Runtime(c), Runtime(d), Runtime(e)>>
  BY Zenon DEF Callers, Others, CallersRuntime, OthersRuntime
<1> HIDE DEF a, b, c, d, e
<1>2. Named(<<a, b>>, <<Runtime(a), Runtime(b)>>)
  BY NamedTwo
<1>3. Named(<<c, d, e>>, <<Runtime(c), Runtime(d), Runtime(e)>>)
  BY NamedThree
<1> QED
  BY <1>1, <1>2, <1>3, Zenon

LEMMA RelocateInv ==
  ASSUME NamesApart PROVE ListInv /\ Relocate => ListInv'
<1> SUFFICES ASSUME ListInv, Relocate PROVE ListInv'
  OBVIOUS
<1> DEFINE v == list \o CallersRuntime
<1>1. /\ phase = "relocate" /\ phase' = "finish" /\ starts' = starts
      /\ fnAddr' = [f \in Fn |-> Position(list, starts[f])]
      /\ table' = [i \in DOMAIN list |-> list[i].id]
  BY DEF Relocate
<1>2. list' = ApplyFixups(v, starts)
  BY Zenon DEF Relocate, CallersRuntime
<1>3. /\ AreFunctions(list) /\ PushesName(list) /\ Unused(list, RuntimeNames)
      /\ DOMAIN starts = Fn /\ \A f \in Fn : Known(list, starts[f])
  BY <1>1 DEF ListInv
<1>4. IsSequence(list) /\ Distinct(list)
  BY <1>3 DEF AreFunctions
<1>5. Apart(list, CallersRuntime)
  <2>1. \A i \in DOMAIN Callers : \A k \in DOMAIN list : list[k].id[1] # Callers[i]
    BY <1>3, NamesGiven DEF Unused
  <2>2. \A i, j \in DOMAIN Callers : Callers[i] = Callers[j] => i = j
    BY NamesGiven
  <2> QED
    BY <2>1, <2>2, NamedApart, RuntimesNamed
<1>6. /\ \A i \in DOMAIN list : i \in DOMAIN v /\ v[i] = list[i]
      /\ AreFunctions(v) /\ PushesName(v)
      /\ \A id : Known(list, id) => Known(v, id)
  BY <1>3, <1>5, ExtendedIs
<1>7. Unused(v, NamesToCome)
  <2>1. Unused(list, NamesToCome)
    BY <1>3, NamesGiven DEF Unused
  <2>2. \A i \in DOMAIN Callers : Callers[i] \notin NamesToCome
    BY NamesGiven
  <2> QED
    BY <1>4, <2>1, <2>2, RuntimesNamed, UnusedConcat
<1> HIDE DEF v
<1> DEFINE u == list'
<1>8. /\ DOMAIN u = DOMAIN v /\ \A i \in DOMAIN v : u[i].id = v[i].id
      /\ AreFunctions(u) /\ PushesPlace(u)
  <2> DEFINE st == starts
  <2>1. u = ApplyFixups(v, st)
    BY <1>2
  <2> HIDE DEF u, st
  <2> QED
    BY <1>6, <2>1, FixupsIs
<1>9. Unused(u, NamesToCome)
  BY <1>7, <1>8 DEF Unused
<1>10. \A i \in DOMAIN list : i \in DOMAIN u /\ u[i].id = list[i].id
  BY <1>6, <1>8
<1>11. \A f \in Fn : Known(u, starts[f])
  <2> TAKE f \in Fn
  <2> PICK i \in DOMAIN list : list[i].id = starts[f]
    BY <1>3 DEF Known
  <2> QED
    BY <1>10 DEF Known
<1>12. \A f \in Fn : fnAddr'[f] + 1 \in DOMAIN u /\ u[fnAddr'[f] + 1].id = starts[f]
  <2> TAKE f \in Fn
  <2> PICK i \in DOMAIN list : list[i].id = starts[f]
    BY <1>3 DEF Known
  <2>1. Position(list, list[i].id) = i - 1
    BY <1>4, PositionIs
  <2>2. i \in Nat
    <3>1. DOMAIN list = 1 .. Len(list) /\ Len(list) \in Nat
      BY <1>4, SeqIs
    <3> QED
      BY <3>1
  <2>3. fnAddr'[f] + 1 = i
    BY <1>1, <2>1, <2>2
  <2> QED
    BY <1>10, <2>3
<1>13. IsSequence(table') /\ \A i \in DOMAIN table' : i \in DOMAIN u /\ table'[i] = u[i].id
  <2> DEFINE n == Len(list)
  <2>1. n \in Nat /\ DOMAIN list = 1 .. n
    BY <1>4, SeqIs
  <2>2. table' = [i \in 1 .. n |-> table'[i]]
    BY <1>1, <2>1
  <2> DEFINE t == table'
  <2> HIDE DEF n, t
  <2>3. IsSequence(t)
    BY <2>1, <2>2, SeqMade DEF t
  <2> QED
    BY <1>1, <1>10, <2>3 DEF t
<1> HIDE DEF u
<1>14. phase' = "finish" /\ list' = u /\ starts' = starts
  BY <1>1 DEF u
<1> QED
  BY <1>3, <1>8, <1>9, <1>11, <1>12, <1>13, <1>14 DEF ListInv

LEMMA FinishListInv == ListInv /\ Finish => ListInv'
<1> SUFFICES ASSUME ListInv, Finish PROVE ListInv'
  OBVIOUS
<1> DEFINE u == list \o OthersRuntime
<1>1. /\ phase = "finish" /\ phase' = "ready"
      /\ starts' = starts /\ fnAddr' = fnAddr /\ table' = table
  BY DEF Finish
<1>2. list' = u
  BY Zenon DEF Finish, OthersRuntime
<1>3. /\ AreFunctions(list) /\ PushesPlace(list) /\ Unused(list, NamesToCome)
      /\ DOMAIN starts = Fn /\ \A f \in Fn : Known(list, starts[f])
      /\ IsSequence(table)
      /\ \A i \in DOMAIN table : i \in DOMAIN list /\ table[i] = list[i].id
      /\ \A f \in Fn : /\ fnAddr[f] + 1 \in DOMAIN list
                       /\ list[fnAddr[f] + 1].id = starts[f]
  BY <1>1 DEF ListInv
<1>4. Apart(list, OthersRuntime)
  <2>1. \A i \in DOMAIN Others : \A k \in DOMAIN list : list[k].id[1] # Others[i]
    BY <1>3, NamesGiven DEF Unused
  <2>2. \A i, j \in DOMAIN Others : Others[i] = Others[j] => i = j
    BY NamesGiven
  <2> QED
    BY <2>1, <2>2, NamedApart, RuntimesNamed
<1>5. /\ \A i \in DOMAIN list : i \in DOMAIN u /\ u[i] = list[i]
      /\ AreFunctions(u) /\ PushesPlace(u)
      /\ \A id : Known(list, id) => Known(u, id)
  BY <1>3, <1>4, ExtendedIs
<1> HIDE DEF u
<1> QED
  BY <1>1, <1>2, <1>3, <1>5 DEF ListInv

LEMMA ListStepInv ==
  ASSUME NamesApart PROVE CompileInv /\ ListInv /\ [Next]_vars => ListInv'
<1> SUFFICES ASSUME CompileInv, ListInv, [Next]_vars PROVE ListInv'
  OBVIOUS
<1>1. CASE LayOutVariable
  BY <1>1 DEF LayOutVariable, ListInv
<1>2. CASE CompileNext
  BY <1>2 DEF CompileNext, ListInv
<1>3. CASE Link
  BY <1>3, LinkInv
<1>4. CASE Relocate
  BY <1>4, RelocateInv
<1>5. CASE Finish
  BY <1>5, FinishListInv
<1>6. CASE Start
  <2>1. /\ phase \in {"ready", "started"} /\ phase' = "started"
        /\ UNCHANGED <<list, starts, fnAddr, table>>
    BY <1>6 DEF Start
  <2> QED
    BY <2>1 DEF ListInv
<1>7. CASE RunFunction
  <2>1. /\ phase = "started" /\ phase' = "started"
        /\ UNCHANGED <<list, starts, fnAddr, table>>
    BY <1>7 DEF RunFunction, compiler
  <2> QED
    BY <2>1 DEF ListInv
<1>8. CASE UNCHANGED vars
  BY <1>8 DEF ListInv, vars, compiler
<1> QED
  BY <1>1, <1>2, <1>3, <1>4, <1>5, <1>6, <1>7, <1>8 DEF Next

-----------------------------------------------------------------------------
LEMMA PhaseStepInv ==
  LayoutInv /\ PhaseInv /\ CompileInv /\ [Next]_vars => PhaseInv'
<1> SUFFICES ASSUME LayoutInv, PhaseInv, CompileInv, [Next]_vars PROVE PhaseInv'
  OBVIOUS
<1>1. CASE LayOutVariable
  BY <1>1 DEF LayOutVariable, PhaseInv
<1>2. CASE CompileNext
  BY <1>2 DEF CompileNext, PhaseInv
<1>3. CASE Link
  BY <1>3 DEF Link, PhaseInv
<1>4. CASE Relocate
  BY <1>4 DEF Relocate, PhaseInv
<1>5. CASE Finish
  <2>1. /\ phase' = "ready" /\ main_return' = alloc + Reserved(CondStackBytes)
        /\ stackptr' = main_return' + Reserved(4)
    BY <1>5 DEF Finish, ReserveStacks
  <2>2. alloc \in Nat
    BY DEF LayoutInv, VariablesInv
  <2>3. Reserved(CondStackBytes) \in Nat /\ Reserved(4) \in Nat /\ Reserved(4) >= 4
    <3>1. CondStackBytes \in Nat
      BY GlobalsAssumption
    <3> QED
      BY <3>1, ReservedWords
  <2> QED
    BY <2>1, <2>2, <2>3 DEF PhaseInv
<1>6. CASE Start
  BY <1>6 DEF Start, PhaseInv, layout
<1>7. CASE RunFunction
  BY <1>7 DEF RunFunction, PhaseInv, layout, compiler
<1>8. CASE UNCHANGED vars
  BY <1>8 DEF PhaseInv, vars, layout, compiler
<1> QED
  BY <1>1, <1>2, <1>3, <1>4, <1>5, <1>6, <1>7, <1>8 DEF Next

LEMMA ListsInitInv == Init => ListsInv
<1> SUFFICES ASSUME Init PROVE ListsInv
  OBVIOUS
<1>1. phase = "layout"
  BY DEF Init
<1>2. CompileInv
  BY CompileInitInv
<1> QED
  BY <1>1, <1>2 DEF ListsInv, PhaseInv, ListInv

LEMMA ListsStepInv ==
  ASSUME NamesApart PROVE LayoutInv /\ ListsInv /\ [Next]_vars => ListsInv'
  BY PhaseStepInv, CompileOthersInv, ListStepInv DEF ListsInv

LEMMA ListsNames ==
  ASSUME NamesApart PROVE ListsInv => NamesUnique
<1> SUFFICES ASSUME ListsInv, NEW i \in DOMAIN list, NEW j \in DOMAIN list,
                    Text(list[i].id) = Text(list[j].id)
             PROVE  i = j
  BY DEF NamesUnique
<1>1. CASE phase \in {"layout", "compile", "link"}
  <2>1. list = <<>>
    BY <1>1 DEF ListsInv, CompileInv
  <2>2. DOMAIN <<>> = {}
    OBVIOUS
  <2> QED
    BY <2>1, <2>2
<1>2. CASE phase \in {"relocate", "finish", "ready", "started"}
  <2> DEFINE x == list[i].id  y == list[j].id
  <2>1. AreFunctions(list)
    BY <1>2 DEF ListsInv, ListInv
  <2>2. IsId(x) /\ IsId(y) /\ Text(x) = Text(y)
    BY <2>1 DEF AreFunctions
  <2> HIDE DEF x, y
  <2>3. x = y
    BY <2>2, TextInjective
  <2> QED
    BY <2>1, <2>3 DEF AreFunctions, Distinct, x, y
<1> QED
  BY <1>1, <1>2 DEF ListsInv, PhaseInv

(* If new_sub keeps the names of a module apart, no two generated functions*)
(* have one name: not the parts of one function, nor parts of two, nor a   *)
(* part and a function of the runtime.  FunctionId's Display, which the    *)
(* list is searched with, tells their ids apart (NamesUnique, which run    *)
(* module checks).                                                         *)
THEOREM NamesDistinct ==
  ASSUME NamesApart
  PROVE  Spec => []NamesUnique
<1>1. Init => LayoutInv /\ ListsInv
  BY LayoutInitInv, ListsInitInv
<1>2. LayoutInv /\ ListsInv /\ [Next]_vars => LayoutInv' /\ ListsInv'
  BY LayoutStepInv, ListsStepInv
<1>3. ListsInv => NamesUnique
  BY ListsNames
<1> QED
  BY <1>1, <1>2, <1>3, PTL DEF Spec

-----------------------------------------------------------------------------
(***************************************************************************)
(* What becomes of a module whose names are not kept apart.  The first     *)
(* part of every function is in the list, in the order of the module, from *)
(* its compilation on.                                                     *)
(***************************************************************************)
HeadOf(i) == Id(FnOrder[i], EntryOf(FnOrder[i]), 0)

BeginsWithHeads(s, n) ==
  IsSequence(s) /\ \A i \in 1 .. n : i \in DOMAIN s /\ s[i].id = HeadOf(i)

HeadsInv ==
  LET n == Len(FnOrder)
  IN /\ phase \in {"layout", "compile", "link", "relocate", "finish", "ready", "started"}
     /\ phase \in {"layout", "compile", "link"} =>
          /\ compiled \in 0 .. n /\ (phase = "link" <=> compiled = n)
          /\ Len(heads) = compiled /\ BeginsWithHeads(heads, compiled)
          /\ IsSequence(tails)
     /\ phase \in {"relocate", "finish", "ready", "started"} => BeginsWithHeads(list, n)
     /\ phase = "relocate" => \A i \in 1 .. n : "id" \in DOMAIN list[i]

(* A function begins with the first part of its first block.               *)
LEMMA FirstPart ==
  ASSUME NEW f \in Fn
  PROVE  /\ IsSequence(CompileFunction(f)) /\ 1 \in DOMAIN CompileFunction(f)
         /\ CompileFunction(f)[1].id = Id(f, EntryOf(f), 0)
<1> DEFINE n == Len(Blocks[f])
<1>1. n \in Nat /\ DOMAIN Blocks[f] = 1 .. n /\ n # 0
  <2>1. IsSequence(Blocks[f]) /\ Blocks[f] # <<>>
    BY BlocksAssumption, ModuleAssumption
  <2> QED
    BY <2>1, SeqIs DEF IsSequence
<1> HIDE DEF n
<1>2. PICK q : /\ q[0] = <<>>
               /\ \A j \in 1 .. n : q[j] = BlockStep(f, q[j - 1], j)
               /\ CompileFunction(f) = q[n]
  BY <1>1, BlocksFold
<1> DEFINE Begins(s) == 1 \in DOMAIN s /\ s[1].id = Id(f, EntryOf(f), 0)
           S == {j \in 0 .. n : IsSequence(q[j]) /\ (IF j = 0 THEN q[j] = <<>> ELSE Begins(q[j]))}
<1>3. 0 \in S
  <2>1. IsSequence(q[0])
    BY <1>2, NoneSeq, Zenon
  <2> QED
    BY <1>1, <1>2, <2>1
<1>4. ASSUME NEW j \in 0 .. n - 1, j \in S
      PROVE  j + 1 \in S
  <2> DEFINE i == j + 1  s == q[j]  t == CompileBlock(f, i)
  <2>1. i \in 1 .. n /\ i - 1 = j /\ i # 0 /\ i \in 0 .. n
    BY <1>1
  <2>2. q[i] = s \o t
    BY <1>2, <2>1 DEF BlockStep
  <2>3. ArePartsOf(f, i, t)
    <3>1. i \in DOMAIN Blocks[f]
      BY <1>1, <2>1
    <3> HIDE DEF i
    <3> QED
      BY <3>1, BlockIs
  <2>4. IsSequence(s) /\ IsSequence(t) /\ 1 \in DOMAIN t
    BY <1>4, <2>3 DEF ArePartsOf
  <2>5. IF j = 0 THEN s = <<>> ELSE Begins(s)
    BY <1>4
  <2>6. j = 0 => t[1].id = Id(f, EntryOf(f), 0)
    <3> SUFFICES ASSUME j = 0 PROVE t[1].id = Id(f, EntryOf(f), 0)
      OBVIOUS
    <3>1. i = 1 /\ 1 - 1 = 0
      OBVIOUS
    <3> HIDE DEF t, i
    <3>2. t[1].id = Id(f, Blocks[f][1].name, 0)
      BY <2>3, <2>4, <3>1 DEF ArePartsOf
    <3> QED
      BY <3>2 DEF EntryOf
  <2> HIDE DEF s, t
  <2>7. IsSequence(s \o t)
    BY <2>4, ConcatSeq
  <2>8. /\ \A k \in DOMAIN s : k \in DOMAIN (s \o t) /\ (s \o t)[k] = s[k]
        /\ \A k \in DOMAIN t : Len(s) + k \in DOMAIN (s \o t) /\ (s \o t)[Len(s) + k] = t[k]
    BY <2>4, ConcatHas
  <2>9. Begins(s \o t)
    <3>1. CASE j = 0
      <4>1. Len(s) = 0 /\ 0 + 1 = 1
        BY <2>5, <3>1, NoneSeq
      <4>2. Len(s) + 1 \in DOMAIN (s \o t) /\ (s \o t)[Len(s) + 1] = t[1]
        BY <2>4, <2>8
      <4>3. 1 \in DOMAIN (s \o t) /\ (s \o t)[1] = t[1]
        BY <4>1, <4>2
      <4> QED
        BY <2>6, <3>1, <4>3
    <3>2. CASE j # 0
      BY <2>5, <2>8, <3>2
    <3> QED
      BY <3>1, <3>2
  <2> HIDE DEF Begins, i
  <2> QED
    BY <2>1, <2>2, <2>7, <2>9 DEF i
<1> HIDE DEF S
<1>5. 0 .. n \subseteq S
  BY <1>1, <1>3, <1>4, BoundedInduction
<1>6. n \in S
  BY <1>1, <1>5
<1>7. IsSequence(q[n]) /\ Begins(q[n])
  BY <1>1, <1>6 DEF S
<1> QED
  BY <1>2, <1>7

(* Putting anything behind a list leaves its beginning.                    *)
LEMMA HeadsStay ==
  ASSUME NEW s, NEW n \in Nat, BeginsWithHeads(s, n), NEW t, IsSequence(t)
  PROVE  /\ BeginsWithHeads(s \o t, n)
         /\ \A i \in 1 .. n : (s \o t)[i] = s[i]
<1>1. IsSequence(s)
  BY DEF BeginsWithHeads
<1>2. \A k \in DOMAIN s : k \in DOMAIN (s \o t) /\ (s \o t)[k] = s[k]
  BY <1>1, ConcatHas
<1>3. IsSequence(s \o t)
  BY <1>1, ConcatSeq
<1> QED
  BY <1>2, <1>3 DEF BeginsWithHeads

LEMMA HeadsCompile == HeadsInv /\ CompileNext => HeadsInv'
<1> SUFFICES ASSUME HeadsInv, CompileNext PROVE HeadsInv'
  OBVIOUS
<1> DEFINE k == compiled  n == Len(FnOrder)
           f == FnOrder[k + 1]  t == CompileFunction(f)  h == Head(t)
<1>1. /\ phase = "compile" /\ phase' = (IF compiled' = n THEN "link" ELSE "compile")
      /\ k' = k + 1
  BY DEF CompileNext
<1>2. heads' = Append(heads, h) /\ tails' = tails \o Tail(t)
  BY Zenon DEF CompileNext
<1>3. /\ k \in 0 .. n /\ k # n /\ Len(heads) = k
      /\ BeginsWithHeads(heads, k) /\ IsSequence(tails)
  BY <1>1 DEF HeadsInv
<1>4. n \in Nat /\ k < n
  BY <1>3, BlocksAssumption
<1>5. f \in Fn
  BY <1>3, <1>4, OrderIs
<1>6. IsSequence(t) /\ 1 \in DOMAIN t /\ t[1].id = Id(f, EntryOf(f), 0)
  <2> HIDE DEF f
  <2> QED
    BY <1>5, FirstPart
<1> HIDE DEF t
<1>7. h = t[1] /\ IsSequence(Tail(t))
  <2>1. t \in Seq(ToSet(t)) /\ t # <<>>
    BY <1>6 DEF IsSequence
  <2>2. h = t[1] /\ Tail(t) \in Seq(ToSet(t))
    BY <2>1
  <2>3. IsSequence(Tail(t))
    BY <2>2, SeqGiven
  <2> QED
    BY <2>2, <2>3
<1>8. h.id = HeadOf(k + 1)
  BY <1>6, <1>7 DEF HeadOf
<1> HIDE DEF h, f
<1>9. IsSequence(tails')
  <2> DEFINE r == Tail(t)
  <2>1. IsSequence(r)
    BY <1>7
  <2> HIDE DEF r
  <2>2. IsSequence(tails \o r)
    BY <1>3, <2>1, ConcatSeq
  <2> QED
    BY <1>2, <2>2 DEF r
<1>10. Len(heads') = k + 1 /\ BeginsWithHeads(heads', k + 1)
  <2>1. IsSequence(heads) /\ \A i \in 1 .. k : i \in DOMAIN heads /\ heads[i].id = HeadOf(i)
    BY <1>3 DEF BeginsWithHeads
  <2>2. /\ IsSequence(Append(heads, h)) /\ Len(Append(heads, h)) = Len(heads) + 1
        /\ DOMAIN Append(heads, h) = 1 .. Len(heads) + 1
        /\ \A i \in 1 .. Len(heads) : Append(heads, h)[i] = heads[i]
        /\ Append(heads, h)[Len(heads) + 1] = h
    BY <2>1, AppendSeq
  <2>3. \A i \in 1 .. k + 1 : i \in 1 .. k \/ i = k + 1
    BY <1>3
  <2>4. \A i \in 1 .. k + 1 : i \in DOMAIN heads' /\ heads'[i].id = HeadOf(i)
    BY <1>2, <1>3, <1>8, <2>1, <2>2, <2>3
  <2> QED
    BY <1>2, <1>3, <2>2, <2>4 DEF BeginsWithHeads
<1>11. k + 1 \in 0 .. n /\ (phase' = "link" <=> k + 1 = n)
  BY <1>1, <1>3, <1>4
<1> QED
  BY <1>1, <1>9, <1>10, <1>11 DEF HeadsInv

LEMMA HeadsLink == HeadsInv /\ Link => HeadsInv'
<1> SUFFICES ASSUME HeadsInv, Link PROVE HeadsInv'
  OBVIOUS
<1> DEFINE s == heads \o tails  n == Len(FnOrder)  u == Linked(s, starts)
<1>1. phase = "link" /\ phase' = "relocate"
  BY DEF Link
<1>2. list' = u
  BY Zenon DEF Link, Linked
<1>3. n \in Nat /\ BeginsWithHeads(heads, n) /\ IsSequence(tails)
  BY <1>1, BlocksAssumption DEF HeadsInv
<1>4. BeginsWithHeads(s, n)
  BY <1>3, HeadsStay
<1>5. IsLinked(s, starts, u)
  <2>1. IsSequence(s)
    BY <1>4 DEF BeginsWithHeads
  <2> HIDE DEF s
  <2> QED
    BY <2>1, LinkedIs
<1> HIDE DEF s, u
<1>6. \A x, st : "id" \in DOMAIN ReifyBlock(x, st) /\ ReifyBlock(x, st).id = x.id
  BY DEF ReifyBlock
<1>7. \A i \in 1 .. n : i \in DOMAIN u /\ "id" \in DOMAIN u[i] /\ u[i].id = HeadOf(i)
  BY <1>4, <1>5, <1>6 DEF BeginsWithHeads, IsLinked
<1>8. BeginsWithHeads(u, n)
  BY <1>5, <1>7 DEF BeginsWithHeads, IsLinked
<1> QED
  BY <1>1, <1>2, <1>7, <1>8 DEF HeadsInv

LEMMA HeadsRelocate == HeadsInv /\ Relocate => HeadsInv'
<1> SUFFICES ASSUME HeadsInv, Relocate PROVE HeadsInv'
  OBVIOUS
<1> DEFINE n == Len(FnOrder)  v == list \o CallersRuntime  u == ApplyFixups(v, starts)
<1>1. phase = "relocate" /\ phase' = "finish"
  BY DEF Relocate
<1>2. list' = u
  BY Zenon DEF Relocate, CallersRuntime
<1>3. /\ n \in Nat /\ BeginsWithHeads(list, n)
      /\ \A i \in 1 .. n : "id" \in DOMAIN list[i]
  BY <1>1, BlocksAssumption DEF HeadsInv
<1>4. BeginsWithHeads(v, n) /\ \A i \in 1 .. n : v[i] = list[i]
  <2>1. IsSequence(CallersRuntime)
    BY RuntimesNamed DEF Named
  <2> QED
    BY <1>3, <2>1, HeadsStay
<1> HIDE DEF v
<1>5. IsSequence(u) /\ DOMAIN u = DOMAIN v
  <2> DEFINE m == Len(v)
  <2>1. m \in Nat /\ DOMAIN v = 1 .. m
    BY <1>4, SeqIs DEF BeginsWithHeads
  <2>2. u = [i \in 1 .. m |-> u[i]]
    BY <2>1 DEF ApplyFixups
  <2> HIDE DEF m, u
  <2>3. IsSequence(u)
    BY <2>1, <2>2, SeqMade
  <2> QED
    BY <2>1, <2>2, <2>3
<1>6. \A i \in 1 .. n : i \in DOMAIN u /\ u[i].id = HeadOf(i)
  <2> TAKE i \in 1 .. n
  <2> DEFINE w == v[i]
             x == [j \in DOMAIN w.cmds |-> FixCmd(v, starts, w.cmds[j])]
  <2>1. i \in DOMAIN v /\ "id" \in DOMAIN w /\ w.id = HeadOf(i)
    BY <1>3, <1>4 DEF BeginsWithHeads
  <2>2. u[i] = [w EXCEPT !.cmds = x]
    BY <2>1 DEF ApplyFixups
  <2> HIDE DEF w, x, u
  <2> QED
    BY <1>5, <2>1, <2>2
<1> HIDE DEF u
<1>7. BeginsWithHeads(u, n)
  BY <1>5, <1>6 DEF BeginsWithHeads
<1> QED
  BY <1>1, <1>2, <1>7 DEF HeadsInv

LEMMA HeadsStep == HeadsInv /\ [Next]_vars => HeadsInv'
<1> SUFFICES ASSUME HeadsInv, [Next]_vars PROVE HeadsInv'
  OBVIOUS
<1>1. CASE LayOutVariable
  <2>1. /\ phase = "layout" /\ phase' \in {"layout", "compile"}
        /\ UNCHANGED <<compiled, heads, tails>>
    BY <1>1 DEF LayOutVariable
  <2> QED
    BY <2>1 DEF HeadsInv
<1>2. CASE CompileNext
  BY <1>2, HeadsCompile
<1>3. CASE Link
  BY <1>3, HeadsLink
<1>4. CASE Relocate
  BY <1>4, HeadsRelocate
<1>5. CASE Finish
  <2>1. phase = "finish" /\ phase' = "ready"
    BY <1>5 DEF Finish
  <2>2. list' = list \o OthersRuntime
    BY <1>5, Zenon DEF Finish, OthersRuntime
  <2>3. BeginsWithHeads(list, Len(FnOrder)) /\ Len(FnOrder) \in Nat
    BY <2>1, BlocksAssumption DEF HeadsInv
  <2>4. BeginsWithHeads(list \o OthersRuntime, Len(FnOrder))
    <3> DEFINE n == Len(FnOrder)
    <3>1. n \in Nat /\ BeginsWithHeads(list, n)
      BY <2>3
    <3>2. IsSequence(OthersRuntime)
      BY RuntimesNamed DEF Named
    <3> HIDE DEF n
    <3>3. BeginsWithHeads(list \o OthersRuntime, n)
      BY <3>1, <3>2, HeadsStay
    <3> QED
      BY <3>3 DEF n
  <2> QED
    BY <2>1, <2>2, <2>4 DEF HeadsInv
<1>6. CASE Start
  BY <1>6 DEF Start, HeadsInv
<1>7. CASE RunFunction
  BY <1>7 DEF RunFunction, HeadsInv, compiler
<1>8. CASE UNCHANGED vars
  BY <1>8 DEF HeadsInv, vars, compiler
<1> QED
  BY <1>1, <1>2, <1>3, <1>4, <1>5, <1>6, <1>7, <1>8 DEF Next

LEMMA HeadsInit == Init => HeadsInv
<1> SUFFICES ASSUME Init PROVE HeadsInv
  OBVIOUS
<1>1. phase = "layout" /\ compiled = 0 /\ heads = <<>> /\ tails = <<>>
  BY DEF Init
<1>2. Len(FnOrder) \in Nat /\ Len(FnOrder) # 0
  BY BlocksAssumption, ModuleAssumption DEF ToSet
<1>3. BeginsWithHeads(heads, 0) /\ IsSequence(tails) /\ Len(heads) = 0
  BY <1>1, NoneSeq DEF BeginsWithHeads
<1> QED
  BY <1>1, <1>2, <1>3 DEF HeadsInv

(* The converse: two functions that new_sub gives one name, and their      *)
(* first blocks too, as it does to `f.1` and `f_1` that begin with `start`,*)
(* are two generated functions of one name in every datapack made of their *)
(* module, and nothing stops the compiler: NamesUnique fails from the      *)
(* linking on.                                                             *)
THEOREM NamesCollide ==
  ASSUME NEW f \in Fn, NEW g \in Fn, f # g, Norm[f] = Norm[g],
         NormBlock(EntryOf(f)) = NormBlock(EntryOf(g))
  PROVE  Spec => [](phase \in {"relocate", "finish", "ready", "started"} => ~NamesUnique)
<1>1. Init => HeadsInv
  BY HeadsInit
<1>2. HeadsInv /\ [Next]_vars => HeadsInv'
  BY HeadsStep
<1>3. HeadsInv => (phase \in {"relocate", "finish", "ready", "started"} => ~NamesUnique)
  <2> SUFFICES ASSUME HeadsInv, phase \in {"relocate", "finish", "ready", "started"}
               PROVE  ~NamesUnique
    OBVIOUS
  <2> DEFINE n == Len(FnOrder)
  <2>1. BeginsWithHeads(list, n)
    BY DEF HeadsInv
  <2>2. DOMAIN FnOrder = 1 .. n
    BY BlocksAssumption
  <2> HIDE DEF n
  <2>3. PICK i \in 1 .. n : FnOrder[i] = f
    BY <2>2, ModuleAssumption DEF ToSet
  <2>4. PICK j \in 1 .. n : FnOrder[j] = g
    BY <2>2, ModuleAssumption DEF ToSet
  <2>5. HeadOf(i) = HeadOf(j)
    <3>1. HeadOf(i) = <<Norm[f], NormBlock(EntryOf(f)), 0>>
      BY <2>3 DEF HeadOf, Id
    <3>2. HeadOf(j) = <<Norm[g], NormBlock(EntryOf(g)), 0>>
      BY <2>4 DEF HeadOf, Id
    <3> QED
      BY <3>1, <3>2
  <2>6. i \in DOMAIN list /\ j \in DOMAIN list /\ list[i].id = list[j].id
    BY <2>1, <2>5 DEF BeginsWithHeads
  <2>7. i # j
    BY <2>3, <2>4
  <2> QED
    BY <2>6, <2>7 DEF NamesUnique
<1> QED
  BY <1>1, <1>2, <1>3, PTL DEF Spec

-----------------------------------------------------------------------------
(***************************************************************************)
(* The start of the program: main's return address is -1.                  *)
(***************************************************************************)
LEMMA PutDomain ==
  ASSUME NEW m, NEW a, NEW bytes
  PROVE  DOMAIN Put(m, a, bytes) = DOMAIN m
  BY DEF Put

LEMMA WrittenDomain ==
  ASSUME NEW m, order \in Seq(Var)
  PROVE  DOMAIN VariablesWritten(m) = DOMAIN m
<1> DEFINE n == Len(order)
<1>1. n \in Nat /\ DOMAIN order = 1 .. n
  OBVIOUS
<1> HIDE DEF n
<1>2. PICK q : /\ q[0] = m
               /\ \A j \in 1 .. n : q[j] = Put(q[j - 1], addr[order[j]], VarBytes(order[j]))
               /\ VariablesWritten(m) = q[n]
  BY <1>1, WrittenFold
<1> DEFINE S == {j \in 0 .. n : DOMAIN q[j] = DOMAIN m}
<1>3. 0 \in S
  BY <1>1, <1>2
<1>4. ASSUME NEW j \in 0 .. n - 1, j \in S
      PROVE  j + 1 \in S
  <2> DEFINE k == j + 1  a == addr[order[k]]  b == VarBytes(order[k])
  <2>1. k \in 1 .. n /\ k - 1 = j
    BY <1>1
  <2>2. q[k] = Put(q[j], a, b)
    BY <1>2, <2>1
  <2> HIDE DEF a, b
  <2>3. DOMAIN q[k] = DOMAIN q[j]
    BY <2>2, PutDomain
  <2> QED
    BY <1>1, <1>4, <2>1, <2>3
<1> HIDE DEF S
<1>5. n \in S
  <2>1. 0 .. n \subseteq S
    BY <1>1, <1>3, <1>4, BoundedInduction
  <2> QED
    BY <1>1, <2>1
<1> QED
  BY <1>2, <1>5 DEF S

LEMMA MinusOne ==
  ASSUME NEW p \in Nat \ {0}
  PROVE  (-1) \div p = -1 /\ (-1) % p = p - 1
<1>1. (-1) \div p = -1
  BY Z3
<1>2. (-1) % p = p - 1
  BY Z3
<1> QED
  BY <1>1, <1>2

LEMMA ByteIs ==
  ASSUME Powers
  PROVE  /\ Byte \in Nat \ {0} /\ HighBit \in Nat \ {0}
         /\ Byte ^ 0 = 1 /\ Byte ^ 1 = Byte
         /\ Byte ^ 2 = Byte * Byte /\ Byte ^ 3 = Byte * (Byte * Byte)
         /\ 2 * HighBit = Byte * (Byte * (Byte * Byte))
<1> DEFINE k == ByteBits  B == Byte
<1>1. k \in Nat \ {0} /\ Bits = 4 * k /\ Bits - 1 \in Nat /\ (Bits - 1) + 1 = Bits
  BY ByteBitsAssumption DEF Bits
<1>2. B = 2 ^ k /\ B \in Nat \ {0}
  BY <1>1 DEF Powers, Byte
<1>3. HighBit \in Nat \ {0} /\ 2 ^ Bits = 2 * HighBit
  BY <1>1 DEF Powers, HighBit
<1>4. /\ B ^ 0 = 1 /\ B ^ (0 + 1) = B * B ^ 0 /\ B ^ (1 + 1) = B * B ^ 1
      /\ B ^ (2 + 1) = B * B ^ 2
  BY <1>2 DEF Powers
<1>5. 2 ^ (k + k) = B * B /\ 2 ^ (k + (k + k)) = B * (B * B)
      /\ 2 ^ (k + (k + (k + k))) = B * (B * (B * B))
  <2> DEFINE i == k + k  j == k + i  two == 2
  <2>1. i \in Nat /\ j \in Nat /\ k \in Nat /\ two \in Nat \ {0}
    BY <1>1
  <2> HIDE DEF two, i, j
  <2>2. two ^ (k + k) = two ^ k * two ^ k /\ two ^ (k + i) = two ^ k * two ^ i
        /\ two ^ (k + j) = two ^ k * two ^ j
    BY <2>1, PowerSum
  <2> QED
    BY <1>2, <2>2 DEF two, i, j
<1>6. Bits = k + (k + (k + k))
  BY <1>1
<1> HIDE DEF B, k
<1>7. B ^ 1 = B /\ B ^ 2 = B * B /\ B ^ 3 = B * (B * B)
  BY <1>2, <1>4
<1> QED
  BY <1>2, <1>3, <1>4, <1>5, <1>6, <1>7 DEF B

(* The bytes that init writes at main_return are read as -1.               *)
LEMMA NoReturn ==
  ASSUME Powers, NEW bytes, DOMAIN bytes = 1 .. 4,
         \A i \in 1 .. 4 : bytes[i] = Bytes(-1, 4)[i]
  PROVE  Wrap(Number(bytes)) = -1
<1> DEFINE B == Byte  H == HighBit
<1>1. /\ B \in Nat \ {0} /\ H \in Nat \ {0}
      /\ B ^ 0 = 1 /\ B ^ 1 = B
      /\ B ^ 2 = B * B /\ B ^ 3 = B * (B * B)
      /\ 2 * H = B * (B * (B * B))
  BY ByteIs
<1>2. \A i \in 1 .. 4 : bytes[i] = ((-1) \div B ^ (i - 1)) % B
  BY DEF Bytes
<1>3. \A i \in 1 .. 4 : bytes[i] = B - 1
  <2> TAKE i \in 1 .. 4
  <2> DEFINE p == B ^ (i - 1)
  <2>1. i - 1 = 0 \/ i - 1 = 1 \/ i - 1 = 2 \/ i - 1 = 3
    OBVIOUS
  <2>2. B * B \in Nat \ {0} /\ B * (B * B) \in Nat \ {0}
    <3> DEFINE C == B * B
    <3>1. C \in Nat \ {0}
      BY <1>1
    <3> HIDE DEF C
    <3>2. B * C \in Nat \ {0}
      BY <1>1, <3>1
    <3> QED
      BY <3>1, <3>2 DEF C
  <2>3. p \in Nat \ {0}
    BY <1>1, <2>1, <2>2
  <2> HIDE DEF p
  <2>4. (-1) \div p = -1 /\ (-1) % B = B - 1
    BY <1>1, <2>3, MinusOne
  <2>5. bytes[i] = ((-1) \div p) % B
    BY <1>2 DEF p
  <2> QED
    BY <2>4, <2>5
<1> HIDE DEF B, H
<1> DEFINE four == 4
<1>4. four \in Nat /\ DOMAIN bytes = 1 .. four
  OBVIOUS
<1> HIDE DEF four
<1>5. PICK q : /\ q[0] = 0
               /\ \A j \in 1 .. four : q[j] = q[j - 1] + bytes[j] * Byte ^ (j - 1)
               /\ Number(bytes) = q[four]
  BY <1>4, NumberFold
<1>6. /\ q[1] = q[0] + bytes[1] * B ^ (1 - 1) /\ q[2] = q[1] + bytes[2] * B ^ (2 - 1)
      /\ q[3] = q[2] + bytes[3] * B ^ (3 - 1) /\ q[4] = q[3] + bytes[4] * B ^ (4 - 1)
      /\ Number(bytes) = q[4] /\ q[0] = 0
  <2>1. \A j \in {1, 2, 3, 4} : q[j] = q[j - 1] + bytes[j] * B ^ (j - 1)
    BY <1>5 DEF four, B
  <2>2. 2 - 1 = 1 /\ 3 - 1 = 2 /\ 4 - 1 = 3 /\ 1 - 1 = 0
    OBVIOUS
  <2> QED
    BY <1>5, <2>1, <2>2 DEF four
<1>7. /\ q[1] = B - 1
      /\ q[2] = (B - 1) + (B - 1) * B
      /\ q[3] = (B - 1) + (B - 1) * B + (B - 1) * (B * B)
      /\ q[4] = (B - 1) + (B - 1) * B + (B - 1) * (B * B) + (B - 1) * (B * (B * B))
  <2>1. 2 - 1 = 1 /\ 3 - 1 = 2 /\ 4 - 1 = 3 /\ 1 - 1 = 0
    OBVIOUS
  <2>2. bytes[1] = B - 1 /\ bytes[2] = B - 1 /\ bytes[3] = B - 1 /\ bytes[4] = B - 1
    BY <1>3
  <2>3. /\ B ^ (1 - 1) = 1 /\ B ^ (2 - 1) = B /\ B ^ (3 - 1) = B * B
        /\ B ^ (4 - 1) = B * (B * B)
    BY <1>1, <2>1
  <2> QED
    BY <1>1, <1>6, <2>2, <2>3
<1>8. Number(bytes) = 2 * H - 1
  <2> DEFINE C == B * B
  <2>1. C \in Int /\ B * C \in Int /\ (B - 1) * B = C - B /\ (B - 1) * C = B * C - C
    BY <1>1
  <2> DEFINE D == B * C
  <2> HIDE DEF C
  <2>2. (B - 1) * D = B * D - D /\ D \in Int
    BY <1>1, <2>1
  <2>3. B * D = 2 * H
    BY <1>1 DEF C
  <2>4. q[4] = (B - 1) + (B - 1) * B + (B - 1) * C + (B - 1) * D
    BY <1>7 DEF C
  <2> QED
    BY <1>1, <1>6, <2>1, <2>2, <2>3, <2>4
<1>9. Wrap(2 * H - 1) = -1
  <2> DEFINE N == 2 * H
  <2>1. (N - 1) + H = N + (H - 1) /\ N \in Nat \ {0} /\ H - 1 \in Nat /\ H - 1 < N
    BY <1>1
  <2> HIDE DEF N
  <2>2. (N + (H - 1)) % N = H - 1
    <3> DEFINE x == H - 1
    <3>1. x \in Nat /\ x < N /\ N \in Nat \ {0}
      BY <2>1
    <3> HIDE DEF x
    <3>2. (N + x) % N = x
      BY <3>1, Z3
    <3> QED
      BY <3>2 DEF x
  <2>3. Wrap(N - 1) = (((N - 1) + H) % N) - H
    BY DEF Wrap, N, H
  <2>4. ((N - 1) + H) % N = H - 1
    BY <2>1, <2>2
  <2> QED
    BY <1>1, <2>3, <2>4 DEF N
<1> QED
  BY <1>8, <1>9

-----------------------------------------------------------------------------
(***************************************************************************)
(* What a command does to the machine.  Only pushes and returns change the *)
(* return addresses, and only edges, calls, returns and stops choose what  *)
(* runs next.                                                              *)
(***************************************************************************)
Fields == {"next", "acts", "rets", "mem", "param", "return0", "phi", "taken",
           "given", "tested", "fnptr"}

IsMachine(m) ==
  /\ DOMAIN m = Fields /\ DOMAIN m.mem = 0 .. MemBytes - 1
  /\ IsNext(m.next) /\ AreReturns(m.rets)

Same(m, k) ==
  /\ DOMAIN k = DOMAIN m /\ DOMAIN k.mem = DOMAIN m.mem
  /\ k.next = m.next /\ k.rets = m.rets

LEMMA SameIs ==
  ASSUME NEW m, IsMachine(m), NEW k, Same(m, k)
  PROVE  IsMachine(k) /\ k.rets = m.rets
  BY DEF IsMachine, Same

LEMMA AssignSame ==
  ASSUME NEW m, DOMAIN m = Fields, NEW r, NEW n
  PROVE  Same(m, Assign(m, r, n))
<1> DEFINE x == [m.acts EXCEPT ![Len(m.acts)] =
                   [q \in DOMAIN @ \cup {r} |-> IF q = r THEN n ELSE @[q]]]
<1>1. Assign(m, r, n) = [m EXCEPT !.acts = x]
  BY DEF Assign
<1> HIDE DEF x
<1> DEFINE k == [m EXCEPT !.acts = x]
<1>2. DOMAIN k = DOMAIN m /\ k.mem = m.mem /\ k.next = m.next /\ k.rets = m.rets
  BY DEF Fields
<1> QED
  BY <1>1, <1>2 DEF Same

LEMMA PutSame ==
  ASSUME NEW m, DOMAIN m = Fields, NEW a, NEW bytes
  PROVE  Same(m, Put4(m, a, bytes))
<1> DEFINE x == Put(m.mem, a, bytes)
<1>1. Put4(m, a, bytes) = [m EXCEPT !.mem = x]
  BY DEF Put4
<1>2. DOMAIN x = DOMAIN m.mem
  BY PutDomain
<1> HIDE DEF x
<1> DEFINE k == [m EXCEPT !.mem = x]
<1>3. DOMAIN k = DOMAIN m /\ k.mem = x /\ k.next = m.next /\ k.rets = m.rets
  BY DEF Fields
<1> QED
  BY <1>1, <1>2, <1>3 DEF Same

LEMMA Quiet ==
  ASSUME NEW c, c.op \in PlainOps \cup {"prolog", "test", "pointer", "result", "load_regs"},
         NEW m, DOMAIN m = Fields
  PROVE  Same(m, Execute(m, c))
<1>1. CASE c.op = "prolog"
  <2> DEFINE x == Append(m.acts, Received(m, c.params))
  <2>1. Execute(m, c) = [m EXCEPT !.acts = x]
    BY <1>1 DEF Execute
  <2> HIDE DEF x
  <2> DEFINE k == [m EXCEPT !.acts = x]
  <2>2. DOMAIN k = DOMAIN m /\ k.mem = m.mem /\ k.next = m.next /\ k.rets = m.rets
    BY DEF Fields
  <2> QED
    BY <2>1, <2>2 DEF Same
<1>2. CASE c.op = "input"
  <2> DEFINE d == Assign(m, c.dest, Head(m.given))
             x == Tail(d.given)
  <2>1. Execute(m, c) = [d EXCEPT !.given = x]
    BY <1>2 DEF Execute
  <2>2. Same(m, d)
    BY AssignSame
  <2> HIDE DEF d, x
  <2> DEFINE k == [d EXCEPT !.given = x]
  <2>3. DOMAIN k = DOMAIN m /\ k.mem = d.mem /\ k.next = d.next /\ k.rets = d.rets
    BY <2>2 DEF Fields, Same
  <2> HIDE DEF k
  <2> QED
    BY <2>1, <2>2, <2>3 DEF Same, k
<1>3. CASE c.op \in {"assign", "add", "read", "fetch"}
  <2>1. \E n : Execute(m, c) = Assign(m, c.dest, n)
    <3>1. CASE c.op = "assign"
      BY <3>1 DEF Execute
    <3>2. CASE c.op = "add"
      BY <3>2 DEF Execute
    <3>3. CASE c.op = "read"
      BY <3>3 DEF Execute
    <3>4. CASE c.op = "fetch"
      BY <3>4 DEF Execute
    <3> QED
      BY <1>3, <3>1, <3>2, <3>3, <3>4
  <2> QED
    BY <2>1, AssignSame
<1>4. CASE c.op = "write"
  <2> DEFINE a == Value(m, c.to)  b == Bytes(Value(m, c.what), c.size)
  <2>1. Execute(m, c) = Put4(m, a, b)
    BY <1>4 DEF Execute
  <2> HIDE DEF a, b
  <2> QED
    BY <2>1, PutSame
<1>5. CASE c.op = "param"
  <2> DEFINE x == [m.param EXCEPT ![c.n] = Value(m, c.what)]
  <2>1. Execute(m, c) = [m EXCEPT !.param = x]
    BY <1>5 DEF Execute
  <2> HIDE DEF x
  <2> DEFINE k == [m EXCEPT !.param = x]
  <2>2. DOMAIN k = DOMAIN m /\ k.mem = m.mem /\ k.next = m.next /\ k.rets = m.rets
    BY DEF Fields
  <2> QED
    BY <2>1, <2>2 DEF Same
<1>6. CASE c.op = "phi"
  <2> DEFINE x == Value(m, c.what)
  <2>1. Execute(m, c) = IF m.phi = c.n THEN Assign(m, c.dest, x) ELSE m
    BY <1>6 DEF Execute
  <2> HIDE DEF x
  <2>2. Same(m, Assign(m, c.dest, x)) /\ Same(m, m)
    BY AssignSame DEF Same
  <2> QED
    BY <2>1, <2>2
<1>7. CASE c.op = "ended"
  <2> DEFINE k == [m EXCEPT !.phi = c.n]
  <2>1. Execute(m, c) = k
    BY <1>7 DEF Execute
  <2>2. DOMAIN k = DOMAIN m /\ k.mem = m.mem /\ k.next = m.next /\ k.rets = m.rets
    BY DEF Fields
  <2> QED
    BY <2>1, <2>2 DEF Same
<1>8. CASE c.op = "test"
  <2> DEFINE x == IF c.by = 0 THEN Value(m, c.what) ELSE Mod(Value(m, c.what), c.by)
  <2>1. Execute(m, c) = [m EXCEPT !.tested = x]
    BY <1>8 DEF Execute
  <2> HIDE DEF x
  <2> DEFINE k == [m EXCEPT !.tested = x]
  <2>2. DOMAIN k = DOMAIN m /\ k.mem = m.mem /\ k.next = m.next /\ k.rets = m.rets
    BY DEF Fields
  <2> QED
    BY <2>1, <2>2 DEF Same
<1>9. CASE c.op = "pointer"
  <2> DEFINE x == Value(m, c.what)
  <2>1. Execute(m, c) = [m EXCEPT !.fnptr = x]
    BY <1>9 DEF Execute
  <2> HIDE DEF x
  <2> DEFINE k == [m EXCEPT !.fnptr = x]
  <2>2. DOMAIN k = DOMAIN m /\ k.mem = m.mem /\ k.next = m.next /\ k.rets = m.rets
    BY DEF Fields
  <2> QED
    BY <2>1, <2>2 DEF Same
<1>10. CASE c.op = "result"
  <2> DEFINE x == Value(m, c.what)
  <2>1. Execute(m, c) = [m EXCEPT !.return0 = x]
    BY <1>10 DEF Execute
  <2> HIDE DEF x
  <2> DEFINE k == [m EXCEPT !.return0 = x]
  <2>2. DOMAIN k = DOMAIN m /\ k.mem = m.mem /\ k.next = m.next /\ k.rets = m.rets
    BY DEF Fields
  <2> QED
    BY <2>1, <2>2 DEF Same
<1>11. CASE c.op = "load_regs"
  <2> DEFINE x == Front(m.acts)
  <2>1. Execute(m, c) = [m EXCEPT !.acts = x]
    BY <1>11 DEF Execute
  <2> HIDE DEF x
  <2> DEFINE k == [m EXCEPT !.acts = x]
  <2>2. DOMAIN k = DOMAIN m /\ k.mem = m.mem /\ k.next = m.next /\ k.rets = m.rets
    BY DEF Fields
  <2> QED
    BY <2>1, <2>2 DEF Same
<1> QED
  BY <1>1, <1>2, <1>3, <1>4, <1>5, <1>6, <1>7, <1>8, <1>9, <1>10, <1>11 DEF PlainOps

-----------------------------------------------------------------------------
(* Commands that push, return or choose what runs next.                    *)
LEMMA ReturnsMore ==
  ASSUME NEW s, AreReturns(s), s # <<>>, NEW n, ReturnPlace(list, n)
  PROVE  AreReturns(Append(s, n)) /\ Append(s, n) # <<>>
<1> DEFINE k == Len(s)  u == Append(s, n)
<1>1. IsSequence(s)
  BY DEF AreReturns
<1>2. k \in Nat /\ DOMAIN s = 1 .. k /\ k # 0
  <2>1. k # 0
    BY <1>1 DEF IsSequence
  <2> QED
    BY <1>1, <2>1, SeqIs
<1>3. /\ IsSequence(u) /\ DOMAIN u = 1 .. k + 1 /\ u[k + 1] = n
      /\ \A i \in 1 .. k : u[i] = s[i]
  BY <1>1, AppendSeq
<1> HIDE DEF k, u
<1>4. \A i \in DOMAIN u : IF i = 1 THEN u[i] = -1 ELSE ReturnPlace(list, u[i])
  <2> TAKE i \in DOMAIN u
  <2>1. CASE i = k + 1
    <3>1. i # 1
      BY <1>2, <2>1
    <3> QED
      BY <1>3, <2>1, <3>1
  <2>2. CASE i \in 1 .. k
    BY <1>2, <1>3, <2>2 DEF AreReturns
  <2> QED
    BY <1>2, <1>3, <2>1, <2>2
<1>5. AreReturns(u)
  BY <1>3, <1>4 DEF AreReturns
<1>6. u # <<>>
  <2>1. 1 \in DOMAIN u
    BY <1>2, <1>3
  <2> QED
    BY <2>1
<1> QED
  BY <1>5, <1>6 DEF u

LEMMA ReturnsLess ==
  ASSUME NEW s, AreReturns(s), s # <<>>
  PROVE  /\ AreReturns(Front(s))
         /\ Front(s) = <<>> => Last(s) = -1
<1> DEFINE k == Len(s)  X == ToSet(s)  u == Front(s)
<1>1. s \in Seq(X)
  BY DEF AreReturns, IsSequence
<1> HIDE DEF X
<1>2. k \in Nat /\ DOMAIN s = 1 .. k /\ k # 0
  BY <1>1
<1>3. u \in Seq(X) /\ Len(u) = k - 1 /\ \A i \in 1 .. k - 1 : u[i] = s[i]
  BY <1>1, <1>2 DEF Front
<1>4. DOMAIN u = 1 .. k - 1
  BY <1>2, <1>3
<1> HIDE DEF k, u
<1>5. IsSequence(u)
  BY <1>3, SeqGiven
<1>6. AreReturns(u)
  BY <1>2, <1>3, <1>4, <1>5 DEF AreReturns
<1>7. u = <<>> => Last(s) = -1
  <2> SUFFICES ASSUME u = <<>> PROVE Last(s) = -1
    OBVIOUS
  <2>1. k = 1
    BY <1>2, <1>3
  <2>2. Last(s) = s[1]
    BY <2>1 DEF Last, k
  <2> QED
    BY <1>2, <2>1, <2>2 DEF AreReturns
<1> QED
  BY <1>6, <1>7 DEF u

IsTable ==
  /\ IsSequence(table)
  /\ \A i \in DOMAIN table : i \in DOMAIN list /\ table[i] = list[i].id

LEMMA DispatchIs ==
  ASSUME IsTable, NEW m, IsMachine(m), NEW p
  PROVE  /\ IsMachine(Dispatch(m, p)) /\ Dispatch(m, p).rets = m.rets
         /\ p = -1 => Dispatch(m, p).next = NoFunction
<1> DEFINE x == IF p + 1 \in DOMAIN table THEN Text(table[p + 1]) ELSE NoFunction
           t == m.taken + 1
<1>1. Dispatch(m, p) = [m EXCEPT !.next = x, !.taken = t]
  BY DEF Dispatch
<1>2. IsNext(x)
  BY DEF IsTable, IsNext
<1>3. p = -1 => x = NoFunction
  <2>1. DOMAIN table = 1 .. Len(table) /\ Len(table) \in Nat
    BY SeqIs DEF IsTable
  <2>2. p = -1 => p + 1 \notin DOMAIN table
    BY <2>1
  <2> QED
    BY <2>2
<1> HIDE DEF x, t
<1> DEFINE k == [m EXCEPT !.next = x, !.taken = t]
<1>4. DOMAIN k = DOMAIN m /\ k.mem = m.mem /\ k.next = x /\ k.rets = m.rets
  BY DEF Fields, IsMachine
<1> HIDE DEF k
<1> QED
  BY <1>1, <1>2, <1>3, <1>4 DEF IsMachine, k

(* A command of a function of the list.                                    *)
CommandOf(c) ==
  /\ HasOp(c, AllOps) /\ Leads(list, c)
  /\ c.op = "push" => c.what.op = "lit" /\ ReturnPlace(list, c.what.n)

Live(m) == m.next # NoFunction => m.rets # <<>>

LEMMA CommandIs ==
  ASSUME IsTable, NEW c, CommandOf(c), NEW m, IsMachine(m), m.rets # <<>>
  PROVE  /\ IsMachine(Execute(m, c)) /\ Live(Execute(m, c))
         /\ c.op # "return" => Execute(m, c).rets # <<>>
<1> DEFINE Quiets == PlainOps \cup {"prolog", "test", "pointer", "result", "load_regs"}
<1>0. DOMAIN m = Fields
  BY DEF IsMachine
<1>1. CASE c.op \in Quiets
  <2> DEFINE k == Execute(m, c)
  <2>1. Same(m, k)
    BY <1>0, <1>1, Quiet
  <2> HIDE DEF k
  <2>2. IsMachine(k) /\ k.rets = m.rets
    BY <2>1, SameIs
  <2> QED
    BY <2>2 DEF Live, k
<1>2. CASE c.op = "push"
  <2> DEFINE n == c.what.n  x == Append(m.rets, n)
  <2>1. c.what.op = "lit" /\ ReturnPlace(list, n)
    BY <1>2 DEF CommandOf
  <2>2. Value(m, c.what) = n
    BY <2>1 DEF Value
  <2>3. Execute(m, c) = [m EXCEPT !.rets = x]
    BY <1>2, <2>2 DEF Execute
  <2>4. AreReturns(x) /\ x # <<>>
    <3> DEFINE s == m.rets
    <3>1. AreReturns(s) /\ s # <<>>
      BY DEF IsMachine
    <3> HIDE DEF s, n
    <3>2. AreReturns(Append(s, n)) /\ Append(s, n) # <<>>
      BY <2>1, <3>1, ReturnsMore
    <3> QED
      BY <3>2 DEF s, n
  <2> HIDE DEF x
  <2> DEFINE k == [m EXCEPT !.rets = x]
  <2>5. DOMAIN k = DOMAIN m /\ k.mem = m.mem /\ k.next = m.next /\ k.rets = x
    BY <1>0 DEF Fields
  <2> HIDE DEF k
  <2>6. IsMachine(k)
    BY <2>4, <2>5 DEF IsMachine
  <2> QED
    BY <2>3, <2>4, <2>5, <2>6 DEF Live, k
<1>3. CASE c.op = "edge"
  <2> DEFINE t == m.taken + 1  k == [m EXCEPT !.next = c.to, !.taken = t]
  <2>1. Execute(m, c) = k \/ Execute(m, c) = m
    BY <1>3 DEF Execute
  <2>2. IsNext(c.to)
    BY <1>3 DEF CommandOf, Leads, IsNext
  <2> HIDE DEF t
  <2>3. DOMAIN k = DOMAIN m /\ k.mem = m.mem /\ k.next = c.to /\ k.rets = m.rets
    BY <1>0 DEF Fields
  <2> HIDE DEF k
  <2>4. IsMachine(k)
    BY <2>2, <2>3 DEF IsMachine
  <2> QED
    BY <2>1, <2>3, <2>4 DEF Live
<1>4. CASE c.op = "call"
  <2> DEFINE p == m.fnptr
  <2>1. Execute(m, c) = Dispatch(m, p)
    BY <1>4 DEF Execute
  <2> HIDE DEF p
  <2>2. IsMachine(Dispatch(m, p)) /\ Dispatch(m, p).rets = m.rets
    BY DispatchIs
  <2> QED
    BY <2>1, <2>2 DEF Live
<1>5. CASE c.op = "stop"
  <2> DEFINE t == m.taken + 1  k == [m EXCEPT !.next = NoFunction, !.taken = t]
  <2>1. Execute(m, c) = k
    BY <1>5 DEF Execute
  <2> HIDE DEF t
  <2>2. DOMAIN k = DOMAIN m /\ k.mem = m.mem /\ k.next = NoFunction /\ k.rets = m.rets
    BY <1>0 DEF Fields
  <2> HIDE DEF k
  <2>3. IsMachine(k)
    BY <2>2 DEF IsMachine, IsNext
  <2> QED
    BY <2>1, <2>2, <2>3 DEF Live
<1>6. CASE c.op = "return"
  <2> DEFINE s == m.rets  x == Front(s)  p == Last(s)  k == [m EXCEPT !.rets = x]
  <2>1. Execute(m, c) = Dispatch(k, p)
    BY <1>6 DEF Execute
  <2>2. AreReturns(x) /\ (x = <<>> => p = -1)
    <3>1. AreReturns(s) /\ s # <<>>
      BY DEF IsMachine
    <3> HIDE DEF s
    <3> QED
      BY <3>1, ReturnsLess
  <2> HIDE DEF x, p
  <2>3. DOMAIN k = DOMAIN m /\ k.mem = m.mem /\ k.next = m.next /\ k.rets = x
    BY <1>0 DEF Fields
  <2> HIDE DEF k
  <2>4. IsMachine(k)
    BY <2>2, <2>3 DEF IsMachine
  <2>5. /\ IsMachine(Dispatch(k, p)) /\ Dispatch(k, p).rets = x
        /\ p = -1 => Dispatch(k, p).next = NoFunction
    BY <2>3, <2>4, DispatchIs
  <2> QED
    BY <1>6, <2>1, <2>2, <2>5 DEF Live
<1> QED
  BY <1>1, <1>2, <1>3, <1>4, <1>5, <1>6 DEF CommandOf, HasOp, AllOps, EndOps

(* A function runs to its end.                                             *)
LEMMA FunctionRuns ==
  ASSUME IsTable, NEW s, IsSequence(s),
         \A j \in DOMAIN s : CommandOf(s[j]) /\ (s[j].op = "return" => j = Len(s)),
         NEW m, IsMachine(m), m.rets # <<>>,
         NEW k, k = After(m, s)
  PROVE  IsMachine(k) /\ Live(k)
<1> DEFINE n == Len(s)
<1>1. n \in Nat /\ DOMAIN s = 1 .. n
  BY SeqIs
<1> HIDE DEF n
<1>2. PICK q : /\ q[0] = m
               /\ \A j \in 1 .. n : q[j] = Execute(q[j - 1], s[j])
               /\ After(m, s) = q[n]
  BY <1>1, ExecuteFold
<1>3. k = q[n]
  BY <1>2
<1> DEFINE S == {j \in 0 .. n : /\ IsMachine(q[j]) /\ Live(q[j])
                                /\ j < n => q[j].rets # <<>>}
<1>4. 0 \in S
  BY <1>1, <1>2 DEF Live
<1>5. ASSUME NEW j \in 0 .. n - 1, j \in S
      PROVE  j + 1 \in S
  <2> DEFINE i == j + 1  c == s[i]  a == q[j]  b == q[i]
  <2>1. i \in 1 .. n /\ i - 1 = j /\ i \in 0 .. n /\ j < n
    BY <1>1
  <2>2. b = Execute(a, c)
    <3>1. q[i] = Execute(q[i - 1], s[i])
      BY <1>2, <2>1
    <3> QED
      BY <2>1, <3>1
  <2>3. IsMachine(a) /\ a.rets # <<>>
    BY <1>5, <2>1
  <2>4. CommandOf(c) /\ (c.op = "return" => i = n)
    BY <1>1, <2>1 DEF n
  <2> HIDE DEF a, b, c
  <2>5. IsMachine(b) /\ Live(b) /\ (c.op # "return" => b.rets # <<>>)
    BY <2>2, <2>3, <2>4, CommandIs
  <2> QED
    BY <2>1, <2>4, <2>5 DEF b
<1> HIDE DEF S
<1>6. n \in S
  <2>1. 0 .. n \subseteq S
    BY <1>1, <1>4, <1>5, BoundedInduction
  <2> QED
    BY <1>1, <2>1
<1> QED
  BY <1>3, <1>6 DEF S

-----------------------------------------------------------------------------
(* The start of the program: no address but main's, which is none.         *)
LEMMA MainReturns ==
  ASSUME Powers, NEW m, DOMAIN m = 0 .. MemBytes - 1, order \in Seq(Var),
         NEW a \in Nat, a + 4 <= MemBytes, NEW bytes,
         bytes = [i \in 1 .. 4 |-> Put(VariablesWritten(m), a, Bytes(-1, 4))[a - 1 + i]]
  PROVE  Wrap(Number(bytes)) = -1
<1> DEFINE v == VariablesWritten(m)  b == Bytes(-1, 4)  p == Put(v, a, b)
<1>1. DOMAIN v = 0 .. MemBytes - 1
  BY WrittenDomain
<1>2. DOMAIN b = 1 .. 4
  BY DEF Bytes
<1> HIDE DEF v, b
<1>3. \A i \in 1 .. 4 : p[a - 1 + i] = b[i]
  <2> TAKE i \in 1 .. 4
  <2> DEFINE k == a - 1 + i
  <2>1. MemBytes \in Nat
    BY CompiledModuleAssumption
  <2>2. k \in 0 .. MemBytes - 1 /\ k - a + 1 = i
    BY <2>1
  <2> HIDE DEF k
  <2>3. p[k] = b[i]
    BY <1>1, <1>2, <2>2 DEF Put
  <2> QED
    BY <2>3 DEF k
<1>4. DOMAIN bytes = 1 .. 4 /\ \A i \in 1 .. 4 : bytes[i] = p[a - 1 + i]
  BY DEF v, b
<1> HIDE DEF p
<1>5. \A i \in 1 .. 4 : bytes[i] = Bytes(-1, 4)[i]
  BY <1>3, <1>4 DEF b
<1> QED
  BY <1>4, <1>5, NoReturn

LEMMA StartRun ==
  ASSUME Powers, LayoutInv, ListsInv, RunInv, Start, Fits
  PROVE  RunInv'
<1>1. /\ phase \in {"ready", "started"} /\ next' = Text(starts[Main])
      /\ mem' = Put(VariablesWritten(mem), main_return, Bytes(-1, 4))
      /\ phase' = "started" /\ list' = list
  BY DEF Start, Initialised
<1>2. rets' = <<Wrap(Number([i \in 1 .. 4 |-> mem'[stackptr - 5 + i]]))>>
  BY DEF Start
<1>3. /\ main_return \in Nat /\ order \in Seq(Var) /\ stackptr = main_return + 4
  BY <1>1 DEF LayoutInv, StacksInv, ListsInv, PhaseInv
<1> DEFINE bytes == [i \in 1 .. 4 |-> mem'[stackptr - 5 + i]]  n == Wrap(Number(bytes))
<1>4. n = -1
  <2>1. main_return + 4 <= MemBytes /\ DOMAIN mem = 0 .. MemBytes - 1
    BY <1>3 DEF Fits, RunInv
  <2>2. \A i \in 1 .. 4 : stackptr - 5 + i = main_return - 1 + i
    BY <1>3
  <2> DEFINE a == main_return  m == mem
  <2>3. bytes = [i \in 1 .. 4 |->
                   Put(VariablesWritten(m), a, Bytes(-1, 4))[a - 1 + i]]
    BY <1>1, <2>2
  <2>4. a \in Nat /\ a + 4 <= MemBytes /\ DOMAIN m = 0 .. MemBytes - 1
    BY <1>3, <2>1
  <2> HIDE DEF bytes, a, m
  <2> QED
    BY <1>3, <2>3, <2>4, MainReturns
<1>5. rets' = <<n>>
  BY <1>2
<1> HIDE DEF n, bytes
<1>6. DOMAIN mem' = 0 .. MemBytes - 1
  <2> DEFINE v == VariablesWritten(mem)  b == Bytes(-1, 4)  a == main_return
  <2>1. DOMAIN v = DOMAIN mem
    BY <1>3, WrittenDomain
  <2> HIDE DEF v, b, a
  <2>2. DOMAIN Put(v, a, b) = DOMAIN v
    BY PutDomain
  <2> QED
    BY <1>1, <2>1, <2>2 DEF v, a, b, RunInv
<1>7. IsNext(next)'
  <2>1. Known(list, starts[Main])
    BY <1>1, ModuleAssumption DEF ListsInv, ListInv
  <2>2. PICK i \in DOMAIN list : list[i].id = starts[Main]
    BY <2>1 DEF Known
  <2> QED
    BY <1>1, <2>2 DEF IsNext
<1>8. AreReturns(rets)' /\ rets' # <<>>
  <2>1. DOMAIN rets' = {1} /\ rets'[1] = -1 /\ rets' # <<>>
    BY <1>4, <1>5
  <2>2. IsSequence(rets')
    BY <1>4, <1>5 DEF IsSequence, ToSet
  <2> QED
    BY <2>1, <2>2 DEF AreReturns
<1> QED
  BY <1>1, <1>6, <1>7, <1>8 DEF RunInv

-----------------------------------------------------------------------------
(* A generated function runs.                                              *)
LEMMA RunFunctionInv ==
  ASSUME ListsInv, RunInv, RunFunction
  PROVE  RunInv'
<1>1. /\ phase = "started" /\ next # NoFunction
      /\ UNCHANGED <<layout, fnAddr, compiler>>
  BY DEF RunFunction
<1>2. phase' = "started" /\ list' = list
  BY <1>1 DEF compiler
<1> DEFINE s == Code(next)
<1>3. PICK given : LET m == FoldLeft(Execute, Machine(given), s)
                   IN next' = m.next /\ rets' = m.rets /\ mem' = m.mem
  BY Zenon DEF RunFunction
<1> DEFINE m == Machine(given)  k == After(m, s)
<1>4. next' = k.next /\ rets' = k.rets /\ mem' = k.mem
  BY <1>3, Zenon DEF After
<1>5. IsMachine(m) /\ m.rets # <<>>
  BY <1>1 DEF Machine, IsMachine, Fields, RunInv
<1>6. /\ IsTable /\ AreFunctions(list) /\ PushesPlace(list)
  BY <1>1 DEF ListsInv, ListInv, IsTable
<1>7. /\ IsSequence(s)
      /\ \A j \in DOMAIN s : CommandOf(s[j]) /\ (s[j].op = "return" => j = Len(s))
  <2>1. \E i \in DOMAIN list : Text(list[i].id) = next
    BY <1>1 DEF RunInv, IsNext
  <2>2. PICK i \in DOMAIN list : s = list[i].cmds
    BY <2>1 DEF Code
  <2> HIDE DEF s
  <2>3. \A j \in DOMAIN s : IsCommand(list, s, j)
    BY <1>6, <2>2 DEF AreFunctions
  <2>4. \A j \in DOMAIN s : s[j].op = "push" =>
          s[j].what.op = "lit" /\ ReturnPlace(list, s[j].what.n)
    BY <1>6, <2>2 DEF PushesPlace
  <2>5. IsSequence(s)
    BY <1>6, <2>2 DEF AreFunctions
  <2> QED
    BY <2>3, <2>4, <2>5 DEF IsCommand, CommandOf
<1> HIDE DEF m, s
<1>8. IsMachine(k) /\ Live(k)
  <2> HIDE DEF k
  <2>1. k = After(m, s)
    BY DEF k
  <2> QED
    BY <1>5, <1>6, <1>7, <2>1, FunctionRuns
<1> HIDE DEF k
<1>9. /\ DOMAIN mem' = 0 .. MemBytes - 1 /\ IsNext(next)' /\ AreReturns(rets)'
      /\ next' # NoFunction => rets' # <<>>
  BY <1>2, <1>4, <1>8 DEF IsMachine, Live, IsNext, AreReturns, ReturnPlace
<1> QED
  BY <1>2, <1>9 DEF RunInv

-----------------------------------------------------------------------------
LEMMA RunInitInv == Init => RunInv
<1> SUFFICES ASSUME Init PROVE RunInv
  OBVIOUS
<1>1. /\ next = NoFunction /\ rets = <<>> /\ phase = "layout"
      /\ mem = [a \in 0 .. MemBytes - 1 |-> Garbage]
  BY DEF Init
<1>2. AreReturns(rets)
  BY <1>1 DEF AreReturns, IsSequence, ToSet
<1> QED
  BY <1>1, <1>2 DEF RunInv, IsNext

LEMMA NotStartedInv ==
  ASSUME RunInv, phase # "started", phase' # "started",
         next' = next, rets' = rets, mem' = mem
  PROVE  RunInv'
<1>1. next = NoFunction /\ rets = <<>>
  BY DEF RunInv
<1>2. AreReturns(rets)'
  BY <1>1 DEF AreReturns, RunInv
<1> QED
  BY <1>1, <1>2 DEF RunInv, IsNext

LEMMA RunStepInv ==
  ASSUME Powers
  PROVE  LayoutInv /\ ListsInv /\ RunInv /\ Fits /\ [Next]_vars => RunInv'
<1> SUFFICES ASSUME LayoutInv, ListsInv, RunInv, Fits, [Next]_vars PROVE RunInv'
  OBVIOUS
<1>1. CASE LayOutVariable
  BY <1>1, NotStartedInv DEF LayOutVariable, machine
<1>2. CASE CompileNext
  BY <1>2, NotStartedInv DEF CompileNext, machine
<1>3. CASE Link
  BY <1>3, NotStartedInv DEF Link, machine
<1>4. CASE Relocate
  BY <1>4, NotStartedInv DEF Relocate, machine
<1>5. CASE Finish
  BY <1>5, NotStartedInv DEF Finish, machine
<1>6. CASE Start
  BY <1>6, StartRun
<1>7. CASE RunFunction
  BY <1>7, RunFunctionInv
<1>8. CASE UNCHANGED vars
  BY <1>8 DEF RunInv, IsNext, AreReturns, ReturnPlace, vars, machine, compiler
<1> QED
  BY <1>1, <1>2, <1>3, <1>4, <1>5, <1>6, <1>7, <1>8 DEF Next

LEMMA RunPlaces == ListsInv /\ RunInv => PlacesAgree
<1> SUFFICES ASSUME ListsInv, RunInv, phase \in {"finish", "ready", "started"}
             PROVE  /\ \A f \in Fn : list[fnAddr[f] + 1].id = starts[f]
                    /\ \A i \in DOMAIN table : table[i] = list[i].id
                    /\ \A i \in DOMAIN rets :
                         IF i = 1 THEN rets[i] = -1 ELSE list[rets[i] + 1].id[3] > 0
  BY DEF PlacesAgree
<1>1. /\ \A f \in Fn : list[fnAddr[f] + 1].id = starts[f]
      /\ \A i \in DOMAIN table : table[i] = list[i].id
  BY DEF ListsInv, ListInv
<1>2. \A i \in DOMAIN rets :
        IF i = 1 THEN rets[i] = -1 ELSE list[rets[i] + 1].id[3] > 0
  BY DEF RunInv, AreReturns, ReturnPlace
<1> QED
  BY <1>1, <1>2

(* If the names are kept apart, the places that do_relocation gave to      *)
(* functions, that the fixups wrote into the pushes and that               *)
(* __langcraft_call knows are those of the final list, and every return    *)
(* address on the stack, at any time of any run, is that of a part behind  *)
(* a call, but main's, which ends the program (PlacesAgree, which run      *)
(* module checks).  The memory has room for the variables and the words    *)
(* that init writes after them.                                            *)
THEOREM PlacesFixed ==
  ASSUME Powers, NamesApart
  PROVE  Spec /\ []Fits => []PlacesAgree
<1>1. Init => LayoutInv /\ ListsInv /\ RunInv
  BY LayoutInitInv, ListsInitInv, RunInitInv
<1>2. LayoutInv /\ ListsInv /\ RunInv /\ Fits /\ [Next]_vars
        => LayoutInv' /\ ListsInv' /\ RunInv'
  BY LayoutStepInv, ListsStepInv, RunStepInv
<1>3. ListsInv /\ RunInv => PlacesAgree
  BY RunPlaces
<1> QED
  BY <1>1, <1>2, <1>3, PTL DEF Spec
=============================================================================
