---------------------------- MODULE BlockOpsProofs ----------------------------
(***************************************************************************)
(* The proofs about BlockOps: memcpy, memset and bcmp keep to memory and   *)
(* do what they are called for, with bytes, memories and lengths of any    *)
(* size.                                                                   *)
(***************************************************************************)
EXTENDS BlockOps, JukeboxProofs

-----------------------------------------------------------------------------
(***************************************************************************)
(* Bytes that are copied and set, one and four at a time.  A memset sets   *)
(* them to v, a memcpy copies them from s.                                 *)
(***************************************************************************)
Source(old, op, v, i) == IF op = "memset" THEN v ELSE BytesOf(old)[i]

DoneTo(m, old, op, v, d, s, n) ==
  \A a \in 0 .. Size - 1 :
    BytesOf(m)[a] = IF a - d \in 0 .. n - 1 THEN Source(old, op, v, s + (a - d))
                    ELSE BytesOf(old)[a]

LEMMA NothingDone ==
  ASSUME NEW m, NEW op, NEW v, NEW d \in Int, NEW s \in Int
  PROVE  DoneTo(m, m, op, v, d, s, 0)
<1>1. \A a \in 0 .. Size - 1 : ~ (a - d \in 0 .. 0 - 1)
  OBVIOUS
<1> QED
  BY <1>1 DEF DoneTo

LEMMA ByteDone ==
  ASSUME NEW m, NEW old, NEW op, NEW v, NEW d \in Int, NEW s \in Int, NEW n \in Nat,
         NEW m2, NEW x, DoneTo(m, old, op, v, d, s, n),
         \A a \in 0 .. Size - 1 : BytesOf(m2)[a] = IF a = d + n THEN x ELSE BytesOf(m)[a],
         x = Source(old, op, v, s + n)
  PROVE  DoneTo(m2, old, op, v, d, s, n + 1)
<1> SUFFICES ASSUME NEW a \in 0 .. Size - 1
             PROVE  BytesOf(m2)[a]
                      = IF a - d \in 0 .. n + 1 - 1 THEN Source(old, op, v, s + (a - d))
                        ELSE BytesOf(old)[a]
  BY DEF DoneTo
<1>1. BytesOf(m2)[a] = IF a = d + n THEN x ELSE BytesOf(m)[a]
  OBVIOUS
<1>2. BytesOf(m)[a] = IF a - d \in 0 .. n - 1 THEN Source(old, op, v, s + (a - d))
                      ELSE BytesOf(old)[a]
  BY DEF DoneTo
<1>3. a \in Int
  BY GridSize
<1>4. CASE a = d + n
  <2>1. a - d = n /\ a - d \in 0 .. n + 1 - 1
    BY <1>3, <1>4
  <2> QED
    BY <1>1, <1>4, <2>1
<1>5. CASE a # d + n
  <2>1. a - d \in 0 .. n + 1 - 1 <=> a - d \in 0 .. n - 1
    BY <1>3, <1>5
  <2> QED
    BY <1>1, <1>2, <1>5, <2>1
<1> QED
  BY <1>4, <1>5

LEMMA WordDone ==
  ASSUME NEW m, NEW old, NEW op, NEW v, NEW d \in Int, NEW s \in Int, NEW n \in Nat,
         NEW m2, NEW w, DoneTo(m, old, op, v, d, s, n),
         Covers(BytesOf(m2), m, d + n, 4, w),
         \A j \in 0 .. 3 : ByteOf(w, j) = Source(old, op, v, s + n + j)
  PROVE  DoneTo(m2, old, op, v, d, s, n + 4)
<1> SUFFICES ASSUME NEW a \in 0 .. Size - 1
             PROVE  BytesOf(m2)[a]
                      = IF a - d \in 0 .. n + 4 - 1 THEN Source(old, op, v, s + (a - d))
                        ELSE BytesOf(old)[a]
  BY DEF DoneTo
<1>1. BytesOf(m2)[a] = IF a - (d + n) \in 0 .. 3 THEN ByteOf(w, a - (d + n))
                       ELSE BytesOf(m)[a]
  BY DEF Covers
<1>2. BytesOf(m)[a] = IF a - d \in 0 .. n - 1 THEN Source(old, op, v, s + (a - d))
                      ELSE BytesOf(old)[a]
  BY DEF DoneTo
<1>3. a \in Int
  BY GridSize
<1>4. CASE a - (d + n) \in 0 .. 3
  <2> DEFINE j == a - (d + n)
  <2>1. a - d \in 0 .. n + 4 - 1 /\ s + n + j = s + (a - d)
    BY <1>3, <1>4
  <2>2. j \in 0 .. 3
    BY <1>4
  <2>3. BytesOf(m2)[a] = ByteOf(w, j)
    BY <1>1, <1>4
  <2> HIDE DEF j
  <2>4. ByteOf(w, j) = Source(old, op, v, s + n + j)
    BY <2>2
  <2> QED
    BY <2>1, <2>3, <2>4
<1>5. CASE ~ (a - (d + n) \in 0 .. 3)
  <2>1. a - d \in 0 .. n + 4 - 1 <=> a - d \in 0 .. n - 1
    BY <1>3, <1>5
  <2> QED
    BY <1>1, <1>2, <1>5, <2>1
<1> QED
  BY <1>4, <1>5

(* The bytes of a word that is put together of four.                       *)
LEMMA FourBytes ==
  ASSUME Powers,
         NEW b0 \in 0 .. Byte - 1, NEW b1 \in 0 .. Byte - 1,
         NEW b2 \in 0 .. Byte - 1, NEW b3 \in 0 .. Byte - 1
  PROVE  LET w == Wrap(b0 + b1 * Byte + b2 * Half + b3 * (Byte * Half))
         IN /\ w \in Word /\ ByteOf(w, 0) = b0 /\ ByteOf(w, 1) = b1
            /\ ByteOf(w, 2) = b2 /\ ByteOf(w, 3) = b3
<1>0. PICK k \in Int : k = 0
  OBVIOUS
<1> DEFINE n == Join(k, b0, b1, b2, b3)
<1>4. n = Join(k, b0, b1, b2, b3) /\ k \in Int
  BY <1>0
<1> HIDE DEF n
<1>1. /\ n \in Int /\ ByteOf(n, 0) = b0 /\ ByteOf(n, 1) = b1
      /\ ByteOf(n, 2) = b2 /\ ByteOf(n, 3) = b3
  BY <1>4, BytesOfJoin
<1>2. n = b0 + b1 * Byte + b2 * Half + b3 * (Byte * Half)
  <2>1. Byte \in Nat /\ b0 \in Int /\ b1 \in Int /\ b2 \in Int /\ b3 \in Int
    BY ByteSize
  <2>2. \A B \in Nat : (((0 * B + b3) * B + b2) * B + b1) * B + b0
                         = b0 + b1 * B + b2 * (B * B) + b3 * (B * (B * B))
    BY <2>1
  <2> QED
    BY <1>0, <1>4, <2>1, <2>2, ByteSize DEF Join
<1>3. Wrap(n) \in Word /\ \A j \in 0 .. 3 : ByteOf(Wrap(n), j) = ByteOf(n, j)
  BY <1>1, WrapFacts, WrapBytes
<1> QED
  BY <1>1, <1>2, <1>3

LEMMA LoadedWordBytes ==
  ASSUME Powers, NEW m \in Memories, NEW p \in 0 .. Size - 4
  PROVE  /\ LoadWordUnaligned(m, p) \in Word
         /\ \A j \in 0 .. 3 : ByteOf(LoadWordUnaligned(m, p), j) = BytesOf(m)[p + j]
<1> DEFINE b0 == BytesOf(m)[p]      b1 == BytesOf(m)[p + 1]
           b2 == BytesOf(m)[p + 2]  b3 == BytesOf(m)[p + 3]
           w == LoadWordUnaligned(m, p)
<1>1. /\ p \in 0 .. Size - 1 /\ p + 1 \in 0 .. Size - 1
      /\ p + 2 \in 0 .. Size - 1 /\ p + 3 \in 0 .. Size - 1
  BY GridSize
<1>2. /\ b0 \in 0 .. Byte - 1 /\ b1 \in 0 .. Byte - 1
      /\ b2 \in 0 .. Byte - 1 /\ b3 \in 0 .. Byte - 1
  BY <1>1, BytesIn
<1>3. w = Wrap(b0 + b1 * Byte + b2 * Half + b3 * (Byte * Half))
  BY LoadWordUnalignedIs DEF Four
<1> HIDE DEF b0, b1, b2, b3, w
<1>4. /\ w \in Word /\ ByteOf(w, 0) = b0 /\ ByteOf(w, 1) = b1
      /\ ByteOf(w, 2) = b2 /\ ByteOf(w, 3) = b3
  BY <1>2, <1>3, FourBytes
<1>5. p + 0 = p
  BY <1>1
<1>6. \A j \in 0 .. 3 : j = 0 \/ j = 1 \/ j = 2 \/ j = 3
  OBVIOUS
<1>7. \A j \in 0 .. 3 : ByteOf(w, j) = BytesOf(m)[p + j]
  BY <1>4, <1>5, <1>6 DEF b0, b1, b2, b3
<1> QED
  BY <1>4, <1>7 DEF w

LEMMA WordBytes ==
  ASSUME Powers, NEW m \in Memories, NEW p \in 0 .. Size - 4, p % 4 = 0
  PROVE  /\ m[SetPtr(p)] \in Word
         /\ \A j \in 0 .. 3 : ByteOf(m[SetPtr(p)], j) = BytesOf(m)[p + j]
<1>1. p \in 0 .. Size - 1
  BY GridSize
<1>2. m[SetPtr(p)] \in Word
  BY <1>1, PlaceIs
<1>3. ASSUME NEW j \in 0 .. 3
      PROVE  ByteOf(m[SetPtr(p)], j) = BytesOf(m)[p + j]
  <2>1. (p % 4) + j <= 3 /\ (p % 4) + j = j
    OBVIOUS
  <2>2. BytesOf(m)[p + j] = ByteOf(m[SetPtr(p)], (p % 4) + j)
    BY <1>1, <2>1, Following
  <2> QED
    BY <2>1, <2>2
<1> QED
  BY <1>2, <1>3

LEMMA RepeatedBytes ==
  ASSUME Powers, NEW v \in 0 .. Byte - 1
  PROVE  Repeated(v) \in Word /\ \A j \in 0 .. 3 : ByteOf(Repeated(v), j) = v
<1> DEFINE n1 == v * Byte
           n2 == n1 + v
           n3 == n2 * Byte
           n4 == n3 + v
           n5 == n4 * Byte
           n6 == n5 + v
<1>1. Byte \in Nat \ {0} /\ v \in Int
  BY ByteSize
<1>2. n1 \in Int /\ n2 \in Int
  BY <1>1
<1>3. Add(Times(v, Byte), v) = Wrap(n2)
  <2> HIDE DEF n1
  <2> QED
    BY <1>1, <1>2, WrapInside DEF Add, Times, n1
<1> HIDE DEF n1, n2
<1>4. n3 \in Int /\ n4 \in Int
  BY <1>1, <1>2
<1>5. Times(Wrap(n2), Byte) = Wrap(n3)
  BY <1>1, <1>2, WrapInside DEF Times
<1> HIDE DEF n3
<1>6. Add(Wrap(n3), v) = Wrap(n4)
  BY <1>1, <1>4, WrapInside DEF Add
<1> HIDE DEF n4
<1>7. n5 \in Int /\ n6 \in Int
  BY <1>1, <1>4
<1>8. Times(Wrap(n4), Byte) = Wrap(n5)
  BY <1>1, <1>4, WrapInside DEF Times
<1> HIDE DEF n5
<1>9. Add(Wrap(n5), v) = Wrap(n6)
  BY <1>1, <1>7, WrapInside DEF Add
<1>10. Repeated(v) = Wrap(n6)
  BY <1>3, <1>5, <1>6, <1>8, <1>9 DEF Repeated
<1> HIDE DEF n6
<1>11. n6 = v + v * Byte + v * Half + v * (Byte * Half)
  <2>1. \A B \in Nat : ((v * B + v) * B + v) * B + v
                         = v + v * B + v * (B * B) + v * (B * (B * B))
    BY <1>1
  <2> QED
    BY <1>1, <2>1, ByteSize DEF n1, n2, n3, n4, n5, n6
<1> DEFINE w == Wrap(n6)
<1>12. /\ w \in Word /\ ByteOf(w, 0) = v /\ ByteOf(w, 1) = v
       /\ ByteOf(w, 2) = v /\ ByteOf(w, 3) = v
  BY <1>11, FourBytes
<1> HIDE DEF w
<1>13. \A j \in 0 .. 3 : j = 0 \/ j = 1 \/ j = 2 \/ j = 3
  OBVIOUS
<1> QED
  BY <1>10, <1>12, <1>13 DEF w

-----------------------------------------------------------------------------
(***************************************************************************)
(* The inductive invariant.                                                *)
(***************************************************************************)
(* What a call does in all: a memcpy no more than a chunk.                 *)
Total == IF call.op = "memcpy" /\ ~ (call.len < Chunk) THEN Chunk ELSE call.len

(* dst, src and left count together, and each place is where its loop can  *)
(* be with that much left.                                                 *)
Progress ==
  /\ call.len \in Nat
  /\ call.dst \in 0 .. Size - call.len /\ call.src \in 0 .. Size - call.len
  /\ call.value \in 0 .. Byte - 1
  /\ left \in 0 .. Total
  /\ dst = call.dst + (Total - left) /\ src = call.src + (Total - left)
  /\ pc = "idle" => left = 0
  /\ pc = "head" => off % 4 = dst % 4
  /\ pc = "words" => left = 0 \/ dst % 4 = 0
  /\ pc = "tail" => left < 4

(* The regions of a memcpy are the same or disjoint.                       *)
Apart ==
  \/ call.dst = call.src
  \/ call.dst + call.len <= call.src
  \/ call.src + call.len <= call.dst
  \/ call.len = 0

(* Which loops a call is in, and that a memcpy in line never has bytes.    *)
InLoop ==
  /\ call.op = "none"   => pc = "idle"
  /\ call.op = "memcpy" => pc # "compare" /\ Apart
  /\ call.op = "memset" => pc # "compare"
  /\ call.op = "inline" => pc \notin {"head", "compare"} /\ Apart
                           /\ left % 4 = 0 /\ src % 4 = 0
  /\ call.op = "bcmp"   => pc \in {"compare", "idle"}

(* What bcmp has seen so far.                                              *)
Compared ==
  call.op = "bcmp" =>
    (ret = 0 <=> \A i \in 0 .. Total - left - 1 :
                   BytesOf(mem)[call.dst + i] = BytesOf(mem)[call.src + i])

Writing == call.op \in {"memcpy", "inline", "memset"}

(* PartDone, with memory as bytes.                                         *)
Done ==
  Writing => DoneTo(mem, call.old, call.op, call.value, call.dst, call.src, dst - call.dst)

BlockInv ==
  /\ TypeOK
  /\ call.op \in {"none", "memcpy", "inline", "memset", "bcmp"}
  /\ call.op # "none" => Progress
  /\ InLoop
  /\ Done
  /\ Compared

(* What compile_memcpy hands over: in line whole words, for a remainder of *)
(* bytes goes wrong there, and to the function no more than a chunk.       *)
WholeWords == \A n \in InlineLengths : n % 4 = 0

WithinChunk == \A n \in MemcpyLengths : n <= Chunk

LEMMA GridFacts ==
  ASSUME Powers
  PROVE  /\ Size \in Nat /\ 4 <= Size /\ Byte \in Nat \ {0} /\ 2 <= Byte
         /\ Word \subseteq Int /\ 0 .. Byte - 1 \subseteq Word
         /\ 0 \in Word /\ 1 \in Word /\ 0 \in 0 .. Byte - 1
<1>1. Byte \in Nat \ {0} /\ 2 <= Byte
  BY ByteSize
<1>2. 0 .. Byte - 1 \subseteq Word
  BY SmallWords
<1>3. Word \subseteq Int
  BY BytePlace DEF Word
<1>4. 0 \in 0 .. Byte - 1 /\ 1 \in 0 .. Byte - 1
  BY <1>1
<1> QED
  BY <1>1, <1>2, <1>3, <1>4, GridSize

LEMMA AtIs ==
  ASSUME Powers, NEW m \in Memories, NEW a \in 0 .. Size - 1
  PROVE  At(m, a) = BytesOf(m)[a]
BY CellAtIs DEF At, BytesOf

LEMMA PartDoneIs ==
  ASSUME Powers, NEW m \in Memories, NEW old \in Memories, NEW op, NEW v,
         NEW d \in Int, NEW s \in Int, NEW len \in Int, NEW n \in Int,
         d \in 0 .. Size - len, s \in 0 .. Size - len, n <= len,
         DoneTo(m, old, op, v, d, s, n), NEW a \in 0 .. Size - 1
  PROVE  At(m, a) = IF a - d \notin 0 .. n - 1 THEN At(old, a)
                    ELSE IF op = "memset" THEN v
                    ELSE At(old, s + a - d)
<1>1. At(m, a) = BytesOf(m)[a] /\ At(old, a) = BytesOf(old)[a]
  BY AtIs
<1>2. BytesOf(m)[a] = IF a - d \in 0 .. n - 1 THEN Source(old, op, v, s + (a - d))
                      ELSE BytesOf(old)[a]
  BY DEF DoneTo
<1>3. CASE a - d \notin 0 .. n - 1
  BY <1>1, <1>2, <1>3
<1>4. CASE a - d \in 0 .. n - 1
  <2> DEFINE b == s + a - d
  <2>1. b \in 0 .. Size - 1 /\ b = s + (a - d)
    BY <1>4, GridSize
  <2> HIDE DEF b
  <2>2. At(old, b) = BytesOf(old)[b]
    BY <2>1, AtIs
  <2>3. Source(old, op, v, b) = IF op = "memset" THEN v ELSE At(old, b)
    BY <2>2 DEF Source
  <2>4. At(m, a) = Source(old, op, v, b)
    BY <1>1, <1>2, <1>4, <2>1
  <2>5. At(m, a) = IF op = "memset" THEN v ELSE At(old, b)
    BY <2>3, <2>4
  <2> QED
    BY <1>4, <2>5 DEF b
<1> QED
  BY <1>3, <1>4

LEMMA InitInv ==
  ASSUME Powers, Init
  PROVE  BlockInv
<1>1. mem \in [Cells -> Word]
  BY WordsAssumption DEF Init
<1>2. /\ call.op = "none" /\ call.old = mem
      /\ dst = 0 /\ src = 0 /\ left = 0 /\ off = 0 /\ ret = 0 /\ pc = "idle"
  BY DEF Init, NoCall
<1>3. TypeOK
  BY <1>1, <1>2, GridFacts DEF TypeOK
<1> QED
  BY <1>2, <1>3 DEF BlockInv, InLoop, Compared, Done, Writing

-----------------------------------------------------------------------------
(***************************************************************************)
(* Calls begin.                                                            *)
(***************************************************************************)
LEMMA BeginInv ==
  ASSUME Powers, BlockInv,
         NEW op \in {"memcpy", "inline", "memset", "bcmp"},
         NEW n \in Nat, NEW d \in 0 .. Size - n, NEW s \in 0 .. Size - n,
         NEW v \in 0 .. Byte - 1, Begin(op, d, s, n, v),
         left' = IF op = "memcpy" /\ ~ (n < Chunk) THEN Chunk ELSE n
  PROVE  /\ mem' \in [Cells -> Word] /\ call'.old \in [Cells -> Word]
         /\ dst' \in 0 .. Size /\ src' \in 0 .. Size /\ left' \in 0 .. Size
         /\ call'.op = op /\ dst' = d /\ src' = s
         /\ call'.dst = d /\ call'.src = s /\ call'.len = n /\ call'.value = v
         /\ Total' = left' /\ Done'
         /\ (pc' = "head" => off' % 4 = d % 4) /\ (pc' = "words" => d % 4 = 0)
            /\ pc' \notin {"idle", "tail"} => Progress'
<1>1. /\ mem \in [Cells -> Word] /\ Size \in Nat /\ Chunk \in Nat
  BY GridSize, LengthsAssumption DEF BlockInv, TypeOK
<1>2. /\ call'.op = op /\ call'.dst = d /\ call'.src = s /\ call'.len = n
      /\ call'.value = v /\ call'.old = mem /\ mem' = mem /\ dst' = d /\ src' = s
  BY DEF Begin
<1>3. Total' = left'
  BY <1>2 DEF Total
<1>4. left' \in 0 .. n
  BY <1>1
<1>5. dst' \in 0 .. Size /\ src' \in 0 .. Size /\ left' \in 0 .. Size
  BY <1>1, <1>2, <1>4
<1>6. Done'
  <2>1. dst' - call'.dst = 0
    BY <1>1, <1>2
  <2>2. PICK o : o = call'.op
    OBVIOUS
  <2>3. DoneTo(mem, mem, o, v, d, s, 0)
    BY <1>1, NothingDone
  <2> QED
    BY <1>2, <2>1, <2>2, <2>3 DEF Done
<1>7. ASSUME pc' = "head" => off' % 4 = d % 4, pc' = "words" => d % 4 = 0,
             pc' \notin {"idle", "tail"}
      PROVE  Progress'
  BY <1>1, <1>2, <1>3, <1>4, <1>7 DEF Progress
<1> QED
  BY <1>1, <1>2, <1>3, <1>5, <1>6, <1>7

LEMMA ApartIs ==
  ASSUME NEW n \in Nat, NEW r \in Regions(n)
  PROVE  /\ r[1] \in 0 .. Size - n /\ r[2] \in 0 .. Size - n
         /\ r[1] = r[2] \/ r[1] + n <= r[2] \/ r[2] + n <= r[1] \/ n = 0
<1> DEFINE d == r[1]  s == r[2]
<1>1. /\ d \in 0 .. Size - n /\ s \in 0 .. Size - n
      /\ d = s \/ Covered(d, n) \intersect Covered(s, n) = {}
  BY DEF Regions
<1> HIDE DEF d, s
<1>2. d \in Int /\ s \in Int
  BY <1>1, GridSize
<1>3. CASE d # s /\ n # 0 /\ ~ (d + n <= s) /\ ~ (s + n <= d)
  <2>1. d \in d .. d + n - 1 /\ s \in s .. s + n - 1
    BY <1>2, <1>3
  <2>2. s \in d .. d + n - 1 \/ d \in s .. s + n - 1
    BY <1>2, <1>3
  <2> QED
    BY <1>1, <1>3, <2>1, <2>2 DEF Covered
<1> QED
  BY <1>1, <1>3 DEF d, s

LEMMA MemcpyInv ==
  ASSUME Powers, BlockInv, Memcpy
  PROVE  BlockInv'
<1>1. PICK n \in MemcpyLengths : \E r \in Regions(n) :
        /\ Begin("memcpy", r[1], r[2], n, 0)
        /\ left' = IF n < Chunk THEN n ELSE Chunk
        /\ off' = Mod(r[1], 4) /\ pc' = "head" /\ ret' = ret
  BY DEF Memcpy
<1>2. PICK r \in Regions(n) :
        /\ Begin("memcpy", r[1], r[2], n, 0)
        /\ left' = IF n < Chunk THEN n ELSE Chunk
        /\ off' = Mod(r[1], 4) /\ pc' = "head" /\ ret' = ret
  BY <1>1
<1>3. n \in Nat /\ Chunk \in Nat
  BY LengthsAssumption
<1> DEFINE d == r[1]  s == r[2]
<1>4. /\ d \in 0 .. Size - n /\ s \in 0 .. Size - n
      /\ d = s \/ d + n <= s \/ s + n <= d \/ n = 0
  BY <1>3, ApartIs
<1>5. /\ Begin("memcpy", d, s, n, 0) /\ off' = d % 4 /\ pc' = "head" /\ ret' = ret
      /\ left' = IF "memcpy" = "memcpy" /\ ~ (n < Chunk) THEN Chunk ELSE n
  BY <1>2, <1>3 DEF Mod
<1> HIDE DEF d, s
<1>6. d \in Int /\ (d % 4) \in 0 .. 3 /\ (d % 4) % 4 = d % 4
  BY <1>4, GridSize
<1>7. PICK v \in 0 .. Byte - 1 : v = 0
  BY GridFacts
<1>8. PICK op \in {"memcpy", "inline", "memset", "bcmp"} : op = "memcpy"
  OBVIOUS
<1>9. /\ Begin(op, d, s, n, v)
      /\ left' = IF op = "memcpy" /\ ~ (n < Chunk) THEN Chunk ELSE n
  BY <1>5, <1>7, <1>8
<1>10. /\ mem' \in [Cells -> Word] /\ call'.old \in [Cells -> Word]
       /\ dst' \in 0 .. Size /\ src' \in 0 .. Size /\ left' \in 0 .. Size
       /\ call'.op = "memcpy" /\ Done' /\ Progress'
       /\ call'.dst = d /\ call'.src = s /\ call'.len = n
  <2>1. /\ pc' = "head" => off' % 4 = d % 4
        /\ pc' = "words" => d % 4 = 0
        /\ pc' \notin {"idle", "tail"}
    BY <1>5, <1>6
  <2>2. op \in {"memcpy", "inline", "memset", "bcmp"} /\ v \in 0 .. Byte - 1
    BY <1>7, <1>8
  <2>3. /\ mem' \in [Cells -> Word] /\ call'.old \in [Cells -> Word]
        /\ dst' \in 0 .. Size /\ src' \in 0 .. Size /\ left' \in 0 .. Size
        /\ call'.op = op /\ Done' /\ Progress'
        /\ call'.dst = d /\ call'.src = s /\ call'.len = n
    BY <1>3, <1>4, <1>9, <2>1, <2>2, BeginInv
  <2> QED
    BY <1>8, <2>3
<1>11. TypeOK'
  BY <1>5, <1>6, <1>10 DEF BlockInv, TypeOK
<1>12. InLoop'
  BY <1>4, <1>5, <1>10 DEF InLoop, Apart
<1> QED
  BY <1>10, <1>11, <1>12 DEF BlockInv, Compared

LEMMA MemcpyInlineInv ==
  ASSUME Powers, WholeWords, BlockInv, MemcpyInline
  PROVE  BlockInv'
<1>1. PICK n \in InlineLengths : \E r \in Regions(n) :
        /\ r[1] % 4 = 0 /\ r[2] % 4 = 0
        /\ Begin("inline", r[1], r[2], n, 0)
        /\ left' = n /\ pc' = "words" /\ off' = off /\ ret' = ret
  BY DEF MemcpyInline
<1>2. PICK r \in Regions(n) :
        /\ r[1] % 4 = 0 /\ r[2] % 4 = 0
        /\ Begin("inline", r[1], r[2], n, 0)
        /\ left' = n /\ pc' = "words" /\ off' = off /\ ret' = ret
  BY <1>1
<1>3. n \in Nat /\ n % 4 = 0
  BY LengthsAssumption DEF WholeWords
<1> DEFINE d == r[1]  s == r[2]
<1>4. /\ d \in 0 .. Size - n /\ s \in 0 .. Size - n
      /\ d = s \/ d + n <= s \/ s + n <= d \/ n = 0
  BY <1>3, ApartIs
<1>5. /\ Begin("inline", d, s, n, 0) /\ pc' = "words" /\ ret' = ret /\ off' = off
      /\ left' = n /\ d % 4 = 0 /\ s % 4 = 0
  BY <1>2
<1> HIDE DEF d, s
<1>6. PICK v \in 0 .. Byte - 1 : v = 0
  BY GridFacts
<1>7. PICK op \in {"memcpy", "inline", "memset", "bcmp"} : op = "inline"
  OBVIOUS
<1>8. /\ Begin(op, d, s, n, v)
      /\ left' = IF op = "memcpy" /\ ~ (n < Chunk) THEN Chunk ELSE n
  BY <1>5, <1>6, <1>7
<1>9. /\ mem' \in [Cells -> Word] /\ call'.old \in [Cells -> Word]
      /\ dst' \in 0 .. Size /\ src' \in 0 .. Size /\ left' \in 0 .. Size
      /\ call'.op = "inline" /\ Done' /\ Progress' /\ src' = s
      /\ call'.dst = d /\ call'.src = s /\ call'.len = n
  <2>1. /\ pc' = "head" => off' % 4 = d % 4
        /\ pc' = "words" => d % 4 = 0
        /\ pc' \notin {"idle", "tail"}
    BY <1>5
  <2>2. op \in {"memcpy", "inline", "memset", "bcmp"} /\ v \in 0 .. Byte - 1
    BY <1>6, <1>7
  <2>3. /\ mem' \in [Cells -> Word] /\ call'.old \in [Cells -> Word]
        /\ dst' \in 0 .. Size /\ src' \in 0 .. Size /\ left' \in 0 .. Size
        /\ call'.op = op /\ Done' /\ Progress' /\ src' = s
        /\ call'.dst = d /\ call'.src = s /\ call'.len = n
    BY <1>3, <1>4, <1>8, <2>1, <2>2, BeginInv
  <2> QED
    BY <1>7, <2>3
<1>10. TypeOK'
  BY <1>5, <1>9 DEF BlockInv, TypeOK
<1>11. InLoop'
  BY <1>3, <1>4, <1>5, <1>9 DEF InLoop, Apart
<1> QED
  BY <1>9, <1>10, <1>11 DEF BlockInv, Compared

LEMMA MemsetInv ==
  ASSUME Powers, BlockInv, Memset
  PROVE  BlockInv'
<1>1. PICK n \in MemsetLengths, v \in 0 .. Byte - 1 : \E d \in 0 .. Size - n :
        /\ Begin("memset", d, d, n, v)
        /\ left' = n /\ off' = Mod(d, 4) /\ pc' = "head" /\ ret' = ret
  BY DEF Memset
<1>2. PICK d \in 0 .. Size - n :
        /\ Begin("memset", d, d, n, v)
        /\ left' = n /\ off' = Mod(d, 4) /\ pc' = "head" /\ ret' = ret
  BY <1>1
<1>3. n \in Nat
  BY LengthsAssumption
<1>4. d \in Int /\ (d % 4) \in 0 .. 3 /\ (d % 4) % 4 = d % 4
  BY GridSize
<1>5. off' = d % 4
  BY <1>2 DEF Mod
<1>6. PICK op \in {"memcpy", "inline", "memset", "bcmp"} : op = "memset"
  OBVIOUS
<1>7. /\ Begin(op, d, d, n, v)
      /\ left' = IF op = "memcpy" /\ ~ (n < Chunk) THEN Chunk ELSE n
  BY <1>2, <1>6
<1>8. /\ mem' \in [Cells -> Word] /\ call'.old \in [Cells -> Word]
      /\ dst' \in 0 .. Size /\ src' \in 0 .. Size /\ left' \in 0 .. Size
      /\ call'.op = "memset" /\ Done' /\ Progress'
  <2>1. /\ pc' = "head" => off' % 4 = d % 4
        /\ pc' = "words" => d % 4 = 0
        /\ pc' \notin {"idle", "tail"}
    BY <1>2, <1>4, <1>5
  <2>2. op \in {"memcpy", "inline", "memset", "bcmp"}
    BY <1>6
  <2>3. /\ mem' \in [Cells -> Word] /\ call'.old \in [Cells -> Word]
        /\ dst' \in 0 .. Size /\ src' \in 0 .. Size /\ left' \in 0 .. Size
        /\ call'.op = op /\ Done' /\ Progress'
    BY <1>3, <1>7, <2>1, <2>2, BeginInv
  <2> QED
    BY <1>6, <2>3
<1>9. TypeOK'
  BY <1>2, <1>4, <1>5, <1>8 DEF BlockInv, TypeOK
<1>10. InLoop'
  BY <1>2, <1>8 DEF InLoop
<1> QED
  BY <1>8, <1>9, <1>10 DEF BlockInv, Compared

LEMMA BcmpInv ==
  ASSUME Powers, BlockInv, Bcmp
  PROVE  BlockInv'
<1>1. PICK n \in BcmpLengths : \E d \in 0 .. Size - n, s \in 0 .. Size - n :
        /\ Begin("bcmp", d, s, n, 0)
        /\ left' = n /\ ret' = 0 /\ pc' = "compare" /\ off' = off
  BY DEF Bcmp
<1>2. PICK d \in 0 .. Size - n, s \in 0 .. Size - n :
        /\ Begin("bcmp", d, s, n, 0)
        /\ left' = n /\ ret' = 0 /\ pc' = "compare" /\ off' = off
  BY <1>1
<1>3. n \in Nat
  BY LengthsAssumption
<1>4. PICK v \in 0 .. Byte - 1 : v = 0
  BY GridFacts
<1>5. PICK op \in {"memcpy", "inline", "memset", "bcmp"} : op = "bcmp"
  OBVIOUS
<1>6. /\ Begin(op, d, s, n, v)
      /\ left' = IF op = "memcpy" /\ ~ (n < Chunk) THEN Chunk ELSE n
  BY <1>2, <1>4, <1>5
<1>7. /\ mem' \in [Cells -> Word] /\ call'.old \in [Cells -> Word]
      /\ dst' \in 0 .. Size /\ src' \in 0 .. Size /\ left' \in 0 .. Size
      /\ call'.op = "bcmp" /\ Done' /\ Progress' /\ Total' = left'
  <2>1. /\ pc' = "head" => off' % 4 = d % 4
        /\ pc' = "words" => d % 4 = 0
        /\ pc' \notin {"idle", "tail"}
    BY <1>2
  <2>2. op \in {"memcpy", "inline", "memset", "bcmp"} /\ v \in 0 .. Byte - 1
    BY <1>4, <1>5
  <2>3. /\ mem' \in [Cells -> Word] /\ call'.old \in [Cells -> Word]
        /\ dst' \in 0 .. Size /\ src' \in 0 .. Size /\ left' \in 0 .. Size
        /\ call'.op = op /\ Done' /\ Progress' /\ Total' = left'
    BY <1>3, <1>6, <2>1, <2>2, BeginInv
  <2> QED
    BY <1>5, <2>3
<1>8. TypeOK'
  BY <1>2, <1>7, GridFacts DEF BlockInv, TypeOK
<1>9. InLoop'
  BY <1>2, <1>7 DEF InLoop
<1>10. Compared'
  <2>1. Total' - left' = 0
    BY <1>2, <1>3, <1>7
  <2>2. \A i \in 0 .. 0 - 1 : FALSE
    OBVIOUS
  <2> QED
    BY <1>2, <2>1, <2>2 DEF Compared
<1> QED
  BY <1>7, <1>8, <1>9, <1>10 DEF BlockInv

-----------------------------------------------------------------------------
(***************************************************************************)
(* The loops go on.                                                        *)
(***************************************************************************)

(* Where a loop is while something is left.                                *)
LEMMA Going ==
  ASSUME Powers, BlockInv, call.op # "none", left >= 1
  PROVE  LET n == Total - left
         IN /\ n \in Nat /\ dst = call.dst + n /\ src = call.src + n
            /\ dst - call.dst = n /\ n + left <= call.len /\ left \in Nat
            /\ call.len \in Nat /\ Total \in Nat
            /\ call.dst \in 0 .. Size - call.len /\ call.src \in 0 .. Size - call.len
            /\ call.dst \in Int /\ call.src \in Int
            /\ dst \in 0 .. Size - left /\ src \in 0 .. Size - left
            /\ dst \in Int /\ src \in Int
<1>1. Progress /\ Size \in Nat /\ Chunk \in Nat
  BY GridSize, LengthsAssumption DEF BlockInv
<1>2. call.len \in Nat /\ call.dst \in 0 .. Size - call.len /\ call.src \in 0 .. Size - call.len
      /\ left \in 0 .. Total /\ dst = call.dst + (Total - left) /\ src = call.src + (Total - left)
  BY <1>1 DEF Progress
<1>3. Total \in Nat /\ Total <= call.len
  BY <1>1, <1>2 DEF Total
<1> HIDE DEF Total
<1>4. call.dst \in Int /\ call.src \in Int
  BY <1>1, <1>2
<1> DEFINE n == Total - left
<1>5. n \in Nat /\ dst = call.dst + n /\ src = call.src + n /\ n + left <= call.len
      /\ left \in Nat
  BY <1>2, <1>3
<1> HIDE DEF n
<1>6. /\ dst - call.dst = n /\ dst \in Int /\ src \in Int
      /\ dst \in 0 .. Size - left /\ src \in 0 .. Size - left
  BY <1>1, <1>2, <1>4, <1>5
<1> QED
  BY <1>2, <1>3, <1>4, <1>5, <1>6 DEF n

(* What is still to be copied has not been written yet.                    *)
LEMMA NextSource ==
  ASSUME Powers, BlockInv, call.op \in {"memcpy", "inline"}, left >= 1,
         NEW j \in Nat, j < left
  PROVE  /\ src + j \in 0 .. Size - 1
         /\ BytesOf(mem)[src + j] = Source(call.old, call.op, call.value, src + j)
<1> DEFINE n == Total - left
           i == n + j
<1>1. /\ n \in Nat /\ src = call.src + n /\ dst - call.dst = n /\ n + left <= call.len
      /\ left \in Nat /\ call.len \in Nat
      /\ call.dst \in 0 .. Size - call.len /\ call.src \in 0 .. Size - call.len
      /\ call.src \in Int
  BY Going
<1>2. /\ DoneTo(mem, call.old, call.op, call.value, call.dst, call.src, n)
      /\ \/ call.dst = call.src
         \/ call.dst + call.len <= call.src
         \/ call.src + call.len <= call.dst
         \/ call.len = 0
  BY <1>1 DEF BlockInv, Done, Writing, InLoop, Apart
<1> HIDE DEF n
<1>3. i \in Nat /\ n <= i /\ i < call.len /\ call.src + i = src + j /\ call.len # 0
  BY <1>1
<1> HIDE DEF i
<1> DEFINE a == src + j
<1>4. /\ a \in 0 .. Size - 1 /\ a = call.src + i
      /\ ~ (a - call.dst \in 0 .. n - 1)
  <2>1. Size \in Nat /\ call.dst \in Int
    BY <1>1, GridSize
  <2> QED
    BY <1>1, <1>2, <1>3, <2>1
<1> HIDE DEF a
<1>5. BytesOf(mem)[a] = BytesOf(call.old)[a]
  BY <1>2, <1>4 DEF DoneTo
<1>6. Source(call.old, call.op, call.value, a) = BytesOf(call.old)[a]
  BY DEF Source
<1> QED
  BY <1>4, <1>5, <1>6 DEF a

LEMMA NextByteIs ==
  ASSUME Powers, BlockInv, call.op \in {"memcpy", "memset"}, left >= 1
  PROVE  /\ NextByte \in 0 .. Byte - 1
         /\ NextByte = Source(call.old, call.op, call.value, src)
<1>1. CASE call.op = "memset"
  <2>1. NextByte = call.value /\ Source(call.old, call.op, call.value, src) = call.value
    BY <1>1 DEF NextByte, Source
  <2>2. call.value \in 0 .. Byte - 1
    BY <1>1 DEF BlockInv, Progress
  <2> QED
    BY <2>1, <2>2
<1>2. CASE call.op = "memcpy"
  <2>1. NextByte = LoadByte(mem, src)
    BY <1>2 DEF NextByte
  <2>2. src \in Int /\ src + 0 = src
    BY <1>2, Going
  <2>3. PICK j \in Nat : j = 0 /\ j < left
    BY <1>2, Going
  <2>4. /\ src + j \in 0 .. Size - 1
        /\ BytesOf(mem)[src + j] = Source(call.old, call.op, call.value, src + j)
    BY <1>2, <2>3, NextSource
  <2>5. src + j = src
    BY <2>2, <2>3
  <2>6. src \in 0 .. Size - 1 /\ BytesOf(mem)[src] = Source(call.old, call.op, call.value, src)
    BY <2>4, <2>5
  <2>7. mem \in Memories
    BY DEF BlockInv, TypeOK, Memories
  <2>8. LoadByte(mem, src) = BytesOf(mem)[src]
    BY <2>6, <2>7, LoadByteIs
  <2>9. BytesOf(mem)[src] \in 0 .. Byte - 1
    BY <2>6, <2>7, PlaceIs
  <2> QED
    BY <2>1, <2>6, <2>8, <2>9
<1> QED
  BY <1>1, <1>2

LEMMA NextWordIs ==
  ASSUME Powers, BlockInv, call.op \in {"memcpy", "inline", "memset"}, left >= 4
  PROVE  /\ NextWord \in Word
         /\ \A j \in 0 .. 3 :
              ByteOf(NextWord, j) = Source(call.old, call.op, call.value, src + j)
<1>1. mem \in Memories
  BY DEF BlockInv, TypeOK, Memories
<1>2. left \in Nat /\ left >= 1 /\ src \in 0 .. Size - left /\ Size \in Nat
  <2>1. left \in Nat /\ Size \in Nat
    BY GridSize DEF BlockInv, TypeOK
  <2> QED
    BY <2>1, Going
<1>3. src \in 0 .. Size - 4
  BY <1>2
<1>4. CASE call.op = "memset"
  <2>1. NextWord = Repeated(call.value)
    BY <1>4 DEF NextWord
  <2>2. call.value \in 0 .. Byte - 1
    BY <1>4 DEF BlockInv, Progress
  <2>3. Repeated(call.value) \in Word
        /\ \A j \in 0 .. 3 : ByteOf(Repeated(call.value), j) = call.value
    BY <2>2, RepeatedBytes
  <2>4. \A i : Source(call.old, call.op, call.value, i) = call.value
    BY <1>4 DEF Source
  <2> QED
    BY <2>1, <2>3, <2>4
<1>5. ASSUME call.op # "memset"
      PROVE  \A j \in 0 .. 3 :
               BytesOf(mem)[src + j] = Source(call.old, call.op, call.value, src + j)
  <2>1. \A j \in 0 .. 3 : j \in Nat /\ j < left
    BY <1>2
  <2> QED
    BY <1>2, <1>5, <2>1, NextSource
<1>6. CASE call.op = "memcpy"
  <2>1. NextWord = LoadWordUnaligned(mem, src)
    BY <1>6 DEF NextWord
  <2>2. /\ LoadWordUnaligned(mem, src) \in Word
        /\ \A j \in 0 .. 3 : ByteOf(LoadWordUnaligned(mem, src), j) = BytesOf(mem)[src + j]
    BY <1>1, <1>3, LoadedWordBytes
  <2> QED
    BY <1>5, <1>6, <2>1, <2>2
<1>7. CASE call.op = "inline"
  <2>1. NextWord = mem[SetPtr(src)]
    BY <1>7 DEF NextWord
  <2>2. src % 4 = 0
    BY <1>7 DEF BlockInv, InLoop
  <2>3. /\ mem[SetPtr(src)] \in Word
        /\ \A j \in 0 .. 3 : ByteOf(mem[SetPtr(src)], j) = BytesOf(mem)[src + j]
    BY <1>1, <1>3, <2>2, WordBytes
  <2> QED
    BY <1>5, <1>7, <2>1, <2>3
<1> QED
  BY <1>4, <1>6, <1>7

LEMMA ByteInv ==
  ASSUME Powers, BlockInv, call.op \in {"memcpy", "memset"}, left >= 1,
         pc \in {"head", "tail"}, PutByte(NextByte), UNCHANGED <<call, pc>>,
         off' \in 0 .. 4, pc = "head" => off' % 4 = dst' % 4
  PROVE  BlockInv'
<1> DEFINE n == Total - left
           x == NextByte
<1>1. /\ n \in Nat /\ dst = call.dst + n /\ src = call.src + n
      /\ dst - call.dst = n /\ n + left <= call.len /\ left \in Nat
      /\ call.len \in Nat /\ Total \in Nat
      /\ call.dst \in 0 .. Size - call.len /\ call.src \in 0 .. Size - call.len
      /\ call.dst \in Int /\ call.src \in Int
      /\ dst \in 0 .. Size - left /\ src \in 0 .. Size - left
      /\ dst \in Int /\ src \in Int
  BY Going
<1>2. x \in 0 .. Byte - 1 /\ x = Source(call.old, call.op, call.value, src)
  BY NextByteIs
<1>3. /\ mem' = StoreByte(mem, dst, x) /\ ret' = mem'[SetPtr(dst)]
      /\ dst' = dst + 1 /\ src' = src + 1 /\ left' = left - 1
      /\ call' = call /\ pc' = pc
  BY DEF PutByte
<1>4. Total' = Total
  BY <1>3 DEF Total
<1>5. mem \in Memories /\ call.old \in [Cells -> Word] /\ Size \in Nat
  BY GridSize DEF BlockInv, TypeOK, Memories
<1>6. DoneTo(mem, call.old, call.op, call.value, call.dst, call.src, n)
  BY <1>1 DEF BlockInv, Done, Writing
<1> HIDE DEF n, x, Total
<1>7. dst \in 0 .. Size - 1 /\ x \in Int /\ x % Byte = x
  <2>1. Byte \in Nat \ {0} /\ x \in 0 .. Byte - 1
    BY <1>2, GridFacts
  <2> QED
    BY <1>1, <1>5, <2>1
<1>8. /\ StoreByte(mem, dst, x) \in Memories
      /\ \A a \in 0 .. Size - 1 :
           BytesOf(StoreByte(mem, dst, x))[a] = IF a = dst THEN x % Byte ELSE BytesOf(mem)[a]
  BY <1>5, <1>7, StoreByteIs
<1>9. /\ mem' \in Memories
      /\ \A a \in 0 .. Size - 1 :
           BytesOf(mem')[a] = IF a = call.dst + n THEN x ELSE BytesOf(mem)[a]
  BY <1>1, <1>3, <1>7, <1>8
<1>10. DoneTo(mem', call.old, call.op, call.value, call.dst, call.src, n + 1)
  <2>1. call.dst \in Int /\ call.src \in Int /\ n \in Nat
        /\ x = Source(call.old, call.op, call.value, call.src + n)
    BY <1>1, <1>2
  <2> QED
    BY <1>6, <1>9, <2>1, ByteDone
<1>11. Done'
  <2>1. dst' - call'.dst = n + 1
    BY <1>1, <1>3
  <2> QED
    BY <1>3, <1>10, <2>1 DEF Done
<1>12. TypeOK'
  <2>1. ret' \in Word
    BY <1>3, <1>7, <1>9, PlaceIs
  <2>2. dst' \in 0 .. Size /\ src' \in 0 .. Size /\ left' \in 0 .. Size
    BY <1>1, <1>3, <1>5
  <2> QED
    BY <1>3, <1>5, <1>9, <2>1, <2>2 DEF TypeOK, Memories
<1>13. Progress'
  <2>1. /\ left' \in 0 .. Total' /\ dst' = call'.dst + (Total' - left')
        /\ src' = call'.src + (Total' - left')
    BY <1>1, <1>3, <1>4 DEF n
  <2>2. pc = "tail" => left' < 4
    BY <1>1, <1>3 DEF BlockInv, Progress
  <2>3. call'.value \in 0 .. Byte - 1
    BY <1>3 DEF BlockInv, Progress
  <2> QED
    BY <1>1, <1>3, <2>1, <2>2, <2>3 DEF Progress
<1>14. InLoop'
  BY <1>3 DEF BlockInv, InLoop, Apart
<1> QED
  BY <1>3, <1>11, <1>12, <1>13, <1>14 DEF BlockInv, Compared

(* A loop that writes bytes is one of a memcpy or a memset.                *)
LEMMA BytesWritten ==
  ASSUME Powers, BlockInv, pc \in {"head", "tail"}, left >= 1
  PROVE  call.op \in {"memcpy", "memset"}
<1>1. call.op \notin {"none", "bcmp"}
  BY DEF BlockInv, InLoop
<1>2. CASE call.op = "inline"
  <2>1. pc = "tail" /\ left % 4 = 0
    BY <1>2 DEF BlockInv, InLoop
  <2>2. left < 4 /\ left \in Nat
    BY <1>1, <2>1, GridSize DEF BlockInv, Progress, TypeOK
  <2> QED
    BY <2>1, <2>2
<1> QED
  BY <1>1, <1>2 DEF BlockInv

LEMMA HeadByteInv ==
  ASSUME Powers, BlockInv, HeadByte
  PROVE  BlockInv'
<1>1. /\ pc = "head" /\ left >= 1 /\ off \in 1 .. 3 /\ off' = off + 1
      /\ PutByte(NextByte) /\ UNCHANGED <<call, pc>> /\ dst' = dst + 1
  BY DEF HeadByte, PutByte
<1>2. call.op \in {"memcpy", "memset"}
  BY <1>1, BytesWritten
<1>3. off % 4 = dst % 4 /\ dst \in Int
  BY <1>1, <1>2, Going DEF BlockInv, Progress
<1>4. off' \in 0 .. 4 /\ off' % 4 = dst' % 4
  BY <1>1, <1>3
<1> QED
  BY <1>1, <1>2, <1>4, ByteInv

LEMMA TailByteInv ==
  ASSUME Powers, BlockInv, TailByte
  PROVE  BlockInv'
<1>1. /\ pc = "tail" /\ left >= 1 /\ off' = off
      /\ PutByte(NextByte) /\ UNCHANGED <<call, pc>>
  BY DEF TailByte
<1>2. call.op \in {"memcpy", "memset"}
  BY <1>1, BytesWritten
<1>3. off' \in 0 .. 4
  BY <1>1 DEF BlockInv, TypeOK
<1> QED
  BY <1>1, <1>2, <1>3, ByteInv

LEMMA CopyWordInv ==
  ASSUME Powers, BlockInv, CopyWord
  PROVE  BlockInv'
<1> DEFINE n == Total - left
           w == NextWord
<1>1. pc = "words" /\ left >= 4 /\ left >= 1
  <2>1. left \in Int
    BY GridSize DEF BlockInv, TypeOK
  <2> QED
    BY <2>1 DEF CopyWord
<1>2. call.op \in {"memcpy", "inline", "memset"}
  BY <1>1 DEF BlockInv, InLoop
<1>3. /\ n \in Nat /\ dst = call.dst + n /\ src = call.src + n
      /\ dst - call.dst = n /\ n + left <= call.len /\ left \in Nat
      /\ call.len \in Nat /\ Total \in Nat
      /\ call.dst \in 0 .. Size - call.len /\ call.src \in 0 .. Size - call.len
      /\ call.dst \in Int /\ call.src \in Int
      /\ dst \in 0 .. Size - left /\ src \in 0 .. Size - left
      /\ dst \in Int /\ src \in Int
  BY <1>1, <1>2, Going
<1>4. /\ w \in Word
      /\ \A j \in 0 .. 3 : ByteOf(w, j) = Source(call.old, call.op, call.value, src + j)
  BY <1>1, <1>2, NextWordIs
<1>5. /\ mem' = StoreWord(mem, dst, w) /\ ret' = ret
      /\ dst' = dst + 4 /\ src' = src + 4 /\ left' = left - 4
      /\ call' = call /\ pc' = pc /\ off' = off
  BY DEF CopyWord, PutWord
<1>6. Total' = Total
  BY <1>5 DEF Total
<1>7. mem \in Memories /\ Size \in Nat
  BY GridSize DEF BlockInv, TypeOK, Memories
<1>8. DoneTo(mem, call.old, call.op, call.value, call.dst, call.src, n)
  BY <1>2, <1>3 DEF BlockInv, Done, Writing
<1>9. dst % 4 = 0
  BY <1>1, <1>2 DEF BlockInv, Progress
<1> HIDE DEF n, w, Total
<1>10. dst \in 0 .. Size - 4
  BY <1>1, <1>3, <1>7
<1>11. /\ StoreWord(mem, dst, w) \in Memories
       /\ Covers(BytesOf(StoreWord(mem, dst, w)), mem, dst, 4, w)
  BY <1>4, <1>7, <1>9, <1>10, StoreWordCovers
<1>12. mem' \in Memories /\ Covers(BytesOf(mem'), mem, call.dst + n, 4, w)
  BY <1>3, <1>5, <1>11
<1>13. \A j \in 0 .. 3 :
         ByteOf(w, j) = Source(call.old, call.op, call.value, call.src + n + j)
  BY <1>3, <1>4
<1>14. DoneTo(mem', call.old, call.op, call.value, call.dst, call.src, n + 4)
  <2>1. call.dst \in Int /\ call.src \in Int /\ n \in Nat
    BY <1>3
  <2> QED
    BY <1>8, <1>12, <1>13, <2>1, WordDone
<1>15. Done'
  <2>1. dst' - call'.dst = n + 4
    BY <1>3, <1>5
  <2> QED
    BY <1>5, <1>14, <2>1 DEF Done
<1>16. TypeOK'
  <2>1. dst' \in 0 .. Size /\ src' \in 0 .. Size /\ left' \in 0 .. Size
    BY <1>1, <1>3, <1>5, <1>7
  <2> QED
    BY <1>5, <1>12, <2>1 DEF BlockInv, TypeOK, Memories
<1>17. Progress'
  <2>1. /\ left' \in 0 .. Total' /\ dst' = call'.dst + (Total' - left')
        /\ src' = call'.src + (Total' - left') /\ dst' % 4 = 0
    BY <1>1, <1>3, <1>5, <1>6, <1>9 DEF n
  <2>2. call'.value \in 0 .. Byte - 1
    BY <1>2, <1>5 DEF BlockInv, Progress
  <2> QED
    BY <1>1, <1>3, <1>5, <2>1, <2>2 DEF Progress
<1>18. InLoop'
  <2>1. call.op = "inline" => left' % 4 = 0 /\ src' % 4 = 0
    BY <1>3, <1>5 DEF BlockInv, InLoop
  <2> QED
    BY <1>5, <2>1 DEF BlockInv, InLoop, Apart
<1> QED
  BY <1>2, <1>5, <1>15, <1>16, <1>17, <1>18 DEF BlockInv, Compared

(* A loop that ends leaves everything as it is.                            *)
LEMMA LoopsEnd ==
  ASSUME Powers, BlockInv,
         HeadDone \/ WordsDone \/ TailDone \/ CompareDone
  PROVE  BlockInv'
<1>1. UNCHANGED <<mem, call, dst, src, left, off, ret>>
  BY DEF HeadDone, WordsDone, TailDone, CompareDone
<1>2. TypeOK' /\ Done' /\ Compared' /\ Total' = Total
  <2>1. TypeOK'
    BY <1>1 DEF BlockInv, TypeOK, HeadDone, WordsDone, TailDone, CompareDone
  <2>2. Done'
    BY <1>1 DEF BlockInv, Done, Writing
  <2>3. Total' = Total
    BY <1>1 DEF Total
  <2>4. Compared'
    BY <1>1, <2>3 DEF BlockInv, Compared
  <2> QED
    BY <2>1, <2>2, <2>3, <2>4
<1>3. call.op # "none"
  BY DEF BlockInv, InLoop, HeadDone, WordsDone, TailDone, CompareDone
<1>4. /\ left \in Nat /\ dst \in Int /\ off \in 0 .. 4
  BY GridSize DEF BlockInv, TypeOK
<1>5. InLoop'
  BY <1>1 DEF BlockInv, InLoop, Apart, HeadDone, WordsDone, TailDone, CompareDone
<1>6. /\ pc' = "idle"  => left' = 0
      /\ pc' = "head"  => off' % 4 = dst' % 4
      /\ pc' = "words" => left' = 0 \/ dst' % 4 = 0
      /\ pc' = "tail"  => left' < 4
  <2>1. CASE HeadDone
    <3>1. off % 4 = dst % 4 /\ pc' = "words" /\ ~ (left >= 1 /\ off \in 1 .. 3)
      BY <1>3, <2>1 DEF BlockInv, Progress, HeadDone
    <3> QED
      BY <1>1, <1>4, <3>1
  <2>2. CASE WordsDone
    BY <1>1, <2>2 DEF WordsDone
  <2>3. CASE TailDone
    BY <1>1, <1>4, <2>3 DEF TailDone
  <2>4. CASE CompareDone
    BY <1>1, <1>4, <2>4 DEF CompareDone
  <2> QED
    BY <2>1, <2>2, <2>3, <2>4
<1>7. Progress'
  BY <1>1, <1>2, <1>3, <1>6 DEF BlockInv, Progress
<1> QED
  BY <1>1, <1>2, <1>5, <1>7 DEF BlockInv

LEMMA CompareByteInv ==
  ASSUME Powers, BlockInv, CompareByte
  PROVE  BlockInv'
<1> DEFINE n == Total - left
           same(i) == BytesOf(mem)[call.dst + i] = BytesOf(mem)[call.src + i]
<1>1. /\ pc = "compare" /\ left >= 1 /\ dst' = dst + 1 /\ src' = src + 1 /\ left' = left - 1
      /\ ret' = IF LoadByte(mem, dst) = LoadByte(mem, src) THEN ret ELSE 1
      /\ mem' = mem /\ call' = call /\ off' = off /\ pc' = pc
  BY DEF CompareByte
<1>2. call.op = "bcmp"
  BY <1>1 DEF BlockInv, InLoop
<1>3. /\ n \in Nat /\ dst = call.dst + n /\ src = call.src + n
      /\ n + left <= call.len /\ left \in Nat
      /\ call.len \in Nat /\ Total \in Nat
      /\ call.dst \in 0 .. Size - call.len /\ call.src \in 0 .. Size - call.len
      /\ call.dst \in Int /\ call.src \in Int
      /\ dst \in 0 .. Size - left /\ src \in 0 .. Size - left
      /\ dst \in Int /\ src \in Int
  BY <1>1, <1>2, Going
<1>4. mem \in Memories /\ Size \in Nat
  BY GridSize DEF BlockInv, TypeOK, Memories
<1>5. LoadByte(mem, dst) = BytesOf(mem)[dst] /\ LoadByte(mem, src) = BytesOf(mem)[src]
  <2>1. dst \in 0 .. Size - 1 /\ src \in 0 .. Size - 1
    BY <1>1, <1>3, <1>4
  <2> QED
    BY <1>4, <2>1, LoadByteIs
<1>6. Total' = Total
  BY <1>1 DEF Total
<1>7. ret = 0 <=> \A i \in 0 .. n - 1 : same(i)
  BY <1>2 DEF BlockInv, Compared
<1>8. ret' = IF same(n) THEN ret ELSE 1
  BY <1>1, <1>3, <1>5
<1>9. Total' - left' = n + 1
  BY <1>1, <1>3, <1>6
<1> HIDE DEF n, same, Total
<1>10. ret' = 0 <=> \A i \in 0 .. n + 1 - 1 : same(i)
  <2>1. \A i : i \in 0 .. n + 1 - 1 <=> i \in 0 .. n - 1 \/ i = n
    BY <1>3
  <2> QED
    BY <1>7, <1>8, <2>1
<1>11. Compared'
  <2>1. \A i : same(i) <=> BytesOf(mem')[call'.dst + i] = BytesOf(mem')[call'.src + i]
    BY <1>1 DEF same
  <2>2. ret' = 0 <=> \A i \in 0 .. Total' - left' - 1 : same(i)
    <3>1. Total' - left' - 1 = n + 1 - 1
      BY <1>1, <1>3, <1>6, <1>9
    <3> QED
      BY <1>10, <3>1
  <2>3. ret' = 0 <=> \A i \in 0 .. Total' - left' - 1 :
                       BytesOf(mem')[call'.dst + i] = BytesOf(mem')[call'.src + i]
    BY <2>1, <2>2
  <2> QED
    BY <2>3 DEF Compared
<1>12. TypeOK'
  <2>1. dst' \in 0 .. Size /\ src' \in 0 .. Size /\ left' \in 0 .. Size
    BY <1>1, <1>3, <1>4
  <2>2. ret' \in Word
    BY <1>1, GridFacts DEF BlockInv, TypeOK
  <2> QED
    BY <1>1, <2>1, <2>2 DEF BlockInv, TypeOK
<1>13. Progress'
  <2>1. /\ left' \in 0 .. Total' /\ dst' = call'.dst + (Total' - left')
        /\ src' = call'.src + (Total' - left')
    BY <1>1, <1>3, <1>6 DEF n
  <2>2. call'.value \in 0 .. Byte - 1
    BY <1>1, <1>2 DEF BlockInv, Progress
  <2> QED
    BY <1>1, <1>3, <2>1, <2>2 DEF Progress
<1>14. InLoop' /\ Done'
  BY <1>1, <1>2 DEF BlockInv, InLoop, Done, Writing
<1> QED
  BY <1>1, <1>2, <1>11, <1>12, <1>13, <1>14 DEF BlockInv

-----------------------------------------------------------------------------
(***************************************************************************)
(* The theorems.                                                           *)
(***************************************************************************)
LEMMA StepInv ==
  ASSUME Powers, WholeWords, BlockInv, [Next]_vars
  PROVE  BlockInv'
<1>1. CASE Next
  <2>1. CASE Memcpy
    BY <2>1, MemcpyInv
  <2>2. CASE MemcpyInline
    BY <2>2, MemcpyInlineInv
  <2>3. CASE Memset
    BY <2>3, MemsetInv
  <2>4. CASE Bcmp
    BY <2>4, BcmpInv
  <2>5. CASE HeadByte
    BY <2>5, HeadByteInv
  <2>6. CASE CopyWord
    BY <2>6, CopyWordInv
  <2>7. CASE TailByte
    BY <2>7, TailByteInv
  <2>8. CASE CompareByte
    BY <2>8, CompareByteInv
  <2>9. CASE HeadDone \/ WordsDone \/ TailDone \/ CompareDone
    BY <2>9, LoopsEnd
  <2> QED
    BY <1>1, <2>1, <2>2, <2>3, <2>4, <2>5, <2>6, <2>7, <2>8, <2>9 DEF Next
<1>2. CASE UNCHANGED vars
  <2>1. UNCHANGED <<mem, call, dst, src, left, off, ret, pc>>
    BY <1>2 DEF vars
  <2>2. TypeOK' /\ Total' = Total
    BY <2>1 DEF BlockInv, TypeOK, Total
  <2>3. call'.op # "none" => Progress'
    BY <2>1, <2>2 DEF BlockInv, Progress
  <2>4. InLoop' /\ Done'
    BY <2>1 DEF BlockInv, InLoop, Apart, Done, Writing
  <2>5. Compared'
    BY <2>1, <2>2 DEF BlockInv, Compared
  <2> QED
    BY <2>1, <2>2, <2>3, <2>4, <2>5 DEF BlockInv
<1> QED
  BY <1>1, <1>2

(* The inductive invariant: dst, src and left count together, each loop is *)
(* entered where it can go on, and in between the bytes done are right and *)
(* no other is touched.                                                    *)
THEOREM BlockInvariant ==
  ASSUME Powers, WholeWords
  PROVE  Spec => []BlockInv
<1>1. Init => BlockInv
  BY InitInv
<1>2. BlockInv /\ [Next]_vars => BlockInv'
  BY StepInv
<1> QED
  BY <1>1, <1>2, PTL DEF Spec

(* The loops stay in memory, and in the words: TypeOK of run blocks.       *)
THEOREM TypesOfBlocks ==
  ASSUME Powers, WholeWords
  PROVE  Spec => []TypeOK
<1>1. BlockInv => TypeOK
  BY DEF BlockInv
<1> QED
  BY <1>1, BlockInvariant, PTL

(* What was asked for is at hand wherever n bytes are done.                *)
LEMMA DoneIsWanted ==
  ASSUME Powers, BlockInv, Writing, NEW n, n = dst - call.dst
  PROVE  \A a \in 0 .. Size - 1 : At(mem, a) = Wanted(a, n)
<1> SUFFICES ASSUME NEW a \in 0 .. Size - 1
             PROVE  At(mem, a) = Wanted(a, n)
  OBVIOUS
<1>1. mem \in Memories /\ call.old \in Memories /\ Size \in Nat /\ Chunk \in Nat
  BY GridSize, LengthsAssumption DEF BlockInv, TypeOK, Memories
<1>2. /\ call.len \in Nat
      /\ call.dst \in 0 .. Size - call.len /\ call.src \in 0 .. Size - call.len
      /\ left \in 0 .. Total /\ dst = call.dst + (Total - left)
  BY DEF BlockInv, Writing, Progress
<1>3. Total \in Nat /\ Total <= call.len
  BY <1>1, <1>2 DEF Total
<1>4. call.dst \in Int /\ call.src \in Int
  BY <1>1, <1>2
<1>5. n \in Int /\ n <= call.len
  BY <1>2, <1>3, <1>4
<1>6. DoneTo(mem, call.old, call.op, call.value, call.dst, call.src, n)
  BY DEF BlockInv, Done
<1>7. At(mem, a) = IF a - call.dst \notin 0 .. n - 1 THEN At(call.old, a)
                   ELSE IF call.op = "memset" THEN call.value
                   ELSE At(call.old, call.src + a - call.dst)
  BY <1>1, <1>2, <1>4, <1>5, <1>6, PartDoneIs
<1> QED
  BY <1>7 DEF Wanted

(* Through the switches between bytes and words, the bytes done are right  *)
(* and no other byte is touched: PartDone of run blocks.                   *)
THEOREM PartsAreDone ==
  ASSUME Powers, WholeWords
  PROVE  Spec => []PartDone
<1>1. BlockInv => PartDone
  <2> SUFFICES ASSUME BlockInv, Writing
               PROVE  \A a \in 0 .. Size - 1 : At(mem, a) = Wanted(a, dst - call.dst)
    BY DEF PartDone, Writing
  <2>1. PICK n : n = dst - call.dst
    OBVIOUS
  <2>2. \A a \in 0 .. Size - 1 : At(mem, a) = Wanted(a, n)
    BY <2>1, DoneIsWanted
  <2> QED
    BY <2>1, <2>2
<1> QED
  BY <1>1, BlockInvariant, PTL

(* How much is done when a call returns.                                   *)
LEMMA DoneAtEnd ==
  ASSUME Powers, BlockInv, pc = "idle", Writing, call.op = "memcpy" => call.len <= Chunk
  PROVE  \A a \in 0 .. Size - 1 : At(mem, a) = Wanted(a, call.len)
<1>1. /\ call.len \in Nat /\ call.dst \in 0 .. Size - call.len
      /\ left = 0 /\ dst = call.dst + (Total - left)
  BY DEF BlockInv, Writing, Progress
<1>2. Total = call.len
  BY <1>1, LengthsAssumption DEF Total
<1>3. call.len = dst - call.dst
  BY <1>1, <1>2, GridSize
<1>4. PICK n : n = call.len
  OBVIOUS
<1>5. \A a \in 0 .. Size - 1 : At(mem, a) = Wanted(a, n)
  BY <1>3, <1>4, DoneIsWanted
<1> QED
  BY <1>4, <1>5

(* A memcpy in line of whole words has copied all of its bytes:            *)
(* InlineCopies of run blocks.  Where bytes remain, run blocks_inline has  *)
(* the counterexample.                                                     *)
THEOREM WholeWordsAreCopied ==
  ASSUME Powers, WholeWords
  PROVE  Spec => []InlineCopies
<1>1. BlockInv => InlineCopies
  BY DoneAtEnd DEF InlineCopies, Writing
<1> QED
  BY <1>1, BlockInvariant, PTL

(* A memcpy begins with no more than the function copies in a chunk.       *)
Bounded == call.op = "memcpy" => call.len <= Chunk

(* When a call returns, memset has set its bytes, memcpy has copied them   *)
(* if they are no more than a chunk, nothing else has changed, and bcmp    *)
(* returns zero just when the regions are equal: CallsDone of run blocks.  *)
THEOREM CallsAreDone ==
  ASSUME Powers, WholeWords, WithinChunk
  PROVE  Spec => []CallsDone
<1>1. Init => Bounded
  BY DEF Init, NoCall, Bounded
<1>2. Bounded /\ [Next]_vars => Bounded'
  <2> SUFFICES ASSUME Bounded, [Next]_vars
               PROVE  Bounded'
    OBVIOUS
  <2>1. CASE Memcpy
    <3>1. PICK n \in MemcpyLengths : \E r \in Regions(n) : Begin("memcpy", r[1], r[2], n, 0)
      BY <2>1 DEF Memcpy
    <3> QED
      BY <3>1 DEF Begin, Bounded, WithinChunk
  <2>2. CASE MemcpyInline \/ Memset \/ Bcmp
    BY <2>2 DEF MemcpyInline, Memset, Bcmp, Begin, Bounded
  <2>3. ASSUME call' = call
        PROVE  Bounded'
    BY <2>3 DEF Bounded
  <2> QED
    BY <2>1, <2>2, <2>3
       DEF Next, vars, HeadByte, HeadDone, CopyWord, WordsDone, TailByte, TailDone,
           CompareByte, CompareDone
<1>3. BlockInv /\ Bounded => CallsDone
  <2> SUFFICES ASSUME BlockInv, Bounded, pc = "idle"
               PROVE  /\ call.op \in {"memcpy", "memset"} =>
                           \A a \in 0 .. Size - 1 : At(mem, a) = Wanted(a, call.len)
                      /\ call.op = "bcmp" =>
                           ((ret = 0) = \A i \in 0 .. call.len - 1 :
                                          At(mem, call.dst + i) = At(mem, call.src + i))
    BY DEF CallsDone
  <2>1. call.op \in {"memcpy", "memset"} =>
          \A a \in 0 .. Size - 1 : At(mem, a) = Wanted(a, call.len)
    BY DoneAtEnd DEF Bounded, Writing
  <2>2. ASSUME call.op = "bcmp"
        PROVE  ret = 0 <=> \A i \in 0 .. call.len - 1 :
                             At(mem, call.dst + i) = At(mem, call.src + i)
    <3>1. /\ call.len \in Nat /\ left = 0
          /\ call.dst \in 0 .. Size - call.len /\ call.src \in 0 .. Size - call.len
          /\ mem \in Memories /\ Size \in Nat
      BY <2>2, GridSize DEF BlockInv, Progress, TypeOK, Memories
    <3>2. Total = call.len
      BY <2>2 DEF Total
    <3>3. ret = 0 <=> \A i \in 0 .. Total - left - 1 :
                        BytesOf(mem)[call.dst + i] = BytesOf(mem)[call.src + i]
      BY <2>2 DEF BlockInv, Compared
    <3>4. Total - left - 1 = call.len - 1
      BY <3>1, <3>2
    <3>5. ret = 0 <=> \A i \in 0 .. call.len - 1 :
                        BytesOf(mem)[call.dst + i] = BytesOf(mem)[call.src + i]
      BY <3>3, <3>4
    <3>6. \A i \in 0 .. call.len - 1 :
            /\ At(mem, call.dst + i) = BytesOf(mem)[call.dst + i]
            /\ At(mem, call.src + i) = BytesOf(mem)[call.src + i]
      <4>1. \A i \in 0 .. call.len - 1 :
              call.dst + i \in 0 .. Size - 1 /\ call.src + i \in 0 .. Size - 1
        BY <3>1
      <4> QED
        BY <3>1, <4>1, AtIs
    <3> QED
      BY <3>5, <3>6
  <2> QED
    BY <2>1, <2>2
<1> QED
  BY <1>1, <1>2, <1>3, BlockInvariant, PTL DEF Spec
=============================================================================
