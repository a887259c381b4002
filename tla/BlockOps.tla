------------------------------ MODULE BlockOps ------------------------------
(***************************************************************************)
(* memcpy, memset and bcmp.  memcpy and memset bring the destination to a  *)
(* word boundary byte by byte, go on word by word, and end byte by byte;   *)
(* a memcpy of constant length between aligned pointers is compiled in     *)
(* line instead.  A step is one iteration of a loop.                       *)
(***************************************************************************)
EXTENDS Jukeboxes

CONSTANTS
  Chunk,          \* what one call of intrinsic:memcpy copies, 1024 in the code
  MemcpyLengths,  \* the lengths that calls of intrinsic:memcpy are given
  InlineLengths,  \* the lengths of the memcpys compiled in line
  MemsetLengths,  \* the lengths that calls of intrinsic:memset are given
  BcmpLengths,    \* the lengths that calls of intrinsic:bcmp are given
  FirstWords      \* the words that memory holds at the start

ASSUME LengthsAssumption ==
  /\ MemcpyLengths \union InlineLengths \union MemsetLengths \union BcmpLengths \subseteq Nat
  /\ Chunk \in Nat

ASSUME WordsAssumption == FirstWords \subseteq Word

VARIABLES
  mem,   \* the word in each jukebox
  call,  \* the call: what is done, with which arguments, and memory before it
  dst,   \* %%temp0_memcpy, the memset's %ptr, tempdst, %%temp0_bcmp
  src,   \* %%temp1_memcpy, tempsrc, %%temp1_bcmp
  left,  \* %%temp2_memcpy, %%temp2_memset, %%temp2_bcmp: bytes still to do
  off,   \* %%tempbytes_memcpy, %%temp3_memset: where in its word dst is;
         \* only the head reads it, and what follows it leaves it alone here
  ret,   \* %return%0
  pc     \* "idle", "head", "words", "tail" or "compare"

vars == <<mem, call, dst, src, left, off, ret, pc>>

NoCall == [op |-> "none", dst |-> 0, src |-> 0, len |-> 0, value |-> 0, old |-> mem]

Init ==
  /\ mem \in [Cells -> FirstWords]
  /\ call = NoCall
  /\ dst = 0 /\ src = 0 /\ left = 0 /\ off = 0 /\ ret = 0
  /\ pc = "idle"

Covered(p, n) == p .. p + n - 1

(* LLVM has the two regions of a memcpy be the same or disjoint.           *)
Regions(n) ==
  {r \in (0 .. Size - n) \X (0 .. Size - n) :
     r[1] = r[2] \/ Covered(r[1], n) \intersect Covered(r[2], n) = {}}

Begin(op, d, s, n, v) ==
  /\ pc = "idle" /\ call.op = "none"
  /\ call' = [op |-> op, dst |-> d, src |-> s, len |-> n, value |-> v, old |-> mem]
  /\ dst' = d
  /\ src' = s
  /\ UNCHANGED mem

(* intrinsic:memcpy with %param4%0 = 0, as compile_memcpy calls it: one    *)
(* chunk.  The other mode, which would go on in the next tick, is not      *)
(* compiled: compile_block_end has no code for its call.                   *)
Memcpy ==
  \E n \in MemcpyLengths : \E r \in Regions(n) :
    /\ Begin("memcpy", r[1], r[2], n, 0)
    /\ left' = IF n < Chunk THEN n ELSE Chunk
    /\ off' = Mod(r[1], 4)
    /\ pc' = "head"
    /\ UNCHANGED ret

(* compile_memcpy with a constant length and aligned pointers.             *)
MemcpyInline ==
  \E n \in InlineLengths : \E r \in Regions(n) :
    /\ r[1] % 4 = 0 /\ r[2] % 4 = 0
    /\ Begin("inline", r[1], r[2], n, 0)
    /\ left' = n
    /\ pc' = "words"
    /\ UNCHANGED <<off, ret>>

Memset ==
  \E n \in MemsetLengths, v \in 0 .. Byte - 1 : \E d \in 0 .. Size - n :
    /\ Begin("memset", d, d, n, v)
    /\ left' = n
    /\ off' = Mod(d, 4)
    /\ pc' = "head"
    /\ UNCHANGED ret

Bcmp ==
  \E n \in BcmpLengths : \E d \in 0 .. Size - n, s \in 0 .. Size - n :
    /\ Begin("bcmp", d, s, n, 0)
    /\ left' = n
    /\ ret' = 0
    /\ pc' = "compare"
    /\ UNCHANGED off

(* One byte: memcpy/next_byte, or a store_byte of memset.  store_byte      *)
(* leaves the word it wrote in %return%0.                                  *)
PutByte(b) ==
  /\ mem' = StoreByte(mem, dst, b)
  /\ ret' = mem'[SetPtr(dst)]
  /\ dst' = dst + 1
  /\ src' = src + 1
  /\ left' = left - 1

(* One word: memcpy/inner, memset_inner, or a word in line.                *)
PutWord(w) ==
  /\ mem' = StoreWord(mem, dst, w)
  /\ dst' = dst + 4
  /\ src' = src + 4
  /\ left' = left - 4
  /\ UNCHANGED ret

(* What the byte and the word written next are.  In line, the tail reads   *)
(* a byte and then writes %return%0, which load_byte does not set.         *)
NextByte ==
  CASE call.op = "memset"                 -> call.value
    [] call.op = "memcpy"                 -> LoadByte(mem, src)
    [] call.op = "inline"                 -> ret

(* Mutant: the memset's word is filled halfway.                            *)
RepeatedOnce(v) == Add(Times(v, Byte), v)

Repeated(v) == Add(Times(Add(Times(Add(Times(v, Byte), v), Byte), v), Byte), v)

(* Mutant: in line, the entity is sent to the destination before it is     *)
(* read.                                                                   *)
NextWordAtDst ==
  CASE call.op = "memset" -> Repeated(call.value)
    [] call.op = "memcpy" -> LoadWordUnaligned(mem, src)
    [] call.op = "inline" -> mem[SetPtr(dst)]

NextWord ==
  CASE call.op = "memset" -> Repeated(call.value)
    [] call.op = "memcpy" -> LoadWordUnaligned(mem, src)
    [] call.op = "inline" -> mem[SetPtr(src)]

(* Lines tried in the order of the offsets 1, 2 and 3: each sets the next. *)
HeadByte ==
  /\ pc = "head" /\ left >= 1 /\ off \in 1 .. 3
  /\ PutByte(NextByte)
  /\ off' = off + 1
  /\ UNCHANGED <<call, pc>>

(* Mutant: the head stops at the first byte.                               *)
HeadDoneEarly ==
  /\ pc = "head" /\ ~ (left >= 1 /\ off = 1)
  /\ pc' = "words"
  /\ UNCHANGED <<mem, call, dst, src, left, off, ret>>

HeadDone ==
  /\ pc = "head" /\ ~ (left >= 1 /\ off \in 1 .. 3)
  /\ pc' = "words"
  /\ UNCHANGED <<mem, call, dst, src, left, off, ret>>

(* Mutant: the word loop runs while a byte is left.                        *)
CopyWordToEnd ==
  /\ pc = "words" /\ left >= 1
  /\ PutWord(NextWord)
  /\ UNCHANGED <<call, off, pc>>

CopyWord ==
  /\ pc = "words" /\ left >= 4
  /\ PutWord(NextWord)
  /\ UNCHANGED <<call, off, pc>>

WordsDone ==
  /\ pc = "words" /\ left < 4
  /\ pc' = "tail"
  /\ UNCHANGED <<mem, call, dst, src, left, off, ret>>

TailByte ==
  /\ pc = "tail" /\ left >= 1
  /\ PutByte(NextByte)
  /\ UNCHANGED <<call, off, pc>>

(* Mutant: the tail leaves out its third line.                             *)
TailDoneEarly ==
  /\ pc = "tail" /\ left < 2
  /\ pc' = "idle"
  /\ UNCHANGED <<mem, call, dst, src, left, off, ret>>

TailDone ==
  /\ pc = "tail" /\ left < 1
  /\ pc' = "idle"
  /\ UNCHANGED <<mem, call, dst, src, left, off, ret>>

(* Mutant: each byte decides alone what is returned.                       *)
CompareByteAlone ==
  /\ pc = "compare" /\ left >= 1
  /\ ret' = IF LoadByte(mem, dst) = LoadByte(mem, src) THEN 0 ELSE 1
  /\ dst' = dst + 1
  /\ src' = src + 1
  /\ left' = left - 1
  /\ UNCHANGED <<mem, call, off, pc>>

(* bcmp_inner; it goes on after a difference.                              *)
CompareByte ==
  /\ pc = "compare" /\ left >= 1
  /\ ret' = IF LoadByte(mem, dst) = LoadByte(mem, src) THEN ret ELSE 1
  /\ dst' = dst + 1
  /\ src' = src + 1
  /\ left' = left - 1
  /\ UNCHANGED <<mem, call, off, pc>>

CompareDone ==
  /\ pc = "compare" /\ left < 1
  /\ pc' = "idle"
  /\ UNCHANGED <<mem, call, dst, src, left, off, ret>>

Next ==
  \/ Memcpy \/ MemcpyInline \/ Memset \/ Bcmp
  \/ HeadByte \/ HeadDone \/ CopyWord \/ WordsDone \/ TailByte \/ TailDone
  \/ CompareByte \/ CompareDone

Spec == Init /\ [][Next]_vars

-----------------------------------------------------------------------------
(* Properties.                                                             *)

TypeOK ==
  /\ mem \in [Cells -> Word] /\ call.old \in [Cells -> Word]
  /\ dst \in 0 .. Size /\ src \in 0 .. Size
  /\ left \in 0 .. Size /\ off \in 0 .. 4
  /\ ret \in Word
  /\ pc \in {"idle", "head", "words", "tail", "compare"}

(* The byte at address a of memory m.                                      *)
At(m, a) == ByteOf(m[CellAt[a \div 4]], a % 4)

(* What the call is to leave at address a when n bytes are done.           *)
Wanted(a, n) ==
  IF a - call.dst \notin 0 .. n - 1 THEN At(call.old, a)
  ELSE IF call.op = "memset" THEN call.value
  ELSE At(call.old, call.src + a - call.dst)

(* Through the switches between bytes and words, the bytes done are right  *)
(* and no other byte is touched: a word is written only where dst is       *)
(* aligned, and never over the end.                                        *)
PartDone ==
  call.op \in {"memcpy", "inline", "memset"} =>
    \A a \in 0 .. Size - 1 : At(mem, a) = Wanted(a, dst - call.dst)

(* A memcpy in line copies its bytes as well as its words: what load_byte  *)
(* returns in %param0%0 is what is stored.                                 *)
InlineCopies ==
  call.op = "inline" /\ pc = "idle" =>
    \A a \in 0 .. Size - 1 : At(mem, a) = Wanted(a, call.len)

(* When a call returns, all of it is done and nothing else: memset has set *)
(* len bytes, memcpy has copied the "i32 len" bytes of its third parameter *)
(* (as the head of memcpy.mcfunction gives its parameters), and bcmp       *)
(* returns zero just when the two regions are equal.                       *)
CallsDone ==
  pc = "idle" =>
    /\ call.op \in {"memcpy", "memset"} =>
         \A a \in 0 .. Size - 1 : At(mem, a) = Wanted(a, call.len)
    /\ call.op = "bcmp" =>
         ((ret = 0) = \A i \in 0 .. call.len - 1 :
                        At(mem, call.dst + i) = At(mem, call.src + i))
=============================================================================
