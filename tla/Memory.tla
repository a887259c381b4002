------------------------------- MODULE Memory -------------------------------
(***************************************************************************)
(* The loads and stores of a compiled program, as compile_instr emits them *)
(* for a value of some length at an address of some alignment, with the    *)
(* place of %ptr and of the entity that stands for it.                     *)
(***************************************************************************)
EXTENDS Jukeboxes

CONSTANTS
  LoadLengths,  \* the lengths of the values the program loads, in bytes
  StoreLengths, \* the lengths of the values it stores
  Alignments,   \* the alignments its instructions declare
  Values,       \* the words that it stores
  FirstWords,   \* the words that memory holds at the start
  MaxOps        \* bound on the loads and stores of a behaviour

ASSUME ValuesAssumption == Values \subseteq Word /\ FirstWords \subseteq Word

(* What the compiler has code for: of a higher alignment it makes what it  *)
(* makes of 4.                                                             *)
ASSUME LengthsAssumption ==
  /\ \A n \in LoadLengths \union StoreLengths :
       n \in {1, 2, 3} \/ (n \in Nat \ {0} /\ n % 4 = 0)
  /\ Alignments \subseteq {1, 2, 4}

ASSUME MaxOpsAssumption == MaxOps \in Nat

VARIABLES
  mem,     \* the word in each jukebox
  ptr,     \* %ptr
  pos,     \* where the entity stands
  done,    \* the instruction run last
  loaded,  \* the words that the last load left in its destination
  ops      \* how many loads and stores were made

vars == <<mem, ptr, pos, done, loaded, ops>>

-----------------------------------------------------------------------------
Init ==
  /\ mem \in [Cells -> FirstWords]
  /\ ptr = 0
  /\ pos = <<0, 0, 0>>
  /\ done = [op |-> "nothing", length |-> 0, address |-> 0, value |-> <<>>]
  /\ loaded = <<>>
  /\ ops = 0

(* The addresses an instruction may be given: the compiler relies on the   *)
(* alignment that LLVM declares.                                           *)
Addresses(n, al) == {p \in 0 .. Size - n : p % al = 0}

WholeWords(n) == n % 4 = 0

(* Mutant: the entity is moved to the last word only after it is read.     *)
LoadWordsLate(n, al, p) ==
  /\ WholeWords(n) /\ al # 2
  /\ ptr' = IF al = 4 THEN p + n - 4 ELSE p + n - 1
  /\ pos' = SetPtr(p)
  /\ loaded' = [i \in 1 .. n \div 4 |->
                  LET a == p + 4 * (i - 1)
                  IN IF al = 4 THEN mem[SetPtr(a)] ELSE LoadWordUnaligned(mem, a)]

(* Instruction::Load.  Of what is no whole number of words, three bytes    *)
(* have to be aligned, and words at an alignment of two are a todo!().     *)
LoadWords(n, al, p) ==
  /\ WholeWords(n) /\ al # 2
  /\ ptr' = IF al = 4 THEN p + n - 4 ELSE p + n - 1
  /\ pos' = SetPtr(ptr')
  /\ loaded' = [i \in 1 .. n \div 4 |->
                  LET a == p + 4 * (i - 1)
                  IN IF al = 4 THEN mem[SetPtr(a)] ELSE LoadWordUnaligned(mem, a)]

LoadSmall(n, al, p) ==
  /\ n \in {1, 2}
  /\ ptr' = IF n = 2 /\ al = 1 THEN p + 1 ELSE p
  /\ pos' = SetPtr(ptr')
  /\ loaded' = <<CASE n = 1          -> LoadByte(mem, p)
                   [] n = 2 /\ al = 1 -> LoadHalfwordUnaligned(mem, p)
                   [] OTHER           -> LoadHalfword(mem, p)>>

(* Three bytes are read with read_ptr alone: the entity is not moved.      *)
LoadThree(n, al, p) ==
  /\ n = 3 /\ al = 4
  /\ ptr' = p
  /\ loaded' = <<Mod(mem[pos], Byte * Half)>>
  /\ UNCHANGED pos

LoadOne(n, al, p) == LoadWords(n, al, p) \/ LoadSmall(n, al, p) \/ LoadThree(n, al, p)

Load ==
  /\ ops < MaxOps
  /\ \E n \in LoadLengths, al \in Alignments :
       \E p \in Addresses(n, al) :
         /\ done' = [op |-> "load", length |-> n, address |-> p, value |-> <<>>]
         /\ LoadOne(n, al, p)
  /\ ops' = ops + 1
  /\ UNCHANGED mem

(* Mutant: A store of two bytes at an odd address takes the way of an even *)
(* one.                                                                    *)
StoreOneAligned(n, al, p, v) ==
  mem' = CASE WholeWords(n)              -> StoreWords(mem, p, v, al = 4)
           [] n = 2                      -> StoreHalfword(mem, p, v[1])
           [] OTHER                      -> StoreBytes(mem, p, v[1], n)

(* Instruction::Store.  Where the last byte or word lies, there the entity *)
(* is left; only after three bytes %ptr is one further.                    *)
StoreOne(n, al, p, v) ==
  mem' = CASE WholeWords(n)              -> StoreWords(mem, p, v, al = 4)
           [] n = 2 /\ al # 1            -> StoreHalfword(mem, p, v[1])
           [] OTHER                      -> StoreBytes(mem, p, v[1], n)

(* Mutant: %ptr is advanced past the last piece, and the entity follows    *)
(* it.                                                                     *)
StoreWalkingOn ==
  /\ ops < MaxOps
  /\ \E n \in StoreLengths, al \in Alignments :
       \E p \in Addresses(n, al), v \in [1 .. (n + 3) \div 4 -> Values] :
         /\ done' = [op |-> "store", length |-> n, address |-> p, value |-> v]
         /\ StoreOne(n, al, p, v)
         /\ ptr' = p + n
         /\ pos' = SetPtr(p + n)
  /\ ops' = ops + 1
  /\ UNCHANGED loaded

Store ==
  /\ ops < MaxOps
  /\ \E n \in StoreLengths, al \in Alignments :
       \E p \in Addresses(n, al), v \in [1 .. (n + 3) \div 4 -> Values] :
         /\ done' = [op |-> "store", length |-> n, address |-> p, value |-> v]
         /\ StoreOne(n, al, p, v)
         /\ LET last == CASE WholeWords(n) /\ al = 4 -> p + n - 4
                          [] n = 2 /\ al # 1         -> p
                          [] OTHER                   -> p + n - 1
            IN /\ pos' = SetPtr(last)
               /\ ptr' = IF n = 3 THEN last + 1 ELSE last
  /\ ops' = ops + 1
  /\ UNCHANGED loaded

Next == Load \/ Store

Spec == Init /\ [][Next]_vars
-----------------------------------------------------------------------------
(* Properties.                                                             *)

(* Every jukebox holds a word, and the entity stands at a jukebox: none of *)
(* the intrinsics moves it out of the grid.                                *)
TypeOK ==
  /\ mem \in [Cells -> Word]
  /\ ptr \in Word
  /\ pos \in Cells
  /\ done.op \in {"nothing", "load", "store"} /\ done.address \in 0 .. Size - 1
  /\ \A i \in DOMAIN loaded : loaded[i] \in Word
  /\ ops \in 0 .. MaxOps

(* A load reads the place that %ptr addresses, as the comments on          *)
(* intrinsic:setptr and on read_ptr_small say: when it ends, the entity    *)
(* stands there and not where an earlier access left it.                   *)
ReadsAtPtr ==
  [][done'.op = "load" => Index(pos') = ptr' - (ptr' % 4)]_vars

(* The words of the jukeboxes read as bytes, the jukeboxes in the order of *)
(* get_index.                                                              *)
Bytes == [a \in 0 .. Size - 1 |-> ByteOf(mem[CellAt[a \div 4]], a % 4)]

(* Memory is bytes: a value of any length, stored at any alignment the     *)
(* compiler accepts, changes the bytes it covers and no other, and a load  *)
(* of any length and alignment returns what is there, whatever jukeboxes   *)
(* the bytes lie in and however they were stored.                          *)
Abstract == INSTANCE ByteMemory WITH bytes <- Bytes

ImplementsByteMemory == Abstract!Spec
=============================================================================
