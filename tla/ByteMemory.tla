----------------------------- MODULE ByteMemory -----------------------------
(***************************************************************************)
(* What LLVM expects of memory: bytes, each with an address, in which      *)
(* values of several bytes lie with their lowest byte first.  A value is   *)
(* the sequence of its words; the last one may be shorter than a word.     *)
(***************************************************************************)
EXTENDS Words, Sequences

CONSTANTS
  Size,         \* the number of bytes
  LoadLengths,  \* the lengths of the values that are loaded, in bytes
  StoreLengths, \* the lengths of the values that are stored
  Values        \* the words they are made of

VARIABLES
  bytes,   \* the bytes
  done,    \* the load or store done last
  loaded   \* the value loaded last

byteVars == <<bytes, done, loaded>>

WordsIn(n) == (n + 3) \div 4

(* The k bytes at p as a number; four of them may be a negative one.       *)
Number(p, k) ==
  LET sum[i \in 0 .. k] ==
        IF i = 0 THEN 0 ELSE sum[i - 1] + bytes[p + i - 1] * Byte ^ (i - 1)
  IN Wrap(sum[k])

Value(p, n) ==
  [i \in 1 .. WordsIn(n) |->
     Number(p + 4 * (i - 1), IF n < 4 * i THEN n % 4 ELSE 4)]

Nothing == [op |-> "nothing", length |-> 0, address |-> 0, value |-> <<>>]

Init ==
  /\ bytes \in [0 .. Size - 1 -> 0 .. Byte - 1]
  /\ done = Nothing
  /\ loaded = <<>>

Load ==
  /\ \E n \in LoadLengths : \E p \in 0 .. Size - n :
       /\ done' = [op |-> "load", length |-> n, address |-> p, value |-> <<>>]
       /\ loaded' = Value(p, n)
  /\ UNCHANGED bytes

(* The bytes that v covers become v's; the others stay.                    *)
Store ==
  /\ \E n \in StoreLengths : \E p \in 0 .. Size - n, v \in [1 .. WordsIn(n) -> Values] :
       /\ done' = [op |-> "store", length |-> n, address |-> p, value |-> v]
       /\ bytes' = [a \in 0 .. Size - 1 |->
                      IF a - p \in 0 .. n - 1
                      THEN ByteOf(v[(a - p) \div 4 + 1], (a - p) % 4)
                      ELSE bytes[a]]
  /\ UNCHANGED loaded

Next == Load \/ Store

Spec == Init /\ [][Next]_byteVars
=============================================================================
