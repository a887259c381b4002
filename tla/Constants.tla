----------------------------- MODULE Constants ------------------------------
(***************************************************************************)
(* Constants: commands cannot operate on a score and a number, so a number *)
(* is kept in a score of its name, %%n, which is set before main runs.     *)
(***************************************************************************)
EXTENDS Words

(* Mutant: the loop over the powers of two starts with the second.         *)
InitialisedFrom2 == {-1} \union {2 ^ i : i \in 1 .. Bits - 2}

(* The constants that compile_global_var_init sets: -1 and 31 powers of    *)
(* two.  1 << 31 is set as %%31BITSHIFT, not under its number, and 0 is    *)
(* not set.                                                                *)
Initialised == {-1} \union {2 ^ i : i \in 0 .. Bits - 2}

(* In the game a score never set reads as 0, and to divide by 0 fails and  *)
(* changes nothing; the interpreter stops.                                 *)
PlusConst(a, n)  == IF n \in Initialised THEN Add(a, n) ELSE a
TimesConst(a, n) == IF n \in Initialised THEN Times(a, n) ELSE 0
ModConst(a, n)   == IF n \in Initialised THEN Mod(a, n) ELSE a
=============================================================================
