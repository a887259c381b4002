------------------------------- MODULE WordOps -------------------------------
(***************************************************************************)
(* One instruction on words: a shift, a bitwise or an arithmetic one, a    *)
(* conversion, or one on vectors.                                          *)
(***************************************************************************)
EXTENDS Vectors

Next == NextShift \/ NextArithmetic \/ NextConversion \/ NextVector

Spec == Init /\ [][Next]_vars
=============================================================================
