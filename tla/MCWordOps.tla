----------------------------- MODULE MCWordOps ------------------------------
(***************************************************************************)
(* Instructions on words for TLC: words of eight bits.                     *)
(***************************************************************************)
EXTENDS WordOps

(* Both ends, both sides of zero and of the middle, carries out of the low *)
(* half-word, powers of two that a product or a shift may cross, and two   *)
(* mixed patterns.                                                         *)
MCOperands ==
  {-128, -127, -86, -65, -33, -16, -2, -1, 0, 1, 2, 3, 8, 15, 64, 85, 126, 127}
=============================================================================
