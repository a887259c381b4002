----------------------------- MODULE MCBlockOps -----------------------------
(***************************************************************************)
(* The block operations for TLC: sixteen bytes of two bits in four         *)
(* jukeboxes.                                                              *)
(***************************************************************************)
EXTENDS BlockOps

(* The bytes 1, 0, 3, 2 and 0, 1, 2, 3: equal and different neighbours.    *)
MCFirstWords == {-79, -28}
=============================================================================
