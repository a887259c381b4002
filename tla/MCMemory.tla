------------------------------ MODULE MCMemory ------------------------------
(***************************************************************************)
(* Memory for TLC: 32 bytes of two bits in two planes of four jukeboxes.   *)
(* A word then has eight bits, and addresses fit into it.                  *)
(***************************************************************************)
EXTENDS Memory

(* The bytes 2, 1, 0, 2 and 1, 2, 0, 1, the lowest first: one is negative. *)
MCValues == {-122, 73}

(* Every byte is 3, which is none of the stored words'.                    *)
MCFirstWords == {-1}
=============================================================================
