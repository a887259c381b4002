--------------------------- MODULE MCCommandChain ---------------------------
(***************************************************************************)
(* Small programs for the machine of command blocks.                       *)
(***************************************************************************)
EXTENDS CommandChain

(* main loops: it calls f, then f or g through a pointer, and may leave.   *)
(* The pointer may also be no function: one beyond the last index, or one  *)
(* below the return address of main.                                       *)
(* g calls f, so that return addresses of two callers are on the stack.    *)
(*   0 header, 4 exit; 1 calls 5, 2 calls a pointer, 3 closes the loop;    *)
(*   f is 5; g is 6 up to its call of f and 7 after it.                    *)
LoopKind == <<"branch", "call", "dyn", "branch", "ret",
              "ret", "call", "ret">>
LoopSucc == <<{1, 4}, {5}, {5, 6, N, -2}, {0}, {}, {}, {5}, {}>>
LoopCont == <<0, 2, 3, 0, 0, 0, 7, 0>>
LoopBody == <<1, 5, 6, 1, 2, 3, 7, 1>>

(* Functions are numbered from 0, tuples from 1.                           *)
FromZero(t) == [f \in Funcs |-> t[f + 1]]

MCLoopKind == FromZero(LoopKind)
MCLoopSucc == FromZero(LoopSucc)
MCLoopCont == FromZero(LoopCont)
MCLoopBody == FromZero(LoopBody)


(* g ends in a terminator without destination instead of returning.        *)
MCStopKind == [MCLoopKind EXCEPT ![7] = "stop"]
=============================================================================
