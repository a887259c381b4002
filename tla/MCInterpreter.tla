---------------------------- MODULE MCInterpreter ----------------------------
(***************************************************************************)
(* Small programs for the interpreter.                                     *)
(***************************************************************************)
EXTENDS Interpreter

(* main loops: it calls f, then f, g or nothing through a pointer; it may  *)
(* leave by a return, by unreachable code or by a block of many commands.  *)
(*   0 header; 1 calls 5, 2 calls a pointer, 3 closes the loop; 4 returns; *)
(*   f is 5; g is 6 up to its call of f and 7 after it; 8 is unreachable;  *)
(*   9 is the long block.                                                  *)
LoopKind == <<"branch", "call", "dyn", "branch", "ret",
              "ret", "call", "ret", "stop", "branch">>
LoopSucc == <<{1, 4, 8, 9}, {5}, {5, 6, N}, {0}, {}, {}, {5}, {}, {}, {0}>>
LoopCont == <<0, 2, 3, 0, 0, 0, 7, 0, 0, 0>>
LoopBody == <<1, 5, 6, 1, 2, 3, 7, 1, 1, 40>>

FromZero(t) == [f \in Funcs |-> t[f + 1]]

MCLoopKind == FromZero(LoopKind)
MCLoopSucc == FromZero(LoopSucc)
MCLoopCont == FromZero(LoopCont)
MCLoopBody == FromZero(LoopBody)
=============================================================================
