----------------------------- MODULE ControlFlow -----------------------------
(***************************************************************************)
(* What the machine of command blocks promises: the program's blocks run   *)
(* one at a time, each followed by the block its end chose, calls and      *)
(* returns matching through one stack, until main returns to MainReturn.   *)
(* Nothing here knows of ticks, command blocks or command limits.          *)
(***************************************************************************)
EXTENDS Program

VARIABLES
  pc,     \* the block to run next, or Halted
  stack   \* the return addresses

cfVars == <<pc, stack>>

Halted == -1
Target(p) == IF p \in Funcs THEN p ELSE Halted

Init == pc = Halted /\ stack = <<>>

(* The program is started, or abandoned and started over, by its user.     *)
Start ==
  /\ pc' = Main
  /\ stack' = <<MainReturn>>

Branch ==
  /\ pc \in Funcs
  /\ Kind[pc] = "branch"
  /\ pc' \in Succ[pc]
  /\ UNCHANGED stack

Call ==
  /\ pc \in Funcs
  /\ Kind[pc] \in Calls
  /\ \E p \in Succ[pc] : pc' = Target(p)
  /\ stack' = Append(stack, Cont[pc])

Return ==
  /\ pc \in Funcs
  /\ Kind[pc] = "ret"
  /\ pc' = Target(Top(stack))
  /\ stack' = Pop(stack)

Stop ==
  /\ pc \in Funcs
  /\ Kind[pc] = "stop"
  /\ pc' = Halted
  /\ UNCHANGED stack

Step == Branch \/ Call \/ Return \/ Stop
Next == Start \/ Step

Spec == Init /\ [][Next]_cfVars

(* A running program does not stop between two of its blocks.              *)
Progress == WF_cfVars(Step)
=============================================================================
