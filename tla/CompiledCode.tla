---------------------------- MODULE CompiledCode ----------------------------
(***************************************************************************)
(* The Minecraft functions that compile_ir.rs generates for a program: the *)
(* tail that compile_block_end appends to every block, the functions that  *)
(* follow a pointer, and those that build and start the machine.           *)
(***************************************************************************)
EXTENDS Program, SequencesExt

(* The functions after the program's own, in the order of the list.        *)
CallFn   == N        \* rust:__langcraft_call
ReturnFn == N + 1    \* rust:__langcraft_return
InitFn   == N + 2    \* init
OnTickFn == N + 3    \* __langcraft_on_tick
MainFn   == N + 4    \* the function without a name
AllFuncs == 0 .. N + 4

(***************************************************************************)
(* A command is an operation `op` with an argument, carried out at a       *)
(* position ("here" is where the running function is) provided the count   *)
(* of commands is on the side of the limit that `when` names and the       *)
(* chosen destination is in `test` (outside it, if `unless`).              *)
(***************************************************************************)
Do(op, arg) ==
  [op |-> op, arg |-> arg, pos |-> "here", when |-> "always",
   test |-> {}, unless |-> TRUE]

At(pos, c)     == [c EXCEPT !.pos = pos]
When(side, c)  == [c EXCEPT !.when = side]
If(values, c)  == [c EXCEPT !.test = values, !.unless = FALSE]
Unless(values, c) == [c EXCEPT !.test = values, !.unless = TRUE]

Skip == Do("skip", 0)

(* The body.  A call pushes its return address there; a branch computes    *)
(* its condition.  The other commands do nothing that matters here.        *)
BodyCmds(f) ==
  [i \in 1 .. Body[f] |->
     IF i > 1 THEN Skip
     ELSE IF Kind[f] \in Calls THEN Do("push", Cont[f])
     ELSE IF Kind[f] = "branch" THEN Do("decide", f)
     ELSE Skip]

(* What the terminator itself needs, ahead of the edges: the registers of  *)
(* the caller, the function pointer, or a mark for the interpreter.        *)
TerminatorCmds(f) ==
  CASE Kind[f] = "ret"  -> <<Skip>>
    [] Kind[f] = "dyn"  -> <<Do("decide", f)>>
    [] Kind[f] = "stop" -> <<Do("unreachable", 0), Skip>>
    [] OTHER            -> <<>>

(* Writing the destination into the block at a position: one command for   *)
(* each edge, or a call of the function that follows the pointer.          *)
Edges(f, side, pos) ==
  LET dests == SetToSeq(Succ[f])
      Edge(d) == IF Len(dests) = 1 THEN Do("set", d) ELSE If({d}, Do("set", d))
  IN CASE Kind[f] = "dyn" -> <<When(side, At(pos, Do("call", CallFn)))>>
       [] Kind[f] = "ret" -> <<When(side, At(pos, Do("call", ReturnFn)))>>
       [] OTHER -> [i \in DOMAIN dests |-> When(side, At(pos, Edge(dests[i])))]

(* Mutants: the entity leaves before the destination is written; the other *)
(* chain block stays at the limit; the redstone block is forgotten, or     *)
(* placed under the limit too.                                             *)
BlockEndLeavingFirst(f) ==
  TerminatorCmds(f) \o
  IF Kind[f] = "stop"
  THEN <<Do("air", 0), At("S", Do("air", 0))>>
  ELSE <<Do("charge", Body[f] + 10)>>
       \o <<When("under", Do("tp", 0))>>
       \o Edges(f, "under", "next")
       \o Edges(f, "over", "R")
       \o <<When("over", At("next", Do("air", 0))),
            When("over", Do("redstone", 0)),
            When("over", Do("reset", 0))>>

BlockEndKeepingOther(f) ==
  TerminatorCmds(f) \o
  IF Kind[f] = "stop"
  THEN <<Do("air", 0), At("S", Do("air", 0))>>
  ELSE <<Do("charge", Body[f] + 10)>>
       \o Edges(f, "under", "next")
       \o <<When("under", Do("tp", 0))>>
       \o Edges(f, "over", "R")
       \o <<When("over", Do("redstone", 0)),
            When("over", Do("reset", 0))>>

BlockEndAsleep(f) ==
  TerminatorCmds(f) \o
  IF Kind[f] = "stop"
  THEN <<Do("air", 0), At("S", Do("air", 0))>>
  ELSE <<Do("charge", Body[f] + 10)>>
       \o Edges(f, "under", "next")
       \o <<When("under", Do("tp", 0))>>
       \o Edges(f, "over", "R")
       \o <<When("over", At("next", Do("air", 0))),
            When("over", Do("reset", 0))>>

BlockEndAlwaysWaking(f) ==
  TerminatorCmds(f) \o
  IF Kind[f] = "stop"
  THEN <<Do("air", 0), At("S", Do("air", 0))>>
  ELSE <<Do("charge", Body[f] + 10)>>
       \o Edges(f, "under", "next")
       \o <<When("under", Do("tp", 0))>>
       \o Edges(f, "over", "R")
       \o <<When("over", At("next", Do("air", 0))),
            Do("redstone", 0),
            When("over", Do("reset", 0))>>

BlockEnd(f) ==
  TerminatorCmds(f) \o
  IF Kind[f] = "stop"
  THEN <<Do("air", 0), At("S", Do("air", 0))>>
  ELSE <<Do("charge", Body[f] + 10)>>
       \o Edges(f, "under", "next")
       \o <<When("under", Do("tp", 0))>>
       \o Edges(f, "over", "R")
       \o <<When("over", At("next", Do("air", 0))),
            When("over", Do("redstone", 0)),
            When("over", Do("reset", 0))>>

CallCmds ==
  <<If({MainReturn}, Do("air", 0))>>
  \o [i \in 1 .. N |-> If({i - 1}, Do("set", i - 1))]
  \o <<Unless(MainReturn .. N - 1, Do("air", 0)),
       Unless(MainReturn .. N - 1, At("S", Do("air", 0)))>>

ReturnCmds == <<Do("pop", 0), Do("call", CallFn)>>

(* "boot" stands for the memory and the scores that init sets; then it     *)
(* clears the place, builds start, the template and the block "B".         *)
InitCmds ==
  <<Do("boot", 0), Skip, Skip,
    At("R", Do("set", Main)), At("B", Do("blank", 0))>>

OnTickCmds ==
  <<Skip, At("B", Do("blank", 0)), Do("clone", 0), At("B", Do("tp", 0))>>

MainCmds == <<Do("call", InitFn), Do("redstone", 0)>>

Code ==
  [f \in AllFuncs |->
     CASE f \in Funcs  -> BodyCmds(f) \o BlockEnd(f)
       [] f = CallFn   -> CallCmds
       [] f = ReturnFn -> ReturnCmds
       [] f = InitFn   -> InitCmds
       [] f = OnTickFn -> OnTickCmds
       [] f = MainFn   -> MainCmds]
=============================================================================
