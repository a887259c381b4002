------------------------------- MODULE Program -------------------------------
(***************************************************************************)
(* A compiled program, as far as its control flow goes.  compile_ir.rs     *)
(* turns every basic block of every LLVM function into one or more         *)
(* Minecraft functions (a block is cut after each call it makes) and lays  *)
(* all of them out in one list; a return address and a function pointer    *)
(* are both an index into that list.  What a function computes is left     *)
(* out; what remains is how it ends and how many commands it charges for.  *)
(***************************************************************************)
EXTENDS Integers, Sequences

CONSTANTS
  N,      \* the length of the function list
  Main,   \* the index of main's first block
  Kind,   \* how each function ends
  Succ,   \* the indices its end may choose from: the destinations of its
          \* edges, the callee, or the values its function pointer may have
  Cont,   \* the return address a call pushes: the rest of the caller's block
  Body    \* the number of commands ahead of its end

Funcs == 0 .. N - 1

(***************************************************************************)
(* "branch" is Br, CondBr and Switch, whose edges exclude each other and   *)
(* leave no value out; "call" a call of a known function; "dyn" a call     *)
(* through a pointer; "ret" a return; "stop" is Unreachable and Resume,    *)
(* the terminators with no destination.                                    *)
(***************************************************************************)
Kinds == {"branch", "call", "dyn", "ret", "stop"}
Calls == {"call", "dyn"}

MainReturn == -1   \* the return address under main's frame
Pointers == Int    \* a function pointer may hold any word

ASSUME ProgramAssumption ==
  /\ N \in Nat
  /\ Main \in Funcs
  /\ Kind \in [Funcs -> Kinds]
  /\ Succ \in [Funcs -> SUBSET Pointers]
  /\ \A f \in Funcs : Kind[f] # "dyn" => Succ[f] \subseteq Funcs
  /\ \A f \in Funcs : Kind[f] \in {"branch"} \cup Calls => Succ[f] # {}
  /\ \A f \in Funcs : Kind[f] = "call" => \E callee \in Funcs : Succ[f] = {callee}
  /\ Cont \in [Funcs -> Funcs]
  /\ Body \in [Funcs -> Nat \ {0}]

Top(s)     == s[Len(s)]
Pop(s)     == SubSeq(s, 1, Len(s) - 1)
=============================================================================
