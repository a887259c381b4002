------------------------------ MODULE Routines ------------------------------
(***************************************************************************)
(* The functions of a compiled module, as far as calls go.  LLVM's local   *)
(* values live in scoreboard entries ("holders") that are global: two      *)
(* functions that name a value alike, and two activations of the same      *)
(* function, share them.                                                   *)
(***************************************************************************)
EXTENDS Integers, Sequences, SequencesExt

CONSTANTS
  Fn,      \* the functions
  Main,    \* the one the program starts with
  Holder,  \* the holders of local values
  Param,   \* the holders %param<i>%0, in order
  Saved,   \* the clobber list of a function: what it saves, in this order
  Args,    \* the holders of a function's parameters, one word each
  Site,    \* the blocks that follow a call, which are return addresses
  Caller,  \* the function such a block belongs to
  Dest,    \* the holder it puts the result in
  Words    \* the values of a holder

ParamHolders == Range(Param)

(* What a function may keep a value in: its own locals.                    *)
Locals(f) == Range(Saved[f]) \ ParamHolders

ASSUME RoutinesAssumption ==
  /\ Main \in Fn
  /\ Param \in Seq(ParamHolders) /\ IsInjective(Param)
  /\ Holder \cap ParamHolders = {}
  /\ \A f \in Fn : /\ Saved[f] \in Seq(Holder \cup ParamHolders)
                   /\ IsInjective(Saved[f])
                   /\ Args[f] \in Seq(Locals(f))
                   /\ IsInjective(Args[f])
                   /\ Len(Args[f]) <= Len(Param)
  /\ Site \subseteq Nat
  /\ \A s \in Site : Caller[s] \in Fn /\ Dest[s] \in Locals(Caller[s])
  /\ Words \subseteq Int /\ Site \cup {-1} \subseteq Words

MainReturn == -1
=============================================================================
