------------------------------ MODULE ModuleIR ------------------------------
(***************************************************************************)
(* The functions of an LLVM module.  A function is a sequence of basic     *)
(* blocks; a block has a `name`, its `phis`, its other instructions        *)
(* (`items`) and a terminator (`term`).  LLVM numbers the blocks that the  *)
(* program gives no name, starting with 0 in a function without parameters.*)
(*                                                                         *)
(* An operand is a record: "lit" of a number `n`, "reg" of a register      *)
(* `r`, "at" of the place `l` of a variable (a constant getelementptr),    *)
(* "fn" of a function `f`.  Of the instructions, "input" stands for all    *)
(* that compute a number and leaves it open which; "gep", "load", "store"  *)
(* and "call" are what they are in LLVM.                                   *)
(***************************************************************************)
EXTENDS Variables

CONSTANTS
  FnOrder,  \* the functions in the order of the module
  Blocks,   \* the blocks of each
  Params,   \* the registers in which a function finds its arguments
  RegType,  \* the type of what a register holds, in every function
  Main      \* where the program starts

ASSUME ModuleAssumption ==
  /\ ToSet(FnOrder) = Fn /\ IsInjective(FnOrder) /\ Main \in Fn
  /\ \A f \in Fn : Blocks[f] # <<>> /\ Params[f] \in Seq(DOMAIN RegType)
  /\ \A f \in Fn : \A b, c \in DOMAIN Blocks[f] :
       Blocks[f][b].name = Blocks[f][c].name => b = c

lit(n) == [op |-> "lit", n |-> n]
reg(r) == [op |-> "reg", r |-> r]
at(l)  == [op |-> "at", l |-> l]
fun(f) == [op |-> "fn", f |-> f]

input(r, from)     == [op |-> "input", dest |-> r, from |-> from]
gep(r, base, path) == [op |-> "gep", dest |-> r, base |-> base, path |-> path]
load(r, a)         == [op |-> "load", dest |-> r, from |-> a]
store(t, a, x)     == [op |-> "store", type |-> t, to |-> a, what |-> x]
call(r, f, args)   == [op |-> "call", dest |-> r, callee |-> f, args |-> args]

ret(x)             == [op |-> "ret", what |-> x]
br(b)              == [op |-> "br", to |-> b]
condbr(r, b, c)    == [op |-> "condbr", on |-> r, yes |-> b, no |-> c]
switch(r, cases, default) ==
  [op |-> "switch", on |-> r, cases |-> cases, default |-> default]
unreachable        == [op |-> "unreachable"]

(* llvm_ir::Name: a number, here as it is printed, or a text.              *)
number(text) == <<"number", text>>
named(text)  == <<"name", text>>

(* Blocks by name; LLVM's phis and branches cite them so.                  *)
IndexOf(f, b) == CHOOSE i \in DOMAIN Blocks[f] : Blocks[f][i].name = b
BlockOf(f, b) == Blocks[f][IndexOf(f, b)]
EntryOf(f)    == Blocks[f][1].name

(* What LLVM guarantees of a module: a block consists of the parts above,  *)
(* a call of a known function names one, and a terminator goes on with     *)
(* blocks of its own function.                                             *)
IsSequence(s) == s \in Seq(ToSet(s))
Names(f)      == {Blocks[f][i].name : i \in DOMAIN Blocks[f]}

Successors(t) ==
  CASE t.op = "br"     -> {t.to}
    [] t.op = "condbr" -> {t.yes, t.no}
    [] t.op = "switch" -> {t.default} \cup {t.cases[i][2] : i \in DOMAIN t.cases}
    [] t.op \in {"ret", "unreachable"} -> {}

WellFormedItem(x) ==
  /\ x.op \in {"input", "gep", "load", "store", "call"}
  /\ x.op = "gep" => IsSequence(x.path) /\ x.path # <<>>
  /\ x.op = "call" => IsSequence(x.args) /\ (x.callee.op = "fn" => x.callee.f \in Fn)

WellFormedTerm(f, t) ==
  /\ t.op \in {"br", "condbr", "switch", "ret", "unreachable"}
  /\ t.op = "switch" => IsSequence(t.cases)
  /\ Successors(t) \subseteq Names(f)

ASSUME BlocksAssumption ==
  /\ FnOrder \in Seq(Fn)
  /\ \A f \in Fn : IsSequence(Blocks[f])
  /\ \A f \in Fn : \A i \in DOMAIN Blocks[f] :
       LET b == Blocks[f][i]
       IN /\ b.name \in {number(b.name[2]), named(b.name[2])}
          /\ IsSequence(b.phis) /\ \A j \in DOMAIN b.phis : IsSequence(b.phis[j].from)
          /\ IsSequence(b.items) /\ \A j \in DOMAIN b.items : WellFormedItem(b.items[j])
          /\ WellFormedTerm(f, b.term)

-----------------------------------------------------------------------------
(* A place in a program, between two instructions: before segment k of a   *)
(* block, which follows its call number k and ends with the next call or   *)
(* with the terminator.                                                    *)
IsCall(item) == item.op = "call"
CallsIn(f, b) == SelectSeq([i \in DOMAIN BlockOf(f, b).items |-> i],
                           LAMBDA i : IsCall(BlockOf(f, b).items[i]))

SegmentItems(f, b, k) ==
  LET calls == CallsIn(f, b)
      first == IF k = 0 THEN 1 ELSE calls[k] + 1
      last  == IF k < Len(calls) THEN calls[k + 1] - 1 ELSE Len(BlockOf(f, b).items)
  IN [i \in 1 .. last - first + 1 |-> BlockOf(f, b).items[first + i - 1]]

CallAt(f, b, k) == BlockOf(f, b).items[CallsIn(f, b)[k]]
EndsInCall(f, b, k) == k < Len(CallsIn(f, b))

(* What the inputs of a segment may turn out to be, in their order.        *)
Inputs(items) ==
  LET inputs == SelectSeq(items, LAMBDA x : x.op = "input")
  IN {c \in [DOMAIN inputs -> UNION {x.from : x \in ToSet(inputs)}] :
        \A i \in DOMAIN inputs : c[i] \in inputs[i].from}
=============================================================================
