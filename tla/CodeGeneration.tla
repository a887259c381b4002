--------------------------- MODULE CodeGeneration ---------------------------
(***************************************************************************)
(* How compile_ir.rs turns the functions of a module into Minecraft        *)
(* functions.  A generated function has an `id`, made of the name of its   *)
(* LLVM function, a block and how many calls of the block come before it,  *)
(* and commands; before reify_block, also a terminator and whether it      *)
(* begins with a prolog.  A return address and the address of a function   *)
(* are operands ("text" and "fn") until the fixups put numbers for them.   *)
(***************************************************************************)
EXTENDS ModuleIR, Globals

CONSTANTS
  Norm,        \* of a name, what is left in lower case, with _ for $ . -
  Numerals,    \* of a text that parses as a number, the number's own text
  Intrinsics   \* the names of the intrinsic functions

ASSUME NumeralsAssumption == "0" \in DOMAIN Numerals /\ Numerals["0"] = "0"

(* The functions that compile_module adds to those of the module.          *)
RuntimeNames ==
  {"rust:__langcraft_call", "rust:__langcraft_return", "init",
   "__langcraft_on_tick", ""}

(* The program does not use their names, nor those of intrinsics.          *)
ASSUME NamesAssumption ==
  /\ IsSequence(Intrinsics) /\ IsInjective(Intrinsics)
  /\ ToSet(Intrinsics) \cap RuntimeNames = {}
  /\ \A f \in Fn : Norm[f] \notin ToSet(Intrinsics) \cup RuntimeNames

(* FunctionId::new_sub: nothing keeps different names different.           *)
NormBlock(b) == IF b = named(b[2]) THEN named(Norm[b[2]]) ELSE b

Id(f, block, sub) == <<Norm[f], NormBlock(block), sub>>

(* Display: a name, behind `-block` a block and behind `-sub` a number; the*)
(* last two are left out if they are 0.  No part has a dash.               *)
Zero == number("0")

Text(id) ==
  <<id[1],
    IF id[2] # Zero \/ id[3] # 0 THEN <<id[2][2]>> ELSE <<>>,
    IF id[3] # 0 THEN <<id[3]>> ELSE <<>>>>

(* FromStr: whatever looks like a number becomes one.                      *)
Read(t) == IF t \in DOMAIN Numerals THEN number(Numerals[t]) ELSE named(t)

Parse(text) ==
  <<text[1],
    IF text[2] = <<>> THEN Zero ELSE Read(text[2][1]),
    IF text[3] = <<>> THEN 0 ELSE text[3][1]>>

(* What a module needs for its functions and blocks to be told apart: names*)
(* that new_sub does not make equal, and no block with a numeral for a name*)
NamesApart ==
  /\ \A f, g \in Fn : Norm[f] = Norm[g] => f = g
  /\ \A f \in Fn : \A a, b \in Names(f) : NormBlock(a) = NormBlock(b) => a = b
  /\ \A f \in Fn : \A b \in Names(f) : Read(NormBlock(b)[2]) = NormBlock(b)

text(id) == [op |-> "text", text |-> Text(id)]

-----------------------------------------------------------------------------
(* Commands.                                                               *)
Assigned(r, x)    == [op |-> "assign", dest |-> r, what |-> x]
Added(r, x, n)    == [op |-> "add", dest |-> r, what |-> x, times |-> n]
Param(i, x)       == [op |-> "param", n |-> i, what |-> x]
Push(x)           == [op |-> "push", what |-> x]
Fetched(r)        == [op |-> "fetch", dest |-> r]
PhiFrom(i, r, x)  == [op |-> "phi", n |-> i, dest |-> r, what |-> x]
Ended(i)          == [op |-> "ended", n |-> i]
Prolog(f)         == [op |-> "prolog", params |-> Params[f]]
Cmd(op)           == [op |-> op]
CmdOf(op, x)      == [op |-> op, what |-> x]

(* The destination of an edge is taken if what was tested has none of the  *)
(* values in `unless` and, where `ifs` has any, is in there.               *)
Edge(ifs, unless, id) ==
  [op |-> "edge", ifs |-> ifs, unless |-> unless, to |-> Text(id)]

(* eval_operand: the address of a variable is known by now, that of a      *)
(* function is not.                                                        *)
EvalOperand(x) ==
  CASE x.op = "at" -> lit(AddressOf(x.l))
    [] x.op = "fn" -> IF fnAddr[x.f] = Unknown THEN x ELSE lit(fnAddr[x.f])
    [] OTHER       -> x

(* compile_getelementptr: constant indices add up to one offset; one that  *)
(* is known at run time only is added as often as an element has bytes.    *)
PointeeOf(x) == IF x.op = "at" THEN TypeOf(x.l) ELSE Ty[RegType[x.r]].to

GepIndex(dest, g, x, stride, inner) ==
  IF x.op = "lit"
  THEN [g EXCEPT !.offset = @ + stride * x.n, !.type = inner]
  ELSE [g EXCEPT !.adds = Append(@, Added(dest, x, stride)), !.type = inner]

GepPart(dest, g, x) ==
  IF Kind(g.type) = "array"
  THEN GepIndex(dest, g, x, Stride(Ty[g.type].of), Ty[g.type].of)
  ELSE [g EXCEPT !.offset = @ + PartOffset(g.type, x.n), !.type = Part(g.type, x.n)]

GepStart(x, from) ==
  GepIndex(x.dest, [type |-> from, offset |-> 0, adds |-> <<>>],
           Head(x.path), Stride(from), from)

GepAdded(dest, base, g) ==
  (IF base.op = "lit" THEN <<Assigned(dest, lit(base.n + g.offset))>>
   ELSE <<Assigned(dest, base), Added(dest, lit(g.offset), 1)>>) \o g.adds

GepEnd(x) ==
  FoldLeft(LAMBDA g, y : GepPart(x.dest, g, y),
           GepStart(x, PointeeOf(x.base)), Tail(x.path))

CompileGep(x) == GepAdded(x.dest, EvalOperand(x.base), GepEnd(x))

(* compile_instr, but for calls.                                           *)
CompileInstr(x) ==
  CASE x.op = "input" -> <<input(x.dest, x.from)>>
    [] x.op = "gep"   -> CompileGep(x)
    [] x.op = "load"  -> <<[op |-> "read", dest |-> x.dest,
                            what |-> EvalOperand(x.from),
                            size |-> Size(RegType[x.dest])]>>
    [] x.op = "store" -> <<[op |-> "write", to |-> EvalOperand(x.to),
                            what |-> EvalOperand(x.what),
                            size |-> Size(x.type)]>>

(* The phis of a block, one after the other.                               *)
CompilePhi(f, phi) ==
  [i \in DOMAIN phi.from |->
     PhiFrom(IndexOf(f, phi.from[i][1]) - 1, phi.dest, EvalOperand(phi.from[i][2]))]

CompilePhis(f, b) ==
  FoldLeft(LAMBDA cmds, phi : cmds \o CompilePhi(f, phi), <<>>, b.phis)

(* compile_call of a function of the module, or through a pointer.         *)
BeforeCall(id, x) ==
  <<Push(text(id))>> \o [i \in DOMAIN x.args |-> Param(i, EvalOperand(x.args[i]))]

AfterCall(x) == <<Fetched(x.dest)>>

CallEnd(x) ==
  IF x.callee.op = "fn" THEN [op |-> "static", f |-> x.callee.f]
  ELSE [op |-> "dyn", what |-> x.callee]

(* compile_function: a block is cut behind every call.                     *)
Cut(f, first, b, c, x) ==
  LET id == Id(f, b.name, Len(c.done))
  IN IF IsCall(x)
     THEN [done |-> Append(c.done,
                      [parent |-> f,
                       id     |-> id,
                       cmds   |-> c.cmds \o BeforeCall(id, x),
                       prolog |-> first /\ c.done = <<>>,
                       term   |-> CallEnd(x)]),
           cmds |-> AfterCall(x)]
     ELSE [c EXCEPT !.cmds = @ \o CompileInstr(x)]

LastPart(f, i, b, c) ==
  Append(c.done, [parent |-> f,
                  id     |-> Id(f, b.name, Len(c.done)),
                  cmds   |-> Append(c.cmds, Ended(i - 1)),
                  prolog |-> i = 1 /\ c.done = <<>>,
                  term   |-> b.term])

CutBlock(f, i, b) ==
  FoldLeft(LAMBDA c, x : Cut(f, i = 1, b, c, x),
           [done |-> <<>>, cmds |-> CompilePhis(f, b)], b.items)

CompileBlock(f, i) == LastPart(f, i, Blocks[f][i], CutBlock(f, i, Blocks[f][i]))

(* Mutants: %phi is set as a block begins; all parts of a block have the   *)
(* number of the first.                                                    *)
CompileFunctionPhiFirst(f) ==
  FoldLeft(LAMBDA bs, i :
             bs \o [j \in DOMAIN CompileBlock(f, i) |->
                      [CompileBlock(f, i)[j] EXCEPT
                         !.cmds = (IF j = 1 THEN <<Ended(i - 1)>> ELSE <<>>)
                                  \o SelectSeq(@, LAMBDA c : c.op # "ended")]],
           <<>>, [i \in DOMAIN Blocks[f] |-> i])

CompileFunctionSameSub(f) ==
  FoldLeft(LAMBDA bs, i : bs \o [j \in DOMAIN CompileBlock(f, i) |->
                                   [CompileBlock(f, i)[j] EXCEPT !.id[3] = 0]],
           <<>>, [i \in DOMAIN Blocks[f] |-> i])

CompileFunction(f) ==
  FoldLeft(LAMBDA bs, i : bs \o CompileBlock(f, i), <<>>, [i \in DOMAIN Blocks[f] |-> i])

-----------------------------------------------------------------------------
(* compile_terminator and BlockEdge::into_conds.  A switch on a byte or a  *)
(* halfword looks at no other bits of the holder.                          *)
Narrowed(r) ==
  LET size == Size(RegType[r])
  IN IF size < 4 THEN [op |-> "test", what |-> reg(r), by |-> Byte ^ size]
     ELSE [op |-> "test", what |-> reg(r), by |-> 0]

SwitchCase(t, i) == SignExtended(t.cases[i][1], Size(RegType[t.on]))

(* Mutant: the default destination excludes only the first case.           *)
DefaultButFirst(t) == {SwitchCase(t, i) : i \in DOMAIN t.cases \cap {1}}

DefaultUnless(t) == {SwitchCase(t, i) : i \in DOMAIN t.cases}

Switched(f, t) ==
  <<Narrowed(t.on)>>
  \o [i \in DOMAIN t.cases |->
        Edge({SwitchCase(t, i)}, {}, Id(f, t.cases[i][2], 0))]
  \o <<Edge({}, DefaultUnless(t), Id(f, t.default, 0))>>

(* compile_block_end, as far as it chooses what runs next.                 *)
CompileBlockEnd(f, t, starts) ==
  CASE t.op = "static" -> <<Edge({}, {}, starts[t.f])>>
    [] t.op = "dyn"    -> <<CmdOf("pointer", t.what), Cmd("call")>>
    [] t.op = "ret"    -> <<CmdOf("result", EvalOperand(t.what)),
                            Cmd("load_regs"), Cmd("return")>>
    [] t.op = "br"     -> <<Edge({}, {}, Id(f, t.to, 0))>>
    [] t.op = "condbr" -> <<[op |-> "test", what |-> reg(t.on), by |-> 0],
                            Edge({1}, {}, Id(f, t.yes, 0)),
                            Edge({0}, {}, Id(f, t.no, 0))>>
    [] t.op = "switch" -> Switched(f, t)
    [] t.op = "unreachable" -> <<Cmd("stop")>>

ReifyBlock(block, starts) ==
  [id   |-> block.id,
   cmds |-> (IF block.prolog THEN <<Prolog(block.parent)>> ELSE <<>>) \o block.cmds
            \o CompileBlockEnd(block.parent, block.term, starts)]

-----------------------------------------------------------------------------
(* Fixups: a place is an index into the list, counted from 0.              *)
Position(list, id) == Min({i \in DOMAIN list : list[i].id = id}) - 1

(* apply_return_fixups: the part after the one whose name was pushed.      *)
ReturnTo(id) == [id EXCEPT ![3] = @ + 1]

Fix(list, starts, x) ==
  CASE x.op = "text" -> lit(Position(list, ReturnTo(Parse(x.text))))
    [] x.op = "fn"   -> lit(Position(list, starts[x.f]))
    [] OTHER         -> x

FixCmd(list, starts, c) ==
  IF "what" \in DOMAIN c THEN [c EXCEPT !.what = Fix(list, starts, @)] ELSE c

ApplyFixups(list, starts) ==
  [i \in DOMAIN list |->
     [list[i] EXCEPT !.cmds = [j \in DOMAIN @ |-> FixCmd(list, starts, @[j])]]]
=============================================================================
