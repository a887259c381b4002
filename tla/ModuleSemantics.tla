--------------------------- MODULE ModuleSemantics ---------------------------
(***************************************************************************)
(* What an LLVM module means.  Every activation of a function has          *)
(* registers of its own; the phis of a block are assigned together, by the *)
(* block that control came from; a call goes to the function its operand   *)
(* stands for and comes back behind the call; and every scalar of the      *)
(* variables holds what its initialiser says when the program starts, and  *)
(* from then on what was stored there last.  Nothing here knows of         *)
(* addresses, of the places of functions, or of how blocks are cut.        *)
(***************************************************************************)
EXTENDS ModuleIR

VARIABLES
  pos,     \* function, block and segment to run next, or Halted
  prev,    \* the index of the block before this one, as a block begins
  local,   \* the registers assigned so far in the running activation
  stack,   \* the activations that wait: where they go on, and registers
  passed,  \* the arguments, as a function begins
  result,  \* the result of the call, as the segment behind it begins
  value    \* the value of each scalar, once the program was started

moduleVars == <<pos, prev, local, stack, passed, result, value>>

Halted == <<>>

Init ==
  /\ pos = Halted /\ prev = <<>> /\ local = <<>> /\ stack = <<>>
  /\ passed = <<>> /\ result = <<>> /\ value = <<>>

(* The program is started, perhaps again: no value survives.               *)
Start ==
  /\ pos' = <<Main, EntryOf(Main), 0>>
  /\ value' = [l \in Leaf |-> Initial(l)]
  /\ prev' = <<>> /\ local' = <<>> /\ stack' = <<>>
  /\ passed' = <<>> /\ result' = <<>>

-----------------------------------------------------------------------------
(* The segment at pos.                                                     *)
F == pos[1]
B == pos[2]
K == pos[3]

Assign(regs, r, x) == (r :> x) @@ regs

Eval(regs, x) ==
  CASE x.op = "lit" -> x.n
    [] x.op = "reg" -> regs[x.r]
    [] x.op = "at"  -> PlaceValue(x.l)
    [] x.op = "fn"  -> FnValue(x.f)

PhiValue(phi) ==
  LET came == CHOOSE i \in DOMAIN phi.from : IndexOf(F, phi.from[i][1]) = prev[1]
  IN Eval(local, phi.from[came][2])

Received == [r \in ToSet(Params[F]) |->
               passed[CHOOSE i \in DOMAIN Params[F] : Params[F][i] = r]]

Phis == LET phis == BlockOf(F, B).phis
        IN [r \in {phi.dest : phi \in ToSet(phis)} |->
              PhiValue(CHOOSE phi \in ToSet(phis) : phi.dest = r)] @@ local

Begun ==
  CASE K > 0                     -> Assign(local, CallAt(F, B, K).dest, result[1])
    [] K = 0 /\ B = EntryOf(F)   -> Received
    [] K = 0 /\ B # EntryOf(F)   -> Phis

(* getelementptr: the first index goes from one element to another, the    *)
(* others go into an element.                                              *)
Moved(path, n) == IF n = 0 THEN path ELSE Front(path) \o <<Last(path) + n>>

Element(regs, x) ==
  LET base == Eval(regs, x.base)[2]
      path == [i \in DOMAIN x.path |-> Eval(regs, x.path[i])]
  IN <<base[1], Moved(base[2], path[1]) \o Tail(path)>>

IsInt(t) == Kind(t) = "int"

(* A number narrower than a word is loaded without its sign.               *)
Loaded(t, data)  == IF IsInt(t) THEN Wrap(Number(data)) ELSE data
Encoded(t, x)    == IF IsInt(t) THEN Bytes(x, Size(t)) ELSE x

Execute(st, x) ==
  CASE x.op = "input" -> [st EXCEPT !.regs = Assign(@, x.dest, Head(st.given)),
                                    !.given = Tail(@)]
    [] x.op = "gep"   -> [st EXCEPT !.regs = Assign(@, x.dest, PlaceValue(Element(@, x)))]
    [] x.op = "load"  -> LET l == Eval(st.regs, x.from)[2]
                         IN [st EXCEPT !.regs = Assign(@, x.dest,
                                         Loaded(TypeOf(l), st.value[l]))]
    [] x.op = "store" -> LET l == Eval(st.regs, x.to)[2]
                         IN [st EXCEPT !.value[l] =
                                         Encoded(TypeOf(l), Eval(st.regs, x.what))]

Ran(choice) ==
  FoldLeft(Execute, [regs |-> Begun, given |-> choice, value |-> value],
           SegmentItems(F, B, K))

-----------------------------------------------------------------------------
(* The end of a segment, after which the registers are `regs`.             *)
Leave(regs) ==
  LET item == CallAt(F, B, K + 1)
      callee == Eval(regs, item.callee)[2]
  IN /\ EndsInCall(F, B, K)
     /\ pos' = <<callee, EntryOf(callee), 0>>
     /\ passed' = [i \in DOMAIN item.args |-> Eval(regs, item.args[i])]
     /\ stack' = Append(stack, [pos |-> <<F, B, K + 1>>, local |-> regs])
     /\ prev' = <<>> /\ local' = <<>> /\ result' = <<>>

Equal(t, m, n) == (m - n) % Byte ^ Size(t) = 0

Destination(regs, t) ==
  CASE t.op = "br"     -> t.to
    [] t.op = "condbr" -> IF regs[t.on] = 1 THEN t.yes ELSE t.no
    [] t.op = "switch" ->
         LET hits == {i \in DOMAIN t.cases : Equal(RegType[t.on], regs[t.on], t.cases[i][1])}
         IN IF hits = {} THEN t.default ELSE t.cases[CHOOSE i \in hits : TRUE][2]

Branch(regs, t) ==
  /\ t.op \in {"br", "condbr", "switch"}
  /\ pos' = <<F, Destination(regs, t), 0>>
  /\ prev' = <<IndexOf(F, B)>>
  /\ local' = regs
  /\ passed' = <<>> /\ result' = <<>>
  /\ UNCHANGED stack

Return(regs, t) ==
  /\ t.op = "ret" /\ stack # <<>>
  /\ pos' = Last(stack).pos
  /\ local' = Last(stack).local
  /\ result' = <<Eval(regs, t.what)>>
  /\ stack' = Front(stack)
  /\ prev' = <<>> /\ passed' = <<>>

(* main returns, or a block without an end is reached.                     *)
Stop(t) ==
  /\ t.op = "unreachable" \/ (t.op = "ret" /\ stack = <<>>)
  /\ pos' = Halted
  /\ stack' = <<>> /\ prev' = <<>> /\ local' = <<>>
  /\ passed' = <<>> /\ result' = <<>>

Step ==
  /\ pos # Halted
  /\ \E choice \in Inputs(SegmentItems(F, B, K)) :
       LET end == Ran(choice)
           t   == BlockOf(F, B).term
       IN /\ value' = end.value
          /\ \/ Leave(end.regs)
             \/ /\ ~EndsInCall(F, B, K)
                /\ Branch(end.regs, t) \/ Return(end.regs, t) \/ Stop(t)

Next == Start \/ Step

Spec == Init /\ [][Next]_moduleVars
=============================================================================
