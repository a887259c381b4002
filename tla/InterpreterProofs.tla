-------------------------- MODULE InterpreterProofs --------------------------
(***************************************************************************)
(* Proofs about the interpreter: for every program, every command limit    *)
(* and every bound on the commands of a block, command by command.         *)
(***************************************************************************)
EXTENDS Interpreter, SequenceTheorems, FiniteSetTheorems, TLAPS

-----------------------------------------------------------------------------
(***************************************************************************)
(* The lines of a block that ends in a destination: its body, what its     *)
(* terminator needs, the charge, the edges under the limit, the teleport,  *)
(* the edges at the limit, and the three commands that end the tick.       *)
(***************************************************************************)
ChargeAt(f)  == Body[f] + Len(TerminatorCmds(f)) + 1
EdgeCount(f) == Len(Edges(f, "under", "next"))
TpAt(f)      == ChargeAt(f) + EdgeCount(f) + 1
AirAt(f)     == TpAt(f) + EdgeCount(f) + 1

Frames == [func : AllFuncs, line : Nat, pos : Positions]

Across(pos)  == IF pos = "A" THEN "B" ELSE "A"
PlaceOf(pos) == IF pos = "A" THEN 1 ELSE 2

CommandIn(rs, pos) ==
  CASE pos = "A" -> rs.cmd_1
    [] pos = "B" -> rs.cmd_2
    [] pos = "R" -> rs.resume_cmd

(* Where the block with the bottom frame b writes its destination.         *)
Goal(b) == IF count < Limit THEN Across(b.pos) ELSE "R"

(* The pointer it will be, as soon as that is settled.                     *)
Aim(f) ==
  IF Kind[f] = "ret" THEN Top(before)
  ELSE IF Kind[f] = "call" THEN CHOOSE callee \in Succ[f] : TRUE
  ELSE chosen

Settled(b) ==
  /\ Kind[b.func] = "branch" /\ b.line > 1 => chosen \in Succ[b.func]
  /\ Kind[b.func] = "dyn" /\ b.line > Body[b.func] + 1 => chosen \in Succ[b.func]

(* A pointer that is neither a function nor main's return address is never *)
(* written: the interpreter fails first, and so it does when main returns  *)
(* at the limit.                                                           *)
Written(pos, p) ==
  IF p \in Funcs THEN CommandIn(run_state, pos) = p
  ELSE /\ p = MainReturn /\ pos # "R"
       /\ CommandIn(run_state, pos) = NoCmd

Bottomed(s) ==
  /\ s \in Seq(Int)
  /\ s # <<>>
  /\ s[1] = MainReturn
  /\ \A i \in 2 .. Len(s) : s[i] \in Funcs

StackAt(b, popped) ==
  IF Kind[b.func] \in Calls /\ b.line > 1 THEN Append(before, Cont[b.func])
  ELSE IF Kind[b.func] = "ret" /\ popped THEN Pop(before)
  ELSE before

InBlock(b) ==
  /\ b \in Frames
  /\ b.func \in Funcs
  /\ b.pos \in {"A", "B"}
  /\ run_state.idx = PlaceOf(b.pos)
  /\ Bottomed(before)
  /\ Settled(b)

(* The edges behind it have written the destination, if it was theirs.     *)
Done(b) ==
  IF count < Limit THEN b.line >= TpAt(b.func) ELSE b.line >= AirAt(b.func)

EdgesBehind(b) ==
  \A i \in DOMAIN SetToSeq(Succ[b.func]) :
    /\ Kind[b.func] \in {"branch", "call"}
    /\ SetToSeq(Succ[b.func])[i] = Aim(b.func)
    /\ b.line > (IF count < Limit THEN ChargeAt(b.func) ELSE TpAt(b.func)) + i
    => CommandIn(run_state, Goal(b)) = Aim(b.func)

AtLine(b) ==
  /\ InBlock(b)
  /\ b.line \in 1 .. (IF Kind[b.func] = "stop" THEN Body[b.func] + 1
                      ELSE AirAt(b.func) + 2)
  /\ stack = StackAt(b, Done(b))
  /\ EdgesBehind(b)
  /\ Done(b) => Written(Goal(b), Aim(b.func))
  /\ run_state.next_pos =
       IF count < Limit /\ b.line > TpAt(b.func) THEN b.pos ELSE Across(b.pos)
  /\ b.line > AirAt(b.func) /\ count >= Limit =>
       CommandIn(run_state, Across(b.pos)) = NoCmd
  /\ run_state.tick_queued <=> b.line > AirAt(b.func) + 1 /\ count >= Limit

OwnLine(b) == call_stack = <<b>> /\ AtLine(b)

(* The block has called a function that follows a pointer.                 *)
Waits(b) ==
  /\ InBlock(b)
  /\ b.line = IF count < Limit THEN TpAt(b.func) ELSE AirAt(b.func)
  /\ run_state.next_pos = Across(b.pos)
  /\ ~run_state.tick_queued

Returning(b, r) ==
  /\ call_stack = <<b, r>>
  /\ Waits(b) /\ Kind[b.func] = "ret"
  /\ r \in Frames /\ r.func = ReturnFn /\ r.line \in {1, 2} /\ r.pos = Goal(b)
  /\ stack = StackAt(b, r.line = 2)
  /\ r.line = 2 => chosen = Aim(b.func)

Calling(b, c) ==
  /\ \/ Kind[b.func] = "dyn" /\ call_stack = <<b, c>>
     \/ /\ Kind[b.func] = "ret"
        /\ \E r \in Frames :
             r.func = ReturnFn /\ r.line = 3 /\ call_stack = <<b, r, c>>
  /\ Waits(b)
  /\ c \in Frames /\ c.func = CallFn /\ c.line \in 1 .. N + 3 /\ c.pos = Goal(b)
  /\ stack = StackAt(b, TRUE)
  /\ chosen = Aim(b.func)
  /\ chosen \in Funcs /\ c.line > chosen + 2 => Written(c.pos, chosen)
  /\ chosen = MainReturn /\ c.line > 1 => Written(c.pos, chosen)

(* The impulse block runs.                                                 *)
Ticking(b) ==
  /\ call_stack = <<b>>
  /\ b \in Frames /\ b.func = OnTickFn /\ b.line \in 1 .. 4
  /\ run_state.idx = 0
  /\ ~run_state.tick_queued
  /\ run_state.resume_cmd \in Funcs
  /\ b.line > 3 => run_state.cmd_1 = run_state.resume_cmd
  /\ Bottomed(before)
  /\ stack = before

(* The user's first command, and the init function that it calls.          *)
Booting(m) ==
  /\ call_stack = <<m>>
  /\ m \in Frames /\ m.func = MainFn /\ m.line \in {1, 2}
  /\ run_state.idx = NoCmd /\ ~run_state.tick_queued
  /\ before = <<>>
  /\ m.line = 2 => stack = <<MainReturn>> /\ run_state.resume_cmd = Main

Initing(m, i) ==
  /\ call_stack = <<m, i>>
  /\ m \in Frames /\ m.func = MainFn /\ m.line = 2
  /\ i \in Frames /\ i.func = InitFn /\ i.line \in 1 .. 5
  /\ run_state.idx = NoCmd /\ ~run_state.tick_queued
  /\ before = <<>>
  /\ i.line > 1 => stack = <<MainReturn>>
  /\ i.line > 4 => run_state.resume_cmd = Main

(* The program has ended, and main has returned: a pointer that leads to   *)
(* main's return address would end it too.                                 *)
Ended ==
  /\ call_stack = <<>>
  /\ ~run_state.tick_queued
  /\ (\A f \in Funcs : MainReturn \notin Succ[f]) => stack = <<>>

RunInv ==
  \/ \E m \in Frames : Booting(m)
  \/ \E m \in Frames : \E i \in Frames : Initing(m, i)
  \/ \E b \in Frames : Ticking(b)
  \/ \E b \in Frames : OwnLine(b)
  \/ \E b \in Frames : \E r \in Frames : Returning(b, r)
  \/ \E b \in Frames : \E c \in Frames : Calling(b, c)
  \/ Ended

InterpInv ==
  /\ TypeOK
  /\ call_stack \in Seq(Frames)
  /\ chosen \in Int
  /\ TickQueuedOnce
  /\ status = "ok" => RunInv

-----------------------------------------------------------------------------
(***************************************************************************)
(* The generated commands.                                                 *)
(***************************************************************************)
Sides == {"always", "under", "over"}

Cmds ==
  [op : {"skip", "push", "decide", "unreachable", "set", "call", "charge", "tp",
         "air", "blank", "redstone", "reset", "pop", "boot", "clone"},
   arg : Int, pos : Positions \cup {"here", "next"}, when : Sides,
   test : SUBSET Int, unless : BOOLEAN]

Ops == {"skip", "push", "decide", "unreachable", "set", "call", "charge", "tp",
        "air", "blank", "redstone", "reset", "pop", "boot", "clone"}

LEMMA DoIs ==
  ASSUME NEW op \in Ops, NEW arg \in Int
  PROVE  Do(op, arg) \in Cmds
BY DEF Do, Cmds, Ops, Sides

LEMMA FormsAre ==
  ASSUME NEW c \in Cmds
  PROVE  /\ \A pos \in Positions \cup {"here", "next"} : At(pos, c) \in Cmds
         /\ \A side \in Sides : When(side, c) \in Cmds
         /\ \A values \in SUBSET Int : If(values, c) \in Cmds /\ Unless(values, c) \in Cmds
BY DEF At, When, If, Unless, Cmds

(* A list with one element, or made of two lists.                          *)
LEMMA OneElement ==
  ASSUME NEW S, NEW x \in S
  PROVE  <<x>> \in Seq(S) /\ Len(<<x>>) = 1 /\ <<x>>[1] = x
OBVIOUS

LEMMA Lists ==
  ASSUME NEW S, NEW n \in Nat, NEW s \in [1 .. n -> S]
  PROVE  s \in Seq(S) /\ Len(s) = n /\ DOMAIN s = 1 .. n
OBVIOUS

(* SetToSeq lists a set that the compiler can list.                        *)
LEMMA ListedSet ==
  ASSUME NEW S, IsFiniteSet(S)
  PROVE  /\ SetToSeq(S) \in [1 .. Cardinality(S) -> S]
         /\ SetToSeq(S) \in Seq(S)
         /\ Len(SetToSeq(S)) = Cardinality(S)
         /\ DOMAIN SetToSeq(S) = 1 .. Cardinality(S)
         /\ Cardinality(S) \in Nat
         /\ \A x \in S : \E i \in DOMAIN SetToSeq(S) : SetToSeq(S)[i] = x
<1>1. Cardinality(S) \in Nat /\ ExistsBijection(1 .. Cardinality(S), S)
  BY FS_CardinalityType
<1>2. PICK f : f \in Bijection(1 .. Cardinality(S), S)
  BY <1>1 DEF ExistsBijection
<1>3. f \in [1 .. Cardinality(S) -> S] /\ IsInjective(f)
  BY <1>2 DEF Bijection, Injection
<1>4. SetToSeq(S) \in [1 .. Cardinality(S) -> S] /\ IsInjective(SetToSeq(S))
  BY <1>3 DEF SetToSeq
<1>5. SetToSeq(S) \in Injection(1 .. Cardinality(S), S)
  BY <1>4 DEF Injection
<1>6. IsFiniteSet(1 .. Cardinality(S)) /\ Cardinality(1 .. Cardinality(S)) = Cardinality(S)
  BY <1>1, FS_Interval
<1>7. SetToSeq(S) \in Surjection(1 .. Cardinality(S), S)
  BY <1>5, <1>6, FS_Injection
<1>8. \A x \in S : \E i \in 1 .. Cardinality(S) : SetToSeq(S)[i] = x
  BY <1>7 DEF Surjection
<1> QED
  BY <1>1, <1>4, <1>8, Lists

LEMMA SuccListed ==
  ASSUME NEW f \in Funcs, Kind[f] # "dyn"
  PROVE  /\ Succ[f] \subseteq Funcs
         /\ IsFiniteSet(Succ[f])
         /\ Kind[f] \in {"branch", "call"} => Len(SetToSeq(Succ[f])) >= 1
         /\ Kind[f] = "call" => Succ[f] = {CHOOSE callee \in Succ[f] : TRUE}
<1>1. Succ[f] \subseteq Funcs
  BY ProgramAssumption
<1>2. IsFiniteSet(Funcs)
  BY ProgramAssumption, FS_Interval DEF Funcs
<1>3. IsFiniteSet(Succ[f])
  BY <1>1, <1>2, FS_Subset
<1>4. Kind[f] \in {"branch", "call"} => Succ[f] # {}
  BY ProgramAssumption DEF Calls
<1>5. Kind[f] \in {"branch", "call"} => Cardinality(Succ[f]) # 0
  BY <1>3, <1>4, FS_EmptySet
<1>6. Kind[f] = "call" => Succ[f] = {CHOOSE callee \in Succ[f] : TRUE}
  BY ProgramAssumption
<1> QED
  BY <1>1, <1>3, <1>5, <1>6, ListedSet

EdgeCmd(f, side, pos, i) ==
  LET dests == SetToSeq(Succ[f])
  IN When(side, At(pos, IF Len(dests) = 1 THEN Do("set", dests[i])
                        ELSE If({dests[i]}, Do("set", dests[i]))))

LEMMA EdgesAre ==
  ASSUME NEW f \in Funcs, NEW side \in {"under", "over"}, NEW pos \in {"next", "R"}
  PROVE  /\ Edges(f, side, pos) \in Seq(Cmds)
         /\ Len(Edges(f, side, pos)) =
              IF Kind[f] \in {"dyn", "ret"} THEN 1 ELSE Len(SetToSeq(Succ[f]))
         /\ Kind[f] = "dyn" =>
              Edges(f, side, pos)[1] = When(side, At(pos, Do("call", CallFn)))
         /\ Kind[f] = "ret" =>
              Edges(f, side, pos)[1] = When(side, At(pos, Do("call", ReturnFn)))
         /\ Kind[f] \notin {"dyn", "ret"} =>
              \A i \in DOMAIN SetToSeq(Succ[f]) :
                Edges(f, side, pos)[i] = EdgeCmd(f, side, pos, i)
<1>1. side \in Sides /\ pos \in Positions \cup {"here", "next"}
  BY DEF Sides, Positions
<1>2. \A c \in Cmds : When(side, At(pos, c)) \in Cmds
  BY <1>1, FormsAre
<1>3. CASE Kind[f] = "dyn"
  <2>1. Do("call", CallFn) \in Cmds
    BY DoIs, ProgramAssumption DEF Ops, CallFn
  <2>2. Edges(f, side, pos) = <<When(side, At(pos, Do("call", CallFn)))>>
    BY <1>3 DEF Edges
  <2> QED
    BY <1>2, <1>3, <2>1, <2>2
<1>4. CASE Kind[f] = "ret"
  <2>1. Do("call", ReturnFn) \in Cmds
    BY DoIs, ProgramAssumption DEF Ops, ReturnFn
  <2>2. Edges(f, side, pos) = <<When(side, At(pos, Do("call", ReturnFn)))>>
    BY <1>4 DEF Edges
  <2> QED
    BY <1>2, <1>4, <2>1, <2>2
<1>5. CASE Kind[f] \notin {"dyn", "ret"}
  <2> DEFINE dests == SetToSeq(Succ[f])
  <2>1. Succ[f] \subseteq Funcs /\ IsFiniteSet(Succ[f])
    BY <1>5, SuccListed
  <2>2. /\ Len(dests) \in Nat /\ DOMAIN dests = 1 .. Len(dests)
        /\ \A i \in 1 .. Len(dests) : dests[i] \in Funcs
    BY <2>1, ListedSet
  <2>3. \A i \in 1 .. Len(dests) : EdgeCmd(f, side, pos, i) \in Cmds
    <3> SUFFICES ASSUME NEW i \in 1 .. Len(dests) PROVE EdgeCmd(f, side, pos, i) \in Cmds
      OBVIOUS
    <3>1. dests[i] \in Int
      BY <2>2 DEF Funcs
    <3>2. Do("set", dests[i]) \in Cmds
      BY <3>1, DoIs DEF Ops
    <3>3. If({dests[i]}, Do("set", dests[i])) \in Cmds
      BY <3>1, <3>2, FormsAre
    <3> QED
      BY <1>2, <3>2, <3>3 DEF EdgeCmd
  <2>4. Edges(f, side, pos) = [i \in 1 .. Len(dests) |-> EdgeCmd(f, side, pos, i)]
    BY <1>5, <2>2 DEF Edges, EdgeCmd
  <2>5. Edges(f, side, pos) \in [1 .. Len(dests) -> Cmds]
    BY <2>3, <2>4
  <2>6. Edges(f, side, pos) \in Seq(Cmds) /\ Len(Edges(f, side, pos)) = Len(dests)
    BY <2>2, <2>5, Lists
  <2>7. \A i \in DOMAIN dests : Edges(f, side, pos)[i] = EdgeCmd(f, side, pos, i)
    BY <2>2, <2>4
  <2> QED
    BY <1>5, <2>6, <2>7
<1> QED
  BY <1>3, <1>4, <1>5

LEMMA CodeNumbers ==
  ASSUME NEW f \in Funcs
  PROVE  /\ Body[f] \in Nat /\ Body[f] >= 1
         /\ Len(TerminatorCmds(f)) = CASE Kind[f] \in {"ret", "dyn"} -> 1
                                      [] Kind[f] = "stop" -> 2
                                      [] OTHER -> 0
         /\ EdgeCount(f) \in Nat
         /\ Kind[f] # "stop" => EdgeCount(f) >= 1
         /\ Kind[f] \in {"dyn", "ret"} => EdgeCount(f) = 1
         /\ Kind[f] \in {"branch", "call"} => EdgeCount(f) = Len(SetToSeq(Succ[f]))
         /\ Kind[f] \in {"branch", "call", "dyn", "ret", "stop"}
<1>1. Body[f] \in Nat /\ Body[f] >= 1 /\ Kind[f] \in {"branch", "call", "dyn", "ret", "stop"}
  BY ProgramAssumption DEF Kinds
<1>2. Len(TerminatorCmds(f)) = CASE Kind[f] \in {"ret", "dyn"} -> 1
                                 [] Kind[f] = "stop" -> 2
                                 [] OTHER -> 0
  BY <1>1 DEF TerminatorCmds
<1>3. /\ Edges(f, "under", "next") \in Seq(Cmds)
      /\ Len(Edges(f, "under", "next")) =
           IF Kind[f] \in {"dyn", "ret"} THEN 1 ELSE Len(SetToSeq(Succ[f]))
  BY EdgesAre
<1>4. EdgeCount(f) \in Nat
  BY <1>3 DEF EdgeCount
<1>5. EdgeCount(f) = IF Kind[f] \in {"dyn", "ret"} THEN 1 ELSE Len(SetToSeq(Succ[f]))
  BY <1>3 DEF EdgeCount
<1>6. Kind[f] \in {"branch", "call"} => EdgeCount(f) >= 1
  BY <1>5, SuccListed
<1> QED
  BY <1>1, <1>2, <1>4, <1>5, <1>6

(***************************************************************************)
(* Where a block's commands are in its list.                               *)
(***************************************************************************)
LEMMA CodeOf ==
  /\ \A f \in Funcs : f \in AllFuncs /\ Code[f] = BodyCmds(f) \o BlockEnd(f)
  /\ Code[CallFn] = CallCmds /\ CallFn \in AllFuncs /\ CallFn \notin Funcs
  /\ Code[ReturnFn] = ReturnCmds /\ ReturnFn \in AllFuncs /\ ReturnFn \notin Funcs
  /\ Code[InitFn] = InitCmds /\ InitFn \in AllFuncs /\ InitFn \notin Funcs
  /\ Code[OnTickFn] = OnTickCmds /\ OnTickFn \in AllFuncs /\ OnTickFn \notin Funcs
  /\ Code[MainFn] = MainCmds /\ MainFn \in AllFuncs /\ MainFn \notin Funcs
  /\ N \in Nat
<1>1. N \in Nat
  BY ProgramAssumption
<1>2. /\ CallFn \in AllFuncs \ Funcs /\ ReturnFn \in AllFuncs \ Funcs
      /\ InitFn \in AllFuncs \ Funcs /\ OnTickFn \in AllFuncs \ Funcs
      /\ MainFn \in AllFuncs \ Funcs /\ Funcs \subseteq AllFuncs
  BY <1>1 DEF AllFuncs, Funcs, CallFn, ReturnFn, InitFn, OnTickFn, MainFn
<1>3. /\ CallFn # ReturnFn /\ CallFn # InitFn /\ CallFn # OnTickFn /\ CallFn # MainFn
      /\ ReturnFn # InitFn /\ ReturnFn # OnTickFn /\ ReturnFn # MainFn
      /\ InitFn # OnTickFn /\ InitFn # MainFn /\ OnTickFn # MainFn
  BY <1>1 DEF CallFn, ReturnFn, InitFn, OnTickFn, MainFn
<1>4. \A f \in Funcs : f \in AllFuncs /\ Code[f] = BodyCmds(f) \o BlockEnd(f)
  BY <1>2 DEF Code
<1>5. Code[CallFn] = CallCmds
  BY <1>2, <1>3 DEF Code
<1>6. Code[ReturnFn] = ReturnCmds
  BY <1>2, <1>3 DEF Code
<1>7. Code[InitFn] = InitCmds
  BY <1>2, <1>3 DEF Code
<1>8. Code[OnTickFn] = OnTickCmds
  BY <1>2, <1>3 DEF Code
<1>9. Code[MainFn] = MainCmds
  BY <1>2, <1>3 DEF Code
<1> QED
  BY <1>1, <1>2, <1>4, <1>5, <1>6, <1>7, <1>8, <1>9

LEMMA BodyIs ==
  ASSUME NEW f \in Funcs
  PROVE  /\ BodyCmds(f) \in Seq(Cmds)
         /\ Len(BodyCmds(f)) = Body[f]
         /\ \A i \in 1 .. Body[f] :
              BodyCmds(f)[i] =
                IF i > 1 THEN Skip
                ELSE IF Kind[f] \in Calls THEN Do("push", Cont[f])
                ELSE IF Kind[f] = "branch" THEN Do("decide", f)
                ELSE Skip
<1>1. Body[f] \in Nat
  BY CodeNumbers
<1>2. /\ Skip \in Cmds /\ Do("push", Cont[f]) \in Cmds /\ Do("decide", f) \in Cmds
  BY DoIs, ProgramAssumption DEF Skip, Ops, Funcs
<1>3. BodyCmds(f) \in [1 .. Body[f] -> Cmds]
  BY <1>2 DEF BodyCmds
<1> QED
  BY <1>1, <1>3, Lists DEF BodyCmds

LEMMA TerminatorIs ==
  ASSUME NEW f \in Funcs
  PROVE  /\ TerminatorCmds(f) \in Seq(Cmds)
         /\ Kind[f] = "ret" => TerminatorCmds(f)[1] = Skip
         /\ Kind[f] = "dyn" => TerminatorCmds(f)[1] = Do("decide", f)
         /\ Kind[f] = "stop" => TerminatorCmds(f)[1] = Do("unreachable", 0)
<1>1. Skip \in Cmds /\ Do("decide", f) \in Cmds /\ Do("unreachable", 0) \in Cmds
  BY DoIs DEF Skip, Ops, Funcs
<1> QED
  BY <1>1, CodeNumbers DEF TerminatorCmds

Closing ==
  <<When("over", At("next", Do("air", 0))),
    When("over", Do("redstone", 0)),
    When("over", Do("reset", 0))>>

LEMMA ClosingIs == Closing \in Seq(Cmds) /\ Len(Closing) = 3
<1>1. /\ Do("air", 0) \in Cmds /\ Do("redstone", 0) \in Cmds /\ Do("reset", 0) \in Cmds
  BY DoIs DEF Ops
<1>2. "over" \in Sides /\ "next" \in Positions \cup {"here", "next"}
  BY DEF Sides
<1>3. At("next", Do("air", 0)) \in Cmds
  BY <1>1, <1>2, FormsAre
<1>4. /\ When("over", At("next", Do("air", 0))) \in Cmds
      /\ When("over", Do("redstone", 0)) \in Cmds
      /\ When("over", Do("reset", 0)) \in Cmds
  BY <1>1, <1>2, <1>3, FormsAre
<1> QED
  BY <1>4 DEF Closing

LEMMA Joined ==
  ASSUME NEW s \in Seq(Cmds), NEW t \in Seq(Cmds), NEW j, j = s \o t
  PROVE  /\ j \in Seq(Cmds)
         /\ Len(s) \in Nat /\ Len(t) \in Nat
         /\ Len(j) = Len(s) + Len(t)
         /\ \A i \in 1 .. Len(s) : j[i] = s[i]
         /\ \A i \in 1 .. Len(t) : j[Len(s) + i] = t[i]
<1>1. Len(s) \in Nat /\ Len(t) \in Nat
  OBVIOUS
<1>2. /\ j \in Seq(Cmds)
      /\ Len(j) = Len(s) + Len(t)
      /\ \A i \in 1 .. Len(s) + Len(t) :
           j[i] = IF i <= Len(s) THEN s[i] ELSE t[i - Len(s)]
  BY ConcatProperties
<1>3. \A i \in 1 .. Len(t) :
        /\ Len(s) + i \in 1 .. Len(s) + Len(t)
        /\ ~(Len(s) + i <= Len(s))
        /\ Len(s) + i - Len(s) = i
  BY <1>1
<1> QED
  BY <1>1, <1>2, <1>3

LEMMA BlockLines ==
  ASSUME NEW f \in Funcs, Kind[f] # "stop"
  PROVE  /\ Code[f] \in Seq(Cmds)
         /\ Len(Code[f]) = AirAt(f) + 2
         /\ \A i \in 1 .. Body[f] : Code[f][i] = BodyCmds(f)[i]
         /\ \A i \in Body[f] + 1 .. ChargeAt(f) - 1 :
              Code[f][i] = TerminatorCmds(f)[i - Body[f]]
         /\ Code[f][ChargeAt(f)] = Do("charge", Body[f] + 10)
         /\ \A i \in 1 .. EdgeCount(f) :
              Code[f][ChargeAt(f) + i] = Edges(f, "under", "next")[i]
         /\ Code[f][TpAt(f)] = When("under", Do("tp", 0))
         /\ \A i \in 1 .. EdgeCount(f) : Code[f][TpAt(f) + i] = Edges(f, "over", "R")[i]
         /\ \A i \in 1 .. 3 : Code[f][AirAt(f) - 1 + i] = Closing[i]
<1> DEFINE s1 == BodyCmds(f)
           s2 == TerminatorCmds(f)
           s3 == <<Do("charge", Body[f] + 10)>>
           s4 == Edges(f, "under", "next")
           s5 == <<When("under", Do("tp", 0))>>
           s6 == Edges(f, "over", "R")
           s7 == Closing
<1>1. s1 \in Seq(Cmds) /\ Len(s1) = Body[f] /\ Body[f] \in Nat
  BY BodyIs, CodeNumbers
<1>2. s2 \in Seq(Cmds) /\ Len(s2) \in Nat
  BY TerminatorIs, CodeNumbers
<1>3. s3 \in Seq(Cmds) /\ Len(s3) = 1 /\ s3[1] = Do("charge", Body[f] + 10)
  <2>1. Do("charge", Body[f] + 10) \in Cmds
    BY DoIs, CodeNumbers DEF Ops
  <2> QED
    BY <2>1
<1>4. s4 \in Seq(Cmds) /\ Len(s4) = EdgeCount(f) /\ EdgeCount(f) \in Nat
  BY EdgesAre, CodeNumbers DEF EdgeCount
<1>5. s5 \in Seq(Cmds) /\ Len(s5) = 1 /\ s5[1] = When("under", Do("tp", 0))
  <2>1. Do("tp", 0) \in Cmds
    BY DoIs DEF Ops
  <2>2. When("under", Do("tp", 0)) \in Cmds
    BY <2>1, FormsAre DEF Sides
  <2> QED
    BY <2>2
<1>6. s6 \in Seq(Cmds) /\ Len(s6) = EdgeCount(f)
  <2>1. /\ s6 \in Seq(Cmds)
        /\ Len(s6) = IF Kind[f] \in {"dyn", "ret"} THEN 1 ELSE Len(SetToSeq(Succ[f]))
    BY EdgesAre
  <2>2. Len(s4) = IF Kind[f] \in {"dyn", "ret"} THEN 1 ELSE Len(SetToSeq(Succ[f]))
    BY EdgesAre
  <2> QED
    BY <1>4, <2>1, <2>2
<1>7. s7 \in Seq(Cmds) /\ Len(s7) = 3
  BY ClosingIs
<1>8. Code[f] = s1 \o (s2 \o ((((s3 \o s4) \o s5) \o s6) \o s7))
  BY CodeOf DEF BlockEnd, Closing
<1> DEFINE t1 == s3 \o s4
           t2 == t1 \o s5
           t3 == t2 \o s6
           t4 == t3 \o s7
           t5 == s2 \o t4
<1>9. Code[f] = s1 \o t5
  BY <1>8
<1> DEFINE e == EdgeCount(f)
<1> HIDE DEF s1, s2, s3, s4, s5, s6, s7, e
<1>10. /\ e \in Nat /\ Len(s4) = e /\ Len(s6) = e
  BY <1>4, <1>6 DEF e
<1>t1. t1 = s3 \o s4
  OBVIOUS
<1> HIDE DEF t1
<1>11. /\ t1 \in Seq(Cmds) /\ Len(t1) = 1 + e
       /\ t1[1] = s3[1]
       /\ \A i \in 1 .. e : t1[1 + i] = s4[i]
  <2>1. s3 \in Seq(Cmds) /\ s4 \in Seq(Cmds)
    BY <1>3, <1>4
  <2>2. /\ t1 \in Seq(Cmds) /\ Len(t1) = Len(s3) + Len(s4)
        /\ \A i \in 1 .. Len(s3) : t1[i] = s3[i]
        /\ \A i \in 1 .. Len(s4) : t1[Len(s3) + i] = s4[i]
    BY <1>t1, <2>1, Joined
  <2> QED
    BY <1>3, <1>10, <2>2
<1>t2. t2 = t1 \o s5
  OBVIOUS
<1> HIDE DEF t2
<1>12. /\ t2 \in Seq(Cmds) /\ Len(t2) = 2 + e
       /\ t2[1] = s3[1]
       /\ \A i \in 1 .. e : t2[1 + i] = s4[i]
       /\ t2[2 + e] = s5[1]
  <2>1. /\ t2 \in Seq(Cmds) /\ Len(t2) = (1 + e) + 1
        /\ \A i \in 1 .. 1 + e : t2[i] = t1[i]
        /\ \A i \in 1 .. 1 : t2[(1 + e) + i] = s5[i]
    <3>1. t1 \in Seq(Cmds) /\ s5 \in Seq(Cmds)
      BY <1>5, <1>11
    <3>2. /\ t2 \in Seq(Cmds) /\ Len(t2) = Len(t1) + Len(s5)
          /\ \A i \in 1 .. Len(t1) : t2[i] = t1[i]
          /\ \A i \in 1 .. Len(s5) : t2[Len(t1) + i] = s5[i]
      BY <1>t2, <3>1, Joined
    <3>3. Len(t1) = 1 + e /\ Len(s5) = 1
      BY <1>5, <1>11
    <3> QED
      BY <3>2, <3>3
  <2>2. (1 + e) + 1 = 2 + e /\ \A i \in 1 .. e : 1 + i \in 1 .. 1 + e
    BY <1>10
  <2>3. 1 \in 1 .. 1 /\ 1 \in 1 .. 1 + e
    BY <1>10
  <2> QED
    BY <1>11, <2>1, <2>2, <2>3
<1>t3. t3 = t2 \o s6
  OBVIOUS
<1> HIDE DEF t3
<1>13. /\ t3 \in Seq(Cmds) /\ Len(t3) = 2 + e + e
       /\ t3[1] = s3[1]
       /\ \A i \in 1 .. e : t3[1 + i] = s4[i]
       /\ t3[2 + e] = s5[1]
       /\ \A i \in 1 .. e : t3[2 + e + i] = s6[i]
  <2>1. /\ t3 \in Seq(Cmds) /\ Len(t3) = 2 + e + e
        /\ \A i \in 1 .. 2 + e : t3[i] = t2[i]
        /\ \A i \in 1 .. e : t3[2 + e + i] = s6[i]
    <3>1. t2 \in Seq(Cmds) /\ s6 \in Seq(Cmds)
      BY <1>6, <1>12
    <3>2. /\ t3 \in Seq(Cmds) /\ Len(t3) = Len(t2) + Len(s6)
          /\ \A i \in 1 .. Len(t2) : t3[i] = t2[i]
          /\ \A i \in 1 .. Len(s6) : t3[Len(t2) + i] = s6[i]
      BY <1>t3, <3>1, Joined
    <3>3. Len(t2) = 2 + e /\ Len(s6) = e
      BY <1>10, <1>12
    <3> QED
      BY <3>2, <3>3
  <2>2. /\ 1 \in 1 .. 2 + e /\ 2 + e \in 1 .. 2 + e
        /\ \A i \in 1 .. e : 1 + i \in 1 .. 2 + e
    BY <1>10
  <2> QED
    BY <1>12, <2>1, <2>2
<1>t4. t4 = t3 \o s7
  OBVIOUS
<1> HIDE DEF t4
<1>14. /\ t4 \in Seq(Cmds) /\ Len(t4) = 5 + e + e
       /\ t4[1] = s3[1]
       /\ \A i \in 1 .. e : t4[1 + i] = s4[i]
       /\ t4[2 + e] = s5[1]
       /\ \A i \in 1 .. e : t4[2 + e + i] = s6[i]
       /\ \A i \in 1 .. 3 : t4[2 + e + e + i] = s7[i]
  <2>1. /\ t4 \in Seq(Cmds) /\ Len(t4) = (2 + e + e) + 3
        /\ \A i \in 1 .. 2 + e + e : t4[i] = t3[i]
        /\ \A i \in 1 .. 3 : t4[2 + e + e + i] = s7[i]
    <3>1. t3 \in Seq(Cmds) /\ s7 \in Seq(Cmds)
      BY <1>7, <1>13
    <3>2. /\ t4 \in Seq(Cmds) /\ Len(t4) = Len(t3) + Len(s7)
          /\ \A i \in 1 .. Len(t3) : t4[i] = t3[i]
          /\ \A i \in 1 .. Len(s7) : t4[Len(t3) + i] = s7[i]
      BY <1>t4, <3>1, Joined
    <3>3. Len(t3) = 2 + e + e /\ Len(s7) = 3
      BY <1>7, <1>13
    <3> QED
      BY <3>2, <3>3
  <2>2. /\ 1 \in 1 .. 2 + e + e /\ 2 + e \in 1 .. 2 + e + e
        /\ \A i \in 1 .. e : 1 + i \in 1 .. 2 + e + e
        /\ \A i \in 1 .. e : 2 + e + i \in 1 .. 2 + e + e
        /\ (2 + e + e) + 3 = 5 + e + e
    BY <1>10
  <2> QED
    BY <1>13, <2>1, <2>2
<1>t5. t5 = s2 \o t4
  OBVIOUS
<1> HIDE DEF t5
<1>15. /\ t5 \in Seq(Cmds) /\ Len(t5) = Len(s2) + Len(t4)
       /\ \A i \in 1 .. Len(s2) : t5[i] = s2[i]
       /\ \A i \in 1 .. Len(t4) : t5[Len(s2) + i] = t4[i]
  <2>1. t4 \in Seq(Cmds)
    BY <1>14
  <2>2. s2 \in Seq(Cmds)
    BY <1>2
  <2> QED
    BY <1>t5, <2>1, <2>2, Joined
<1> DEFINE code == Code[f]
<1>16. code = s1 \o t5
  BY <1>9
<1> HIDE DEF code
<1>17. /\ code \in Seq(Cmds) /\ Len(code) = Body[f] + Len(t5)
       /\ \A i \in 1 .. Body[f] : code[i] = s1[i]
       /\ \A i \in 1 .. Len(t5) : code[Body[f] + i] = t5[i]
  <2>1. s1 \in Seq(Cmds) /\ t5 \in Seq(Cmds)
    BY <1>1, <1>15
  <2>2. /\ code \in Seq(Cmds) /\ Len(code) = Len(s1) + Len(t5)
        /\ \A i \in 1 .. Len(s1) : code[i] = s1[i]
        /\ \A i \in 1 .. Len(t5) : code[Len(s1) + i] = t5[i]
    BY <1>16, <2>1, Joined
  <2>3. Len(s1) = Body[f]
    BY <1>1
  <2> QED
    BY <2>2, <2>3
<1> DEFINE b == Body[f]
           l == Len(s2)
<1>18. b \in Nat /\ l \in Nat /\ Len(t4) = 5 + e + e /\ Len(t5) = l + 5 + e + e
  BY <1>1, <1>2, <1>10, <1>14, <1>15
<1>19. \A i \in 1 .. l : i \in 1 .. Len(t5) /\ code[b + i] = s2[i]
  BY <1>10, <1>15, <1>17, <1>18
<1>20. \A i \in 1 .. 5 + e + e : code[b + (l + i)] = t4[i]
  <2>1. \A i \in 1 .. 5 + e + e : l + i \in 1 .. Len(t5)
    BY <1>10, <1>18
  <2> QED
    BY <1>15, <1>17, <1>18, <2>1
<1>21. /\ ChargeAt(f) = b + l + 1
       /\ TpAt(f) = b + l + 2 + e
       /\ AirAt(f) = b + l + 3 + e + e
  <2>1. ChargeAt(f) = b + l + 1
    BY DEF ChargeAt, s2
  <2>2. TpAt(f) = b + l + 1 + e + 1
    BY <2>1 DEF TpAt, e
  <2>3. AirAt(f) = b + l + 1 + e + 1 + e + 1
    BY <2>2 DEF AirAt, e
  <2> HIDE DEF b, l
  <2> QED
    BY <1>10, <1>18, <2>1, <2>2, <2>3
<1>22. code[ChargeAt(f)] = s3[1]
  <2> HIDE DEF b, l
  <2>1. 1 \in 1 .. 5 + e + e /\ ChargeAt(f) = b + (l + 1)
    BY <1>10, <1>18, <1>21
  <2> QED
    BY <1>14, <1>20, <2>1
<1>23. \A i \in Body[f] + 1 .. ChargeAt(f) - 1 : code[i] = s2[i - Body[f]]
  <2> SUFFICES ASSUME NEW i \in b + 1 .. ChargeAt(f) - 1 PROVE code[i] = s2[i - b]
    OBVIOUS
  <2> HIDE DEF b, l
  <2>1. i - b \in 1 .. l /\ b + (i - b) = i
    BY <1>18, <1>21
  <2> QED
    BY <1>19, <2>1
<1>24. \A i \in 1 .. e : code[ChargeAt(f) + i] = s4[i]
  <2> SUFFICES ASSUME NEW i \in 1 .. e PROVE code[ChargeAt(f) + i] = s4[i]
    OBVIOUS
  <2> HIDE DEF b, l
  <2>1. 1 + i \in 1 .. 5 + e + e /\ ChargeAt(f) + i = b + (l + (1 + i))
    BY <1>10, <1>18, <1>21
  <2> QED
    BY <1>14, <1>20, <2>1
<1>25. code[TpAt(f)] = s5[1]
  <2> HIDE DEF b, l
  <2>1. 2 + e \in 1 .. 5 + e + e /\ TpAt(f) = b + (l + (2 + e))
    BY <1>10, <1>18, <1>21
  <2> QED
    BY <1>14, <1>20, <2>1
<1>26. \A i \in 1 .. e : code[TpAt(f) + i] = s6[i]
  <2> SUFFICES ASSUME NEW i \in 1 .. e PROVE code[TpAt(f) + i] = s6[i]
    OBVIOUS
  <2> HIDE DEF b, l
  <2>1. 2 + e + i \in 1 .. 5 + e + e /\ TpAt(f) + i = b + (l + (2 + e + i))
    BY <1>10, <1>18, <1>21
  <2> QED
    BY <1>14, <1>20, <2>1
<1>27. \A i \in 1 .. 3 : code[AirAt(f) - 1 + i] = s7[i]
  <2> SUFFICES ASSUME NEW i \in 1 .. 3 PROVE code[AirAt(f) - 1 + i] = s7[i]
    OBVIOUS
  <2> HIDE DEF b, l
  <2>1. 2 + e + e + i \in 1 .. 5 + e + e /\ AirAt(f) - 1 + i = b + (l + (2 + e + e + i))
    BY <1>10, <1>18, <1>21
  <2> QED
    BY <1>14, <1>20, <2>1
<1>28. Len(code) = AirAt(f) + 2
  <2> HIDE DEF b, l
  <2>1. Len(code) = b + Len(t5)
    BY <1>17 DEF b
  <2> QED
    BY <1>10, <1>18, <1>21, <2>1
<1> QED
  BY <1>3, <1>5, <1>17, <1>22, <1>23, <1>24, <1>25, <1>26, <1>27, <1>28
  DEF s1, s2, s3, s4, s5, s6, s7, e, code

LEMMA StopLines ==
  ASSUME NEW f \in Funcs, Kind[f] = "stop"
  PROVE  /\ Code[f] \in Seq(Cmds)
         /\ Len(Code[f]) = Body[f] + 4
         /\ \A i \in 1 .. Body[f] : Code[f][i] = BodyCmds(f)[i]
         /\ Code[f][Body[f] + 1] = Do("unreachable", 0)
<1> DEFINE s1 == BodyCmds(f)
           s2 == TerminatorCmds(f)
           s3 == <<Do("air", 0), At("S", Do("air", 0))>>
           t1 == s2 \o s3
<1>1. s1 \in Seq(Cmds) /\ Len(s1) = Body[f] /\ Body[f] \in Nat
  BY BodyIs, CodeNumbers
<1>2. s2 \in Seq(Cmds) /\ Len(s2) = 2 /\ s2[1] = Do("unreachable", 0)
  BY TerminatorIs, CodeNumbers
<1>3. s3 \in Seq(Cmds) /\ Len(s3) = 2
  <2>1. Do("air", 0) \in Cmds
    BY DoIs DEF Ops
  <2>2. At("S", Do("air", 0)) \in Cmds
    BY <2>1, FormsAre DEF Positions
  <2> QED
    BY <2>1, <2>2
<1> DEFINE code == Code[f]
<1>4. code = s1 \o t1
  BY CodeOf DEF BlockEnd
<1> HIDE DEF s1, s2, s3, code
<1>5. t1 = s2 \o s3
  OBVIOUS
<1> HIDE DEF t1
<1>6. /\ t1 \in Seq(Cmds) /\ Len(t1) = Len(s2) + Len(s3)
      /\ \A i \in 1 .. Len(s2) : t1[i] = s2[i]
  <2>1. s2 \in Seq(Cmds) /\ s3 \in Seq(Cmds)
    BY <1>2, <1>3
  <2> QED
    BY <1>5, <2>1, Joined
<1>7. /\ code \in Seq(Cmds) /\ Len(code) = Len(s1) + Len(t1)
      /\ \A i \in 1 .. Len(s1) : code[i] = s1[i]
      /\ \A i \in 1 .. Len(t1) : code[Len(s1) + i] = t1[i]
  <2>1. s1 \in Seq(Cmds) /\ t1 \in Seq(Cmds)
    BY <1>1, <1>6
  <2> QED
    BY <1>4, <2>1, Joined
<1>8. Len(t1) = 4 /\ t1[1] = s2[1]
  BY <1>2, <1>3, <1>6
<1>9. code[Len(s1) + 1] = s2[1]
  BY <1>7, <1>8
<1> QED
  BY <1>1, <1>2, <1>7, <1>8, <1>9 DEF s1, s2, code

LEMMA CallLines ==
  /\ Code[CallFn] \in Seq(Cmds)
  /\ Len(Code[CallFn]) = N + 3
  /\ Code[CallFn][1] = If({MainReturn}, Do("air", 0))
  /\ \A i \in 1 .. N : Code[CallFn][1 + i] = If({i - 1}, Do("set", i - 1))
  /\ Code[CallFn][N + 2] = Unless(MainReturn .. N - 1, Do("air", 0))
  /\ Code[CallFn][N + 3] = Unless(MainReturn .. N - 1, At("S", Do("air", 0)))
<1> DEFINE s1 == <<If({MainReturn}, Do("air", 0))>>
           s2 == [i \in 1 .. N |-> If({i - 1}, Do("set", i - 1))]
           s3 == <<Unless(MainReturn .. N - 1, Do("air", 0)),
                   Unless(MainReturn .. N - 1, At("S", Do("air", 0)))>>
           t1 == s1 \o s2
           code == Code[CallFn]
<1>1. N \in Nat
  BY CodeOf
<1>2. Do("air", 0) \in Cmds
  BY DoIs DEF Ops
<1>3. At("S", Do("air", 0)) \in Cmds
  BY <1>2, FormsAre DEF Positions
<1>4. s1 \in Seq(Cmds) /\ Len(s1) = 1 /\ s1[1] = If({MainReturn}, Do("air", 0))
  <2>1. {MainReturn} \in SUBSET Int
    BY DEF MainReturn
  <2>2. If({MainReturn}, Do("air", 0)) \in Cmds
    BY <1>2, <2>1, FormsAre
  <2> QED
    BY <2>2
<1>5. s2 \in Seq(Cmds) /\ Len(s2) = N
      /\ \A i \in 1 .. N : s2[i] = If({i - 1}, Do("set", i - 1))
  <2>1. \A i \in 1 .. N : If({i - 1}, Do("set", i - 1)) \in Cmds
    <3> SUFFICES ASSUME NEW i \in 1 .. N PROVE If({i - 1}, Do("set", i - 1)) \in Cmds
      OBVIOUS
    <3>1. i - 1 \in Int /\ {i - 1} \in SUBSET Int
      BY <1>1
    <3>2. Do("set", i - 1) \in Cmds
      BY <3>1, DoIs DEF Ops
    <3> QED
      BY <3>1, <3>2, FormsAre
  <2>2. s2 \in [1 .. N -> Cmds]
    BY <2>1
  <2>3. s2 \in Seq(Cmds) /\ Len(s2) = N
    BY <1>1, <2>2, Lists
  <2> QED
    BY <2>3
<1>6. s3 \in Seq(Cmds) /\ Len(s3) = 2
      /\ s3[1] = Unless(MainReturn .. N - 1, Do("air", 0))
      /\ s3[2] = Unless(MainReturn .. N - 1, At("S", Do("air", 0)))
  <2>1. MainReturn .. N - 1 \in SUBSET Int
    BY <1>1 DEF MainReturn
  <2>2. /\ Unless(MainReturn .. N - 1, Do("air", 0)) \in Cmds
        /\ Unless(MainReturn .. N - 1, At("S", Do("air", 0))) \in Cmds
    BY <1>2, <1>3, <2>1, FormsAre
  <2> QED
    BY <2>2
<1>7. code = t1 \o s3
  BY CodeOf DEF CallCmds
<1> HIDE DEF s1, s2, s3, code
<1>8. t1 = s1 \o s2
  OBVIOUS
<1> HIDE DEF t1
<1>9. /\ t1 \in Seq(Cmds) /\ Len(t1) = Len(s1) + Len(s2)
      /\ \A i \in 1 .. Len(s1) : t1[i] = s1[i]
      /\ \A i \in 1 .. Len(s2) : t1[Len(s1) + i] = s2[i]
  <2>1. s1 \in Seq(Cmds) /\ s2 \in Seq(Cmds)
    BY <1>4, <1>5
  <2> QED
    BY <1>8, <2>1, Joined
<1>10. /\ code \in Seq(Cmds) /\ Len(code) = Len(t1) + Len(s3)
       /\ \A i \in 1 .. Len(t1) : code[i] = t1[i]
       /\ \A i \in 1 .. Len(s3) : code[Len(t1) + i] = s3[i]
  <2>1. t1 \in Seq(Cmds) /\ s3 \in Seq(Cmds)
    BY <1>6, <1>9
  <2> QED
    BY <1>7, <2>1, Joined
<1>11. Len(s1) = 1 /\ Len(s2) = N /\ Len(t1) = 1 + N /\ Len(s3) = 2
  BY <1>4, <1>5, <1>6, <1>9
<1>12. code[1] = s1[1]
  <2>1. 1 \in 1 .. Len(s1) /\ 1 \in 1 .. Len(t1)
    BY <1>1, <1>11
  <2> QED
    BY <1>9, <1>10, <2>1
<1>13. \A i \in 1 .. N : code[1 + i] = s2[i]
  <2>1. \A i \in 1 .. N : 1 + i \in 1 .. Len(t1)
    BY <1>1, <1>11
  <2>2. \A i \in 1 .. N : t1[1 + i] = s2[i]
    BY <1>9, <1>11
  <2> QED
    BY <1>10, <2>1, <2>2
<1>14. code[N + 2] = s3[1] /\ code[N + 3] = s3[2] /\ Len(code) = N + 3
  <2>1. /\ 1 \in 1 .. Len(s3) /\ 2 \in 1 .. Len(s3)
        /\ Len(t1) + 1 = N + 2 /\ Len(t1) + 2 = N + 3
    BY <1>1, <1>11
  <2> QED
    BY <1>10, <1>11, <2>1
<1> QED
  BY <1>4, <1>5, <1>6, <1>10, <1>12, <1>13, <1>14 DEF code

LEMMA ReturnLines ==
  /\ Code[ReturnFn] \in Seq(Cmds) /\ Len(Code[ReturnFn]) = 2
  /\ Code[ReturnFn][1] = Do("pop", 0)
  /\ Code[ReturnFn][2] = Do("call", CallFn)
<1>1. Do("pop", 0) \in Cmds /\ Do("call", CallFn) \in Cmds
  BY DoIs, CodeOf DEF Ops, CallFn
<1> QED
  BY <1>1, CodeOf DEF ReturnCmds

LEMMA InitLines ==
  /\ Code[InitFn] \in Seq(Cmds) /\ Len(Code[InitFn]) = 5
  /\ Code[InitFn][1] = Do("boot", 0)
  /\ Code[InitFn][2] = Skip /\ Code[InitFn][3] = Skip
  /\ Code[InitFn][4] = At("R", Do("set", Main))
  /\ Code[InitFn][5] = At("B", Do("blank", 0))
<1>1. /\ Do("boot", 0) \in Cmds /\ Skip \in Cmds
      /\ Do("set", Main) \in Cmds /\ Do("blank", 0) \in Cmds
  BY DoIs, ProgramAssumption DEF Ops, Skip, Funcs
<1>2. At("R", Do("set", Main)) \in Cmds /\ At("B", Do("blank", 0)) \in Cmds
  BY <1>1, FormsAre DEF Positions
<1> QED
  BY <1>1, <1>2, CodeOf DEF InitCmds

LEMMA OnTickLines ==
  /\ Code[OnTickFn] \in Seq(Cmds) /\ Len(Code[OnTickFn]) = 4
  /\ Code[OnTickFn][1] = Skip
  /\ Code[OnTickFn][2] = At("B", Do("blank", 0))
  /\ Code[OnTickFn][3] = Do("clone", 0)
  /\ Code[OnTickFn][4] = At("B", Do("tp", 0))
<1>1. /\ Skip \in Cmds /\ Do("clone", 0) \in Cmds
      /\ Do("tp", 0) \in Cmds /\ Do("blank", 0) \in Cmds
  BY DoIs DEF Ops, Skip
<1>2. At("B", Do("tp", 0)) \in Cmds /\ At("B", Do("blank", 0)) \in Cmds
  BY <1>1, FormsAre DEF Positions
<1> QED
  BY <1>1, <1>2, CodeOf DEF OnTickCmds

LEMMA MainLines ==
  /\ Code[MainFn] \in Seq(Cmds) /\ Len(Code[MainFn]) = 2
  /\ Code[MainFn][1] = Do("call", InitFn)
  /\ Code[MainFn][2] = Do("redstone", 0)
<1>1. Do("call", InitFn) \in Cmds /\ Do("redstone", 0) \in Cmds
  BY DoIs, CodeOf DEF Ops, InitFn
<1> QED
  BY <1>1, CodeOf DEF MainCmds

LEMMA AllLines ==
  ASSUME NEW f \in AllFuncs
  PROVE  Code[f] \in Seq(Cmds) /\ Len(Code[f]) \in Nat /\ Len(Code[f]) >= 1
<1>1. CASE f \in Funcs /\ Kind[f] # "stop"
  <2>1. Len(Code[f]) = AirAt(f) + 2 /\ Code[f] \in Seq(Cmds)
    BY <1>1, BlockLines
  <2>2. AirAt(f) \in Nat
    BY <1>1, CodeNumbers DEF AirAt, TpAt, ChargeAt
  <2> QED
    BY <2>1, <2>2
<1>2. CASE f \in Funcs /\ Kind[f] = "stop"
  BY <1>2, StopLines, CodeNumbers
<1>3. CASE f \notin Funcs
  <2>1. f \in {CallFn, ReturnFn, InitFn, OnTickFn, MainFn}
    BY <1>3, CodeOf DEF AllFuncs, Funcs, CallFn, ReturnFn, InitFn, OnTickFn, MainFn
  <2>2. Code[CallFn] \in Seq(Cmds) /\ Len(Code[CallFn]) = N + 3 /\ N \in Nat
    BY CallLines, CodeOf
  <2> QED
    BY <2>1, <2>2, ReturnLines, InitLines, OnTickLines, MainLines, SMTT(30)
<1> QED
  BY <1>1, <1>2, <1>3

-----------------------------------------------------------------------------
(***************************************************************************)
(* The call stack after a command: functions that are finished are left.   *)
(***************************************************************************)
Finished(b) == b.line > Len(Code[b.func])
Bumped(b)   == [b EXCEPT !.line = @ + 1]

LEMMA FrameFields ==
  ASSUME NEW b \in Frames
  PROVE  /\ b.func \in AllFuncs /\ b.line \in Nat /\ b.pos \in Positions
         /\ Bumped(b) \in Frames
         /\ Bumped(b).func = b.func
         /\ Bumped(b).line = b.line + 1
         /\ Bumped(b).pos = b.pos
         /\ Len(Code[b.func]) \in Nat /\ Len(Code[b.func]) >= 1
BY AllLines DEF Frames, Bumped

LEMMA NewFrame ==
  ASSUME NEW f \in AllFuncs, NEW pos \in Positions
  PROVE  /\ Frame(f, pos) \in Frames
         /\ Frame(f, pos).func = f
         /\ Frame(f, pos).line = 1
         /\ Frame(f, pos).pos = pos
         /\ ~Finished(Frame(f, pos))
BY AllLines DEF Frames, Frame, Finished

LEMMA MaxIs ==
  ASSUME NEW S \in SUBSET Int, NEW m \in S, \A y \in S : m >= y
  PROVE  Max(S) = m
<1>1. Max(S) \in S /\ \A y \in S : Max(S) >= y
  BY DEF Max
<1>2. Max(S) \in Int /\ m \in Int /\ Max(S) >= m /\ m >= Max(S)
  BY <1>1
<1> QED
  BY <1>1, <1>2

LEMMA LeavingOne ==
  ASSUME NEW b \in Frames
  PROVE  Unfinished(<<b>>) = IF Finished(b) THEN <<>> ELSE <<b>>
<1> DEFINE frames == <<b>>
           open == {i \in DOMAIN frames : frames[i].line <= Len(Code[frames[i].func])}
<1>1. DOMAIN frames = {1} /\ frames[1] = b
  OBVIOUS
<1>2. b.line \in Nat /\ Len(Code[b.func]) \in Nat
  BY FrameFields
<1>3. Unfinished(frames) = SubSeq(frames, 1, IF open = {} THEN 0 ELSE Max(open))
  BY DEF Unfinished
<1>4. CASE Finished(b)
  <2>1. open = {}
    BY <1>1, <1>2, <1>4 DEF Finished
  <2> QED
    BY <1>3, <1>4, <2>1
<1>5. CASE ~Finished(b)
  <2>1. open = {1}
    BY <1>1, <1>2, <1>5 DEF Finished
  <2>2. Max(open) = 1
    BY <2>1, MaxIs
  <2>3. Unfinished(frames) = SubSeq(frames, 1, 1)
    BY <1>3, <2>1, <2>2
  <2> QED
    BY <1>5, <2>3
<1> QED
  BY <1>4, <1>5

LEMMA LeavingTwo ==
  ASSUME NEW b \in Frames, NEW c \in Frames, ~Finished(b)
  PROVE  Unfinished(<<b, c>>) = IF Finished(c) THEN <<b>> ELSE <<b, c>>
<1> DEFINE frames == <<b, c>>
           open == {i \in DOMAIN frames : frames[i].line <= Len(Code[frames[i].func])}
<1>1. DOMAIN frames = {1, 2} /\ frames[1] = b /\ frames[2] = c
  OBVIOUS
<1>2. /\ b.line \in Nat /\ Len(Code[b.func]) \in Nat
      /\ c.line \in Nat /\ Len(Code[c.func]) \in Nat
  BY FrameFields
<1>3. Unfinished(frames) = SubSeq(frames, 1, IF open = {} THEN 0 ELSE Max(open))
  BY DEF Unfinished
<1>4. CASE Finished(c)
  <2>1. open = {1}
    BY <1>1, <1>2, <1>4 DEF Finished
  <2>2. Max(open) = 1
    BY <2>1, MaxIs
  <2>3. Unfinished(frames) = SubSeq(frames, 1, 1)
    BY <1>3, <2>1, <2>2
  <2> QED
    BY <1>4, <2>3
<1>5. CASE ~Finished(c)
  <2>1. open = {1, 2}
    BY <1>1, <1>2, <1>5 DEF Finished
  <2>2. Max(open) = 2
    BY <2>1, MaxIs
  <2>3. Unfinished(frames) = SubSeq(frames, 1, 2)
    BY <1>3, <2>1, <2>2
  <2> QED
    BY <1>5, <2>3
<1> QED
  BY <1>4, <1>5

LEMMA LeavingThree ==
  ASSUME NEW b \in Frames, NEW r \in Frames, NEW c \in Frames,
         ~Finished(b), Finished(r)
  PROVE  Unfinished(<<b, r, c>>) = IF Finished(c) THEN <<b>> ELSE <<b, r, c>>
<1> DEFINE frames == <<b, r, c>>
           open == {i \in DOMAIN frames : frames[i].line <= Len(Code[frames[i].func])}
<1>1. DOMAIN frames = {1, 2, 3} /\ frames[1] = b /\ frames[2] = r /\ frames[3] = c
  OBVIOUS
<1>2. /\ b.line \in Nat /\ Len(Code[b.func]) \in Nat
      /\ r.line \in Nat /\ Len(Code[r.func]) \in Nat
      /\ c.line \in Nat /\ Len(Code[c.func]) \in Nat
  BY FrameFields
<1>3. Unfinished(frames) = SubSeq(frames, 1, IF open = {} THEN 0 ELSE Max(open))
  BY DEF Unfinished
<1>4. CASE Finished(c)
  <2>1. open = {1}
    BY <1>1, <1>2, <1>4 DEF Finished
  <2>2. Max(open) = 1
    BY <2>1, MaxIs, SMTT(30)
  <2>3. Unfinished(frames) = SubSeq(frames, 1, 1)
    BY <1>3, <2>1, <2>2
  <2> QED
    BY <1>4, <2>3
<1>5. CASE ~Finished(c)
  <2>1. open = {1, 3}
    BY <1>1, <1>2, <1>5 DEF Finished
  <2>2. Max({1, 3}) = 3
    BY MaxIs
  <2>3. Unfinished(frames) = SubSeq(frames, 1, 3)
    BY <1>3, <2>1, <2>2
  <2> QED
    BY <1>5, <2>3
<1> QED
  BY <1>4, <1>5

-----------------------------------------------------------------------------
(***************************************************************************)
(* One command.                                                            *)
(***************************************************************************)
SideHolds(side) ==
  (side = "under" => count < Limit) /\ (side = "over" => count >= Limit)

LEMMA DoFacts ==
  ASSUME NEW op, NEW arg
  PROVE  /\ Do(op, arg).op = op /\ Do(op, arg).arg = arg /\ Do(op, arg).pos = "here"
         /\ Passes(Do(op, arg))
BY DEF Do, Passes

LEMMA AtFacts ==
  ASSUME NEW op, NEW arg, NEW pos
  PROVE  LET c == At(pos, Do(op, arg))
         IN c.op = op /\ c.arg = arg /\ c.pos = pos /\ Passes(c)
BY DEF Do, At, Passes

LEMMA WhenFacts ==
  ASSUME NEW op, NEW arg, NEW side
  PROVE  LET c == When(side, Do(op, arg))
         IN /\ c.op = op /\ c.arg = arg /\ c.pos = "here"
            /\ Passes(c) <=> SideHolds(side)
BY DEF Do, When, Passes, SideHolds

LEMMA WhenAtFacts ==
  ASSUME NEW op, NEW arg, NEW side, NEW pos
  PROVE  LET c == When(side, At(pos, Do(op, arg)))
         IN /\ c.op = op /\ c.arg = arg /\ c.pos = pos
            /\ Passes(c) <=> SideHolds(side)
BY DEF Do, At, When, Passes, SideHolds

LEMMA EdgeFacts ==
  ASSUME NEW f, NEW side, NEW pos, NEW i
  PROVE  LET c == EdgeCmd(f, side, pos, i)
         IN /\ c.op = "set" /\ c.arg = SetToSeq(Succ[f])[i] /\ c.pos = pos
            /\ Passes(c) <=> /\ SideHolds(side)
                             /\ \/ Len(SetToSeq(Succ[f])) = 1
                                \/ chosen = SetToSeq(Succ[f])[i]
BY DEF EdgeCmd, Do, At, When, If, Passes, SideHolds

LEMMA IfFacts ==
  ASSUME NEW op, NEW arg, NEW v
  PROVE  LET c == If({v}, Do(op, arg))
         IN /\ c.op = op /\ c.arg = arg /\ c.pos = "here"
            /\ Passes(c) <=> chosen = v
BY DEF Do, If, Passes

LEMMA UnlessFacts ==
  ASSUME NEW op, NEW arg, NEW vs
  PROVE  LET c == Unless(vs, Do(op, arg))
         IN /\ c.op = op /\ c.arg = arg /\ c.pos = "here"
            /\ Passes(c) <=> chosen \notin vs
BY DEF Do, Unless, Passes

LEMMA UnlessAtFacts ==
  ASSUME NEW op, NEW arg, NEW vs, NEW pos
  PROVE  LET c == Unless(vs, At(pos, Do(op, arg)))
         IN /\ c.op = op /\ c.arg = arg /\ c.pos = pos
            /\ Passes(c) <=> chosen \notin vs
BY DEF Do, At, Unless, Passes

After == IF Passes(Command) THEN RunStateAfter(Command) ELSE run_state

Scored == {"charge", "reset", "boot", "push", "pop", "decide"}

LEMMA StepIs ==
  ASSUME StepCommand
  PROVE  /\ status = "ok" /\ status' = "ok" /\ commands_run < MaxCommands /\ ~Halted
         /\ Passes(Command) => Failure(Command) = "ok" /\ Scores(Command)
         /\ ~Passes(Command) \/ Command.op \notin Scored => UNCHANGED <<count, chosen, stack>>
         /\ Passes(Command) /\ Command.op = "call" =>
              Continue(After, Append(Advanced, Frame(Command.arg, Position(Command))))
         /\ ~Passes(Command) \/ Command.op # "call" => Continue(After, Advanced)
BY DEF StepCommand, After, Scores, Scored

LEMMA ShapeOne ==
  ASSUME NEW b \in Frames, call_stack = <<b>>
  PROVE  /\ Top(call_stack) = b
         /\ Command = Code[b.func][b.line]
         /\ Advanced = <<Bumped(b)>>
<1>1. Len(call_stack) = 1 /\ call_stack[1] = b
  OBVIOUS
<1>2. Top(call_stack) = b
  BY <1>1 DEF Top
<1>3. Advanced = [<<b>> EXCEPT ![1].line = @ + 1]
  BY <1>1 DEF Advanced
<1> QED
  BY <1>2, <1>3 DEF Command, Bumped

LEMMA ShapeTwo ==
  ASSUME NEW b \in Frames, NEW c \in Frames, call_stack = <<b, c>>
  PROVE  /\ Top(call_stack) = c
         /\ Command = Code[c.func][c.line]
         /\ Advanced = <<b, Bumped(c)>>
<1>1. Len(call_stack) = 2 /\ call_stack[2] = c
  OBVIOUS
<1>2. Top(call_stack) = c
  BY <1>1 DEF Top
<1>3. Advanced = [<<b, c>> EXCEPT ![2].line = @ + 1]
  BY <1>1 DEF Advanced
<1> QED
  BY <1>2, <1>3 DEF Command, Bumped

LEMMA ShapeThree ==
  ASSUME NEW b \in Frames, NEW r \in Frames, NEW c \in Frames,
         call_stack = <<b, r, c>>
  PROVE  /\ Top(call_stack) = c
         /\ Command = Code[c.func][c.line]
         /\ Advanced = <<b, r, Bumped(c)>>
<1>1. Len(call_stack) = 3 /\ call_stack[3] = c
  OBVIOUS
<1>2. Top(call_stack) = c
  BY <1>1 DEF Top
<1>3. Advanced = [<<b, r, c>> EXCEPT ![3].line = @ + 1]
  BY <1>1 DEF Advanced
<1> QED
  BY <1>2, <1>3 DEF Command, Bumped

(* What a step leaves, by what comes of the call stack.                    *)
Stays(frames) ==
  /\ call_stack' = frames
  /\ run_state' = After
  /\ commands_run' = commands_run + 1
  /\ before' = before

Moves ==
  LET nb == NextBlock(After)
      command == CommandAt(nb, nb.idx)
  IN /\ run_state' = nb
     /\ call_stack' = IF command = NoCmd THEN <<>> ELSE <<Frame(command, PosOf(nb.idx))>>
     /\ commands_run' = 0
     /\ before' = stack'

LEMMA ContinueIs ==
  ASSUME NEW rs, NEW frames, Continue(rs, frames), rs = After
  PROVE  IF Unfinished(frames) = <<>> THEN Moves ELSE Stays(Unfinished(frames))
BY DEF Continue, Moves, Stays

LEMMA Appended ==
  ASSUME NEW x \in Frames, NEW y \in Frames, NEW z \in Frames
  PROVE  /\ Append(<<x>>, y) = <<x, y>>
         /\ Append(<<x, y>>, z) = <<x, y, z>>
<1>1. \A s \in Seq(Frames), u \in Seq(Frames) :
        Len(s) = Len(u) /\ (\A k \in 1 .. Len(s) : s[k] = u[k]) => s = u
  BY SeqEqual
<1>2. <<x>> \in Seq(Frames) /\ <<x, y>> \in Seq(Frames) /\ <<x, y, z>> \in Seq(Frames)
  OBVIOUS
<1> DEFINE s == Append(<<x>>, y)
           u == <<x, y>>
           v == Append(<<x, y>>, z)
           w == <<x, y, z>>
<1>3. s \in Seq(Frames) /\ Len(s) = 2 /\ s[1] = x /\ s[2] = y
  BY <1>2, AppendProperties
<1>4. u \in Seq(Frames) /\ Len(u) = 2 /\ u[1] = x /\ u[2] = y
  BY <1>2
<1>5. v \in Seq(Frames) /\ Len(v) = 3 /\ v[1] = x /\ v[2] = y /\ v[3] = z
  BY <1>2, AppendProperties
<1>6. w \in Seq(Frames) /\ Len(w) = 3 /\ w[1] = x /\ w[2] = y /\ w[3] = z
  BY <1>2
<1> HIDE DEF s, u, v, w
<1>7. s = u
  BY <1>1, <1>3, <1>4
<1>8. v = w
  BY <1>1, <1>5, <1>6
<1> QED
  BY <1>7, <1>8 DEF s, u, v, w

(* What a command does to the call stack: the frame on top goes to its     *)
(* next line, calls a function there, or has come to its end.              *)
LEMMA OneSteps ==
  ASSUME NEW b \in Frames, call_stack = <<b>>, StepCommand,
         ~(Passes(Command) /\ Command.op = "call"), b.line \in 1 .. Len(Code[b.func])
  PROVE  /\ b.line < Len(Code[b.func]) => Stays(<<Bumped(b)>>)
         /\ b.line = Len(Code[b.func]) => Moves
<1>1. Continue(After, <<Bumped(b)>>)
  BY StepIs, ShapeOne
<1>2. Bumped(b) \in Frames /\ (Finished(Bumped(b)) <=> b.line = Len(Code[b.func]))
  BY FrameFields DEF Finished
<1>3. Unfinished(<<Bumped(b)>>) = IF Finished(Bumped(b)) THEN <<>> ELSE <<Bumped(b)>>
  BY <1>2, LeavingOne
<1>4. <<Bumped(b)>> # <<>>
  OBVIOUS
<1>5. b.line < Len(Code[b.func]) => b.line # Len(Code[b.func])
  BY FrameFields
<1> QED
  BY <1>1, <1>2, <1>3, <1>4, <1>5, ContinueIs

LEMMA OneCalls ==
  ASSUME NEW b \in Frames, call_stack = <<b>>, StepCommand,
         Passes(Command), Command.op = "call",
         NEW f \in AllFuncs, NEW pos \in Positions,
         Command.arg = f, Position(Command) = pos,
         b.line \in 1 .. Len(Code[b.func]) - 1
  PROVE  Stays(<<Bumped(b), Frame(f, pos)>>)
<1>1. Advanced = <<Bumped(b)>>
  BY ShapeOne
<1>2. Append(Advanced, Frame(f, pos)) = <<Bumped(b), Frame(f, pos)>>
  BY <1>1, Appended, FrameFields, NewFrame
<1>3. Continue(After, <<Bumped(b), Frame(f, pos)>>)
  BY <1>2, StepIs
<1>4. Bumped(b) \in Frames /\ ~Finished(Bumped(b))
  BY FrameFields DEF Finished
<1>5. Frame(f, pos) \in Frames /\ ~Finished(Frame(f, pos))
  BY NewFrame
<1>6. Unfinished(<<Bumped(b), Frame(f, pos)>>) = <<Bumped(b), Frame(f, pos)>>
  BY <1>4, <1>5, LeavingTwo
<1>7. <<Bumped(b), Frame(f, pos)>> # <<>>
  OBVIOUS
<1> QED
  BY <1>3, <1>6, <1>7, ContinueIs

LEMMA TwoSteps ==
  ASSUME NEW b \in Frames, NEW c \in Frames, call_stack = <<b, c>>, StepCommand,
         ~(Passes(Command) /\ Command.op = "call"), ~Finished(b),
         c.line \in 1 .. Len(Code[c.func])
  PROVE  /\ c.line < Len(Code[c.func]) => Stays(<<b, Bumped(c)>>)
         /\ c.line = Len(Code[c.func]) => Stays(<<b>>)
<1>1. Continue(After, <<b, Bumped(c)>>)
  BY StepIs, ShapeTwo
<1>2. Bumped(c) \in Frames /\ (Finished(Bumped(c)) <=> c.line = Len(Code[c.func]))
  BY FrameFields DEF Finished
<1>3. Unfinished(<<b, Bumped(c)>>) = IF Finished(Bumped(c)) THEN <<b>> ELSE <<b, Bumped(c)>>
  BY <1>2, LeavingTwo
<1>4. <<b, Bumped(c)>> # <<>> /\ <<b>> # <<>>
  OBVIOUS
<1> DEFINE on == <<b, Bumped(c)>>
           off == <<b>>
<1> HIDE DEF on, off
<1>5. CASE c.line < Len(Code[c.func])
  <2>1. Unfinished(<<b, Bumped(c)>>) = <<b, Bumped(c)>> /\ c.line # Len(Code[c.func])
    BY <1>2, <1>3, <1>5, FrameFields
  <2>2. Continue(After, on) /\ Unfinished(on) = on /\ on # <<>>
    BY <1>1, <1>4, <2>1 DEF on
  <2>3. Stays(on)
    BY <2>2, ContinueIs
  <2> QED
    BY <2>1, <2>3 DEF on
<1>6. CASE c.line = Len(Code[c.func])
  <2>1. Unfinished(<<b, Bumped(c)>>) = <<b>> /\ ~(c.line < Len(Code[c.func]))
    BY <1>2, <1>3, <1>6, FrameFields
  <2>2. Continue(After, on) /\ Unfinished(on) = off /\ off # <<>>
    BY <1>1, <1>4, <2>1 DEF on, off
  <2>3. Stays(off)
    BY <2>2, ContinueIs
  <2> QED
    BY <2>1, <2>3 DEF off
<1>7. c.line < Len(Code[c.func]) \/ c.line = Len(Code[c.func])
  BY FrameFields
<1> QED
  BY <1>5, <1>6, <1>7

(* A function whose last command is a call stays below the one it calls.   *)
LEMMA TwoCalls ==
  ASSUME NEW b \in Frames, NEW c \in Frames, call_stack = <<b, c>>, StepCommand,
         Passes(Command), Command.op = "call",
         NEW f \in AllFuncs, NEW pos \in Positions,
         Command.arg = f, Position(Command) = pos, ~Finished(b),
         c.line = Len(Code[c.func])
  PROVE  Stays(<<b, Bumped(c), Frame(f, pos)>>)
<1>1. Advanced = <<b, Bumped(c)>>
  BY ShapeTwo
<1>2. Append(Advanced, Frame(f, pos)) = <<b, Bumped(c), Frame(f, pos)>>
  BY <1>1, Appended, FrameFields, NewFrame
<1>3. Continue(After, <<b, Bumped(c), Frame(f, pos)>>)
  BY <1>2, StepIs
<1>4. Bumped(c) \in Frames /\ Finished(Bumped(c))
  BY FrameFields DEF Finished
<1>5. Frame(f, pos) \in Frames /\ ~Finished(Frame(f, pos))
  BY NewFrame
<1>6. Unfinished(<<b, Bumped(c), Frame(f, pos)>>) = <<b, Bumped(c), Frame(f, pos)>>
  BY <1>4, <1>5, LeavingThree
<1>7. <<b, Bumped(c), Frame(f, pos)>> # <<>>
  OBVIOUS
<1> QED
  BY <1>3, <1>6, <1>7, ContinueIs

LEMMA ThreeSteps ==
  ASSUME NEW b \in Frames, NEW r \in Frames, NEW c \in Frames,
         call_stack = <<b, r, c>>, StepCommand,
         ~(Passes(Command) /\ Command.op = "call"), ~Finished(b), Finished(r),
         c.line \in 1 .. Len(Code[c.func])
  PROVE  /\ c.line < Len(Code[c.func]) => Stays(<<b, r, Bumped(c)>>)
         /\ c.line = Len(Code[c.func]) => Stays(<<b>>)
<1>1. Continue(After, <<b, r, Bumped(c)>>)
  BY StepIs, ShapeThree
<1>2. Bumped(c) \in Frames /\ (Finished(Bumped(c)) <=> c.line = Len(Code[c.func]))
  BY FrameFields, SMTT(30) DEF Finished
<1>3. Unfinished(<<b, r, Bumped(c)>>) =
        IF Finished(Bumped(c)) THEN <<b>> ELSE <<b, r, Bumped(c)>>
  BY <1>2, LeavingThree
<1>4. <<b, r, Bumped(c)>> # <<>> /\ <<b>> # <<>>
  OBVIOUS
<1> DEFINE on == <<b, r, Bumped(c)>>
           off == <<b>>
<1> HIDE DEF on, off
<1>5. CASE c.line < Len(Code[c.func])
  <2>1. Unfinished(<<b, r, Bumped(c)>>) = <<b, r, Bumped(c)>> /\ c.line # Len(Code[c.func])
    BY <1>2, <1>3, <1>5, FrameFields
  <2>2. Continue(After, on) /\ Unfinished(on) = on /\ on # <<>>
    BY <1>1, <1>4, <2>1 DEF on
  <2>3. Stays(on)
    BY <2>2, ContinueIs
  <2> QED
    BY <2>1, <2>3 DEF on
<1>6. CASE c.line = Len(Code[c.func])
  <2>1. Unfinished(<<b, r, Bumped(c)>>) = <<b>> /\ ~(c.line < Len(Code[c.func]))
    BY <1>2, <1>3, <1>6, FrameFields
  <2>2. Continue(After, on) /\ Unfinished(on) = off /\ off # <<>>
    BY <1>1, <1>4, <2>1 DEF on, off
  <2>3. Stays(off)
    BY <2>2, ContinueIs
  <2> QED
    BY <2>1, <2>3 DEF off
<1>7. c.line < Len(Code[c.func]) \/ c.line = Len(Code[c.func])
  BY FrameFields
<1> QED
  BY <1>5, <1>6, <1>7

-----------------------------------------------------------------------------
(***************************************************************************)
(* The lines of a block.                                                   *)
(***************************************************************************)
RunStates ==
  [resume_cmd : Commands, cmd_1 : Commands, cmd_2 : Commands,
   idx : {NoCmd, 0, 1, 2}, tick_queued : BOOLEAN, next_pos : Positions]

Values ==
  /\ run_state \in RunStates
  /\ count \in Nat
  /\ stack \in Seq(Int) /\ before \in Seq(Int)
  /\ chosen \in Int

LEMMA LineNumbers ==
  ASSUME NEW f \in Funcs
  PROVE  /\ Body[f] \in Nat /\ Body[f] >= 1
         /\ ChargeAt(f) \in Nat /\ ChargeAt(f) >= Body[f] + 1
         /\ Kind[f] \in {"ret", "dyn"} => ChargeAt(f) = Body[f] + 2
         /\ Kind[f] \in {"branch", "call"} => ChargeAt(f) = Body[f] + 1
         /\ EdgeCount(f) \in Nat
         /\ Kind[f] # "stop" => EdgeCount(f) >= 1
         /\ Kind[f] \in {"dyn", "ret"} => EdgeCount(f) = 1
         /\ Kind[f] \in {"branch", "call"} => EdgeCount(f) = Len(SetToSeq(Succ[f]))
         /\ TpAt(f) = ChargeAt(f) + EdgeCount(f) + 1 /\ TpAt(f) \in Nat
         /\ AirAt(f) = TpAt(f) + EdgeCount(f) + 1 /\ AirAt(f) \in Nat
         /\ Kind[f] \in {"branch", "call", "dyn", "ret", "stop"}
<1>1. /\ Body[f] \in Nat /\ Body[f] >= 1 /\ EdgeCount(f) \in Nat
      /\ Len(TerminatorCmds(f)) \in Nat
      /\ Kind[f] \in {"ret", "dyn"} => Len(TerminatorCmds(f)) = 1
      /\ Kind[f] \in {"branch", "call"} => Len(TerminatorCmds(f)) = 0
  BY CodeNumbers
<1> DEFINE body == Body[f]
           own == Len(TerminatorCmds(f))
<1>2. /\ ChargeAt(f) \in Nat /\ ChargeAt(f) >= Body[f] + 1
      /\ Kind[f] \in {"ret", "dyn"} => ChargeAt(f) = Body[f] + 2
      /\ Kind[f] \in {"branch", "call"} => ChargeAt(f) = Body[f] + 1
  <2>1. ChargeAt(f) = body + own + 1
    BY DEF ChargeAt
  <2>2. body \in Nat /\ own \in Nat
    BY <1>1
  <2>3. (Kind[f] \in {"ret", "dyn"} => own = 1) /\ (Kind[f] \in {"branch", "call"} => own = 0)
    BY <1>1
  <2> HIDE DEF body, own
  <2>4. ChargeAt(f) \in Nat /\ ChargeAt(f) >= body + 1
    BY <2>1, <2>2
  <2>5. Kind[f] \in {"ret", "dyn"} => ChargeAt(f) = body + 2
    BY <2>1, <2>2, <2>3
  <2>6. Kind[f] \in {"branch", "call"} => ChargeAt(f) = body + 1
    BY <2>1, <2>2, <2>3
  <2> QED
    BY <2>4, <2>5, <2>6 DEF body
<1>3. TpAt(f) = ChargeAt(f) + EdgeCount(f) + 1 /\ TpAt(f) \in Nat
  BY <1>1, <1>2 DEF TpAt
<1>4. AirAt(f) = TpAt(f) + EdgeCount(f) + 1 /\ AirAt(f) \in Nat
  BY <1>1, <1>3 DEF AirAt
<1> QED
  BY <1>1, <1>2, <1>3, <1>4, CodeNumbers

(* A block's line after one that wrote nothing.                            *)
Still(b) ==
  /\ b.line = 1 => Kind[b.func] \in {"ret", "stop"}
  /\ Kind[b.func] = "dyn" => b.line # Body[b.func] + 1
  /\ count < Limit => b.line \notin ChargeAt(b.func) + 1 .. TpAt(b.func)
  /\ count >= Limit => b.line \notin TpAt(b.func) + 1 .. AirAt(b.func) + 1
  /\ b.line # (IF Kind[b.func] = "stop" THEN Body[b.func] + 1 ELSE AirAt(b.func) + 2)

LEMMA StillLine ==
  ASSUME NEW b \in Frames, AtLine(b), Values, Still(b)
  PROVE  AtLine(Bumped(b))
<1> DEFINE B == Bumped(b)
           f == b.func
           n == b.line
           kind == Kind[f]
           body == Body[f]
           charge == ChargeAt(f)
           edges == EdgeCount(f)
           tp == TpAt(f)
           air == AirAt(f)
<1>1. /\ B \in Frames /\ B.func = f /\ B.line = n + 1 /\ B.pos = b.pos
      /\ n \in Nat
  BY FrameFields
<1>2. f \in Funcs /\ InBlock(b)
  BY DEF AtLine, InBlock
<1>3. count \in Nat /\ Limit \in Int
  BY InterpreterAssumption DEF Values
<1>n. /\ body \in Nat /\ body >= 1 /\ charge \in Nat /\ charge >= body + 1
      /\ kind \in {"ret", "dyn"} => charge = body + 2
      /\ kind \in {"branch", "call"} => charge = body + 1
      /\ edges \in Nat /\ tp = charge + edges + 1 /\ tp \in Nat
      /\ air = tp + edges + 1 /\ air \in Nat
      /\ kind \in {"branch", "call", "dyn", "ret", "stop"}
      /\ kind # "stop" => edges >= 1
  BY <1>2, LineNumbers
<1>s. /\ n = 1 => kind \in {"ret", "stop"}
      /\ kind = "dyn" => n # body + 1
      /\ count < Limit => n \notin charge + 1 .. tp
      /\ count >= Limit => n \notin tp + 1 .. air + 1
      /\ n # (IF kind = "stop" THEN body + 1 ELSE air + 2)
  BY DEF Still
<1>r. n \in 1 .. (IF kind = "stop" THEN body + 1 ELSE air + 2)
  BY DEF AtLine
<1> HIDE DEF B, n, kind, body, charge, edges, tp, air
<1>4. InBlock(B)
  <2>2. (kind = "branch" => n > 1) /\ (kind = "dyn" /\ n + 1 > body + 1 => n > body + 1)
    BY <1>1, <1>n, <1>s, <1>r
  <2>3. Settled(b)
    BY <1>2 DEF InBlock
  <2>4. Settled(B)
    BY <1>1, <2>2, <2>3 DEF Settled, kind, body, n
  <2> QED
    BY <1>1, <1>2, <2>4 DEF InBlock
<1>5. B.line \in 1 .. (IF Kind[B.func] = "stop" THEN Body[B.func] + 1
                       ELSE AirAt(B.func) + 2)
  <2>1. n + 1 \in 1 .. (IF kind = "stop" THEN body + 1 ELSE air + 2)
    BY <1>1, <1>n, <1>s, <1>r
  <2> QED
    BY <1>1, <2>1 DEF kind, body, air
<1>6. Goal(B) = Goal(b)
  BY <1>1 DEF Goal
<1>7. Done(B) <=> Done(b)
  <2>1. (count < Limit => (n + 1 >= tp <=> n >= tp))
        /\ (~(count < Limit) => (n + 1 >= air <=> n >= air))
    BY <1>1, <1>3, <1>n, <1>r, <1>s
  <2> QED
    BY <1>1, <2>1 DEF Done, n, tp, air
<1>8. stack = StackAt(B, Done(B))
  <2>1. stack = StackAt(b, Done(b))
    BY DEF AtLine
  <2>2. n + 1 > 1 /\ (kind \in Calls => n > 1)
    BY <1>1, <1>s, <1>r DEF Calls
  <2> QED
    BY <1>1, <1>7, <2>1, <2>2 DEF StackAt, n, kind
<1>9. EdgesBehind(B)
  <2> SUFFICES ASSUME NEW i \in DOMAIN SetToSeq(Succ[f]),
                      Kind[f] \in {"branch", "call"},
                      SetToSeq(Succ[f])[i] = Aim(f),
                      n + 1 > (IF count < Limit THEN charge ELSE tp) + i
               PROVE  CommandIn(run_state, Goal(b)) = Aim(f)
    BY <1>1, <1>6 DEF EdgesBehind, charge, tp
  <2>1. i \in 1 .. edges
    <3>1. IsFiniteSet(Succ[f]) /\ edges = Len(SetToSeq(Succ[f]))
      BY <1>2, SuccListed, LineNumbers DEF edges
    <3> QED
      BY <3>1, ListedSet
  <2>2. n > (IF count < Limit THEN charge ELSE tp) + i
    BY <1>1, <1>3, <1>n, <1>s, <2>1
  <2> QED
    BY <2>2 DEF AtLine, EdgesBehind, n, charge, tp
<1>10. Done(B) => Written(Goal(B), Aim(B.func))
  BY <1>1, <1>6, <1>7 DEF AtLine
<1>11. run_state.next_pos =
         IF count < Limit /\ B.line > TpAt(B.func) THEN B.pos ELSE Across(B.pos)
  <2>1. count < Limit => (n + 1 > tp <=> n > tp)
    BY <1>1, <1>3, <1>n, <1>s
  <2>2. run_state.next_pos = IF count < Limit /\ n > tp THEN b.pos ELSE Across(b.pos)
    BY DEF AtLine, n, tp
  <2> QED
    BY <1>1, <2>1, <2>2 DEF tp
<1>12. B.line > AirAt(B.func) /\ count >= Limit => CommandIn(run_state, Across(B.pos)) = NoCmd
  <2>1. count >= Limit => (n + 1 > air <=> n > air)
    BY <1>1, <1>3, <1>n, <1>s
  <2>2. n > air /\ count >= Limit => CommandIn(run_state, Across(b.pos)) = NoCmd
    BY DEF AtLine, n, air
  <2> QED
    BY <1>1, <2>1, <2>2 DEF air
<1>13. run_state.tick_queued <=> B.line > AirAt(B.func) + 1 /\ count >= Limit
  <2>1. count >= Limit => (n + 1 > air + 1 <=> n > air + 1)
    BY <1>1, <1>3, <1>n, <1>s
  <2>2. run_state.tick_queued <=> n > air + 1 /\ count >= Limit
    BY DEF AtLine, n, air
  <2> QED
    BY <1>1, <2>1, <2>2 DEF air
<1> QED
  BY <1>4, <1>5, <1>8, <1>9, <1>10, <1>11, <1>12, <1>13 DEF AtLine, B

LEMMA SameLine ==
  ASSUME NEW b \in Frames, AtLine(b), UNCHANGED <<run_state, count, chosen, stack, before>>
  PROVE  AtLine(b)'
BY DEF AtLine, InBlock, Settled, StackAt, Done, EdgesBehind, Written, Goal, Aim, CommandIn

(* What every step comes to.                                               *)
Passed ==
  /\ Values'
  /\ RunInv'
  /\ CF!Next \/ UNCHANGED <<pcBar, before>>

LEMMA BlockLength ==
  ASSUME NEW b \in Frames, AtLine(b)
  PROVE  /\ b.line \in 1 .. Len(Code[b.func])
         /\ Kind[b.func] = "stop" => b.line < Len(Code[b.func])
         /\ Kind[b.func] # "stop" => Len(Code[b.func]) = AirAt(b.func) + 2
<1> DEFINE n == b.line
           body == Body[b.func]
           air == AirAt(b.func)
           kind == Kind[b.func]
<1>1. b.func \in Funcs /\ n \in 1 .. (IF kind = "stop" THEN body + 1 ELSE air + 2)
  BY DEF AtLine, InBlock
<1>2. body \in Nat /\ air \in Nat
  BY <1>1, LineNumbers
<1>3. Len(Code[b.func]) = IF kind = "stop" THEN body + 4 ELSE air + 2
  BY <1>1, StopLines, BlockLines
<1>4. kind # "stop" => Len(Code[b.func]) = air + 2
  BY <1>3
<1> HIDE DEF n, body, air, kind
<1>5. n \in 1 .. Len(Code[b.func]) /\ (kind = "stop" => n < Len(Code[b.func]))
  BY <1>1, <1>2, <1>3
<1> QED
  BY <1>4, <1>5 DEF n, air, kind

LEMMA SamePlace ==
  ASSUME NEW b \in Frames, NEW c \in Frames, b.func \in Funcs, c.func = b.func,
         call_stack # <<>>, call_stack[1] = b, (call_stack # <<>>)', (call_stack[1] = c)'
  PROVE  pcBar' = pcBar
<1>1. b.func # OnTickFn
  BY CodeOf
<1>2. pcBar = b.func
  BY <1>1 DEF pcBar
<1>3. pcBar' = b.func
  BY <1>1 DEF pcBar
<1> QED
  BY <1>2, <1>3

LEMMA OwnPasses ==
  ASSUME NEW b \in Frames, OwnLine(b), Stays(<<Bumped(b)>>), AtLine(Bumped(b))', Values'
  PROVE  Passed
<1>1. call_stack = <<b>> /\ b.func \in Funcs
  BY DEF OwnLine, AtLine, InBlock
<1>2. Bumped(b) \in Frames /\ Bumped(b).func = b.func
  BY FrameFields
<1>3. call_stack' = <<Bumped(b)>> /\ before' = before
  BY DEF Stays
<1> DEFINE B == Bumped(b)
<1> HIDE DEF B
<1>4. OwnLine(B)' 
  BY <1>3 DEF OwnLine, B
<1>5. RunInv'
  BY <1>2, <1>4 DEF RunInv, B
<1>6. /\ call_stack # <<>> /\ call_stack[1] = b
      /\ (call_stack # <<>>)' /\ (call_stack[1] = B)'
  BY <1>1, <1>3 DEF B
<1>7. pcBar' = pcBar
  BY <1>1, <1>2, <1>6, SamePlace DEF B
<1> QED
  BY <1>3, <1>5, <1>7 DEF Passed

(* A line that writes nothing.                                             *)
LEMMA StillPasses ==
  ASSUME NEW b \in Frames, OwnLine(b), Values, StepCommand, Still(b),
         ~(Passes(Command) /\ Command.op = "call"),
         After = run_state, UNCHANGED <<count, chosen, stack>>
  PROVE  Passed
<1>1. AtLine(b) /\ call_stack = <<b>>
  BY DEF OwnLine
<1>2. b.line < Len(Code[b.func])
  BY <1>1, BlockLength DEF Still
<1>3. Stays(<<Bumped(b)>>)
  BY <1>1, <1>2, BlockLength, OneSteps
<1>4. run_state' = run_state /\ before' = before
  BY <1>3 DEF Stays
<1>5. AtLine(Bumped(b)) /\ Bumped(b) \in Frames
  BY <1>1, StillLine, FrameFields
<1>6. AtLine(Bumped(b))'
  BY <1>4, <1>5, SameLine
<1>7. Values'
  BY <1>4 DEF Values
<1> QED
  BY <1>3, <1>6, <1>7, OwnPasses

(* A line ahead of the edges.                                              *)
LEMMA EarlyLine ==
  ASSUME NEW b \in Frames, AtLine(b), count \in Nat, (count \in Nat)',
         b.line \in 1 .. (IF Kind[b.func] = "stop" THEN Body[b.func] ELSE ChargeAt(b.func)),
         run_state' = run_state, before' = before,
         Settled(Bumped(b))', (stack = StackAt(Bumped(b), FALSE))'
  PROVE  AtLine(Bumped(b))'
<1> DEFINE B == Bumped(b)
           f == b.func
           n == b.line
           kind == Kind[f]
           body == Body[f]
           charge == ChargeAt(f)
           edges == EdgeCount(f)
           tp == TpAt(f)
           air == AirAt(f)
<1>1. /\ B \in Frames /\ B.func = f /\ B.line = n + 1 /\ B.pos = b.pos
      /\ n \in Nat
  BY FrameFields
<1>2. f \in Funcs /\ InBlock(b)
  BY DEF AtLine, InBlock
<1>3. count \in Nat /\ count' \in Nat /\ Limit \in Int
  BY InterpreterAssumption
<1>n. /\ body \in Nat /\ body >= 1 /\ charge \in Nat /\ charge >= body + 1
      /\ edges \in Nat /\ tp = charge + edges + 1 /\ tp \in Nat
      /\ air = tp + edges + 1 /\ air \in Nat
      /\ kind # "stop" => edges >= 1
  BY <1>2, LineNumbers
<1>r. n \in 1 .. (IF kind = "stop" THEN body ELSE charge)
  OBVIOUS
<1>s. Settled(B)' /\ (stack = StackAt(B, FALSE))'
  OBVIOUS
<1> HIDE DEF B, n, kind, body, charge, edges, tp, air
<1>4. InBlock(B)'
  BY <1>1, <1>2, <1>s DEF InBlock
<1>5. B.line \in 1 .. (IF Kind[B.func] = "stop" THEN Body[B.func] + 1
                       ELSE AirAt(B.func) + 2)
  <2>1. n + 1 \in 1 .. (IF kind = "stop" THEN body + 1 ELSE air + 2)
    BY <1>1, <1>n, <1>r
  <2> QED
    BY <1>1, <2>1 DEF kind, body, air
<1>6. /\ ~(n + 1 >= tp) /\ ~(n + 1 >= air) /\ ~(n + 1 > tp)
      /\ ~(n >= tp) /\ ~(n >= air) /\ ~(n > tp) /\ ~(n > air) /\ ~(n > air + 1)
      /\ ~(n + 1 > air) /\ ~(n + 1 > air + 1)
  BY <1>1, <1>n, <1>r
<1>7. ~Done(B)'
  BY <1>1, <1>6 DEF Done, n, tp, air
<1>8. (stack = StackAt(B, Done(B)))'
  BY <1>7, <1>s DEF StackAt
<1>9. EdgesBehind(B)'
  <2> SUFFICES ASSUME NEW i \in DOMAIN SetToSeq(Succ[f]),
                      Kind[f] \in {"branch", "call"},
                      n + 1 > (IF count' < Limit THEN charge ELSE tp) + i
               PROVE  FALSE
    BY <1>1 DEF EdgesBehind, charge, tp
  <2>1. i \in 1 .. edges
    <3>1. IsFiniteSet(Succ[f]) /\ edges = Len(SetToSeq(Succ[f]))
      BY <1>2, SuccListed, LineNumbers DEF edges
    <3> QED
      BY <3>1, ListedSet
  <2> QED
    BY <1>1, <1>3, <1>n, <1>r, <2>1
<1>11. run_state.next_pos = Across(b.pos) /\ ~run_state.tick_queued
  <2>1. run_state.next_pos = IF count < Limit /\ n > tp THEN b.pos ELSE Across(b.pos)
    BY DEF AtLine, n, tp
  <2>2. run_state.tick_queued <=> n > air + 1 /\ count >= Limit
    BY DEF AtLine, n, air
  <2> QED
    BY <1>6, <2>1, <2>2
<1>12. /\ ~(B.line > TpAt(B.func)) /\ ~(B.line > AirAt(B.func)) /\ ~(B.line > AirAt(B.func) + 1)
  BY <1>1, <1>6 DEF tp, air
<1>13. /\ (run_state.next_pos =
            IF count < Limit /\ B.line > TpAt(B.func) THEN B.pos ELSE Across(B.pos))'
       /\ (B.line > AirAt(B.func) /\ count >= Limit =>
            CommandIn(run_state, Across(B.pos)) = NoCmd)'
       /\ (run_state.tick_queued <=> B.line > AirAt(B.func) + 1 /\ count >= Limit)'
  BY <1>1, <1>11, <1>12
<1> QED
  BY <1>4, <1>5, <1>7, <1>8, <1>9, <1>13 DEF AtLine, B

LEMMA NothingPlaced ==
  ASSUME ~Passes(Command) \/
         Command.op \notin {"set", "air", "blank", "redstone", "clone", "tp"}
  PROVE  After = run_state
BY DEF After, RunStateAfter

(* A line ahead of the edges that pushes, decides or charges.              *)
LEMMA EarlyPasses ==
  ASSUME NEW b \in Frames, OwnLine(b), Values, StepCommand,
         b.line \in 1 .. (IF Kind[b.func] = "stop" THEN Body[b.func] ELSE ChargeAt(b.func)),
         Command.op \in {"push", "decide", "charge"},
         (count \in Nat)', (stack \in Seq(Int))', (chosen \in Int)',
         Settled(Bumped(b))', stack' = StackAt(Bumped(b), FALSE)
  PROVE  Passed
<1>1. AtLine(b) /\ call_stack = <<b>> /\ count \in Nat
  BY DEF OwnLine, Values
<1>2. b.line < Len(Code[b.func])
  <2>1. b.func \in Funcs
    BY <1>1 DEF AtLine, InBlock
  <2>2. CASE Kind[b.func] = "stop"
    BY <1>1, <2>2, BlockLength
  <2>3. CASE Kind[b.func] # "stop"
    <3>1. /\ Len(Code[b.func]) = AirAt(b.func) + 2
          /\ AirAt(b.func) \in Nat /\ ChargeAt(b.func) \in Nat /\ ChargeAt(b.func) <= AirAt(b.func)
      <4>1. Len(Code[b.func]) = AirAt(b.func) + 2
        BY <1>1, <2>3, BlockLength
      <4>2. /\ EdgeCount(b.func) \in Nat /\ ChargeAt(b.func) \in Nat
            /\ TpAt(b.func) = ChargeAt(b.func) + EdgeCount(b.func) + 1 /\ TpAt(b.func) \in Nat
            /\ AirAt(b.func) = TpAt(b.func) + EdgeCount(b.func) + 1 /\ AirAt(b.func) \in Nat
        BY <2>1, LineNumbers
      <4>3. \A c \in Nat, e \in Nat : c <= c + e + 1 + e + 1
        OBVIOUS
      <4> QED
        BY <4>1, <4>2, <4>3
    <3>2. b.line \in 1 .. ChargeAt(b.func)
      BY <2>3
    <3> QED
      BY <3>1, <3>2
  <2> QED
    BY <2>2, <2>3
<1>3. ~(Passes(Command) /\ Command.op = "call") /\ After = run_state
  BY NothingPlaced
<1>4. Stays(<<Bumped(b)>>)
  BY <1>1, <1>2, <1>3, BlockLength, OneSteps
<1>5. run_state' = run_state /\ before' = before
  BY <1>3, <1>4 DEF Stays
<1>6. (stack = StackAt(Bumped(b), FALSE))'
  BY <1>5 DEF StackAt
<1>8. AtLine(Bumped(b))'
  BY <1>1, <1>5, <1>6, EarlyLine
<1>7. Values'
  BY <1>5 DEF Values
<1> QED
  BY <1>4, <1>7, <1>8, OwnPasses

(* The body, the terminator and the charge.                                *)
LEMMA BodyPasses ==
  ASSUME NEW b \in Frames, OwnLine(b), Values, StepCommand,
         b.line \in 1 .. Body[b.func]
  PROVE  Passed
<1> DEFINE f == b.func
           n == b.line
           kind == Kind[f]
<1>1. /\ AtLine(b) /\ call_stack = <<b>> /\ f \in Funcs
      /\ count \in Nat /\ stack \in Seq(Int) /\ before \in Seq(Int) /\ chosen \in Int
  BY DEF OwnLine, AtLine, InBlock, Values
<1>2. /\ Body[f] \in Nat /\ Body[f] >= 1 /\ ChargeAt(f) \in Nat /\ ChargeAt(f) >= Body[f] + 1
      /\ TpAt(f) = ChargeAt(f) + EdgeCount(f) + 1 /\ EdgeCount(f) \in Nat /\ TpAt(f) \in Nat
      /\ AirAt(f) = TpAt(f) + EdgeCount(f) + 1 /\ AirAt(f) \in Nat
      /\ kind \in {"branch", "call", "dyn", "ret", "stop"}
  BY <1>1, LineNumbers
<1>3. n \in 1 .. Body[f] /\ n \in 1 .. (IF kind = "stop" THEN Body[f] ELSE ChargeAt(f))
  BY <1>2
<1>4. Command = Code[f][n]
  BY <1>1, ShapeOne
<1>5. Command = IF n > 1 THEN Skip
                ELSE IF kind \in Calls THEN Do("push", Cont[f])
                ELSE IF kind = "branch" THEN Do("decide", f)
                ELSE Skip
  <2>1. Code[f][n] = BodyCmds(f)[n]
    BY <1>1, <1>3, StopLines, BlockLines
  <2> QED
    BY <1>1, <1>3, <1>4, <2>1, BodyIs
<1>6. /\ Bumped(b).func = f /\ Bumped(b).line = n + 1
  BY FrameFields
<1>7. stack = StackAt(b, Done(b))
  BY <1>1 DEF AtLine
<1>8. ~Done(b)
  <2>1. ~(n >= TpAt(f)) /\ ~(n >= AirAt(f))
    BY <1>2, <1>3
  <2> QED
    BY <2>1 DEF Done
<1>9. CASE n = 1 /\ kind \in Calls
  <2>1. Command.op = "push" /\ Command.arg = Cont[f] /\ Passes(Command)
    BY <1>5, <1>9, DoFacts
  <2>2. count' = count /\ stack' = Append(stack, Cont[f]) /\ chosen' = chosen
    BY <2>1, StepIs DEF Scores
  <2>3. stack = before
    BY <1>7, <1>8, <1>9 DEF StackAt, Calls
  <2>4. stack' = StackAt(Bumped(b), FALSE)
    BY <1>6, <1>9, <2>2, <2>3 DEF StackAt
  <2>5. Settled(Bumped(b))'
    <3>1. kind # "branch" /\ ~(n + 1 > Body[f] + 1)
      BY <1>2, <1>9 DEF Calls
    <3> QED
      BY <1>6, <3>1 DEF Settled
  <2>6. Cont[f] \in Int
    BY <1>1, ProgramAssumption DEF Funcs
  <2>7. count' \in Nat /\ stack' \in Seq(Int) /\ chosen' \in Int
    BY <1>1, <2>2, <2>6
  <2> QED
    BY <1>3, <2>1, <2>4, <2>5, <2>7, EarlyPasses
<1>10. CASE n = 1 /\ kind = "branch"
  <2>1. Command.op = "decide" /\ Command.arg = f /\ Passes(Command)
    BY <1>5, <1>10, DoFacts DEF Calls
  <2>2. count' = count /\ stack' = stack /\ chosen' \in Succ[f]
    BY <2>1, StepIs DEF Scores
  <2>3. stack = before
    BY <1>7, <1>8, <1>10 DEF StackAt, Calls
  <2>4. stack' = StackAt(Bumped(b), FALSE)
    BY <1>6, <1>10, <2>2, <2>3 DEF StackAt, Calls
  <2>5. Settled(Bumped(b))'
    BY <1>6, <1>10, <2>2 DEF Settled
  <2>6. Succ[f] \subseteq Int
    BY <1>1, ProgramAssumption DEF Pointers
  <2>7. count' \in Nat /\ stack' \in Seq(Int) /\ chosen' \in Int
    BY <1>1, <2>2, <2>6
  <2> QED
    BY <1>3, <2>1, <2>4, <2>5, <2>7, EarlyPasses
<1>11. CASE n > 1 \/ kind \notin {"branch"} \cup Calls
  <2>1. Command = Do("skip", 0)
    BY <1>5, <1>11 DEF Skip
  <2>2. Command.op = "skip"
    BY <2>1, DoFacts
  <2>3. UNCHANGED <<count, chosen, stack>> /\ After = run_state
    BY <2>2, StepIs, NothingPlaced DEF Scored
  <2>4. Still(b)
    <3>1. n = 1 => kind \in {"ret", "stop"}
      BY <1>2, <1>11 DEF Calls
    <3>2. /\ n # Body[f] + 1 /\ n \notin ChargeAt(f) + 1 .. TpAt(f)
          /\ n \notin TpAt(f) + 1 .. AirAt(f) + 1 /\ n # AirAt(f) + 2
      BY <1>2, <1>3
    <3> QED
      BY <3>1, <3>2 DEF Still
  <2> QED
    BY <2>2, <2>3, <2>4, StillPasses
<1>12. n > 1 \/ n = 1
  BY <1>2, <1>3
<1> QED
  BY <1>9, <1>10, <1>11, <1>12 DEF Calls

LEMMA TerminatorPasses ==
  ASSUME NEW b \in Frames, OwnLine(b), Values, StepCommand,
         b.line > Body[b.func], Kind[b.func] = "stop" \/ b.line < ChargeAt(b.func)
  PROVE  Passed
<1> DEFINE f == b.func
           n == b.line
           kind == Kind[f]
<1>1. /\ AtLine(b) /\ call_stack = <<b>> /\ f \in Funcs
      /\ count \in Nat /\ stack \in Seq(Int) /\ before \in Seq(Int) /\ chosen \in Int
  BY DEF OwnLine, AtLine, InBlock, Values
<1>2. /\ Body[f] \in Nat /\ Body[f] >= 1 /\ ChargeAt(f) \in Nat /\ ChargeAt(f) >= Body[f] + 1
      /\ kind \in {"ret", "dyn"} => ChargeAt(f) = Body[f] + 2
      /\ kind \in {"branch", "call"} => ChargeAt(f) = Body[f] + 1
      /\ TpAt(f) = ChargeAt(f) + EdgeCount(f) + 1 /\ EdgeCount(f) \in Nat /\ TpAt(f) \in Nat
      /\ AirAt(f) = TpAt(f) + EdgeCount(f) + 1 /\ AirAt(f) \in Nat
      /\ kind \in {"branch", "call", "dyn", "ret", "stop"}
  BY <1>1, LineNumbers
<1>3. n \in Nat /\ n \in 1 .. (IF kind = "stop" THEN Body[f] + 1 ELSE AirAt(f) + 2)
  BY <1>1, FrameFields DEF AtLine
<1>4. Command = Code[f][n]
  BY <1>1, ShapeOne
<1>5. n = Body[f] + 1 /\ kind \notin {"branch", "call"}
  BY <1>2, <1>3
<1>6. /\ Bumped(b).func = f /\ Bumped(b).line = n + 1
  BY FrameFields
<1>7. CASE kind = "stop"
  <2>1. Command = Do("unreachable", 0)
    BY <1>1, <1>4, <1>5, <1>7, StopLines
  <2>2. Passes(Command) /\ Command.op = "unreachable"
    BY <2>1, DoFacts
  <2>3. Failure(Command) = "EnteredUnreachable"
    BY <2>2 DEF Failure
  <2> QED
    BY <2>2, <2>3, StepIs
<1>8. CASE kind \in {"ret", "dyn"}
  <2>1. Body[f] + 1 \in Body[f] + 1 .. ChargeAt(f) - 1 /\ Body[f] + 1 - Body[f] = 1
    BY <1>2, <1>8
  <2>2. Command = TerminatorCmds(f)[1]
    <3>1. \A i \in Body[f] + 1 .. ChargeAt(f) - 1 :
              Code[f][i] = TerminatorCmds(f)[i - Body[f]]
      BY <1>1, <1>8, BlockLines
    <3> DEFINE k == Body[f] + 1
    <3>4. n = k
      BY <1>5
    <3>5. k \in Body[f] + 1 .. ChargeAt(f) - 1
      BY <2>1
    <3>6. k - Body[f] = 1
      BY <1>2
    <3> HIDE DEF k
    <3>2. k \in Body[f] + 1 .. ChargeAt(f) - 1 /\ k - Body[f] = 1 /\ n = k
      BY <3>4, <3>5, <3>6
    <3>3. Code[f][k] = TerminatorCmds(f)[k - Body[f]]
      BY <3>1, <3>2
    <3> QED
      BY <1>4, <3>2, <3>3
  <2>3. n \in 1 .. ChargeAt(f) /\ n + 1 = Body[f] + 2
    BY <1>2, <1>5, <1>8
  <2>4. CASE kind = "ret"
    <3>1. Command = Do("skip", 0)
      BY <1>1, <2>2, <2>4, TerminatorIs DEF Skip
    <3>2. Command.op = "skip"
      BY <3>1, DoFacts
    <3>3. UNCHANGED <<count, chosen, stack>> /\ After = run_state
      BY <3>2, StepIs, NothingPlaced DEF Scored
    <3>4. Still(b)
      <4>1. /\ n # 1 /\ n \notin ChargeAt(f) + 1 .. TpAt(f)
            /\ n \notin TpAt(f) + 1 .. AirAt(f) + 1 /\ n # AirAt(f) + 2
        BY <1>2, <1>5
      <4> QED
        BY <2>4, <4>1 DEF Still
    <3> QED
      BY <3>2, <3>3, <3>4, StillPasses
  <2>5. CASE kind = "dyn"
    <3>1. Command = Do("decide", f)
      BY <1>1, <2>2, <2>5, TerminatorIs
    <3>2. Command.op = "decide" /\ Command.arg = f /\ Passes(Command)
      BY <3>1, DoFacts
    <3>3. count' = count /\ stack' = stack /\ chosen' \in Succ[f]
      BY <3>2, StepIs DEF Scores
    <3>4. stack = Append(before, Cont[f])
      <4>1. stack = StackAt(b, Done(b))
        BY <1>1 DEF AtLine
      <4>2. n > 1
        BY <1>2, <1>5
      <4> QED
        BY <2>5, <4>1, <4>2 DEF StackAt, Calls
    <3>5. stack' = StackAt(Bumped(b), FALSE)
      <4>1. n + 1 > 1
        BY <1>3
      <4> QED
        BY <1>6, <2>5, <3>3, <3>4, <4>1 DEF StackAt, Calls
    <3>6. Settled(Bumped(b))'
      BY <1>6, <2>5, <3>3 DEF Settled
    <3>7. Succ[f] \subseteq Int
      BY <1>1, ProgramAssumption DEF Pointers
    <3>8. count' \in Nat /\ stack' \in Seq(Int) /\ chosen' \in Int
      BY <1>1, <3>3, <3>7
    <3> QED
      BY <2>3, <2>5, <3>2, <3>5, <3>6, <3>8, EarlyPasses
  <2> QED
    BY <1>8, <2>4, <2>5
<1> QED
  BY <1>2, <1>5, <1>7, <1>8

LEMMA ChargePasses ==
  ASSUME NEW b \in Frames, OwnLine(b), Values, StepCommand,
         Kind[b.func] # "stop", b.line = ChargeAt(b.func)
  PROVE  Passed
<1> DEFINE f == b.func
           n == b.line
           kind == Kind[f]
<1>1. /\ AtLine(b) /\ call_stack = <<b>> /\ f \in Funcs
      /\ count \in Nat /\ stack \in Seq(Int) /\ before \in Seq(Int) /\ chosen \in Int
  BY DEF OwnLine, AtLine, InBlock, Values
<1>2. /\ Body[f] \in Nat /\ Body[f] >= 1 /\ ChargeAt(f) \in Nat /\ ChargeAt(f) >= Body[f] + 1
      /\ kind \in {"ret", "dyn"} => ChargeAt(f) = Body[f] + 2
      /\ TpAt(f) = ChargeAt(f) + EdgeCount(f) + 1 /\ EdgeCount(f) \in Nat /\ TpAt(f) \in Nat
      /\ AirAt(f) = TpAt(f) + EdgeCount(f) + 1 /\ AirAt(f) \in Nat
  BY <1>1, LineNumbers
<1>3. Command = Do("charge", Body[f] + 10)
  BY <1>1, ShapeOne, BlockLines
<1>4. Command.op = "charge" /\ Command.arg = Body[f] + 10 /\ Passes(Command)
  BY <1>3, DoFacts
<1>5. count' = count + (Body[f] + 10) /\ stack' = stack /\ chosen' = chosen
  BY <1>4, StepIs DEF Scores
<1>6. Bumped(b).func = f /\ Bumped(b).line = n + 1
  BY FrameFields
<1>7. n > 1 /\ n + 1 > 1 /\ ~(n >= TpAt(f)) /\ ~(n >= AirAt(f)) /\ n \in 1 .. ChargeAt(f)
      /\ (kind = "dyn" => n > Body[f] + 1)
  BY <1>2
<1>8. ~Done(b)
  BY <1>7 DEF Done
<1>9. stack = StackAt(b, FALSE)
  BY <1>1, <1>8 DEF AtLine, StackAt
<1>10. stack' = StackAt(Bumped(b), FALSE)
  BY <1>5, <1>6, <1>7, <1>9 DEF StackAt
<1>11. Settled(Bumped(b))'
  BY <1>1, <1>5, <1>6, <1>7 DEF Settled, AtLine, InBlock
<1>12. count' \in Nat /\ stack' \in Seq(Int) /\ chosen' \in Int
  <2>1. \A k \in Nat : count + (k + 10) \in Nat
    BY <1>1
  <2> QED
    BY <1>1, <1>2, <1>5, <2>1
<1> QED
  BY <1>4, <1>7, <1>10, <1>11, <1>12, EarlyPasses

-----------------------------------------------------------------------------
(***************************************************************************)
(* The edges: the block writes its destination itself.                     *)
(***************************************************************************)
LEMMA FilledIs ==
  ASSUME NEW rs \in RunStates, NEW pos \in {"A", "B", "R"}, NEW command \in Commands
  PROVE  /\ Filled(rs, pos, command) \in RunStates
         /\ CommandIn(Filled(rs, pos, command), pos) = command
         /\ \A q \in {"A", "B", "R"} \ {pos} :
              CommandIn(Filled(rs, pos, command), q) = CommandIn(rs, q)
         /\ Filled(rs, pos, command).idx = rs.idx
         /\ Filled(rs, pos, command).tick_queued = rs.tick_queued
         /\ Filled(rs, pos, command).next_pos = rs.next_pos
<1>1. CASE pos = "R"
  <2>1. Filled(rs, pos, command) = [rs EXCEPT !.resume_cmd = command]
    BY <1>1 DEF Filled
  <2> QED
    BY <1>1, <2>1 DEF RunStates, CommandIn
<1>2. CASE pos = "A"
  <2>1. Filled(rs, pos, command) = [rs EXCEPT !.cmd_1 = command]
    BY <1>2 DEF Filled
  <2> QED
    BY <1>2, <2>1 DEF RunStates, CommandIn
<1>3. CASE pos = "B"
  <2>1. Filled(rs, pos, command) = [rs EXCEPT !.cmd_2 = command]
    BY <1>3 DEF Filled
  <2> QED
    BY <1>3, <2>1 DEF RunStates, CommandIn
<1> QED
  BY <1>1, <1>2, <1>3

(* The destination of a branch or a call is among the edges.               *)
LEMMA AimListed ==
  ASSUME NEW f \in Funcs, Kind[f] \in {"branch", "call"},
         Kind[f] = "branch" => chosen \in Succ[f]
  PROVE  /\ Aim(f) \in Succ[f] /\ Aim(f) \in Funcs
         /\ \E i \in DOMAIN SetToSeq(Succ[f]) : SetToSeq(Succ[f])[i] = Aim(f)
         /\ DOMAIN SetToSeq(Succ[f]) = 1 .. EdgeCount(f)
         /\ \A i \in DOMAIN SetToSeq(Succ[f]) :
              SetToSeq(Succ[f])[i] = Aim(f)
                <=> Len(SetToSeq(Succ[f])) = 1 \/ chosen = SetToSeq(Succ[f])[i]
<1> DEFINE dests == SetToSeq(Succ[f])
<1>1. IsFiniteSet(Succ[f]) /\ Succ[f] \subseteq Funcs
      /\ (Kind[f] = "call" => Succ[f] = {CHOOSE callee \in Succ[f] : TRUE})
  BY SuccListed
<1>2. /\ \A x \in Succ[f] : \E i \in DOMAIN dests : dests[i] = x
      /\ DOMAIN dests = 1 .. Len(dests) /\ Len(dests) = Cardinality(Succ[f])
      /\ Len(dests) \in Nat /\ \A i \in DOMAIN dests : dests[i] \in Succ[f]
  BY <1>1, ListedSet
<1>3. Len(dests) = EdgeCount(f)
  BY LineNumbers
<1>4. Aim(f) \in Succ[f]
  BY <1>1 DEF Aim
<1>5. Kind[f] = "call" => Succ[f] = {Aim(f)} /\ Len(dests) = 1
  <2>1. Kind[f] = "call" => Succ[f] = {Aim(f)}
    BY <1>1 DEF Aim
  <2>2. Cardinality({Aim(f)}) = 1
    BY FS_Singleton
  <2> QED
    BY <1>2, <2>1, <2>2
<1>6. Kind[f] = "branch" => Aim(f) = chosen
  BY DEF Aim
<1>7. ASSUME NEW i \in DOMAIN dests
      PROVE  dests[i] = Aim(f) <=> Len(dests) = 1 \/ chosen = dests[i]
  <2>1. CASE Kind[f] = "call"
    BY <1>2, <1>5, <1>7, <2>1
  <2>2. CASE Kind[f] = "branch"
    <3>1. Len(dests) = 1 => dests[i] = chosen
      <4>1. PICK j \in DOMAIN dests : dests[j] = Aim(f)
        BY <1>2, <1>4
      <4>2. Len(dests) = 1 => i = 1 /\ j = 1
        BY <1>2, <1>7, <4>1
      <4> QED
        BY <1>6, <2>2, <4>1, <4>2
    <3> QED
      BY <1>6, <2>2, <3>1
  <2> QED
    BY <2>1, <2>2
<1> QED
  BY <1>1, <1>2, <1>3, <1>4, <1>7

(* The side that the edges are taken on.                                   *)
Lead(f) == IF count < Limit THEN ChargeAt(f) ELSE TpAt(f)
Side    == IF count < Limit THEN "under" ELSE "over"
Spot     == IF count < Limit THEN "next" ELSE "R"

LEMMA EdgeLine ==
  ASSUME NEW b \in Frames, OwnLine(b), Values, Kind[b.func] # "stop",
         NEW i \in 1 .. EdgeCount(b.func), b.line = Lead(b.func) + i
  PROVE  /\ Command = Edges(b.func, Side, Spot)[i]
         /\ SideHolds(Side)
         /\ run_state.next_pos = Across(b.pos)
         /\ ~run_state.tick_queued
         /\ ~Done(b)
         /\ Done(Bumped(b)) <=> i = EdgeCount(b.func)
         /\ b.line \in Nat /\ b.line > 1 /\ b.line > Body[b.func] + 1
         /\ b.line < Len(Code[b.func])
         /\ ~(b.line > TpAt(b.func) /\ count < Limit) /\ ~(b.line > AirAt(b.func))
         /\ ~(b.line + 1 > TpAt(b.func) /\ count < Limit) /\ ~(b.line + 1 > AirAt(b.func))
         /\ b.line + 1 <= AirAt(b.func) + 2
<1> DEFINE f == b.func
           n == b.line
           body == Body[f]
           charge == ChargeAt(f)
           edges == EdgeCount(f)
           tp == TpAt(f)
           air == AirAt(f)
<1>1. /\ AtLine(b) /\ call_stack = <<b>> /\ f \in Funcs /\ count \in Nat
  BY DEF OwnLine, AtLine, InBlock, Values
<1>2. /\ body \in Nat /\ body >= 1 /\ charge \in Nat /\ charge >= body + 1
      /\ edges \in Nat /\ tp = charge + edges + 1 /\ tp \in Nat
      /\ air = tp + edges + 1 /\ air \in Nat
  BY <1>1, LineNumbers
<1>3. Command = Code[f][n]
  BY <1>1, ShapeOne
<1>4. Limit \in Int
  BY InterpreterAssumption
<1>5. n \in Nat /\ n = (IF count < Limit THEN charge ELSE tp) + i
  BY FrameFields DEF Lead
<1>6. /\ \A k \in 1 .. edges : Code[f][charge + k] = Edges(f, "under", "next")[k]
      /\ \A k \in 1 .. edges : Code[f][tp + k] = Edges(f, "over", "R")[k]
  BY <1>1, BlockLines
<1>7. Command = Edges(f, Side, Spot)[i]
  BY <1>3, <1>5, <1>6 DEF Side, Spot
<1>8. SideHolds(Side)
  <2>1. ~(count < Limit) => count >= Limit
    BY <1>1, <1>4
  <2> QED
    BY <2>1 DEF SideHolds, Side
<1>9. Len(Code[f]) = air + 2
  BY <1>1, BlockLength
<1>10. /\ run_state.next_pos = IF count < Limit /\ n > tp THEN b.pos ELSE Across(b.pos)
       /\ run_state.tick_queued <=> n > air + 1 /\ count >= Limit
  BY <1>1 DEF AtLine
<1>11. Bumped(b).func = f /\ Bumped(b).line = n + 1
  BY FrameFields
<1>12. Done(b) <=> IF count < Limit THEN n >= tp ELSE n >= air
  BY DEF Done
<1>13. Done(Bumped(b)) <=> IF count < Limit THEN n + 1 >= tp ELSE n + 1 >= air
  BY <1>11 DEF Done
<1>14. i \in 1 .. edges
  OBVIOUS
<1> HIDE DEF f, n, body, charge, edges, tp, air
<1>15. /\ count < Limit => n < tp /\ (n + 1 >= tp <=> i = edges)
       /\ ~(count < Limit) => n < air /\ (n + 1 >= air <=> i = edges)
       /\ n < air
  BY <1>2, <1>5, <1>14
<1>16. /\ n > 1 /\ n > body + 1 /\ n < air + 2 /\ n + 1 <= air + 2
       /\ ~(n > air) /\ ~(n > air + 1) /\ ~(n + 1 > air)
       /\ ~(n > tp /\ count < Limit) /\ ~(n + 1 > tp /\ count < Limit)
  BY <1>2, <1>5, <1>14, <1>15
<1>17. ~Done(b) /\ (Done(Bumped(b)) <=> i = edges)
  BY <1>2, <1>5, <1>12, <1>13, <1>15
<1> QED
  BY <1>5, <1>7, <1>8, <1>9, <1>10, <1>16, <1>17 DEF f, n, body, edges, tp, air

LEMMA WritePasses ==
  ASSUME NEW b \in Frames, OwnLine(b), Values, StepCommand,
         Kind[b.func] \in {"branch", "call"},
         NEW i \in 1 .. EdgeCount(b.func), b.line = Lead(b.func) + i
  PROVE  Passed
<1> DEFINE f == b.func
           B == Bumped(b)
           dests == SetToSeq(Succ[f])
           hit == dests[i] = Aim(f)
           here == Goal(b)
           aim == Aim(f)
           lead == Lead(f)
<1>1. /\ AtLine(b) /\ InBlock(b) /\ call_stack = <<b>> /\ f \in Funcs /\ Kind[f] # "stop"
      /\ count \in Nat /\ run_state \in RunStates
  BY DEF OwnLine, AtLine, InBlock, Values
<1>2. /\ Command = Edges(f, Side, Spot)[i]
      /\ SideHolds(Side)
      /\ run_state.next_pos = Across(b.pos)
      /\ ~run_state.tick_queued
      /\ ~Done(b)
      /\ Done(B) <=> i = EdgeCount(f)
      /\ b.line \in Nat /\ b.line > 1
      /\ b.line < Len(Code[f])
      /\ ~(b.line + 1 > TpAt(f) /\ count < Limit) /\ ~(b.line + 1 > AirAt(f))
      /\ b.line + 1 <= AirAt(f) + 2
  BY <1>1, EdgeLine
<1>3. Kind[f] = "branch" => chosen \in Succ[f]
  BY <1>1, <1>2 DEF InBlock, Settled
<1>4. /\ aim \in Succ[f] /\ aim \in Funcs
      /\ \E k \in DOMAIN dests : dests[k] = aim
      /\ DOMAIN dests = 1 .. EdgeCount(f)
      /\ hit <=> Len(dests) = 1 \/ chosen = dests[i]
  <2>1. /\ aim \in Succ[f] /\ aim \in Funcs
        /\ \E k \in DOMAIN dests : dests[k] = aim
        /\ DOMAIN dests = 1 .. EdgeCount(f)
        /\ \A k \in DOMAIN dests : dests[k] = aim <=> Len(dests) = 1 \/ chosen = dests[k]
    BY <1>1, <1>3, AimListed
  <2> QED
    BY <2>1
<1>5. Command = EdgeCmd(f, Side, Spot, i)
  <2>1. Side \in {"under", "over"} /\ Spot \in {"next", "R"} /\ i \in DOMAIN dests
    BY <1>4 DEF Side, Spot
  <2>2. Kind[f] \notin {"dyn", "ret"}
    OBVIOUS
  <2> QED
    BY <1>1, <1>2, <2>1, <2>2, EdgesAre
<1>6. /\ Command.op = "set" /\ Command.arg = dests[i] /\ Command.pos = Spot
      /\ Passes(Command) <=> hit
  <2>1. /\ Command.op = "set" /\ Command.arg = dests[i] /\ Command.pos = Spot
        /\ Passes(Command) <=> SideHolds(Side) /\ (Len(dests) = 1 \/ chosen = dests[i])
    BY <1>5, EdgeFacts
  <2> QED
    BY <1>2, <1>4, <2>1
<1>7. Position(Command) = here /\ here \in {"A", "B", "R"}
  BY <1>2, <1>6 DEF Position, Spot, Goal, Across
<1>8. UNCHANGED <<count, chosen, stack>>
  BY <1>6, StepIs DEF Scored
<1>9. Stays(<<B>>)
  BY <1>1, <1>2, <1>6, BlockLength, OneSteps
<1>10. run_state' = IF hit THEN Filled(run_state, here, aim) ELSE run_state
  <2>1. run_state' = After
    BY <1>9 DEF Stays
  <2>2. hit => RunStateAfter(Command) = Filled(run_state, here, aim)
    BY <1>6, <1>7 DEF RunStateAfter
  <2> QED
    BY <1>6, <2>1, <2>2 DEF After
<1>11. before' = before
  BY <1>9 DEF Stays
<1>12. aim \in Commands
  BY <1>4 DEF Commands
<1>13. /\ run_state' \in RunStates /\ run_state'.idx = run_state.idx
       /\ run_state'.tick_queued = run_state.tick_queued
       /\ run_state'.next_pos = run_state.next_pos
       /\ hit => CommandIn(run_state', here) = aim
       /\ ~hit => run_state' = run_state
  BY <1>1, <1>7, <1>10, <1>12, FilledIs
<1>14. /\ B \in Frames /\ B.func = f /\ B.line = b.line + 1 /\ B.pos = b.pos
  BY FrameFields
<1>15. /\ Goal(B)' = here /\ Aim(f)' = aim /\ Lead(f)' = lead
       /\ Done(B)' <=> Done(B)
  BY <1>8, <1>11, <1>14 DEF Goal, Aim, Lead, Done
<1>16. EdgesBehind(b)
  BY <1>1 DEF AtLine
<1>17. \A k \in DOMAIN dests :
         dests[k] = aim /\ b.line > lead + k => CommandIn(run_state, here) = aim
  BY <1>16 DEF EdgesBehind, Lead
<1>18. \A k \in DOMAIN dests :
         dests[k] = aim /\ b.line + 1 > lead + k => CommandIn(run_state', here) = aim
  <2> SUFFICES ASSUME NEW k \in DOMAIN dests, dests[k] = aim, b.line + 1 > lead + k
               PROVE  CommandIn(run_state', here) = aim
    OBVIOUS
  <2>0. ChargeAt(f) \in Nat /\ TpAt(f) \in Nat /\ EdgeCount(f) \in Nat
    BY <1>1, LineNumbers
  <2>1. lead \in Nat /\ k \in Nat /\ i \in Nat /\ b.line = lead + i
    <3>1. lead \in Nat
      BY <2>0 DEF Lead
    <3>2. k \in Nat /\ i \in Nat
      BY <1>4, <2>0
    <3> QED
      BY <3>1, <3>2
  <2> HIDE DEF lead
  <2>2. k = i \/ b.line > lead + k
    BY <2>1
  <2>3. CASE hit
    BY <1>13, <2>3
  <2>4. CASE ~hit
    BY <1>13, <1>17, <2>2, <2>4
  <2> QED
    BY <2>3, <2>4
<1> HIDE DEF B, f, here, aim, dests, lead
<1>19. EdgesBehind(B)'
  <2> SUFFICES ASSUME NEW k \in DOMAIN dests, dests[k] = aim, b.line + 1 > lead + k
               PROVE  CommandIn(run_state', here) = aim
    BY <1>14, <1>15 DEF EdgesBehind, Lead, dests
  <2> QED
    BY <1>18
<1>20. (Done(B) => Written(Goal(B), Aim(B.func)))'
  <2> SUFFICES ASSUME Done(B) PROVE CommandIn(run_state', here) = aim
    BY <1>4, <1>14, <1>15 DEF Written
  <2>1. PICK k \in DOMAIN dests : dests[k] = aim
    BY <1>4
  <2>2. i = EdgeCount(f) /\ lead \in Nat /\ i \in Nat /\ b.line = lead + i /\ k \in 1 .. i
    BY <1>1, <1>2, <1>4, LineNumbers DEF Lead, lead, f
  <2>3. b.line + 1 > lead + k
    BY <2>2
  <2> QED
    BY <1>18, <2>1, <2>3
<1>21. InBlock(B)'
  <2>1. Settled(B)'
    BY <1>3, <1>8, <1>14 DEF Settled, f
  <2> QED
    BY <1>1, <1>11, <1>13, <1>14, <2>1 DEF InBlock, f
<1>22. B.line \in 1 .. (IF Kind[B.func] = "stop" THEN Body[B.func] + 1
                        ELSE AirAt(B.func) + 2)
  <2>1. AirAt(f) \in Nat
    BY <1>1, LineNumbers
  <2> QED
    BY <1>1, <1>2, <1>14, <2>1
<1>23. (stack = StackAt(B, Done(B)))'
  <2>1. stack = StackAt(b, Done(b))
    BY <1>1 DEF AtLine
  <2>2. Kind[f] # "ret" /\ b.line > 1 /\ b.line + 1 > 1
    BY <1>2 DEF f
  <2> QED
    BY <1>8, <1>11, <1>14, <2>1, <2>2 DEF StackAt, f
<1>24. /\ (run_state.next_pos =
             IF count < Limit /\ B.line > TpAt(B.func) THEN B.pos ELSE Across(B.pos))'
       /\ (B.line > AirAt(B.func) /\ count >= Limit =>
             CommandIn(run_state, Across(B.pos)) = NoCmd)'
       /\ (run_state.tick_queued <=> B.line > AirAt(B.func) + 1 /\ count >= Limit)'
  <2>1. AirAt(f) \in Nat /\ ~(b.line + 1 > AirAt(f) + 1)
    <3>1. AirAt(f) \in Nat /\ b.line \in Nat /\ ~(b.line + 1 > AirAt(f))
      BY <1>1, <1>2, LineNumbers
    <3> QED
      BY <3>1
  <2> QED
    BY <1>2, <1>8, <1>13, <1>14, <2>1
<1>25. AtLine(B)'
  BY <1>19, <1>20, <1>21, <1>22, <1>23, <1>24 DEF AtLine
<1>26. Values'
  BY <1>8, <1>11, <1>13 DEF Values
<1> QED
  BY <1>9, <1>25, <1>26, OwnPasses DEF B

(***************************************************************************)
(* The edges of a return and of a call through a pointer: the block calls  *)
(* a function that follows the pointer.                                    *)
(***************************************************************************)
LEMMA FollowPasses ==
  ASSUME NEW b \in Frames, OwnLine(b), Values, StepCommand,
         Kind[b.func] \in {"dyn", "ret"}, b.line = Lead(b.func) + 1
  PROVE  Passed
<1> DEFINE f == b.func
           B == Bumped(b)
           callee == IF Kind[f] = "dyn" THEN CallFn ELSE ReturnFn
<1>1. /\ AtLine(b) /\ InBlock(b) /\ call_stack = <<b>> /\ f \in Funcs /\ Kind[f] # "stop"
      /\ count \in Nat /\ run_state \in RunStates
  BY DEF OwnLine, AtLine, InBlock, Values
<1>2. EdgeCount(f) = 1 /\ 1 \in 1 .. EdgeCount(f)
  BY <1>1, LineNumbers
<1>3. /\ Command = Edges(f, Side, Spot)[1]
      /\ SideHolds(Side)
      /\ run_state.next_pos = Across(b.pos)
      /\ ~run_state.tick_queued
      /\ ~Done(b)
      /\ b.line \in Nat /\ b.line > 1 /\ b.line > Body[f] + 1
      /\ b.line < Len(Code[f])
  BY <1>1, <1>2, EdgeLine
<1>4. Command = When(Side, At(Spot, Do("call", callee)))
  <2>1. Side \in {"under", "over"} /\ Spot \in {"next", "R"}
    BY DEF Side, Spot
  <2> QED
    BY <1>1, <1>3, <2>1, EdgesAre
<1>5. /\ Command.op = "call" /\ Command.arg = callee /\ Command.pos = Spot /\ Passes(Command)
  <2>1. /\ Command.op = "call" /\ Command.arg = callee /\ Command.pos = Spot
        /\ Passes(Command) <=> SideHolds(Side)
    BY <1>4, WhenAtFacts
  <2> QED
    BY <1>3, <2>1
<1>0. PICK here \in Positions : here = Goal(b)
  BY <1>1 DEF Goal, Across, Positions
<1>6. Position(Command) = here
  BY <1>0, <1>3, <1>5 DEF Position, Spot, Goal
<1>7. callee \in AllFuncs
  BY CodeOf
<1> DEFINE c == Frame(callee, here)
<1>8. b.line \in 1 .. Len(Code[f]) - 1
  BY <1>3, FrameFields
<1>9. Stays(<<B, c>>)
  BY <1>1, <1>5, <1>6, <1>7, <1>8, OneCalls
<1>10. UNCHANGED <<count, chosen, stack>> /\ After = run_state
  BY <1>5, StepIs, NothingPlaced DEF Scored
<1>11. UNCHANGED <<run_state, before>> /\ call_stack' = <<B, c>>
  BY <1>9, <1>10 DEF Stays
<1>12. /\ B \in Frames /\ B.func = f /\ B.line = b.line + 1 /\ B.pos = b.pos
  BY FrameFields
<1>13. c \in Frames /\ c.func = callee /\ c.line = 1 /\ c.pos = here
  BY <1>6, <1>7, NewFrame
<1> HIDE DEF B, c, f
<1>14. Waits(B)'
  <2>1. Settled(B)'
    <3>1. Settled(b)
      BY <1>1 DEF InBlock
    <3> QED
      BY <1>3, <1>10, <1>12, <3>1 DEF Settled, f
  <2>2. InBlock(B)'
    BY <1>1, <1>11, <1>12, <2>1 DEF InBlock, f
  <2>3. (B.line = IF count < Limit THEN TpAt(B.func) ELSE AirAt(B.func))'
    <3>1. /\ TpAt(f) = ChargeAt(f) + 1 + 1 /\ AirAt(f) = TpAt(f) + 1 + 1
          /\ ChargeAt(f) \in Nat /\ TpAt(f) \in Nat
      BY <1>1, <1>2, LineNumbers
    <3>2. b.line = (IF count < Limit THEN ChargeAt(f) ELSE TpAt(f)) + 1
      BY DEF Lead, f
    <3>3. b.line + 1 = IF count < Limit THEN TpAt(f) ELSE AirAt(f)
      BY <3>1, <3>2
    <3> QED
      BY <1>10, <1>12, <3>3
  <2> QED
    BY <1>3, <1>11, <1>12, <2>2, <2>3 DEF Waits
<1>15. Goal(B)' = here
  BY <1>0, <1>10, <1>12 DEF Goal
<1>16. stack = StackAt(b, FALSE) /\ b.line + 1 > 1
  <2>1. stack = StackAt(b, Done(b))
    BY <1>1 DEF AtLine
  <2>2. StackAt(b, Done(b)) = StackAt(b, FALSE)
    BY <1>3 DEF StackAt
  <2> QED
    BY <1>3, <2>1, <2>2
<1>17. stack' = StackAt(B, FALSE)'
  BY <1>3, <1>10, <1>11, <1>12, <1>16 DEF StackAt, f
<1>18. RunInv'
  <2>1. CASE Kind[f] = "dyn"
    <3>1. Calling(B, c)'
      <4>1. stack' = StackAt(B, TRUE)'
        BY <1>12, <1>17, <2>1 DEF StackAt, Calls
      <4>2. (chosen = Aim(B.func))'
        BY <1>12, <2>1 DEF Aim
      <4>3. c.line \in 1 .. N + 3
        BY <1>13, CodeOf
      <4>4. (chosen \in Funcs => ~(c.line > chosen + 2))'
        <5>1. \A p \in Funcs : ~(1 > p + 2)
          BY CodeOf DEF Funcs
        <5> QED
          BY <1>13, <5>1
      <4>5. ~(c.line > 1)
        BY <1>13
      <4> QED
        BY <1>11, <1>12, <1>13, <1>14, <1>15, <2>1, <4>1, <4>2, <4>3, <4>4, <4>5 DEF Calling
    <3> QED
      BY <1>12, <1>13, <3>1 DEF RunInv
  <2>2. CASE Kind[f] = "ret"
    <3>1. Returning(B, c)'
      <4>1. c.func = ReturnFn /\ c.line = 1
        BY <1>13, <2>2 DEF f
      <4>2. (stack = StackAt(B, c.line = 2))'
        BY <1>17, <4>1 DEF StackAt
      <4> QED
        BY <1>11, <1>12, <1>13, <1>14, <1>15, <2>2, <4>1, <4>2 DEF Returning
    <3> QED
      BY <1>12, <1>13, <3>1 DEF RunInv
  <2> QED
    BY <2>1, <2>2 DEF f
<1>19. pcBar' = pcBar
  <2>1. /\ call_stack # <<>> /\ call_stack[1] = b
        /\ (call_stack # <<>>)' /\ (call_stack[1] = B)'
    BY <1>1, <1>11
  <2> QED
    BY <1>1, <1>12, <2>1, SamePlace DEF f
<1>20. Values'
  BY <1>10, <1>11 DEF Values
<1> QED
  BY <1>11, <1>18, <1>19, <1>20 DEF Passed

(* The edges of the other side.                                            *)
LEMMA SkippedEdges ==
  ASSUME NEW b \in Frames, OwnLine(b), Values, StepCommand, Kind[b.func] # "stop",
         NEW i \in 1 .. EdgeCount(b.func),
         IF count < Limit THEN b.line = TpAt(b.func) + i ELSE b.line = ChargeAt(b.func) + i
  PROVE  Passed
<1> DEFINE f == b.func
           n == b.line
           body == Body[f]
           charge == ChargeAt(f)
           edges == EdgeCount(f)
           tp == TpAt(f)
           air == AirAt(f)
           side == IF count < Limit THEN "over" ELSE "under"
           pos == IF count < Limit THEN "R" ELSE "next"
<1>1. /\ AtLine(b) /\ call_stack = <<b>> /\ f \in Funcs /\ count \in Nat
  BY DEF OwnLine, AtLine, InBlock, Values
<1>2. /\ body \in Nat /\ body >= 1 /\ charge \in Nat /\ charge >= body + 1
      /\ edges \in Nat /\ tp = charge + edges + 1 /\ tp \in Nat
      /\ air = tp + edges + 1 /\ air \in Nat
  BY <1>1, LineNumbers
<1>3. Command = Code[f][n]
  BY <1>1, ShapeOne
<1>4. /\ \A k \in 1 .. edges : Code[f][charge + k] = Edges(f, "under", "next")[k]
      /\ \A k \in 1 .. edges : Code[f][tp + k] = Edges(f, "over", "R")[k]
  BY <1>1, BlockLines
<1>5. Command = Edges(f, side, pos)[i]
  BY <1>3, <1>4
<1>6. side \in {"under", "over"} /\ pos \in {"next", "R"} /\ ~SideHolds(side)
  <2>1. Limit \in Int
    BY InterpreterAssumption
  <2>2. ~(count < Limit /\ count >= Limit)
    BY <1>1, <2>1
  <2> QED
    BY <2>2 DEF SideHolds
<1> HIDE DEF side, pos
<1>7. ~Passes(Command)
  <2>4. Kind[f] \in {"dyn", "ret"} => i = 1
    <3>1. Kind[f] \in {"dyn", "ret"} => edges = 1
      BY <1>1, LineNumbers
    <3> QED
      BY <3>1
  <2>1. CASE Kind[f] = "dyn"
    <3>1. Command = When(side, At(pos, Do("call", CallFn)))
      BY <1>1, <1>5, <1>6, <2>1, <2>4, EdgesAre
    <3> QED
      BY <1>6, <3>1, WhenAtFacts
  <2>2. CASE Kind[f] = "ret"
    <3>1. Command = When(side, At(pos, Do("call", ReturnFn)))
      BY <1>1, <1>5, <1>6, <2>2, <2>4, EdgesAre
    <3> QED
      BY <1>6, <3>1, WhenAtFacts
  <2>3. CASE Kind[f] \notin {"dyn", "ret"}
    <3>1. i \in DOMAIN SetToSeq(Succ[f])
      <4>1. edges = Len(SetToSeq(Succ[f])) /\ IsFiniteSet(Succ[f])
        BY <1>1, <2>3, LineNumbers, SuccListed
      <4> QED
        BY <4>1, ListedSet
    <3>2. Command = EdgeCmd(f, side, pos, i)
      BY <1>1, <1>5, <1>6, <2>3, <3>1, EdgesAre
    <3> QED
      BY <1>6, <3>2, EdgeFacts
  <2> QED
    BY <2>1, <2>2, <2>3
<1>8. UNCHANGED <<count, chosen, stack>> /\ After = run_state
  BY <1>7, StepIs, NothingPlaced
<1>9. Still(b)
  <2>1. /\ n \in Nat
        /\ IF count < Limit THEN n = tp + i ELSE n = charge + i
        /\ i \in 1 .. edges
    BY FrameFields
  <2>2. (count >= Limit <=> ~(count < Limit))
    BY <1>1, InterpreterAssumption
  <2> HIDE DEF n, body, charge, edges, tp, air
  <2>3. /\ n # 1 /\ n # body + 1 /\ n # air + 2
        /\ count < Limit => n \notin charge + 1 .. tp
        /\ count >= Limit => n \notin tp + 1 .. air + 1
    BY <1>2, <2>1, <2>2
  <2> QED
    BY <2>3 DEF Still, n, body, charge, tp, air
<1> QED
  BY <1>7, <1>8, <1>9, StillPasses

(* A line after the destination has been written.                          *)
LEMMA LateLine ==
  ASSUME NEW b \in Frames, AtLine(b), Values, Done(b), b.line < AirAt(b.func) + 2,
         Kind[b.func] # "stop",
         UNCHANGED <<count, chosen, stack, before>>,
         run_state'.idx = run_state.idx,
         CommandIn(run_state', Goal(b)) = CommandIn(run_state, Goal(b)),
         run_state'.next_pos =
           IF count < Limit /\ b.line >= TpAt(b.func) THEN b.pos ELSE Across(b.pos),
         b.line >= AirAt(b.func) /\ count >= Limit =>
           CommandIn(run_state', Across(b.pos)) = NoCmd,
         run_state'.tick_queued <=> b.line > AirAt(b.func) /\ count >= Limit
  PROVE  AtLine(Bumped(b))'
<1> DEFINE B == Bumped(b)
           f == b.func
           n == b.line
           body == Body[f]
           charge == ChargeAt(f)
           edges == EdgeCount(f)
           tp == TpAt(f)
           air == AirAt(f)
<1>1. /\ B \in Frames /\ B.func = f /\ B.line = n + 1 /\ B.pos = b.pos
      /\ n \in Nat
  BY FrameFields
<1>2. f \in Funcs /\ InBlock(b) /\ Kind[f] # "stop"
  BY DEF AtLine, InBlock
<1>3. count \in Nat /\ Limit \in Int
  BY InterpreterAssumption DEF Values
<1>n. /\ body \in Nat /\ body >= 1 /\ charge \in Nat /\ charge >= body + 1
      /\ edges \in Nat /\ tp = charge + edges + 1 /\ tp \in Nat
      /\ air = tp + edges + 1 /\ air \in Nat
  BY <1>2, LineNumbers
<1>r. n < air + 2 /\ (IF count < Limit THEN n >= tp ELSE n >= air)
  BY DEF Done
<1>u. /\ Goal(B)' = Goal(b) /\ Aim(f)' = Aim(f)
      /\ Done(B)' <=> Done(B)
  BY <1>1 DEF Goal, Aim, Done
<1>w. Written(Goal(b), Aim(f)) /\ EdgesBehind(b) /\ stack = StackAt(b, Done(b))
  BY DEF AtLine
<1>x. /\ run_state'.next_pos = IF count < Limit /\ n >= tp THEN b.pos ELSE Across(b.pos)
      /\ n >= air /\ count >= Limit => CommandIn(run_state', Across(b.pos)) = NoCmd
      /\ run_state'.tick_queued <=> n > air /\ count >= Limit
  OBVIOUS
<1> HIDE DEF B, f, n, body, charge, edges, tp, air
<1>4. /\ n > 1 /\ n > body + 1
      /\ (n + 1 > tp <=> n >= tp) /\ (n + 1 > air <=> n >= air) /\ (n + 1 > air + 1 <=> n > air)
      /\ n + 1 \in 1 .. air + 2 /\ n + 1 > 1
      /\ IF count < Limit THEN n + 1 >= tp ELSE n + 1 >= air
  BY <1>1, <1>n, <1>r
<1>5. InBlock(B)'
  <2>1. Settled(b)
    BY <1>2 DEF InBlock
  <2>2. Settled(B)'
    BY <1>1, <1>4, <2>1 DEF Settled, f, n, body
  <2> QED
    BY <1>1, <1>2, <2>2 DEF InBlock, f
<1>6. B.line \in 1 .. (IF Kind[B.func] = "stop" THEN Body[B.func] + 1
                       ELSE AirAt(B.func) + 2)
  BY <1>1, <1>2, <1>4 DEF air
<1>7. Done(B)
  BY <1>1, <1>4 DEF Done, tp, air
<1>8. (stack = StackAt(B, Done(B)))'
  <2>1. stack = StackAt(b, TRUE)
    BY <1>w DEF StackAt
  <2>2. b.line > 1 /\ B.line > 1
    BY <1>1, <1>4 DEF n
  <2> QED
    BY <1>1, <1>7, <1>u, <2>1, <2>2 DEF StackAt, f
<1>9. EdgesBehind(B)'
  <2> SUFFICES ASSUME NEW k \in DOMAIN SetToSeq(Succ[f]), Kind[f] \in {"branch", "call"},
                      SetToSeq(Succ[f])[k] = Aim(f)
               PROVE  CommandIn(run_state', Goal(b)) = Aim(f)
    BY <1>1, <1>u DEF EdgesBehind
  <2>1. k \in 1 .. edges
    <3>1. IsFiniteSet(Succ[f]) /\ edges = Len(SetToSeq(Succ[f]))
      BY <1>2, SuccListed, LineNumbers DEF edges
    <3> QED
      BY <3>1, ListedSet
  <2>2. n > (IF count < Limit THEN charge ELSE tp) + k
    BY <1>1, <1>n, <1>r, <2>1
  <2>3. CommandIn(run_state, Goal(b)) = Aim(f)
    BY <1>w, <2>2 DEF EdgesBehind, n, charge, tp, f
  <2> QED
    BY <2>3
<1>10. (Done(B) => Written(Goal(B), Aim(B.func)))'
  BY <1>1, <1>u, <1>w DEF Written
<1>11. /\ (run_state.next_pos =
             IF count < Limit /\ B.line > TpAt(B.func) THEN B.pos ELSE Across(B.pos))'
       /\ (B.line > AirAt(B.func) /\ count >= Limit =>
             CommandIn(run_state, Across(B.pos)) = NoCmd)'
       /\ (run_state.tick_queued <=> B.line > AirAt(B.func) + 1 /\ count >= Limit)'
  BY <1>1, <1>4, <1>x DEF tp, air
<1> QED
  BY <1>5, <1>6, <1>8, <1>9, <1>10, <1>11 DEF AtLine, B

(* The teleport, the block that is blanked and the redstone block.         *)
LEMMA LatePasses ==
  ASSUME NEW b \in Frames, OwnLine(b), Values, StepCommand, Kind[b.func] # "stop",
         b.line \in {TpAt(b.func), AirAt(b.func), AirAt(b.func) + 1}
  PROVE  Passed
<1> DEFINE f == b.func
           n == b.line
           rs == run_state
           side == IF n = TpAt(f) THEN "under" ELSE "over"
           place == IF n = AirAt(f) THEN "next" ELSE "here"
           op == IF n = TpAt(f) THEN "tp" ELSE IF n = AirAt(f) THEN "air" ELSE "redstone"
<1>1. /\ AtLine(b) /\ InBlock(b) /\ call_stack = <<b>> /\ f \in Funcs /\ count \in Nat
      /\ rs \in RunStates /\ b.pos \in {"A", "B"}
  BY DEF OwnLine, AtLine, InBlock, Values
<1>2. /\ Body[f] \in Nat /\ Body[f] >= 1 /\ ChargeAt(f) \in Nat /\ ChargeAt(f) >= Body[f] + 1
      /\ EdgeCount(f) \in Nat
      /\ TpAt(f) = ChargeAt(f) + EdgeCount(f) + 1 /\ TpAt(f) \in Nat
      /\ AirAt(f) = TpAt(f) + EdgeCount(f) + 1 /\ AirAt(f) \in Nat
      /\ TpAt(f) < AirAt(f)
  <2>1. /\ Body[f] \in Nat /\ Body[f] >= 1 /\ ChargeAt(f) \in Nat /\ ChargeAt(f) >= Body[f] + 1
        /\ EdgeCount(f) \in Nat
        /\ TpAt(f) = ChargeAt(f) + EdgeCount(f) + 1 /\ TpAt(f) \in Nat
        /\ AirAt(f) = TpAt(f) + EdgeCount(f) + 1 /\ AirAt(f) \in Nat
    BY <1>1, LineNumbers
  <2>2. \A k \in Nat, t \in Nat : t < t + k + 1
    OBVIOUS
  <2> QED
    BY <2>1, <2>2
<1>3. Command = Code[f][n] /\ Top(call_stack) = b
  BY <1>1, ShapeOne
<1>4. /\ Code[f][TpAt(f)] = When("under", Do("tp", 0))
      /\ Code[f][AirAt(f)] = When("over", At("next", Do("air", 0)))
      /\ Code[f][AirAt(f) + 1] = When("over", Do("redstone", 0))
  <2>1. /\ Code[f][TpAt(f)] = When("under", Do("tp", 0))
        /\ \A i \in 1 .. 3 : Code[f][AirAt(f) - 1 + i] = Closing[i]
    BY <1>1, BlockLines
  <2>2. AirAt(f) - 1 + 1 = AirAt(f) /\ AirAt(f) - 1 + 2 = AirAt(f) + 1
    BY <1>2
  <2>3. Code[f][AirAt(f) - 1 + 1] = Closing[1] /\ Code[f][AirAt(f) - 1 + 2] = Closing[2]
    BY <2>1
  <2> QED
    BY <2>1, <2>2, <2>3 DEF Closing
<1>o. /\ n = TpAt(f) => op = "tp" /\ place = "here" /\ side = "under"
      /\ n = AirAt(f) => op = "air" /\ place = "next" /\ side = "over"
      /\ n = AirAt(f) + 1 => op = "redstone" /\ place = "here" /\ side = "over"
      /\ op \in {"tp", "air", "redstone"}
      /\ side = IF n = TpAt(f) THEN "under" ELSE "over"
  BY <1>2
<1> HIDE DEF op, place, side
<1>5. Command.op = op /\ Command.pos = place /\ (Passes(Command) <=> SideHolds(side))
  <2>1. CASE n = TpAt(f)
    BY <1>3, <1>4, <1>o, <2>1, WhenFacts
  <2>2. CASE n = AirAt(f)
    BY <1>3, <1>4, <1>o, <2>2, WhenAtFacts
  <2>3. CASE n = AirAt(f) + 1
    BY <1>3, <1>4, <1>o, <2>3, WhenFacts
  <2> QED
    BY <2>1, <2>2, <2>3
<1>6. ~(Passes(Command) /\ Command.op = "call") /\ UNCHANGED <<count, chosen, stack>>
  BY <1>5, <1>o, StepIs DEF Scored
<1>7. count >= Limit <=> ~(count < Limit)
  BY <1>1, InterpreterAssumption
<1>8. CASE ~SideHolds(side)
  <2>1. After = rs
    BY <1>5, <1>8, NothingPlaced
  <2>2. Still(b)
    <3>1. n # 1 /\ n # Body[f] + 1 /\ n # AirAt(f) + 2
      BY <1>2
    <3>2. count < Limit => n \notin ChargeAt(f) + 1 .. TpAt(f)
      <4>1. count < Limit => n # TpAt(f)
        BY <1>8, <1>o DEF SideHolds
      <4>2. TpAt(f) < n \/ n = TpAt(f)
        BY <1>2
      <4> QED
        BY <1>2, <4>1, <4>2
    <3>3. count >= Limit => n \notin TpAt(f) + 1 .. AirAt(f) + 1
      <4>1. count >= Limit => n = TpAt(f)
        BY <1>7, <1>8, <1>o DEF SideHolds
      <4> QED
        BY <1>2, <4>1
    <3> QED
      BY <3>1, <3>2, <3>3 DEF Still
  <2> QED
    BY <1>6, <2>1, <2>2, StillPasses
<1>9. CASE SideHolds(side)
  <2>1. /\ n = TpAt(f) => count < Limit
        /\ n # TpAt(f) => ~(count < Limit)
    BY <1>7, <1>9, <1>o DEF SideHolds
  <2>2. n < AirAt(f) + 2 /\ n \in Nat
    BY <1>2
  <2>3. b.line < Len(Code[f])
    BY <1>1, <2>2, BlockLength
  <2>4. Stays(<<Bumped(b)>>)
    BY <1>1, <1>6, <2>3, BlockLength, OneSteps
  <2>5. run_state' = RunStateAfter(Command) /\ before' = before
    BY <1>5, <1>9, <2>4 DEF Stays, After
  <2>6. /\ rs.next_pos = IF count < Limit /\ n > TpAt(f) THEN b.pos ELSE Across(b.pos)
        /\ rs.tick_queued <=> n > AirAt(f) + 1 /\ count >= Limit
        /\ n > AirAt(f) /\ count >= Limit => CommandIn(rs, Across(b.pos)) = NoCmd
    BY <1>1 DEF AtLine
  <2>7. ~rs.tick_queued
    BY <1>2, <2>6
  <2>8. Done(b)
    BY <1>2, <2>1 DEF Done
  <2>9. rs.idx = rs.idx /\ Across(b.pos) \in {"A", "B"}
    BY DEF Across
  <2>10. /\ run_state' \in RunStates
         /\ run_state'.idx = rs.idx
         /\ CommandIn(run_state', Goal(b)) = CommandIn(rs, Goal(b))
         /\ run_state'.next_pos =
             IF count < Limit /\ n >= TpAt(f) THEN b.pos ELSE Across(b.pos)
         /\ n >= AirAt(f) /\ count >= Limit => CommandIn(run_state', Across(b.pos)) = NoCmd
         /\ run_state'.tick_queued <=> n > AirAt(f) /\ count >= Limit
    <3>1. CASE n = TpAt(f)
      <4>1. Command.op = "tp" /\ Position(Command) = b.pos /\ count < Limit
        BY <1>3, <1>5, <1>o, <2>1, <3>1 DEF Position
      <4>2. run_state' = [rs EXCEPT !.next_pos = b.pos]
        BY <2>5, <4>1 DEF RunStateAfter
      <4>3. b.pos \in Positions
        BY <1>1 DEF Positions
      <4>4. /\ run_state' \in RunStates /\ run_state'.idx = rs.idx
            /\ run_state'.next_pos = b.pos /\ run_state'.tick_queued = rs.tick_queued
            /\ run_state'.cmd_1 = rs.cmd_1 /\ run_state'.cmd_2 = rs.cmd_2
            /\ run_state'.resume_cmd = rs.resume_cmd
        BY <1>1, <4>2, <4>3 DEF RunStates
      <4>5. CommandIn(run_state', Goal(b)) = CommandIn(rs, Goal(b))
        BY <4>4 DEF CommandIn
      <4>6. n >= TpAt(f) /\ ~(n >= AirAt(f)) /\ ~(n > AirAt(f))
        BY <1>2, <3>1
      <4> QED
        BY <2>7, <4>1, <4>4, <4>5, <4>6
    <3>2. CASE n = AirAt(f)
      <4>1. /\ n # TpAt(f) /\ ~(count < Limit) /\ ~(n > AirAt(f))
        BY <1>2, <2>1, <3>2
      <4>2. Command.op = "air" /\ Command.pos = "next"
        BY <1>5, <1>o, <3>2
      <4>3. Position(Command) = Across(b.pos)
        BY <2>6, <4>1, <4>2 DEF Position
      <4>4. run_state' = Filled(rs, Across(b.pos), NoCmd)
        BY <2>5, <4>2, <4>3 DEF RunStateAfter
      <4>5. NoCmd \in Commands /\ Across(b.pos) \in {"A", "B", "R"}
        BY <2>9 DEF Commands
      <4>6. /\ run_state' \in RunStates
            /\ CommandIn(run_state', Across(b.pos)) = NoCmd
            /\ \A q \in {"A", "B", "R"} \ {Across(b.pos)} :
                 CommandIn(run_state', q) = CommandIn(rs, q)
            /\ run_state'.idx = rs.idx
            /\ run_state'.tick_queued = rs.tick_queued
            /\ run_state'.next_pos = rs.next_pos
        BY <1>1, <4>4, <4>5, FilledIs, SMTT(30)
      <4>7. Goal(b) = "R"
        BY <4>1 DEF Goal
      <4>8. CommandIn(run_state', Goal(b)) = CommandIn(rs, Goal(b))
        BY <2>9, <4>6, <4>7
      <4> QED
        BY <2>6, <2>7, <4>1, <4>6, <4>8
    <3>3. CASE n = AirAt(f) + 1
      <4>1. /\ n # TpAt(f) /\ n # AirAt(f) /\ ~(count < Limit) /\ n > AirAt(f)
        BY <1>2, <2>1, <3>3
      <4>2. Command.op = "redstone"
        BY <1>5, <1>o, <3>3
      <4>3. run_state' = [rs EXCEPT !.tick_queued = TRUE]
        BY <2>5, <4>2 DEF RunStateAfter
      <4>4. /\ run_state' \in RunStates /\ run_state'.idx = rs.idx
            /\ run_state'.next_pos = rs.next_pos /\ run_state'.tick_queued = TRUE
            /\ run_state'.cmd_1 = rs.cmd_1 /\ run_state'.cmd_2 = rs.cmd_2
            /\ run_state'.resume_cmd = rs.resume_cmd
        BY <1>1, <4>3 DEF RunStates
      <4>5. \A q \in {"A", "B", "R"} : CommandIn(run_state', q) = CommandIn(rs, q)
        BY <4>4 DEF CommandIn
      <4>6. Goal(b) \in {"A", "B", "R"}
        BY <2>9 DEF Goal
      <4> QED
        BY <1>7, <2>6, <2>9, <4>1, <4>4, <4>5, <4>6
    <3> QED
      BY <3>1, <3>2, <3>3
  <2>11. AtLine(Bumped(b))'
    BY <1>1, <1>6, <2>2, <2>5, <2>8, <2>10, LateLine
  <2>12. Values'
    BY <1>6, <2>5, <2>10 DEF Values
  <2> QED
    BY <2>4, <2>11, <2>12, OwnPasses
<1> QED
  BY <1>8, <1>9

-----------------------------------------------------------------------------
(***************************************************************************)
(* The end of a block: the return addresses, and the next block.           *)
(***************************************************************************)
LEMMA Shortened ==
  ASSUME NEW s \in Seq(Int), Bottomed(s)
  PROVE  /\ Len(s) \in Nat /\ Len(s) >= 1
         /\ Len(s) = 1 => Top(s) = MainReturn /\ Pop(s) = <<>>
         /\ Len(s) # 1 => /\ Top(s) \in Funcs
                          /\ Pop(s) \in Seq(Int)
                          /\ Len(Pop(s)) = Len(s) - 1
                          /\ \A i \in 1 .. Len(s) - 1 : Pop(s)[i] = s[i]
         /\ Pop(s) \in Seq(Int)
         /\ Top(s) \in Int
<1>1. Len(s) \in Nat /\ Len(s) >= 1
  BY EmptySeq DEF Bottomed
<1>2. Len(s) = 1 => Top(s) = MainReturn /\ Pop(s) = <<>>
  <2>1. Len(s) = 1 => Top(s) = s[1]
    BY DEF Top
  <2>2. Len(s) = 1 => Pop(s) = SubSeq(s, 1, 0)
    BY DEF Pop
  <2>3. SubSeq(s, 1, 0) = <<>>
    BY SubSeqProperties
  <2> QED
    BY <2>1, <2>2, <2>3 DEF Bottomed
<1>3. ASSUME Len(s) # 1
      PROVE  /\ Pop(s) \in Seq(Int)
             /\ Len(Pop(s)) = Len(s) - 1
             /\ \A i \in 1 .. Len(s) - 1 : Pop(s)[i] = s[i]
  <2>1. Len(s) - 1 \in Int /\ 1 <= Len(s) - 1
    <3>1. \A n \in Nat : n >= 1 /\ n # 1 => n - 1 \in Int /\ 1 <= n - 1
      OBVIOUS
    <3> QED
      BY <1>1, <1>3, <3>1
  <2>2. \A i \in 1 .. Len(s) - 1 : s[i] \in Int
    BY <1>1
  <2>3. /\ SubSeq(s, 1, Len(s) - 1) \in Seq(Int)
        /\ Len(SubSeq(s, 1, Len(s) - 1)) = (Len(s) - 1) - 1 + 1
        /\ \A i \in 1 .. (Len(s) - 1) - 1 + 1 :
             SubSeq(s, 1, Len(s) - 1)[i] = s[1 + i - 1]
    BY <2>1, <2>2, SubSeqProperties
  <2> QED
    BY <1>1, <2>1, <2>3 DEF Pop
<1>4. Len(s) # 1 => Top(s) \in Funcs
  <2>1. Len(s) # 1 => Len(s) \in 2 .. Len(s)
    <3>1. \A n \in Nat : n >= 1 /\ n # 1 => n \in 2 .. n
      OBVIOUS
    <3> QED
      BY <1>1, <3>1
  <2>2. \A i \in 2 .. Len(s) : s[i] \in Funcs
    BY DEF Bottomed
  <2> QED
    BY <2>1, <2>2 DEF Top
<1>5. Pop(s) \in Seq(Int)
  <2>1. <<>> \in Seq(Int)
    BY EmptySeq
  <2>2. CASE Len(s) = 1
    BY <1>2, <2>1, <2>2
  <2>3. CASE Len(s) # 1
    BY <1>3, <2>3
  <2> QED
    BY <2>2, <2>3
<1>6. Top(s) \in Int
  BY <1>2, <1>4 DEF Funcs, MainReturn
<1> QED
  BY <1>1, <1>2, <1>3, <1>4, <1>5, <1>6

LEMMA PushedBottomed ==
  ASSUME NEW s \in Seq(Int), NEW p \in Funcs, Bottomed(s)
  PROVE  Bottomed(Append(s, p))
<1>1. Len(s) \in Nat /\ Len(s) >= 1
  BY EmptySeq DEF Bottomed
<1>2. /\ Append(s, p) \in Seq(Int)
      /\ Len(Append(s, p)) = Len(s) + 1
      /\ \A i \in 1 .. Len(s) : Append(s, p)[i] = s[i]
      /\ Append(s, p)[Len(s) + 1] = p
  BY DEF Funcs
<1>3. Append(s, p)[1] = MainReturn
  BY <1>1, <1>2 DEF Bottomed
<1>4. \A i \in 2 .. Len(Append(s, p)) : Append(s, p)[i] \in Funcs
  BY <1>1, <1>2 DEF Bottomed
<1>5. Append(s, p) # <<>>
  BY <1>1, <1>2
<1> QED
  BY <1>2, <1>3, <1>4, <1>5 DEF Bottomed

LEMMA PoppedBottomed ==
  ASSUME NEW s \in Seq(Int), Bottomed(s), Top(s) \in Funcs
  PROVE  Bottomed(Pop(s))
<1>1. Len(s) # 1
  BY Shortened DEF Funcs, MainReturn
<1>2. /\ Pop(s) \in Seq(Int) /\ Len(Pop(s)) = Len(s) - 1
      /\ \A i \in 1 .. Len(s) - 1 : Pop(s)[i] = s[i]
      /\ Len(s) \in Nat /\ Len(s) >= 1
  BY <1>1, Shortened
<1> DEFINE p == Pop(s)
           n == Len(s)
<1>3. n >= 2 /\ n \in Nat /\ p \in Seq(Int) /\ Len(p) = n - 1
      /\ \A i \in 1 .. n - 1 : p[i] = s[i]
  BY <1>1, <1>2
<1>4. s[1] = MainReturn /\ \A i \in 2 .. n : s[i] \in Funcs
  BY DEF Bottomed
<1> HIDE DEF p, n
<1>5. /\ 1 \in 1 .. n - 1 /\ Len(p) # 0
      /\ \A i \in 2 .. n - 1 : i \in 1 .. n - 1 /\ i \in 2 .. n
  BY <1>3
<1>6. p[1] = MainReturn /\ \A i \in 2 .. Len(p) : p[i] \in Funcs
  BY <1>3, <1>4, <1>5
<1>7. p # <<>>
  BY <1>5, EmptySeq
<1>8. Bottomed(p)
  BY <1>3, <1>6, <1>7 DEF Bottomed
<1> QED
  BY <1>8 DEF p

(* What the end of a block does to the pointer and the stack.              *)
LEMMA Hands ==
  ASSUME NEW b, NEW f \in Funcs, b.func = f, Kind[f] # "stop", b.line > 1,
         Bottomed(before), stack \in Seq(Int),
         Kind[f] \in {"branch", "dyn"} => chosen \in Succ[f],
         stack = StackAt(b, TRUE)
  PROVE  /\ Kind[f] = "branch" => Aim(f) \in Succ[f] /\ stack = before
         /\ Kind[f] \in Calls => Aim(f) \in Succ[f] /\ stack = Append(before, Cont[f])
         /\ Kind[f] = "ret" => Aim(f) = Top(before) /\ stack = Pop(before)
         /\ Kind[f] \in {"branch", "dyn", "call", "ret"}
         /\ Aim(f) \in Funcs => Bottomed(stack)
         /\ Aim(f) = MainReturn =>
              ((\A g \in Funcs : MainReturn \notin Succ[g]) => stack = <<>>)
<1>1. Kind[f] \in {"branch", "dyn", "call", "ret"}
  BY LineNumbers
<1>2. Kind[f] = "call" => Aim(f) \in Succ[f]
  <2>1. Kind[f] = "call" => Succ[f] = {CHOOSE callee \in Succ[f] : TRUE}
    BY SuccListed
  <2> QED
    BY <2>1 DEF Aim
<1>3. Kind[f] \in {"branch", "dyn"} => Aim(f) \in Succ[f]
  BY DEF Aim
<1>4. Kind[f] = "ret" => Aim(f) = Top(before) /\ stack = Pop(before)
  BY DEF Aim, StackAt, Calls
<1>5. Kind[f] \in Calls => stack = Append(before, Cont[f])
  BY DEF StackAt
<1>6. Kind[f] = "branch" => stack = before
  BY DEF StackAt, Calls
<1>7. before \in Seq(Int) /\ Cont[f] \in Funcs
  BY ProgramAssumption DEF Bottomed
<1>8. Aim(f) \in Funcs => Bottomed(stack)
  BY <1>1, <1>4, <1>5, <1>6, <1>7, PushedBottomed, PoppedBottomed DEF Calls
<1>9. ASSUME Aim(f) = MainReturn, \A g \in Funcs : MainReturn \notin Succ[g]
      PROVE  stack = <<>>
  <2>1. Kind[f] = "ret"
    BY <1>1, <1>2, <1>3, <1>9
  <2>2. Top(before) \notin Funcs
    BY <1>4, <1>9, <2>1 DEF Funcs, MainReturn
  <2> QED
    BY <1>4, <1>7, <2>1, <2>2, Shortened
<1> QED
  BY <1>1, <1>2, <1>3, <1>4, <1>5, <1>6, <1>8, <1>9 DEF Calls

(* The control flow's step that it is.                                     *)
LEMMA FlowStep ==
  ASSUME NEW f \in Funcs, pcBar = f, NEW p \in Int,
         pcBar' = (IF p \in Funcs THEN p ELSE -1),
         Kind[f] = "branch" => p \in Succ[f] /\ before' = before,
         Kind[f] \in Calls => p \in Succ[f] /\ before' = Append(before, Cont[f]),
         Kind[f] = "ret" => p = Top(before) /\ before' = Pop(before),
         Kind[f] \in {"branch", "dyn", "call", "ret"}
  PROVE  CF!Next
<1>1. CF!Funcs = Funcs /\ CF!Calls = Calls
  BY DEF CF!Funcs, Funcs, CF!Calls, Calls
<1>2. \A q : CF!Target(q) = IF q \in Funcs THEN q ELSE -1
  BY <1>1 DEF CF!Target, CF!Halted
<1>3. CASE Kind[f] = "branch"
  <2>1. p \in Funcs
    BY <1>3, SuccListed
  <2>2. CF!Branch
    BY <1>1, <1>3, <2>1 DEF CF!Branch
  <2> QED
    BY <2>2 DEF CF!Next, CF!Step
<1>4. CASE Kind[f] \in Calls
  <2>1. CF!Call
    BY <1>1, <1>2, <1>4 DEF CF!Call
  <2> QED
    BY <2>1 DEF CF!Next, CF!Step
<1>5. CASE Kind[f] = "ret"
  <2>1. CF!Return
    BY <1>1, <1>2, <1>5 DEF CF!Return, CF!Top, CF!Pop, Top, Pop
  <2> QED
    BY <2>1 DEF CF!Next, CF!Step
<1> QED
  BY <1>3, <1>4, <1>5 DEF Calls

LEMMA NextPlace ==
  ASSUME NEW rs \in RunStates, NEW pos \in {"A", "B"}, rs.idx = PlaceOf(pos)
  PROVE  /\ rs.idx # NoCmd /\ NoCmd \notin Funcs /\ NoCmd # OnTickFn
         /\ Moved(rs.idx) = PlaceOf(Across(pos))
         /\ Across(pos) \in {"A", "B"} /\ Across(Across(pos)) = pos
         /\ CommandAt(rs, PlaceOf(Across(pos))) = CommandIn(rs, Across(pos))
         /\ PosOf(PlaceOf(Across(pos))) = Across(pos)
         /\ PlaceOf(Across(pos)) \in {1, 2}
<1>1. NoCmd # 0 /\ NoCmd # 1 /\ NoCmd # 2 /\ NoCmd \notin Funcs /\ NoCmd # OnTickFn
  BY InterpreterAssumption, CodeOf DEF Funcs, OnTickFn
<1>2. CASE pos = "A"
  BY <1>1, <1>2 DEF PlaceOf, Across, Moved, CommandAt, CommandIn, PosOf
<1>3. CASE pos = "B"
  BY <1>1, <1>3 DEF PlaceOf, Across, Moved, CommandAt, CommandIn, PosOf
<1> QED
  BY <1>2, <1>3

(* A block starts, with its first line.                                    *)
LEMMA BlockStarts ==
  ASSUME NEW f \in Funcs, NEW pos \in {"A", "B"},
         (call_stack = <<Frame(f, pos)>>)',
         (run_state \in RunStates)', (run_state.idx = PlaceOf(pos))',
         (run_state.next_pos = Across(pos))', (~run_state.tick_queued)',
         Bottomed(before)', (stack = before)', (count \in Nat)', (chosen \in Int)'
  PROVE  RunInv' /\ Values' /\ pcBar' = f
<1> DEFINE b == Frame(f, pos)
<1>1. f \in AllFuncs /\ pos \in Positions
  BY CodeOf DEF Positions
<1>2. b \in Frames /\ b.func = f /\ b.line = 1 /\ b.pos = pos
  BY <1>1, NewFrame
<1>3. (call_stack = <<b>>)'
  OBVIOUS
<1> HIDE DEF b
<1>n. /\ Body[f] \in Nat /\ Body[f] >= 1 /\ ChargeAt(f) \in Nat /\ ChargeAt(f) >= Body[f] + 1
      /\ EdgeCount(f) \in Nat
      /\ TpAt(f) = ChargeAt(f) + EdgeCount(f) + 1 /\ TpAt(f) \in Nat
      /\ AirAt(f) = TpAt(f) + EdgeCount(f) + 1 /\ AirAt(f) \in Nat
  BY LineNumbers
<1>4. /\ 1 \in 1 .. Body[f] + 1 /\ 1 \in 1 .. AirAt(f) + 2 /\ ~(1 > Body[f] + 1)
      /\ ~(1 >= TpAt(f)) /\ ~(1 >= AirAt(f)) /\ ~(1 > TpAt(f)) /\ ~(1 > AirAt(f))
      /\ ~(1 > AirAt(f) + 1) /\ ~(1 > 1)
  BY <1>n
<1>5. Settled(b)'
  BY <1>2, <1>4 DEF Settled
<1>6. InBlock(b)'
  BY <1>2, <1>5 DEF InBlock
<1>7. ~Done(b)'
  BY <1>2, <1>4 DEF Done
<1>8. (stack = StackAt(b, Done(b)))'
  BY <1>2, <1>4, <1>7 DEF StackAt
<1>9. EdgesBehind(b)'
  <2> SUFFICES ASSUME NEW k \in DOMAIN SetToSeq(Succ[f]), Kind[f] \in {"branch", "call"},
                      1 > (IF count' < Limit THEN ChargeAt(f) ELSE TpAt(f)) + k
               PROVE  FALSE
    BY <1>2 DEF EdgesBehind
  <2>1. k \in 1 .. EdgeCount(f)
    <3>1. IsFiniteSet(Succ[f]) /\ EdgeCount(f) = Len(SetToSeq(Succ[f]))
      BY SuccListed, LineNumbers
    <3> QED
      BY <3>1, ListedSet
  <2>2. ~(1 > ChargeAt(f) + k) /\ ~(1 > TpAt(f) + k)
    BY <1>n, <2>1
  <2> QED
    BY <2>2
<1>10. AtLine(b)'
  BY <1>2, <1>4, <1>6, <1>7, <1>8, <1>9 DEF AtLine
<1>11. OwnLine(b)'
  BY <1>3, <1>10 DEF OwnLine
<1>12. RunInv'
  BY <1>2, <1>11 DEF RunInv
<1>13. Values'
  BY DEF Values, Bottomed
<1>14. pcBar' = f
  <2>1. (call_stack # <<>>)' /\ (call_stack[1] = b)' /\ f # OnTickFn
    BY <1>3, CodeOf
  <2> QED
    BY <1>2, <2>1 DEF pcBar
<1> QED
  BY <1>12, <1>13, <1>14

(* The impulse block starts.                                               *)
LEMMA TickStarts ==
  ASSUME (call_stack = <<Frame(OnTickFn, "S")>>)',
         (run_state \in RunStates)', (run_state.idx = 0)', (~run_state.tick_queued)',
         (run_state.resume_cmd \in Funcs)',
         Bottomed(before)', (stack = before)', (count \in Nat)', (chosen \in Int)'
  PROVE  RunInv' /\ Values' /\ pcBar' = run_state'.resume_cmd
<1> DEFINE b == Frame(OnTickFn, "S")
<1>1. OnTickFn \in AllFuncs /\ "S" \in Positions
  BY CodeOf DEF Positions
<1>2. b \in Frames /\ b.func = OnTickFn /\ b.line = 1 /\ b.pos = "S"
  BY <1>1, NewFrame
<1>3. (call_stack = <<b>>)'
  OBVIOUS
<1> HIDE DEF b
<1>4. b.line \in 1 .. 4 /\ ~(b.line > 3)
  BY <1>2
<1>5. Ticking(b)'
  BY <1>2, <1>3, <1>4 DEF Ticking
<1>6. RunInv'
  BY <1>2, <1>5 DEF RunInv
<1>7. Values'
  BY DEF Values, Bottomed
<1>8. pcBar' = run_state'.resume_cmd
  <2>1. (call_stack # <<>>)' /\ (call_stack[1] = b)'
    BY <1>3
  <2> QED
    BY <1>2, <2>1 DEF pcBar
<1> QED
  BY <1>6, <1>7, <1>8

LEMMA LastPasses ==
  ASSUME NEW b \in Frames, OwnLine(b), Values, StepCommand, Kind[b.func] # "stop",
         b.line = AirAt(b.func) + 2
  PROVE  Passed
<1> DEFINE f == b.func
           n == b.line
           rs == run_state
           nb == NextBlock(rs)
           there == Across(b.pos)
           aim == Aim(f)
<1>1. /\ AtLine(b) /\ InBlock(b) /\ call_stack = <<b>> /\ f \in Funcs /\ count \in Nat
      /\ rs \in RunStates /\ b.pos \in {"A", "B"} /\ rs.idx = PlaceOf(b.pos)
      /\ Bottomed(before) /\ Settled(b) /\ stack \in Seq(Int) /\ chosen \in Int
  BY DEF OwnLine, AtLine, InBlock, Values
<1>2. /\ Body[f] \in Nat /\ TpAt(f) \in Nat /\ AirAt(f) \in Nat
      /\ n > TpAt(f) /\ n > AirAt(f) /\ n > AirAt(f) + 1 /\ n > Body[f] + 1 /\ n > 1
      /\ n >= TpAt(f) /\ n >= AirAt(f)
  <2>1. /\ Body[f] \in Nat /\ Body[f] >= 1 /\ ChargeAt(f) \in Nat /\ ChargeAt(f) >= Body[f] + 1
        /\ EdgeCount(f) \in Nat
        /\ TpAt(f) = ChargeAt(f) + EdgeCount(f) + 1 /\ TpAt(f) \in Nat
        /\ AirAt(f) = TpAt(f) + EdgeCount(f) + 1 /\ AirAt(f) \in Nat
    BY <1>1, LineNumbers
  <2> DEFINE body == Body[f]
             charge == ChargeAt(f)
             edges == EdgeCount(f)
             tp == TpAt(f)
             air == AirAt(f)
  <2>2. n = air + 2
    OBVIOUS
  <2> HIDE DEF n, body, charge, edges, tp, air
  <2>3. /\ n > tp /\ n > air /\ n > air + 1 /\ n > body + 1 /\ n > 1 /\ n >= tp /\ n >= air
    BY <2>1, <2>2 DEF body, charge, edges, tp, air
  <2> QED
    BY <2>1, <2>3 DEF body, tp, air
<1>3. Command = When("over", Do("reset", 0))
  <2>1. \A i \in 1 .. 3 : Code[f][AirAt(f) - 1 + i] = Closing[i]
    BY <1>1, BlockLines
  <2>2. Code[f][AirAt(f) - 1 + 3] = Closing[3] /\ AirAt(f) - 1 + 3 = AirAt(f) + 2
    BY <1>2, <2>1
  <2>3. Command = Code[f][n]
    BY <1>1, ShapeOne
  <2> QED
    BY <2>2, <2>3 DEF Closing
<1>4. Command.op = "reset"
  BY <1>3, WhenFacts
<1>5. count' \in Nat /\ stack' = stack /\ chosen' = chosen
  <2>1. CASE Passes(Command)
    BY <1>4, <2>1, StepIs DEF Scores
  <2>2. CASE ~Passes(Command)
    BY <1>1, <2>2, StepIs
  <2> QED
    BY <2>1, <2>2
<1>6. After = rs
  BY <1>4, NothingPlaced
<1>7. b.line = Len(Code[f])
  BY <1>1, BlockLength
<1>8. Moves
  BY <1>1, <1>4, <1>7, BlockLength, OneSteps
<1>9. /\ run_state' = nb /\ before' = stack
      /\ call_stack' = IF CommandAt(nb, nb.idx) = NoCmd THEN <<>>
                       ELSE <<Frame(CommandAt(nb, nb.idx), PosOf(nb.idx))>>
  BY <1>5, <1>6, <1>8 DEF Moves
<1>10. /\ rs.idx # NoCmd /\ NoCmd \notin Funcs /\ NoCmd # OnTickFn
       /\ Moved(rs.idx) = PlaceOf(there)
       /\ there \in {"A", "B"} /\ Across(there) = b.pos
       /\ CommandAt(rs, PlaceOf(there)) = CommandIn(rs, there)
       /\ PosOf(PlaceOf(there)) = there
       /\ PlaceOf(there) \in {1, 2}
  BY <1>1, NextPlace
<1>11. /\ Done(b)
       /\ rs.tick_queued <=> count >= Limit
       /\ rs.next_pos = IF count < Limit THEN b.pos ELSE there
       /\ count >= Limit => CommandIn(rs, there) = NoCmd
       /\ stack = StackAt(b, TRUE)
       /\ Written(Goal(b), aim)
       /\ count >= Limit <=> ~(count < Limit)
  <2>1. Done(b)
    BY <1>2 DEF Done
  <2>2. /\ rs.next_pos = IF count < Limit /\ n > TpAt(f) THEN b.pos ELSE there
        /\ rs.tick_queued <=> n > AirAt(f) + 1 /\ count >= Limit
        /\ n > AirAt(f) /\ count >= Limit => CommandIn(rs, there) = NoCmd
        /\ stack = StackAt(b, Done(b))
        /\ Done(b) => Written(Goal(b), aim)
    BY <1>1 DEF AtLine
  <2>3. count >= Limit <=> ~(count < Limit)
    BY <1>1, InterpreterAssumption
  <2>4. StackAt(b, Done(b)) = StackAt(b, TRUE)
    BY <2>1 DEF StackAt
  <2> QED
    BY <1>2, <2>1, <2>2, <2>3, <2>4
<1>12. Kind[f] \in {"branch", "dyn"} => chosen \in Succ[f]
  BY <1>1, <1>2 DEF Settled
<1>13. /\ Kind[f] = "branch" => aim \in Succ[f] /\ stack = before
       /\ Kind[f] \in Calls => aim \in Succ[f] /\ stack = Append(before, Cont[f])
       /\ Kind[f] = "ret" => aim = Top(before) /\ stack = Pop(before)
       /\ Kind[f] \in {"branch", "dyn", "call", "ret"}
       /\ aim \in Funcs => Bottomed(stack)
       /\ aim = MainReturn => ((\A g \in Funcs : MainReturn \notin Succ[g]) => stack = <<>>)
  BY <1>1, <1>2, <1>11, <1>12, Hands
<1>14. aim \in Int
  BY <1>11 DEF Written, Funcs, MainReturn
<1>15. pcBar = f
  <2>1. call_stack # <<>> /\ call_stack[1] = b /\ f # OnTickFn
    BY <1>1, CodeOf
  <2> QED
    BY <1>1, <2>1 DEF pcBar
<1>16. SUFFICES RunInv' /\ Values' /\ pcBar' = IF aim \in Funcs THEN aim ELSE -1
  <2>1. pcBar' = (IF aim \in Funcs THEN aim ELSE -1) => CF!Next
    <3> DEFINE p == aim
    <3>1. PICK q \in Int : q = aim
      BY <1>14
    <3> HIDE DEF f, aim
    <3>2. /\ Kind[f] = "branch" => q \in Succ[f] /\ before' = before
          /\ Kind[f] \in Calls => q \in Succ[f] /\ before' = Append(before, Cont[f])
          /\ Kind[f] = "ret" => q = Top(before) /\ before' = Pop(before)
          /\ Kind[f] \in {"branch", "dyn", "call", "ret"}
      BY <1>9, <1>13, <3>1
    <3>3. f \in Funcs /\ pcBar = f
      BY <1>1, <1>15 DEF f
    <3> QED
      BY <3>1, <3>2, <3>3, FlowStep
  <2> QED
    BY <2>1 DEF Passed
<1>17. CASE count < Limit
  <2>1. nb = [rs EXCEPT !.idx = PlaceOf(there), !.tick_queued = FALSE]
    BY <1>10, <1>11, <1>17 DEF NextBlock
  <2>2. /\ nb \in RunStates /\ nb.idx = PlaceOf(there) /\ nb.tick_queued = FALSE
        /\ nb.cmd_1 = rs.cmd_1 /\ nb.cmd_2 = rs.cmd_2 /\ nb.next_pos = b.pos
    BY <1>1, <1>10, <1>11, <1>17, <2>1 DEF RunStates
  <2>3. CommandAt(nb, nb.idx) = CommandIn(rs, there)
    <3>1. CommandAt(nb, nb.idx) = CommandAt(rs, PlaceOf(there))
      BY <1>10, <2>2 DEF CommandAt
    <3> QED
      BY <1>10, <3>1
  <2>4. Goal(b) = there
    BY <1>17 DEF Goal
  <2>5. CASE aim \in Funcs
    <3>1. PICK g \in Funcs : g = aim
      BY <2>5
    <3>2. PICK pos \in {"A", "B"} : pos = there
      BY <1>10
    <3>3. CommandIn(rs, there) = g /\ g # NoCmd
      BY <1>10, <1>11, <2>4, <2>5, <3>1 DEF Written
    <3>4. call_stack' = <<Frame(g, pos)>>
      BY <1>9, <1>10, <2>2, <2>3, <3>2, <3>3
    <3>5. /\ (run_state \in RunStates)' /\ (run_state.idx = PlaceOf(pos))'
          /\ (run_state.next_pos = Across(pos))' /\ (~run_state.tick_queued)'
      BY <1>9, <1>10, <2>2, <3>2
    <3>6. Bottomed(before)' /\ (stack = before)' /\ (chosen \in Int)'
      BY <1>1, <1>5, <1>9, <1>13, <2>5 DEF Bottomed
    <3>7. RunInv' /\ Values' /\ pcBar' = g
      BY <1>5, <3>4, <3>5, <3>6, BlockStarts
    <3> QED
      BY <2>5, <3>1, <3>7
  <2>6. CASE aim \notin Funcs
    <3>1. aim = MainReturn /\ CommandIn(rs, there) = NoCmd
      BY <1>11, <2>4, <2>6 DEF Written
    <3>2. call_stack' = <<>>
      BY <1>9, <2>3, <3>1
    <3>3. Ended'
      BY <1>5, <1>9, <1>13, <2>2, <3>1, <3>2 DEF Ended
    <3>4. RunInv'
      BY <3>3 DEF RunInv
    <3>5. pcBar' = -1
      BY <3>2 DEF pcBar
    <3>6. Values'
      BY <1>1, <1>5, <1>9, <2>2 DEF Values
    <3> QED
      BY <2>6, <3>4, <3>5, <3>6
  <2> QED
    BY <2>5, <2>6
<1>18. CASE ~(count < Limit)
  <2>1. aim \in Funcs /\ rs.resume_cmd = aim
    BY <1>11, <1>18 DEF Written, Goal, CommandIn
  <2>2. nb = [rs EXCEPT !.idx = 0, !.tick_queued = FALSE]
    BY <1>10, <1>11, <1>18 DEF NextBlock
  <2>3. /\ nb \in RunStates /\ nb.idx = 0 /\ nb.tick_queued = FALSE
        /\ nb.resume_cmd = aim
    BY <1>1, <2>1, <2>2 DEF RunStates
  <2>4. CommandAt(nb, nb.idx) = OnTickFn /\ PosOf(nb.idx) = "S"
    BY <2>3 DEF CommandAt, PosOf
  <2>5. call_stack' = <<Frame(OnTickFn, "S")>>
    BY <1>9, <1>10, <2>4
  <2>6. Bottomed(before)' /\ (stack = before)' /\ (chosen \in Int)'
    BY <1>1, <1>5, <1>9, <1>13, <2>1 DEF Bottomed
  <2>7. RunInv' /\ Values' /\ pcBar' = run_state'.resume_cmd
    BY <1>5, <1>9, <2>1, <2>3, <2>5, <2>6, TickStarts
  <2> QED
    BY <1>9, <2>1, <2>3, <2>7
<1> QED
  BY <1>17, <1>18

(* Every line of a block.                                                  *)
LEMMA OwnLinePasses ==
  ASSUME NEW b \in Frames, OwnLine(b), Values, StepCommand
  PROVE  Passed
<1> DEFINE f == b.func
           n == b.line
           body == Body[f]
           charge == ChargeAt(f)
           edges == EdgeCount(f)
           tp == TpAt(f)
           air == AirAt(f)
           kind == Kind[f]
<1>1. f \in Funcs /\ n \in 1 .. (IF kind = "stop" THEN body + 1 ELSE air + 2)
  BY DEF OwnLine, AtLine, InBlock
<1>2. /\ body \in Nat /\ body >= 1 /\ charge \in Nat /\ charge >= body + 1
      /\ edges \in Nat /\ tp = charge + edges + 1 /\ tp \in Nat
      /\ air = tp + edges + 1 /\ air \in Nat
      /\ kind \in {"branch", "call", "dyn", "ret", "stop"}
      /\ kind \in {"dyn", "ret"} => edges = 1
  BY <1>1, LineNumbers
<1>3. CASE n \in 1 .. body
  BY <1>3, BodyPasses
<1>4. CASE n > body /\ (kind = "stop" \/ n < charge)
  BY <1>4, TerminatorPasses
<1>5. CASE kind # "stop" /\ n = charge
  BY <1>5, ChargePasses
<1>6. CASE kind # "stop" /\ n - charge \in 1 .. edges
  <2>1. PICK i \in 1 .. edges : i = n - charge
    BY <1>6
  <2>2. n = charge + i
    <3> HIDE DEF n, charge, edges
    <3> QED
      BY <1>1, <1>2, <2>1
  <2>3. CASE ~(count < Limit)
    BY <1>6, <2>2, <2>3, SkippedEdges
  <2>4. CASE count < Limit
    <3>1. n = Lead(f) + i
      BY <2>2, <2>4 DEF Lead
    <3>2. CASE kind \in {"branch", "call"}
      BY <3>1, <3>2, WritePasses
    <3>3. CASE kind \in {"dyn", "ret"}
      <4>1. i = 1
        BY <1>2, <3>3
      <4> QED
        BY <3>1, <3>3, <4>1, FollowPasses
    <3> QED
      BY <1>2, <1>6, <3>2, <3>3
  <2> QED
    BY <2>3, <2>4
<1>7. CASE kind # "stop" /\ n - tp \in 1 .. edges
  <2>1. PICK i \in 1 .. edges : i = n - tp
    BY <1>7
  <2>2. n = tp + i
    <3> HIDE DEF n, tp, edges
    <3> QED
      BY <1>1, <1>2, <2>1
  <2>3. CASE count < Limit
    BY <1>7, <2>2, <2>3, SkippedEdges
  <2>4. CASE ~(count < Limit)
    <3>1. n = Lead(f) + i
      BY <2>2, <2>4 DEF Lead
    <3>2. CASE kind \in {"branch", "call"}
      BY <3>1, <3>2, WritePasses
    <3>3. CASE kind \in {"dyn", "ret"}
      <4>1. i = 1
        BY <1>2, <3>3
      <4> QED
        BY <3>1, <3>3, <4>1, FollowPasses
    <3> QED
      BY <1>2, <1>7, <3>2, <3>3
  <2> QED
    BY <2>3, <2>4
<1>8. CASE kind # "stop" /\ n \in {tp, air, air + 1}
  BY <1>8, LatePasses
<1>9. CASE kind # "stop" /\ n = air + 2
  BY <1>9, LastPasses
<1>10. \/ n \in 1 .. body
       \/ n > body /\ (kind = "stop" \/ n < charge)
       \/ kind # "stop" /\ n = charge
       \/ kind # "stop" /\ n - charge \in 1 .. edges
       \/ kind # "stop" /\ n - tp \in 1 .. edges
       \/ kind # "stop" /\ n \in {tp, air, air + 1}
       \/ kind # "stop" /\ n = air + 2
  <2> HIDE DEF n, body, charge, edges, tp, air, kind
  <2> QED
    BY <1>1, <1>2
<1> QED
  BY <1>3, <1>4, <1>5, <1>6, <1>7, <1>8, <1>9, <1>10

-----------------------------------------------------------------------------
(***************************************************************************)
(* The impulse block, and the user's first commands.                       *)
(***************************************************************************)
LEMMA TickPasses ==
  ASSUME NEW b \in Frames, Ticking(b), Values, StepCommand
  PROVE  Passed
<1> DEFINE B == Bumped(b)
           rs == run_state
<1>1. /\ call_stack = <<b>> /\ b.func = OnTickFn /\ b.line \in 1 .. 4
      /\ rs.idx = 0 /\ ~rs.tick_queued /\ rs.resume_cmd \in Funcs
      /\ b.line > 3 => rs.cmd_1 = rs.resume_cmd
      /\ Bottomed(before) /\ stack = before
      /\ rs \in RunStates /\ chosen \in Int /\ count \in Nat
  BY DEF Ticking, Values
<1>2. /\ Len(Code[b.func]) = 4
      /\ Command = CASE b.line = 1 -> Skip
                     [] b.line = 2 -> At("B", Do("blank", 0))
                     [] b.line = 3 -> Do("clone", 0)
                     [] b.line = 4 -> At("B", Do("tp", 0))
  <2>1. Command = Code[OnTickFn][b.line]
    BY <1>1, ShapeOne
  <2> QED
    BY <1>1, <2>1, OnTickLines
<1>3. /\ Passes(Command)
      /\ b.line = 1 => Command.op = "skip"
      /\ b.line = 2 => Command.op = "blank" /\ Command.pos = "B"
      /\ b.line = 3 => Command.op = "clone"
      /\ b.line = 4 => Command.op = "tp" /\ Command.pos = "B"
      /\ Command.op \in {"skip", "blank", "clone", "tp"}
  <2>1. CASE b.line = 1
    BY <1>2, <2>1, DoFacts DEF Skip
  <2>2. CASE b.line = 2
    BY <1>2, <2>2, AtFacts
  <2>3. CASE b.line = 3
    BY <1>2, <2>3, DoFacts
  <2>4. CASE b.line = 4
    BY <1>2, <2>4, AtFacts
  <2> QED
    BY <1>1, <2>1, <2>2, <2>3, <2>4
<1>4. UNCHANGED <<count, chosen, stack>>
  BY <1>3, StepIs DEF Scored
<1>5. After = RunStateAfter(Command)
  BY <1>3 DEF After
<1>6. NoCmd \in Commands /\ NoCmd \notin Funcs /\ NoCmd # 1 /\ NoCmd # 0 /\ Funcs \subseteq Commands
  BY InterpreterAssumption DEF Commands, Funcs
<1>7. /\ After \in RunStates /\ After.idx = 0 /\ After.tick_queued = FALSE
      /\ After.resume_cmd = rs.resume_cmd
      /\ b.line > 2 => After.cmd_1 = rs.resume_cmd
      /\ b.line = 4 => After.next_pos = "B"
  <2>1. CASE b.line = 1
    <3>1. After = rs
      BY <1>3, <2>1, NothingPlaced
    <3>2. rs.tick_queued = FALSE
      BY <1>1 DEF RunStates
    <3>3. ~(b.line > 2) /\ b.line # 4
      BY <2>1
    <3>4. rs \in RunStates /\ rs.idx = 0
      BY <1>1
    <3> QED
      BY <3>1, <3>2, <3>3, <3>4
  <2>2. CASE b.line = 2
    <3>1. After = [rs EXCEPT !.cmd_2 = NoCmd]
      BY <1>3, <1>5, <2>2 DEF RunStateAfter, Filled, Position
    <3> QED
      BY <1>1, <1>6, <2>2, <3>1 DEF RunStates
  <2>3. CASE b.line = 3
    <3>1. After = [rs EXCEPT !.cmd_1 = rs.resume_cmd]
      BY <1>3, <1>5, <2>3 DEF RunStateAfter
    <3> QED
      BY <1>1, <1>6, <2>3, <3>1 DEF RunStates
  <2>4. CASE b.line = 4
    <3>1. After = [rs EXCEPT !.next_pos = "B"]
      BY <1>3, <1>5, <2>4 DEF RunStateAfter, Position
    <3> QED
      BY <1>1, <2>4, <3>1 DEF RunStates, Positions
  <2>5. b.line = 1 \/ b.line = 2 \/ b.line = 3 \/ b.line = 4
    BY <1>1
  <2> QED
    BY <2>1, <2>2, <2>3, <2>4, <2>5
<1>8. pcBar = rs.resume_cmd
  <2>1. call_stack # <<>> /\ call_stack[1] = b
    BY <1>1
  <2> QED
    BY <1>1, <2>1 DEF pcBar
<1>9. ~(Passes(Command) /\ Command.op = "call")
  BY <1>3
<1>10. CASE b.line # 4
  <2>1. Stays(<<B>>)
    <3>1. b.line < Len(Code[b.func]) /\ b.line \in 1 .. Len(Code[b.func])
      BY <1>1, <1>2, <1>10
    <3> QED
      BY <1>1, <1>9, <3>1, OneSteps
  <2>2. call_stack' = <<B>> /\ run_state' = After /\ before' = before
    BY <2>1 DEF Stays
  <2>3. B \in Frames /\ B.func = OnTickFn /\ B.line = b.line + 1
    BY <1>1, FrameFields
  <2> HIDE DEF B
  <2>4. Ticking(B)'
    <3>1. B.line \in 1 .. 4 /\ (B.line > 3 => b.line > 2)
      BY <1>1, <1>10, <2>3
    <3> QED
      BY <1>1, <1>4, <1>7, <2>2, <2>3, <3>1 DEF Ticking, Bottomed
  <2>5. RunInv'
    BY <2>3, <2>4 DEF RunInv
  <2>6. Values'
    BY <1>1, <1>4, <1>7, <2>2 DEF Values, Bottomed
  <2>7. pcBar' = rs.resume_cmd
    <3>1. (call_stack # <<>>)' /\ (call_stack[1] = B)'
      BY <2>2
    <3> QED
      BY <1>1, <1>7, <2>2, <2>3, <3>1 DEF pcBar
  <2> QED
    BY <1>8, <2>2, <2>5, <2>6, <2>7 DEF Passed
<1>11. CASE b.line = 4
  <2>1. Moves
    <3>1. b.line = Len(Code[b.func]) /\ b.line \in 1 .. Len(Code[b.func])
      BY <1>1, <1>2, <1>11
    <3> QED
      BY <1>1, <1>9, <3>1, OneSteps
  <2> DEFINE nb == NextBlock(After)
  <2>2. nb = [After EXCEPT !.idx = 1, !.tick_queued = FALSE]
    BY <1>6, <1>7 DEF NextBlock, Moved
  <2>3. /\ nb \in RunStates /\ nb.idx = 1 /\ nb.tick_queued = FALSE /\ nb.next_pos = "B"
        /\ nb.cmd_1 = rs.resume_cmd
    <3>1. /\ After \in RunStates /\ After.next_pos = "B" /\ After.cmd_1 = rs.resume_cmd
      BY <1>7, <1>11
    <3>a. PICK r \in RunStates : r = After
      BY <3>1
    <3>b. nb = [r EXCEPT !.idx = 1, !.tick_queued = FALSE]
      BY <2>2, <3>a
    <3> HIDE DEF nb
    <3>2. /\ nb \in RunStates /\ nb.idx = 1 /\ nb.tick_queued = FALSE
          /\ nb.next_pos = r.next_pos /\ nb.cmd_1 = r.cmd_1
      BY <3>b DEF RunStates
    <3> QED
      BY <3>1, <3>2, <3>a
  <2>4. CommandAt(nb, nb.idx) = rs.resume_cmd /\ PosOf(nb.idx) = "A"
    BY <2>3 DEF CommandAt, PosOf
  <2>5. /\ run_state' = nb /\ before' = stack /\ stack' = stack
        /\ call_stack' = IF CommandAt(nb, nb.idx) = NoCmd THEN <<>>
                         ELSE <<Frame(CommandAt(nb, nb.idx), PosOf(nb.idx))>>
    BY <1>4, <2>1 DEF Moves
  <2>6. PICK g \in Funcs : g = rs.resume_cmd
    BY <1>1
  <2>7. call_stack' = <<Frame(g, "A")>> /\ g # NoCmd
    BY <1>6, <2>4, <2>5, <2>6
  <2>8. /\ (run_state \in RunStates)' /\ (run_state.idx = PlaceOf("A"))'
        /\ (run_state.next_pos = Across("A"))' /\ (~run_state.tick_queued)'
    BY <2>3, <2>5 DEF PlaceOf, Across
  <2>9. Bottomed(before)' /\ (stack = before)' /\ (count \in Nat)' /\ (chosen \in Int)'
    BY <1>1, <1>4, <2>5 DEF Bottomed
  <2>10. RunInv' /\ Values' /\ pcBar' = g
    BY <2>7, <2>8, <2>9, BlockStarts
  <2> QED
    BY <1>1, <1>8, <2>5, <2>6, <2>10 DEF Passed
<1> QED
  BY <1>10, <1>11

LEMMA BootPasses ==
  ASSUME NEW m \in Frames, Booting(m), Values, StepCommand
  PROVE  Passed
<1> DEFINE M == Bumped(m)
           rs == run_state
<1>1. /\ call_stack = <<m>> /\ m.func = MainFn /\ m.line \in {1, 2} /\ m.pos \in Positions
      /\ rs.idx = NoCmd /\ ~rs.tick_queued /\ before = <<>>
      /\ m.line = 2 => stack = <<MainReturn>> /\ rs.resume_cmd = Main
      /\ rs \in RunStates /\ chosen \in Int /\ count \in Nat /\ stack \in Seq(Int)
  BY FrameFields DEF Booting, Values
<1>2. /\ Len(Code[m.func]) = 2
      /\ m.line = 1 => Command = Do("call", InitFn)
      /\ m.line = 2 => Command = Do("redstone", 0)
  <2>1. Command = Code[MainFn][m.line]
    BY <1>1, ShapeOne
  <2> QED
    BY <1>1, <2>1, MainLines
<1>3. pcBar = -1
  <2>1. call_stack # <<>> /\ call_stack[1] = m
    BY <1>1
  <2> QED
    BY <1>1, <2>1, CodeOf DEF pcBar, MainFn, OnTickFn
<1>4. CASE m.line = 1
  <2>1. Command.op = "call" /\ Command.arg = InitFn /\ Command.pos = "here" /\ Passes(Command)
    BY <1>2, <1>4, DoFacts
  <2>2. Position(Command) = m.pos
    BY <1>1, <2>1, ShapeOne DEF Position
  <2>3. UNCHANGED <<count, chosen, stack>> /\ After = rs
    BY <2>1, StepIs, NothingPlaced DEF Scored
  <2>4. m.line \in 1 .. Len(Code[m.func]) - 1 /\ InitFn \in AllFuncs
    BY <1>2, <1>4, CodeOf
  <2> DEFINE i == Frame(InitFn, m.pos)
  <2>5. Stays(<<M, i>>)
    BY <1>1, <2>1, <2>2, <2>4, OneCalls
  <2>6. call_stack' = <<M, i>> /\ run_state' = rs /\ before' = before
    BY <2>3, <2>5 DEF Stays
  <2>7. M \in Frames /\ M.func = MainFn /\ M.line = 2
    BY <1>1, <1>4, FrameFields
  <2>8. i \in Frames /\ i.func = InitFn /\ i.line = 1
    BY <1>1, <2>4, NewFrame
  <2> HIDE DEF M, i
  <2>9. Initing(M, i)'
    <3>1. i.line \in 1 .. 5 /\ ~(i.line > 1) /\ ~(i.line > 4)
      BY <2>8
    <3> QED
      BY <1>1, <2>6, <2>7, <2>8, <3>1 DEF Initing
  <2>10. RunInv'
    BY <2>7, <2>8, <2>9 DEF RunInv
  <2>11. Values'
    BY <1>1, <2>3, <2>6 DEF Values
  <2>12. pcBar' = -1
    <3>1. (call_stack # <<>>)' /\ (call_stack[1] = M)'
      BY <2>6
    <3> QED
      BY <2>7, <3>1, CodeOf DEF pcBar, MainFn, OnTickFn
  <2> QED
    BY <1>3, <2>6, <2>10, <2>11, <2>12 DEF Passed
<1>5. CASE m.line = 2
  <2>1. Command.op = "redstone" /\ Passes(Command)
    BY <1>2, <1>5, DoFacts
  <2>2. UNCHANGED <<count, chosen, stack>>
    BY <2>1, StepIs DEF Scored
  <2>3. After = [rs EXCEPT !.tick_queued = TRUE]
    BY <2>1 DEF After, RunStateAfter
  <2>4. Moves
    <3>1. m.line = Len(Code[m.func]) /\ m.line \in 1 .. Len(Code[m.func])
      BY <1>2, <1>5
    <3> QED
      BY <1>1, <2>1, <3>1, OneSteps
  <2>5. /\ After \in RunStates /\ After.idx = NoCmd /\ After.tick_queued = TRUE
        /\ After.resume_cmd = Main
    BY <1>1, <1>5, <2>3 DEF RunStates
  <2> DEFINE nb == NextBlock(After)
  <2>6. NoCmd # 0 /\ NoCmd # 1 /\ NoCmd # 2 /\ NoCmd # OnTickFn
    BY InterpreterAssumption, CodeOf DEF OnTickFn
  <2>7. nb = [After EXCEPT !.idx = 0, !.tick_queued = FALSE]
    <3>1. CommandAt(After, NoCmd) = NoCmd
      BY <2>6 DEF CommandAt
    <3> QED
      BY <2>5, <3>1 DEF NextBlock
  <2>8. PICK r \in RunStates : r = After
    BY <2>5
  <2>9. nb = [r EXCEPT !.idx = 0, !.tick_queued = FALSE]
    BY <2>7, <2>8
  <2>10. /\ nb \in RunStates /\ nb.idx = 0 /\ nb.tick_queued = FALSE
         /\ nb.resume_cmd = Main
    <3> HIDE DEF nb
    <3>1. /\ nb \in RunStates /\ nb.idx = 0 /\ nb.tick_queued = FALSE
          /\ nb.resume_cmd = r.resume_cmd
      BY <2>9 DEF RunStates
    <3> QED
      BY <2>5, <2>8, <3>1
  <2>11. CommandAt(nb, nb.idx) = OnTickFn /\ PosOf(nb.idx) = "S"
    BY <2>10 DEF CommandAt, PosOf
  <2>12. /\ run_state' = nb /\ before' = stack /\ stack' = stack
         /\ call_stack' = <<Frame(OnTickFn, "S")>>
    BY <2>2, <2>4, <2>6, <2>11 DEF Moves
  <2>13. Main \in Funcs
    BY ProgramAssumption
  <2>14. Bottomed(before)' /\ (stack = before)' /\ (count \in Nat)' /\ (chosen \in Int)'
    <3>1. before' = <<MainReturn>> /\ stack' = before'
      BY <1>1, <1>5, <2>12
    <3>2. MainReturn \in Int
      BY DEF MainReturn
    <3>3. Bottomed(<<MainReturn>>)
      BY <3>2 DEF Bottomed
    <3>4. Bottomed(before)'
      BY <3>1, <3>3 DEF Bottomed
    <3> QED
      BY <1>1, <2>2, <3>1, <3>4
  <2>15. RunInv' /\ Values' /\ pcBar' = Main
    <3>1. (run_state.resume_cmd \in Funcs)' /\ run_state'.resume_cmd = Main
      BY <2>10, <2>12, <2>13
    <3>2. (run_state \in RunStates)' /\ (run_state.idx = 0)' /\ (~run_state.tick_queued)'
      BY <2>10, <2>12
    <3> QED
      BY <2>12, <2>14, <3>1, <3>2, TickStarts
  <2>16. CF!Start
    BY <1>1, <1>5, <2>12, <2>15 DEF CF!Start, CF!MainReturn, MainReturn
  <2> QED
    BY <2>15, <2>16 DEF Passed, CF!Next
<1> QED
  BY <1>1, <1>4, <1>5

LEMMA InitPasses ==
  ASSUME NEW m \in Frames, NEW i \in Frames, Initing(m, i), Values, StepCommand
  PROVE  Passed
<1> DEFINE I == Bumped(i)
           rs == run_state
<1>1. /\ call_stack = <<m, i>> /\ m.func = MainFn /\ m.line = 2
      /\ i.func = InitFn /\ i.line \in 1 .. 5
      /\ rs.idx = NoCmd /\ ~rs.tick_queued /\ before = <<>>
      /\ i.line > 1 => stack = <<MainReturn>>
      /\ i.line > 4 => rs.resume_cmd = Main
      /\ rs \in RunStates /\ chosen \in Int /\ count \in Nat /\ stack \in Seq(Int)
  BY DEF Initing, Values
<1>2. /\ Len(Code[i.func]) = 5
      /\ i.line = 1 => Command = Do("boot", 0)
      /\ i.line \in {2, 3} => Command = Skip
      /\ i.line = 4 => Command = At("R", Do("set", Main))
      /\ i.line = 5 => Command = At("B", Do("blank", 0))
  <2>1. Command = Code[InitFn][i.line]
    BY <1>1, ShapeTwo
  <2> QED
    BY <1>1, <2>1, InitLines
<1>3. i.line \in {1, 2, 3, 4, 5}
  BY <1>1
<1>4. /\ Passes(Command)
      /\ i.line = 1 => Command.op = "boot"
      /\ i.line \in {2, 3} => Command.op = "skip"
      /\ i.line = 4 => Command.op = "set" /\ Command.arg = Main /\ Command.pos = "R"
      /\ i.line = 5 => Command.op = "blank" /\ Command.pos = "B"
      /\ Command.op # "call"
  <2>1. CASE i.line = 1
    BY <1>2, <2>1, DoFacts
  <2>2. CASE i.line \in {2, 3}
    BY <1>2, <2>2, DoFacts DEF Skip
  <2>3. CASE i.line = 4
    BY <1>2, <2>3, AtFacts
  <2>4. CASE i.line = 5
    BY <1>2, <2>4, AtFacts
  <2> QED
    BY <1>3, <2>1, <2>2, <2>3, <2>4
<1>5. /\ count' \in Nat /\ chosen' = chosen /\ stack' = <<MainReturn>>
  <2>1. CASE i.line = 1
    BY <1>4, <2>1, StepIs DEF Scores
  <2>2. CASE i.line # 1
    <3>1. Command.op \notin Scored
      BY <1>3, <1>4, <2>2 DEF Scored
    <3>2. i.line > 1
      BY <1>1, <2>2
    <3> QED
      BY <1>1, <3>1, <3>2, StepIs
  <2> QED
    BY <2>1, <2>2
<1>6. NoCmd \in Commands /\ Main \in Commands
  BY ProgramAssumption DEF Commands
<1>7. rs.tick_queued = FALSE
  BY <1>1 DEF RunStates
<1>8. /\ After \in RunStates /\ After.idx = NoCmd /\ After.tick_queued = FALSE
      /\ i.line \in {4, 5} => After.resume_cmd = Main
  <2>1. CASE i.line \in {1, 2, 3}
    <3>1. After = rs
      <4>1. Command.op \in {"boot", "skip"}
        BY <1>4, <2>1
      <4> QED
        BY <4>1, NothingPlaced
    <3> QED
      BY <1>1, <1>7, <2>1, <3>1
  <2>2. CASE i.line = 4
    <3>1. After = [rs EXCEPT !.resume_cmd = Main]
      BY <1>4, <2>2 DEF After, RunStateAfter, Filled, Position
    <3> QED
      BY <1>1, <1>6, <1>7, <3>1 DEF RunStates
  <2>3. CASE i.line = 5
    <3>1. After = [rs EXCEPT !.cmd_2 = NoCmd]
      BY <1>4, <2>3 DEF After, RunStateAfter, Filled, Position
    <3>2. rs.resume_cmd = Main
      BY <1>1, <2>3
    <3> QED
      BY <1>1, <1>6, <1>7, <3>1, <3>2 DEF RunStates
  <2> QED
    BY <1>3, <2>1, <2>2, <2>3
<1>9. pcBar = -1
  <2>1. call_stack # <<>> /\ call_stack[1] = m
    BY <1>1
  <2> QED
    BY <1>1, <2>1, CodeOf DEF pcBar, MainFn, OnTickFn
<1>10. ~Finished(m) /\ ~(Passes(Command) /\ Command.op = "call") /\ i.line \in 1 .. Len(Code[i.func])
  BY <1>1, <1>2, <1>4, MainLines DEF Finished
<1>11. MainReturn \in Int
  BY DEF MainReturn
<1>12. CASE i.line # 5
  <2>1. i.line < Len(Code[i.func])
    BY <1>1, <1>2, <1>12
  <2>2. Stays(<<m, I>>)
    BY <1>1, <1>10, <2>1, TwoSteps
  <2>3. call_stack' = <<m, I>> /\ run_state' = After /\ before' = before
    BY <2>2 DEF Stays
  <2>4. I \in Frames /\ I.func = InitFn /\ I.line = i.line + 1
    BY <1>1, FrameFields
  <2> HIDE DEF I
  <2>5. Initing(m, I)'
    <3>1. I.line \in 1 .. 5 /\ (I.line > 4 => i.line \in {4, 5})
      BY <1>1, <1>12, <2>4
    <3> QED
      BY <1>1, <1>5, <1>8, <2>3, <2>4, <3>1 DEF Initing
  <2>6. RunInv'
    BY <2>4, <2>5 DEF RunInv
  <2>7. Values'
    BY <1>1, <1>5, <1>8, <1>11, <2>3 DEF Values
  <2>8. pcBar' = -1
    <3>1. (call_stack # <<>>)' /\ (call_stack[1] = m)'
      BY <2>3
    <3> QED
      BY <1>1, <3>1, CodeOf DEF pcBar, MainFn, OnTickFn
  <2> QED
    BY <1>9, <2>3, <2>6, <2>7, <2>8 DEF Passed
<1>13. CASE i.line = 5
  <2>1. Stays(<<m>>)
    BY <1>1, <1>2, <1>10, <1>13, TwoSteps
  <2>2. call_stack' = <<m>> /\ run_state' = After /\ before' = before
    BY <2>1 DEF Stays
  <2>3. Booting(m)'
    <3>1. i.line \in {4, 5} /\ m.line \in {1, 2}
      BY <1>1, <1>13
    <3> QED
      BY <1>1, <1>5, <1>8, <2>2, <3>1 DEF Booting
  <2>4. RunInv'
    BY <2>3 DEF RunInv
  <2>5. Values'
    BY <1>1, <1>5, <1>8, <1>11, <2>2 DEF Values
  <2>6. pcBar' = -1
    <3>1. (call_stack # <<>>)' /\ (call_stack[1] = m)'
      BY <2>2
    <3> QED
      BY <1>1, <3>1, CodeOf DEF pcBar, MainFn, OnTickFn
  <2> QED
    BY <1>9, <2>2, <2>4, <2>5, <2>6 DEF Passed
<1> QED
  BY <1>12, <1>13

-----------------------------------------------------------------------------
(***************************************************************************)
(* The functions that follow a pointer, called by a block.                 *)
(***************************************************************************)
LEMMA WaitFacts ==
  ASSUME NEW b \in Frames, Waits(b), Kind[b.func] \in {"dyn", "ret"}, Values
  PROVE  /\ InBlock(b) /\ b.func \in Funcs /\ b.pos \in {"A", "B"}
         /\ run_state.next_pos = Across(b.pos) /\ run_state.tick_queued = FALSE
         /\ b.line \in 1 .. AirAt(b.func)
         /\ b.line > Body[b.func] + 1 /\ b.line > 1
         /\ ~Finished(b)
         /\ Goal(b) \in {"A", "B", "R"} /\ Goal(b) \in Positions
         /\ Bottomed(before)
<1> DEFINE n == b.line
           body == Body[b.func]
           charge == ChargeAt(b.func)
           tp == TpAt(b.func)
           air == AirAt(b.func)
           len == Len(Code[b.func])
<1>1. /\ InBlock(b) /\ b.func \in Funcs /\ b.pos \in {"A", "B"}
      /\ run_state.next_pos = Across(b.pos) /\ run_state.tick_queued = FALSE
      /\ Bottomed(before)
  BY DEF Waits, InBlock, Values, RunStates
<1>2. n = IF count < Limit THEN tp ELSE air
  BY DEF Waits
<1>3. /\ body \in Nat /\ charge \in Nat /\ charge >= body + 1 /\ EdgeCount(b.func) = 1
      /\ tp = charge + 1 + 1 /\ air = tp + 1 + 1
  BY <1>1, LineNumbers
<1>4. len = air + 2
  BY <1>1, BlockLines
<1>5. Goal(b) \in {"A", "B", "R"} /\ Goal(b) \in Positions
  BY DEF Goal, Across, Positions
<1> HIDE DEF n, body, charge, tp, air, len
<1>6. n \in 1 .. air /\ n > body + 1 /\ n > 1 /\ ~(n > len)
  BY <1>2, <1>3, <1>4
<1> QED
  BY <1>1, <1>5, <1>6 DEF n, body, air, len, Finished

(* The block waits on while they leave its own state alone.                *)
LEMMA WaitsOn ==
  ASSUME NEW b \in Frames, Waits(b), Values, Kind[b.func] \in {"dyn", "ret"},
         Kind[b.func] = "dyn" => chosen' = chosen,
         count' = count, before' = before,
         (run_state.idx = PlaceOf(b.pos))', (run_state.next_pos = Across(b.pos))',
         (~run_state.tick_queued)'
  PROVE  Waits(b)'
<1>1. InBlock(b) /\ b.line = IF count < Limit THEN TpAt(b.func) ELSE AirAt(b.func)
  BY DEF Waits
<1>2. Settled(b)'
  BY <1>1 DEF Settled, InBlock
<1>3. InBlock(b)'
  BY <1>1, <1>2 DEF InBlock
<1> QED
  BY <1>1, <1>3 DEF Waits

LEMMA ReturnPasses ==
  ASSUME NEW b \in Frames, NEW r \in Frames, Returning(b, r), Values, StepCommand
  PROVE  Passed
<1> DEFINE R == Bumped(r)
<1>1. /\ call_stack = <<b, r>> /\ Waits(b) /\ Kind[b.func] = "ret"
      /\ r.func = ReturnFn /\ r.line \in {1, 2} /\ r.pos = Goal(b)
      /\ stack = StackAt(b, r.line = 2)
      /\ r.line = 2 => chosen = Aim(b.func)
  BY DEF Returning
<1>2. /\ b.func \in Funcs /\ ~Finished(b) /\ Bottomed(before)
      /\ run_state.next_pos = Across(b.pos) /\ ~run_state.tick_queued
      /\ run_state.idx = PlaceOf(b.pos)
      /\ Goal(b) \in Positions
  BY <1>1, WaitFacts DEF InBlock
<1>3. /\ Len(Code[r.func]) = 2
      /\ r.line = 1 => Command = Do("pop", 0)
      /\ r.line = 2 => Command = Do("call", CallFn)
  <2>1. Command = Code[ReturnFn][r.line]
    BY <1>1, ShapeTwo
  <2> QED
    BY <1>1, <2>1, ReturnLines
<1>4. After = run_state
  <2>1. Command.op \in {"pop", "call"}
    BY <1>1, <1>3, DoFacts
  <2> QED
    BY <2>1, NothingPlaced
<1>5. StackAt(b, FALSE) = before /\ StackAt(b, TRUE) = Pop(before)
  BY <1>1 DEF StackAt, Calls
<1>6. before \in Seq(Int) /\ Top(before) \in Int /\ Pop(before) \in Seq(Int)
  BY <1>2, Shortened DEF Values
<1>7. r.line = 1 \/ r.line = 2
  BY <1>1
<1>8. CASE r.line = 1
  <2>1. Command.op = "pop" /\ Passes(Command)
    BY <1>3, <1>8, DoFacts
  <2>2. count' = count /\ stack' = Pop(before) /\ chosen' = Top(before)
    <3>1. stack = before
      BY <1>1, <1>8 DEF StackAt, Calls
    <3> QED
      BY <2>1, <3>1, StepIs DEF Scores
  <2>3. Stays(<<b, R>>)
    <3>1. r.line < Len(Code[r.func]) /\ r.line \in 1 .. Len(Code[r.func])
      BY <1>3, <1>8
    <3> QED
      BY <1>1, <1>2, <2>1, <3>1, TwoSteps
  <2>4. call_stack' = <<b, R>> /\ run_state' = run_state /\ before' = before
    BY <1>4, <2>3 DEF Stays
  <2>5. R \in Frames /\ R.func = ReturnFn /\ R.line = 2 /\ R.pos = r.pos
    BY <1>1, <1>8, FrameFields
  <2> HIDE DEF R
  <2>6. Waits(b)'
    BY <1>1, <1>2, <2>2, <2>4, WaitsOn
  <2>7. (chosen = Aim(b.func))' /\ (stack = StackAt(b, TRUE))'
    BY <1>1, <2>2, <2>4 DEF Aim, StackAt, Calls
  <2>8. (R.pos = Goal(b))'
    BY <1>1, <2>2, <2>5 DEF Goal
  <2>9. (stack = StackAt(b, R.line = 2))'
    BY <2>5, <2>7
  <2>10. Returning(b, R)'
    BY <1>1, <2>4, <2>5, <2>6, <2>7, <2>8, <2>9 DEF Returning
  <2>11. RunInv'
    BY <2>5, <2>10 DEF RunInv
  <2>12. pcBar' = pcBar
    <3>1. /\ call_stack # <<>> /\ call_stack[1] = b
          /\ (call_stack # <<>>)' /\ (call_stack[1] = b)'
      BY <1>1, <2>4
    <3> QED
      BY <1>2, <3>1, SamePlace
  <2>13. Values'
    BY <1>6, <2>2, <2>4 DEF Values
  <2> QED
    BY <2>4, <2>11, <2>12, <2>13 DEF Passed
<1>9. CASE r.line = 2
  <2>1. Command.op = "call" /\ Command.arg = CallFn /\ Command.pos = "here" /\ Passes(Command)
    BY <1>3, <1>9, DoFacts
  <2>2. UNCHANGED <<count, chosen, stack>>
    BY <2>1, StepIs DEF Scored
  <2>3. PICK here \in Positions : here = Goal(b)
    BY <1>2
  <2>4. Position(Command) = here
    BY <1>1, <2>1, <2>3, ShapeTwo DEF Position
  <2> DEFINE c == Frame(CallFn, here)
  <2>5. Stays(<<b, R, c>>)
    BY <1>1, <1>2, <1>3, <1>9, <2>1, <2>4, CodeOf, TwoCalls
  <2>6. call_stack' = <<b, R, c>> /\ run_state' = run_state /\ before' = before
    BY <1>4, <2>5 DEF Stays
  <2>7. R \in Frames /\ R.func = ReturnFn /\ R.line = 3
    BY <1>1, <1>9, FrameFields
  <2>8. c \in Frames /\ c.func = CallFn /\ c.line = 1 /\ c.pos = here
    BY CodeOf, NewFrame
  <2> HIDE DEF R, c
  <2>9. Waits(b)'
    BY <1>1, <1>2, <2>2, <2>6, WaitsOn
  <2>10. (chosen = Aim(b.func))' /\ (stack = StackAt(b, TRUE))'
    BY <1>1, <1>5, <1>9, <2>2, <2>6 DEF Aim, StackAt, Calls
  <2>11. (c.pos = Goal(b))'
    BY <2>2, <2>3, <2>8 DEF Goal
  <2>12. Calling(b, c)'
    <3>1. c.line \in 1 .. N + 3 /\ ~(c.line > 1)
      BY <2>8, CodeOf
    <3>2. (chosen \in Funcs => ~(c.line > chosen + 2))'
      <4>1. \A p \in Funcs : ~(1 > p + 2)
        BY CodeOf DEF Funcs
      <4> QED
        BY <2>8, <4>1
    <3>3. (\E x \in Frames : x.func = ReturnFn /\ x.line = 3 /\ call_stack = <<b, x, c>>)'
      BY <2>6, <2>7
    <3> QED
      BY <1>1, <2>8, <2>9, <2>10, <2>11, <3>1, <3>2, <3>3 DEF Calling
  <2>13. RunInv'
    BY <2>8, <2>12 DEF RunInv
  <2>14. pcBar' = pcBar
    <3>1. /\ call_stack # <<>> /\ call_stack[1] = b
          /\ (call_stack # <<>>)' /\ (call_stack[1] = b)'
      BY <1>1, <2>6
    <3> QED
      BY <1>2, <3>1, SamePlace
  <2>15. Values'
    BY <2>2, <2>6 DEF Values
  <2> QED
    BY <2>6, <2>13, <2>14, <2>15 DEF Passed
<1> QED
  BY <1>7, <1>8, <1>9

(* The commands that compare the pointer with every function.              *)
LEMMA CallCommand ==
  ASSUME NEW b \in Frames, NEW c \in Frames, Calling(b, c),
         NEW here \in {"A", "B", "R"}, here = Goal(b)
  PROVE  /\ Top(call_stack) = c
         /\ call_stack # <<>> /\ call_stack[1] = b
         /\ Command.op \in {"air", "set"}
         /\ c.line = 1 => /\ Command.op = "air" /\ Position(Command) = here
                          /\ (Passes(Command) <=> chosen = MainReturn)
         /\ c.line \in 2 .. N + 1 =>
              /\ Command.op = "set" /\ Position(Command) = here
              /\ Command.arg = c.line - 2
              /\ (Passes(Command) <=> chosen = c.line - 2)
         /\ c.line = N + 2 => /\ Command.op = "air" /\ Position(Command) = here
                              /\ (Passes(Command) <=> chosen \notin MainReturn .. N - 1)
         /\ c.line = N + 3 => /\ Command.op = "air" /\ Position(Command) = "S"
                              /\ (Passes(Command) <=> chosen \notin MainReturn .. N - 1)
<1>1. c.func = CallFn /\ c.line \in 1 .. N + 3 /\ c.pos = here /\ N \in Nat
  BY CodeOf DEF Calling
<1>2. /\ Top(call_stack) = c /\ Command = Code[CallFn][c.line]
      /\ call_stack # <<>> /\ call_stack[1] = b
  <2>1. CASE call_stack = <<b, c>>
    BY <1>1, <2>1, ShapeTwo
  <2>2. CASE \E r \in Frames : call_stack = <<b, r, c>>
    <3>1. PICK r \in Frames : call_stack = <<b, r, c>>
      BY <2>2
    <3> QED
      BY <1>1, <3>1, ShapeThree
  <2> QED
    BY <2>1, <2>2 DEF Calling
<1>3. CASE c.line = 1
  <2>1. ~(c.line \in 2 .. N + 1) /\ c.line # N + 2 /\ c.line # N + 3
    BY <1>1, <1>3
  <2>2. Command = If({MainReturn}, Do("air", 0))
    BY <1>2, <1>3, CallLines
  <2>3. /\ Command.op = "air" /\ Command.pos = "here"
        /\ (Passes(Command) <=> chosen = MainReturn)
    BY <2>2, IfFacts
  <2> QED
    BY <1>1, <1>2, <2>1, <2>3 DEF Position
<1>4. CASE c.line \in 2 .. N + 1
  <2>1. c.line # 1 /\ c.line # N + 2 /\ c.line # N + 3
    BY <1>1, <1>4
  <2>2. PICK i \in 1 .. N : c.line = 1 + i /\ i - 1 = c.line - 2
    <3>1. \A n \in 2 .. N + 1 : \E i \in 1 .. N : n = 1 + i /\ i - 1 = n - 2
      <4>1. \A n \in 2 .. N + 1 : n - 1 \in 1 .. N /\ n = 1 + (n - 1) /\ (n - 1) - 1 = n - 2
        BY <1>1
      <4> QED
        BY <4>1
    <3> QED
      BY <1>4, <3>1
  <2>3. Command = If({i - 1}, Do("set", i - 1))
    BY <1>2, <2>2, CallLines
  <2>4. /\ Command.op = "set" /\ Command.pos = "here" /\ Command.arg = i - 1
        /\ (Passes(Command) <=> chosen = i - 1)
    BY <2>3, IfFacts
  <2> QED
    BY <1>1, <1>2, <2>1, <2>2, <2>4 DEF Position
<1>5. CASE c.line = N + 2
  <2>1. c.line # 1 /\ ~(c.line \in 2 .. N + 1) /\ c.line # N + 3
    BY <1>1, <1>5
  <2>2. Command = Unless(MainReturn .. N - 1, Do("air", 0))
    BY <1>2, <1>5, CallLines
  <2>3. /\ Command.op = "air" /\ Command.pos = "here"
        /\ (Passes(Command) <=> chosen \notin MainReturn .. N - 1)
    BY <2>2 DEF Unless, Do, Passes
  <2> QED
    BY <1>1, <1>2, <2>1, <2>3 DEF Position
<1>6. CASE c.line = N + 3
  <2>1. c.line # 1 /\ ~(c.line \in 2 .. N + 1) /\ c.line # N + 2
    BY <1>1, <1>6
  <2>2. Command = Unless(MainReturn .. N - 1, At("S", Do("air", 0)))
    BY <1>2, <1>6, CallLines
  <2>3. /\ Command.op = "air" /\ Command.pos = "S"
        /\ (Passes(Command) <=> chosen \notin MainReturn .. N - 1)
    BY <2>2 DEF Unless, At, Do, Passes
  <2> QED
    BY <1>1, <1>2, <2>1, <2>3 DEF Position
<1>7. c.line = 1 \/ c.line \in 2 .. N + 1 \/ c.line = N + 2 \/ c.line = N + 3
  BY <1>1
<1> QED
  BY <1>3, <1>4, <1>5, <1>6, <1>7

LEMMA CallWrites ==
  ASSUME NEW b \in Frames, NEW c \in Frames, Calling(b, c), Values, StepCommand,
         NEW here \in {"A", "B", "R"}, here = Goal(b)
  PROVE  /\ UNCHANGED <<count, chosen, stack>>
         /\ Command.op # "call"
         /\ After \in RunStates /\ After.idx = run_state.idx
         /\ After.tick_queued = run_state.tick_queued
         /\ After.next_pos = run_state.next_pos
         /\ c.line = N + 3 => chosen \in Funcs \cup {MainReturn}
         /\ chosen \in Funcs /\ c.line + 1 > chosen + 2 => CommandIn(After, here) = chosen
         /\ chosen = MainReturn => here # "R" /\ CommandIn(After, here) = NoCmd
<1> DEFINE n == c.line
           rs == run_state
<1>1. /\ n \in 1 .. N + 3 /\ c.pos = here /\ N \in Nat /\ chosen \in Int
      /\ chosen \in Funcs /\ n > chosen + 2 => CommandIn(rs, here) = chosen
      /\ chosen = MainReturn /\ n > 1 => here # "R" /\ CommandIn(rs, here) = NoCmd
      /\ rs \in RunStates
      /\ MainReturn \notin Funcs
  <2>1. MainReturn \notin Funcs
    BY DEF MainReturn, Funcs
  <2> QED
    BY <2>1, CodeOf DEF Calling, Values, Written
<1>2. /\ Command.op \in {"air", "set"}
      /\ n = 1 => /\ Command.op = "air" /\ Position(Command) = here
                  /\ (Passes(Command) <=> chosen = MainReturn)
      /\ n \in 2 .. N + 1 => /\ Command.op = "set" /\ Position(Command) = here
                             /\ Command.arg = n - 2
                             /\ (Passes(Command) <=> chosen = n - 2)
      /\ n = N + 2 => /\ Command.op = "air" /\ Position(Command) = here
                      /\ (Passes(Command) <=> chosen \notin MainReturn .. N - 1)
      /\ n = N + 3 => /\ Command.op = "air" /\ Position(Command) = "S"
                      /\ (Passes(Command) <=> chosen \notin MainReturn .. N - 1)
  BY CallCommand
<1>3. UNCHANGED <<count, chosen, stack>> /\ Command.op # "call"
  BY <1>2, StepIs DEF Scored
<1>4. Passes(Command) => Failure(Command) = "ok"
  BY StepIs
<1>5. NoCmd \in Commands /\ Funcs \subseteq Commands
  BY DEF Commands
<1>6. Passes(Command) /\ Command.op = "air" =>
        Position(Command) # "R" /\ Position(Command) \in {"A", "B", "R"}
  BY <1>4 DEF Failure
<1>7. Passes(Command) => After = RunStateAfter(Command)
  BY DEF After
<1>8. ~Passes(Command) => After = rs
  BY DEF After
<1>9. chosen \in MainReturn .. N - 1 <=> chosen \in Funcs \/ chosen = MainReturn
  BY <1>1 DEF MainReturn, Funcs
<1> HIDE DEF n, rs
<1>10. CASE n = 1
  <2>1. CASE chosen = MainReturn
    <3>1. here # "R" /\ After = Filled(rs, here, NoCmd)
      BY <1>2, <1>6, <1>7, <1>10, <2>1 DEF RunStateAfter, rs
    <3> QED
      BY <1>1, <1>3, <1>5, <1>10, <2>1, <3>1, FilledIs DEF n, rs
  <2>2. CASE chosen # MainReturn
    <3>1. After = rs
      BY <1>2, <1>8, <1>10, <2>2
    <3>2. chosen \in Funcs => ~(n + 1 > chosen + 2)
      BY <1>10 DEF Funcs
    <3>3. n # N + 3
      BY <1>1, <1>10
    <3> QED
      BY <1>1, <1>3, <2>2, <3>1, <3>2, <3>3 DEF n, rs
  <2> QED
    BY <2>1, <2>2
<1>11. CASE n \in 2 .. N + 1
  <2>1. n # N + 3 /\ n - 2 \in Funcs /\ n \in Int /\ n > 1
    BY <1>1, <1>11 DEF Funcs
  <2>2. CASE chosen = n - 2
    <3>1. After = Filled(rs, here, chosen)
      BY <1>2, <1>7, <1>11, <2>2 DEF RunStateAfter, rs
    <3>2. chosen \in Commands /\ chosen # MainReturn
      BY <1>1, <1>5, <2>1, <2>2
    <3>3. /\ Filled(rs, here, chosen) \in RunStates
          /\ CommandIn(Filled(rs, here, chosen), here) = chosen
          /\ Filled(rs, here, chosen).idx = rs.idx
          /\ Filled(rs, here, chosen).tick_queued = rs.tick_queued
          /\ Filled(rs, here, chosen).next_pos = rs.next_pos
      BY <1>1, <3>2, FilledIs, SMTT(30)
    <3> QED
      BY <1>3, <2>1, <3>1, <3>2, <3>3 DEF n, rs
  <2>3. CASE chosen # n - 2
    <3>1. After = rs
      BY <1>2, <1>8, <1>11, <2>3
    <3>2. chosen \in Funcs /\ n + 1 > chosen + 2 => n > chosen + 2
      BY <1>1, <2>1, <2>3
    <3> QED
      BY <1>1, <1>3, <2>1, <3>1, <3>2 DEF n, rs
  <2> QED
    BY <2>2, <2>3
<1>12. CASE n = N + 2
  <2>1. n # N + 3 /\ n > 1
    BY <1>1, <1>12
  <2>2. \A p \in Funcs : n > p + 2
    BY <1>1, <1>12 DEF Funcs
  <2>3. CASE chosen \in Funcs \/ chosen = MainReturn
    <3>1. After = rs
      BY <1>2, <1>8, <1>9, <1>12, <2>3
    <3> QED
      BY <1>1, <1>3, <2>1, <2>2, <3>1 DEF n, rs
  <2>4. CASE ~(chosen \in Funcs \/ chosen = MainReturn)
    <3>1. After = Filled(rs, here, NoCmd)
      BY <1>2, <1>7, <1>9, <1>12, <2>4 DEF RunStateAfter, rs
    <3> QED
      BY <1>1, <1>3, <1>5, <2>1, <2>4, <3>1, FilledIs DEF n, rs
  <2> QED
    BY <2>3, <2>4
<1>13. CASE n = N + 3
  <2>1. ~Passes(Command)
    BY <1>2, <1>6, <1>13
  <2>2. After = rs /\ chosen \in Funcs \cup {MainReturn}
    BY <1>2, <1>8, <1>9, <1>13, <2>1
  <2>3. n > 1 /\ \A p \in Funcs : n > p + 2
    BY <1>1, <1>13 DEF Funcs
  <2> QED
    BY <1>1, <1>3, <2>2, <2>3 DEF n, rs
<1>14. n = 1 \/ n \in 2 .. N + 1 \/ n = N + 2 \/ n = N + 3
  BY <1>1
<1> QED
  BY <1>10, <1>11, <1>12, <1>13, <1>14

(* The call stack meanwhile.                                               *)
LEMMA CallStays ==
  ASSUME NEW b \in Frames, NEW c \in Frames, Calling(b, c), StepCommand, ~Finished(b),
         ~(Passes(Command) /\ Command.op = "call")
  PROVE  /\ run_state' = After /\ before' = before
         /\ c.line = N + 3 => call_stack' = <<b>>
         /\ c.line # N + 3 =>
              \/ Kind[b.func] = "dyn" /\ call_stack' = <<b, Bumped(c)>>
              \/ /\ Kind[b.func] = "ret"
                 /\ \E r \in Frames :
                      r.func = ReturnFn /\ r.line = 3 /\ call_stack' = <<b, r, Bumped(c)>>
<1>1. /\ c.func = CallFn /\ c.line \in 1 .. N + 3 /\ N \in Nat
      /\ Len(Code[c.func]) = N + 3
  BY CodeOf, CallLines DEF Calling
<1>2. /\ c.line \in 1 .. Len(Code[c.func])
      /\ c.line # N + 3 => c.line < Len(Code[c.func])
      /\ c.line = N + 3 => c.line = Len(Code[c.func])
  BY <1>1
<1>3. CASE Kind[b.func] = "dyn" /\ call_stack = <<b, c>>
  <2>1. CASE c.line = N + 3
    <3>1. Stays(<<b>>)
      BY <1>2, <1>3, <2>1, TwoSteps
    <3> QED
      BY <2>1, <3>1 DEF Stays
  <2>2. CASE c.line # N + 3
    <3>1. Stays(<<b, Bumped(c)>>)
      BY <1>2, <1>3, <2>2, TwoSteps
    <3> QED
      BY <1>3, <2>2, <3>1 DEF Stays
  <2> QED
    BY <2>1, <2>2
<1>4. CASE /\ Kind[b.func] = "ret"
           /\ \E r \in Frames :
                r.func = ReturnFn /\ r.line = 3 /\ call_stack = <<b, r, c>>
  <2>1. PICK r \in Frames : r.func = ReturnFn /\ r.line = 3 /\ call_stack = <<b, r, c>>
    BY <1>4
  <2>2. Finished(r)
    BY <2>1, ReturnLines DEF Finished
  <2>3. CASE c.line = N + 3
    <3>1. Stays(<<b>>)
      BY <1>2, <2>1, <2>2, <2>3, ThreeSteps
    <3> QED
      BY <2>3, <3>1 DEF Stays
  <2>4. CASE c.line # N + 3
    <3>1. Stays(<<b, r, Bumped(c)>>)
      BY <1>2, <2>1, <2>2, <2>4, ThreeSteps
    <3> QED
      BY <1>4, <2>1, <2>4, <3>1 DEF Stays
  <2> QED
    BY <2>3, <2>4
<1> QED
  BY <1>3, <1>4 DEF Calling

(* The block goes on when they are through.                                *)
LEMMA GoesOn ==
  ASSUME NEW b \in Frames, Waits(b), Values, Kind[b.func] \in {"dyn", "ret"},
         stack = StackAt(b, TRUE), Written(Goal(b), Aim(b.func))
  PROVE  AtLine(b)
<1> DEFINE n == b.line
           tp == TpAt(b.func)
           air == AirAt(b.func)
<1>1. /\ InBlock(b) /\ b.func \in Funcs /\ n \in 1 .. air
      /\ run_state.next_pos = Across(b.pos) /\ run_state.tick_queued = FALSE
  BY WaitFacts
<1>2. n = IF count < Limit THEN tp ELSE air
  BY DEF Waits
<1>3. tp \in Nat /\ air \in Nat /\ count \in Nat /\ Limit \in Int
  BY <1>1, LineNumbers, InterpreterAssumption DEF Values
<1>4. Done(b)
  <2>1. n >= n
    BY <1>1, <1>3
  <2> QED
    BY <1>2, <2>1 DEF Done
<1>5. EdgesBehind(b)
  BY DEF EdgesBehind
<1> HIDE DEF n, tp, air
<1>6. /\ n \in 1 .. air + 2
      /\ ~(count < Limit /\ n > tp)
      /\ ~(n > air /\ count >= Limit)
      /\ ~(n > air + 1 /\ count >= Limit)
  BY <1>1, <1>2, <1>3
<1>7. run_state.next_pos =
        IF count < Limit /\ b.line > TpAt(b.func) THEN b.pos ELSE Across(b.pos)
  BY <1>1, <1>6 DEF n, tp
<1>8. run_state.tick_queued <=> b.line > AirAt(b.func) + 1 /\ count >= Limit
  BY <1>1, <1>6 DEF n, air
<1>9. stack = StackAt(b, Done(b))
  BY <1>4 DEF StackAt
<1> QED
  BY <1>1, <1>4, <1>5, <1>6, <1>7, <1>8, <1>9 DEF AtLine, n, air

Resumes(b) ==
  /\ Waits(b) /\ Values /\ Kind[b.func] \in {"dyn", "ret"}
  /\ stack = StackAt(b, TRUE)
  /\ Written(Goal(b), Aim(b.func))

Resumable == \A b \in Frames : Resumes(b) => AtLine(b)

LEMMA Resumption == Resumable
BY GoesOn DEF Resumes, Resumable

LEMMA CallPasses ==
  ASSUME NEW b \in Frames, NEW c \in Frames, Calling(b, c), Values, StepCommand
  PROVE  Passed
<1> DEFINE C == Bumped(c)
<1>1. /\ Waits(b) /\ Kind[b.func] \in {"dyn", "ret"}
      /\ c.func = CallFn /\ c.line \in 1 .. N + 3 /\ c.pos = Goal(b)
      /\ stack = StackAt(b, TRUE) /\ chosen = Aim(b.func)
      /\ N \in Nat
  BY CodeOf DEF Calling
<1>2. /\ b.func \in Funcs /\ ~Finished(b) /\ Bottomed(before)
      /\ run_state.next_pos = Across(b.pos) /\ ~run_state.tick_queued
      /\ run_state.idx = PlaceOf(b.pos)
      /\ Goal(b) \in {"A", "B", "R"}
  BY <1>1, WaitFacts DEF InBlock
<1>3. PICK here \in {"A", "B", "R"} : here = Goal(b)
  BY <1>2
<1>4. /\ UNCHANGED <<count, chosen, stack>>
      /\ Command.op # "call"
      /\ After \in RunStates /\ After.idx = run_state.idx
      /\ After.tick_queued = run_state.tick_queued
      /\ After.next_pos = run_state.next_pos
      /\ c.line = N + 3 => chosen \in Funcs \cup {MainReturn}
      /\ chosen \in Funcs /\ c.line + 1 > chosen + 2 => CommandIn(After, here) = chosen
      /\ chosen = MainReturn => here # "R" /\ CommandIn(After, here) = NoCmd
  BY <1>3, CallWrites
<1>5. /\ run_state' = After /\ before' = before
      /\ c.line = N + 3 => call_stack' = <<b>>
      /\ c.line # N + 3 =>
           \/ Kind[b.func] = "dyn" /\ call_stack' = <<b, C>>
           \/ /\ Kind[b.func] = "ret"
              /\ \E r \in Frames :
                   r.func = ReturnFn /\ r.line = 3 /\ call_stack' = <<b, r, C>>
  BY <1>2, <1>4, CallStays
<1>6. C \in Frames /\ C.func = CallFn /\ C.line = c.line + 1 /\ C.pos = here
  BY <1>1, <1>3, FrameFields
<1> HIDE DEF C
<1>7. Values'
  BY <1>4, <1>5 DEF Values
<1>8. /\ (run_state.idx = PlaceOf(b.pos))' /\ (run_state.next_pos = Across(b.pos))'
      /\ (~run_state.tick_queued)'
  BY <1>2, <1>4, <1>5
<1>9. Waits(b)'
  BY <1>1, <1>4, <1>5, <1>8, WaitsOn
<1>10. (here = Goal(b))'
  BY <1>3, <1>4 DEF Goal
<1>11. (stack = StackAt(b, TRUE))' /\ (chosen = Aim(b.func))'
  BY <1>1, <1>4, <1>5 DEF StackAt, Aim
<1>12. MainReturn \notin Funcs
  BY DEF MainReturn, Funcs
<1>13. PICK p \in Int : p = chosen
  BY DEF Values
<1>14. (p = chosen)'
  BY <1>4, <1>13
<1>15. /\ p \in Funcs /\ c.line + 1 > p + 2 => Written(here, p)'
       /\ p = MainReturn => Written(here, p)'
  BY <1>4, <1>5, <1>12, <1>13 DEF Written, CommandIn
<1>16. CASE c.line # N + 3
  <2>1. Calling(b, C)'
    <3>1. C.line \in 1 .. N + 3
      BY <1>1, <1>6, <1>16
    <3>2. (chosen \in Funcs /\ C.line > chosen + 2 => Written(here, chosen))'
      BY <1>6, <1>14, <1>15
    <3>3. (chosen = MainReturn /\ C.line > 1 => Written(here, chosen))'
      BY <1>14, <1>15
    <3>4. (c.line # N + 3 => \/ Kind[b.func] = "dyn" /\ call_stack = <<b, C>>
           \/ /\ Kind[b.func] = "ret"
              /\ \E r \in Frames :
                   r.func = ReturnFn /\ r.line = 3 /\ call_stack = <<b, r, C>>)'
      BY <1>5
    <3> QED
      BY <1>6, <1>9, <1>10, <1>11, <1>16, <3>1, <3>2, <3>3, <3>4 DEF Calling
  <2>2. RunInv'
    BY <1>6, <2>1 DEF RunInv
  <2>3. pcBar' = pcBar
    <3>1. call_stack # <<>> /\ call_stack[1] = b
      BY <1>3, CallCommand
    <3>2. (call_stack # <<>>)' /\ (call_stack[1] = b)'
      BY <1>5, <1>16
    <3> QED
      BY <1>2, <3>1, <3>2, SamePlace
  <2> QED
    BY <1>5, <1>7, <2>2, <2>3 DEF Passed
<1>17. CASE c.line = N + 3
  <2>1. call_stack' = <<b>>
    BY <1>5, <1>17
  <2>2. p \in Funcs \/ p = MainReturn
    BY <1>4, <1>13, <1>17
  <2>3. p \in Funcs => c.line + 1 > p + 2
    BY <1>1, <1>17 DEF Funcs
  <2>4. Written(here, p)'
    BY <1>15, <2>2, <2>3
  <2>5. (Written(Goal(b), Aim(b.func)))'
    BY <1>10, <1>11, <1>14, <2>4
  <2>6. AtLine(b)'
    <3>1. Resumable'
      BY Resumption, PTL
    <3>2. Resumes(b)'
      BY <1>1, <1>7, <1>9, <1>11, <2>5 DEF Resumes
    <3> QED
      BY <3>1, <3>2 DEF Resumable
  <2>7. OwnLine(b)'
    BY <2>1, <2>6 DEF OwnLine
  <2>8. RunInv'
    BY <2>7 DEF RunInv
  <2>9. pcBar' = pcBar
    <3>1. call_stack # <<>> /\ call_stack[1] = b
      BY <1>3, CallCommand
    <3>2. (call_stack # <<>>)' /\ (call_stack[1] = b)'
      BY <2>1
    <3> QED
      BY <1>2, <3>1, <3>2, SamePlace
  <2> QED
    BY <1>5, <1>7, <2>8, <2>9 DEF Passed
<1> QED
  BY <1>16, <1>17

-----------------------------------------------------------------------------
(***************************************************************************)
(* Every command, and every step.                                          *)
(***************************************************************************)
LEMMA CommandPasses ==
  ASSUME RunInv, Values, StepCommand
  PROVE  Passed
<1>1. ~Halted
  BY StepIs
<1>2. ~Ended
  BY <1>1 DEF Ended, Halted
<1>3. CASE \E m \in Frames : Booting(m)
  BY <1>3, BootPasses
<1>4. CASE \E m \in Frames : \E i \in Frames : Initing(m, i)
  BY <1>4, InitPasses
<1>5. CASE \E b \in Frames : Ticking(b)
  BY <1>5, TickPasses
<1>6. CASE \E b \in Frames : OwnLine(b)
  BY <1>6, OwnLinePasses
<1>7. CASE \E b \in Frames : \E r \in Frames : Returning(b, r)
  BY <1>7, ReturnPasses
<1>8. CASE \E b \in Frames : \E c \in Frames : Calling(b, c)
  BY <1>8, CallPasses
<1> QED
  BY <1>2, <1>3, <1>4, <1>5, <1>6, <1>7, <1>8 DEF RunInv

(* The frames of every shape, and the line that is run next.               *)
Fits(b) == b \in Frames /\ b.line \in 1 .. Len(Code[b.func]) + 1
Runs(b) == b \in Frames /\ b.line \in 1 .. Len(Code[b.func])

Stacked ==
  /\ call_stack \in Seq(Frames)
  /\ \A i \in DOMAIN call_stack : Fits(call_stack[i])

Ready ==
  /\ call_stack # <<>>
  /\ Runs(Top(call_stack))
  /\ Command.op = "redstone" => ~run_state.tick_queued

LEMMA RunsFits ==
  ASSUME NEW b \in Frames, Runs(b)
  PROVE  Fits(b)
<1>1. Len(Code[b.func]) \in Nat
  BY FrameFields
<1> QED
  BY <1>1 DEF Runs, Fits

LEMMA StackOne ==
  ASSUME NEW b \in Frames, call_stack = <<b>>, Runs(b)
  PROVE  Stacked /\ call_stack # <<>> /\ Runs(Top(call_stack))
<1>1. Fits(b)
  BY RunsFits
<1> QED
  BY <1>1, ShapeOne DEF Stacked

LEMMA StackTwo ==
  ASSUME NEW b \in Frames, NEW c \in Frames, call_stack = <<b, c>>, Fits(b), Runs(c)
  PROVE  Stacked /\ call_stack # <<>> /\ Runs(Top(call_stack))
<1>1. Fits(c)
  BY RunsFits
<1> QED
  BY <1>1, ShapeTwo DEF Stacked

LEMMA StackThree ==
  ASSUME NEW b \in Frames, NEW r \in Frames, NEW c \in Frames,
         call_stack = <<b, r, c>>, Fits(b), Fits(r), Runs(c)
  PROVE  Stacked /\ call_stack # <<>> /\ Runs(Top(call_stack))
<1>1. Fits(c)
  BY RunsFits
<1> QED
  BY <1>1, ShapeThree DEF Stacked

LEMMA WaitingFits ==
  ASSUME NEW b \in Frames, Waits(b), Kind[b.func] \in {"dyn", "ret"}, Values
  PROVE  Fits(b)
<1>1. b.line \in 1 .. AirAt(b.func) /\ ~Finished(b)
  BY WaitFacts
<1>2. Len(Code[b.func]) \in Nat /\ b.line \in Nat /\ b.line >= 1
  BY <1>1, FrameFields
<1> QED
  BY <1>1, <1>2 DEF Fits, Finished

LEMMA OwnLineReady ==
  ASSUME NEW b \in Frames, OwnLine(b), Values
  PROVE  Stacked /\ Ready
<1> DEFINE n == b.line
           body == Body[b.func]
           air == AirAt(b.func)
           kind == Kind[b.func]
<1>1. /\ AtLine(b) /\ call_stack = <<b>> /\ b.func \in Funcs
      /\ n \in 1 .. (IF kind = "stop" THEN body + 1 ELSE air + 2)
      /\ run_state.tick_queued <=> n > air + 1 /\ count >= Limit
  BY DEF OwnLine, AtLine, InBlock
<1>2. Runs(b)
  BY <1>1, BlockLength DEF Runs
<1>3. /\ body \in Nat /\ air \in Nat /\ air > body
  <2>1. /\ body \in Nat /\ ChargeAt(b.func) \in Nat /\ ChargeAt(b.func) >= body + 1
        /\ EdgeCount(b.func) \in Nat
        /\ TpAt(b.func) = ChargeAt(b.func) + EdgeCount(b.func) + 1
        /\ air = TpAt(b.func) + EdgeCount(b.func) + 1
    BY <1>1, LineNumbers
  <2> HIDE DEF body, air
  <2> QED
    BY <2>1
<1>4. ASSUME run_state.tick_queued PROVE Command.op = "reset"
  <2>1. n > air + 1 /\ n \in 1 .. (IF kind = "stop" THEN body + 1 ELSE air + 2)
    BY <1>1, <1>4
  <2>2. kind # "stop" /\ n = air - 1 + 3 /\ n = air + 2
    <3> HIDE DEF n, body, air, kind
    <3> QED
      BY <1>3, <2>1
  <2>3. Command = Code[b.func][AirAt(b.func) - 1 + 3]
    BY <1>1, <2>2, ShapeOne
  <2>4. Command = Closing[3]
    BY <1>1, <2>2, <2>3, BlockLines
  <2> QED
    BY <2>4, WhenFacts DEF Closing
<1>5. Command.op = "redstone" => ~run_state.tick_queued
  BY <1>4
<1> QED
  BY <1>1, <1>2, <1>5, StackOne DEF Ready

LEMMA Readiness ==
  ASSUME RunInv, Values
  PROVE  Stacked /\ (Ended \/ Ready)
<1>1. CASE \E m \in Frames : Booting(m)
  <2>1. PICK m \in Frames : Booting(m)
    BY <1>1
  <2>2. call_stack = <<m>> /\ m.func = MainFn /\ m.line \in {1, 2} /\ ~run_state.tick_queued
    BY <2>1 DEF Booting
  <2>3. Runs(m)
    BY <2>2, MainLines DEF Runs
  <2> QED
    BY <2>2, <2>3, StackOne DEF Ready
<1>2. CASE \E m \in Frames : \E i \in Frames : Initing(m, i)
  <2>1. PICK m \in Frames, i \in Frames : Initing(m, i)
    BY <1>2
  <2>2. /\ call_stack = <<m, i>> /\ m.func = MainFn /\ m.line = 2
        /\ i.func = InitFn /\ i.line \in 1 .. 5 /\ ~run_state.tick_queued
    BY <2>1 DEF Initing
  <2>3. Fits(m)
    BY <2>2, MainLines DEF Fits
  <2>4. Runs(i)
    BY <2>2, InitLines DEF Runs
  <2> QED
    BY <2>2, <2>3, <2>4, StackTwo DEF Ready
<1>3. CASE \E b \in Frames : Ticking(b)
  <2>1. PICK b \in Frames : Ticking(b)
    BY <1>3
  <2>2. call_stack = <<b>> /\ b.func = OnTickFn /\ b.line \in 1 .. 4 /\ ~run_state.tick_queued
    BY <2>1 DEF Ticking
  <2>3. Runs(b)
    BY <2>2, OnTickLines DEF Runs
  <2> QED
    BY <2>2, <2>3, StackOne DEF Ready
<1>4. CASE \E b \in Frames : OwnLine(b)
  BY <1>4, OwnLineReady
<1>5. CASE \E b \in Frames : \E r \in Frames : Returning(b, r)
  <2>1. PICK b \in Frames, r \in Frames : Returning(b, r)
    BY <1>5
  <2>2. /\ call_stack = <<b, r>> /\ Waits(b) /\ Kind[b.func] = "ret"
        /\ r.func = ReturnFn /\ r.line \in {1, 2}
    BY <2>1 DEF Returning
  <2>3. ~run_state.tick_queued
    BY <2>2 DEF Waits
  <2>4. Fits(b)
    BY <2>2, WaitingFits
  <2>5. Runs(r)
    BY <2>2, ReturnLines DEF Runs
  <2> QED
    BY <2>2, <2>3, <2>4, <2>5, StackTwo DEF Ready
<1>6. CASE \E b \in Frames : \E c \in Frames : Calling(b, c)
  <2>1. PICK b \in Frames, c \in Frames : Calling(b, c)
    BY <1>6
  <2>2. /\ Waits(b) /\ Kind[b.func] \in {"dyn", "ret"}
        /\ c.func = CallFn /\ c.line \in 1 .. N + 3
    BY <2>1 DEF Calling
  <2>3. ~run_state.tick_queued
    BY <2>2 DEF Waits
  <2>4. Fits(b)
    BY <2>2, WaitingFits
  <2>5. Runs(c)
    BY <2>2, CallLines DEF Runs
  <2>6. CASE call_stack = <<b, c>>
    BY <2>3, <2>4, <2>5, <2>6, StackTwo DEF Ready
  <2>7. CASE \E r \in Frames : r.func = ReturnFn /\ r.line = 3 /\ call_stack = <<b, r, c>>
    <3>1. PICK r \in Frames : r.func = ReturnFn /\ r.line = 3 /\ call_stack = <<b, r, c>>
      BY <2>7
    <3>2. Fits(r)
      BY <3>1, ReturnLines DEF Fits
    <3> QED
      BY <2>3, <2>4, <2>5, <3>1, <3>2, StackThree DEF Ready
  <2> QED
    BY <2>1, <2>6, <2>7 DEF Calling
<1>7. CASE Ended
  <2>1. call_stack = <<>>
    BY <1>7 DEF Ended
  <2> QED
    BY <1>7, <2>1 DEF Stacked
<1> QED
  BY <1>1, <1>2, <1>3, <1>4, <1>5, <1>6, <1>7 DEF RunInv

TypedStacks == RunInv /\ Values => Stacked

LEMMA StacksTyped == TypedStacks
BY Readiness DEF TypedStacks

LEMMA TypeMeans == InterpInv => Values
BY DEF InterpInv, TypeOK, Values, RunStates

LEMMA CommandsCount ==
  ASSUME StepCommand, commands_run \in 0 .. MaxCommands
  PROVE  commands_run' \in 0 .. MaxCommands
<1>1. commands_run' = commands_run + 1 \/ commands_run' = 0
  <2>1. ASSUME NEW rs, NEW frames, Continue(rs, frames)
        PROVE  commands_run' = commands_run + 1 \/ commands_run' = 0
    BY <2>1 DEF Continue
  <2>2. CASE Passes(Command) /\ Command.op = "call"
    BY <2>1, <2>2, StepIs
  <2>3. CASE ~(Passes(Command) /\ Command.op = "call")
    BY <2>1, <2>3, StepIs
  <2> QED
    BY <2>2, <2>3
<1>2. commands_run < MaxCommands /\ MaxCommands \in Nat
  BY StepIs, InterpreterAssumption
<1> QED
  BY <1>1, <1>2

LEMMA CommandKeeps ==
  ASSUME InterpInv, StepCommand
  PROVE  InterpInv' /\ [CF!Next]_CF!cfVars
<1>1. RunInv /\ Values /\ commands_run \in 0 .. MaxCommands
  BY StepIs, TypeMeans DEF InterpInv, TypeOK
<1>2. Passed
  BY <1>1, CommandPasses
<1>3. RunInv' /\ Values'
  BY <1>2 DEF Passed
<1>4. Stacked'
  <2>1. TypedStacks'
    BY StacksTyped, PTL
  <2> QED
    BY <1>3, <2>1 DEF TypedStacks
<1>5. commands_run' \in 0 .. MaxCommands
  BY <1>1, CommandsCount
<1>6. TypeOK'
  <2>1. (\A i \in DOMAIN call_stack :
           /\ call_stack[i].func \in AllFuncs
           /\ call_stack[i].line \in 1 .. Len(Code[call_stack[i].func]) + 1
           /\ call_stack[i].pos \in Positions)'
    BY <1>4 DEF Stacked, Fits, Frames
  <2> QED
    BY <1>3, <1>5, <2>1 DEF TypeOK, Values, RunStates
<1>7. TickQueuedOnce'
  BY StepIs DEF TickQueuedOnce
<1>8. InterpInv'
  BY <1>3, <1>4, <1>6, <1>7 DEF InterpInv, Stacked, Values
<1>9. [CF!Next]_CF!cfVars
  BY <1>2 DEF Passed, CF!cfVars
<1> QED
  BY <1>8, <1>9

LEMMA SameTypes ==
  ASSUME TypeOK, call_stack \in Seq(Frames), chosen \in Int,
         UNCHANGED <<run_state, call_stack, commands_run, count, chosen, stack, before>>
  PROVE  TypeOK' /\ (call_stack \in Seq(Frames))' /\ (chosen \in Int)'
<1>1. /\ (run_state \in RunStates)'
      /\ (commands_run \in 0 .. MaxCommands)'
      /\ (count \in Nat)' /\ (stack \in Seq(Int))' /\ (before \in Seq(Int))'
      /\ (call_stack \in Seq(Frames))' /\ (chosen \in Int)'
  BY DEF TypeOK, RunStates
<1>2. (\A i \in DOMAIN call_stack :
         /\ call_stack[i].func \in AllFuncs
         /\ call_stack[i].line \in 1 .. Len(Code[call_stack[i].func]) + 1
         /\ call_stack[i].pos \in Positions)'
  <2>1. \A i \in DOMAIN call_stack :
         /\ call_stack[i].func \in AllFuncs
         /\ call_stack[i].line \in 1 .. Len(Code[call_stack[i].func]) + 1
         /\ call_stack[i].pos \in Positions
    BY DEF TypeOK
  <2> QED
    BY <2>1
<1> QED
  BY <1>1, <1>2 DEF TypeOK, RunStates

LEMMA SameShape ==
  ASSUME RunInv, UNCHANGED <<run_state, call_stack, count, chosen, stack, before>>
  PROVE  RunInv'
<1>1. ASSUME NEW b \in Frames, Waits(b) PROVE Waits(b)'
  <2>1. InBlock(b) /\ Settled(b)
    BY <1>1 DEF Waits, InBlock
  <2>2. Settled(b)'
    BY <2>1 DEF Settled
  <2>3. InBlock(b)'
    BY <2>1, <2>2 DEF InBlock
  <2> QED
    BY <1>1, <2>3 DEF Waits
<1>2. ASSUME NEW m \in Frames, Booting(m) PROVE Booting(m)'
  BY <1>2 DEF Booting
<1>3. ASSUME NEW m \in Frames, NEW i \in Frames, Initing(m, i) PROVE Initing(m, i)'
  BY <1>3 DEF Initing
<1>4. ASSUME NEW b \in Frames, Ticking(b) PROVE Ticking(b)'
  BY <1>4 DEF Ticking
<1>5. ASSUME NEW b \in Frames, OwnLine(b) PROVE OwnLine(b)'
  BY <1>5, SameLine DEF OwnLine
<1>6. ASSUME NEW b \in Frames, NEW r \in Frames, Returning(b, r) PROVE Returning(b, r)'
  BY <1>1, <1>6 DEF Returning, StackAt, Goal, Aim
<1>7. ASSUME NEW b \in Frames, NEW c \in Frames, Calling(b, c) PROVE Calling(b, c)'
  <2>1. /\ (\/ Kind[b.func] = "dyn" /\ call_stack = <<b, c>>
            \/ /\ Kind[b.func] = "ret"
               /\ \E r \in Frames :
                    r.func = ReturnFn /\ r.line = 3 /\ call_stack = <<b, r, c>>)'
        /\ Waits(b)'
    BY <1>1, <1>7 DEF Calling
  <2>2. (/\ c \in Frames /\ c.func = CallFn /\ c.line \in 1 .. N + 3 /\ c.pos = Goal(b)
         /\ stack = StackAt(b, TRUE)
         /\ chosen = Aim(b.func))'
    BY <1>7 DEF Calling, Goal, StackAt, Aim
  <2>3. (/\ chosen \in Funcs /\ c.line > chosen + 2 => Written(c.pos, chosen)
         /\ chosen = MainReturn /\ c.line > 1 => Written(c.pos, chosen))'
    BY <1>7 DEF Calling, Written, CommandIn
  <2> QED
    BY <2>1, <2>2, <2>3 DEF Calling
<1>8. Ended => Ended'
  BY DEF Ended
<1>9. CASE \E m \in Frames : Booting(m)
  BY <1>2, <1>9 DEF RunInv
<1>10. CASE \E m \in Frames : \E i \in Frames : Initing(m, i)
  BY <1>3, <1>10 DEF RunInv
<1>11. CASE \E b \in Frames : Ticking(b)
  BY <1>4, <1>11 DEF RunInv
<1>12. CASE \E b \in Frames : OwnLine(b)
  BY <1>5, <1>12 DEF RunInv
<1>13. CASE \E b \in Frames : \E r \in Frames : Returning(b, r)
  BY <1>6, <1>13 DEF RunInv
<1>14. CASE \E b \in Frames : \E c \in Frames : Calling(b, c)
  BY <1>7, <1>14 DEF RunInv
<1>15. CASE Ended
  BY <1>8, <1>15 DEF RunInv
<1> QED
  BY <1>9, <1>10, <1>11, <1>12, <1>13, <1>14, <1>15 DEF RunInv

LEMMA StatusBecomes ==
  ASSUME NEW s, s # "tick already queued", status' = s
  PROVE  TickQueuedOnce'
BY Zenon DEF TickQueuedOnce

LEMMA StatusKept ==
  ASSUME TickQueuedOnce, UNCHANGED status
  PROVE  TickQueuedOnce'
BY Zenon DEF TickQueuedOnce

(* A command that fails has been passed already, and nothing else changes. *)
LEMMA FailureKeeps ==
  ASSUME InterpInv, StepFails
  PROVE  InterpInv' /\ UNCHANGED <<pcBar, before>>
<1>1. /\ status = "ok" /\ ~Halted /\ Passes(Command) /\ Failure(Command) # "ok"
      /\ status' = Failure(Command) /\ call_stack' = Advanced
      /\ UNCHANGED <<run_state, commands_run, count, chosen, stack, before>>
  BY DEF StepFails
<1>2. RunInv /\ Values
  BY <1>1, TypeMeans DEF InterpInv
<1>3. Stacked /\ Ready
  <2>1. ~Ended
    BY <1>1 DEF Ended, Halted
  <2> QED
    BY <1>2, <2>1, Readiness
<1> DEFINE n == Len(call_stack)
           top == Top(call_stack)
<1>4. /\ call_stack \in Seq(Frames) /\ n \in Nat /\ n >= 1
      /\ DOMAIN call_stack = 1 .. n
      /\ top = call_stack[n] /\ top \in Frames /\ Runs(top)
      /\ \A i \in 1 .. n : Fits(call_stack[i])
  BY <1>3, EmptySeq DEF Stacked, Ready, Runs, Top
<1>5. /\ call_stack' = [call_stack EXCEPT ![n] = Bumped(top)]
  BY <1>1, <1>4 DEF Advanced, Bumped
<1>6. Bumped(top) \in Frames /\ Bumped(top).func = top.func /\ Fits(Bumped(top))
  <2>1. /\ Bumped(top) \in Frames /\ Bumped(top).func = top.func
        /\ Bumped(top).line = top.line + 1
        /\ Len(Code[top.func]) \in Nat
    BY <1>4, FrameFields
  <2>2. \A l \in Nat : \A k \in 1 .. l : k + 1 \in 1 .. l + 1
    OBVIOUS
  <2> QED
    BY <1>4, <2>1, <2>2 DEF Runs, Fits
<1> HIDE DEF n, top
<1>7. /\ call_stack' \in Seq(Frames) /\ Len(call_stack') = n
      /\ DOMAIN call_stack' = 1 .. n
      /\ call_stack'[n] = Bumped(top)
      /\ \A i \in 1 .. n : i # n => call_stack'[i] = call_stack[i]
  BY <1>4, <1>5, <1>6
<1>8. \A i \in 1 .. n : Fits(call_stack'[i]) /\ call_stack'[i].func = call_stack[i].func
  BY <1>4, <1>6, <1>7
<1>9. TypeOK'
  <2>1. \A i \in DOMAIN call_stack' :
           /\ call_stack'[i].func \in AllFuncs
           /\ call_stack'[i].line \in 1 .. Len(Code[call_stack'[i].func]) + 1
           /\ call_stack'[i].pos \in Positions
    BY <1>7, <1>8 DEF Fits, Frames
  <2>2. TypeOK
    BY DEF InterpInv
  <2> QED
    BY <1>1, <2>1, <2>2 DEF TypeOK
<1>10. status' # "ok" /\ TickQueuedOnce'
  <2>1. Command.op = "redstone" => ~run_state.tick_queued
    BY <1>3 DEF Ready
  <2>2. Failure(Command) # "tick already queued"
    BY <2>1 DEF Failure
  <2>3. status' = Failure(Command)
    BY <1>1
  <2>4. status' # "ok"
    BY <1>1
  <2>5. TickQueuedOnce'
    BY <2>2, <2>3, StatusBecomes, Zenon
  <2> QED
    BY <2>4, <2>5
<1>11. InterpInv'
  BY <1>1, <1>7, <1>9, <1>10 DEF InterpInv
<1>12. pcBar' = pcBar
  <2>1. 1 \in 1 .. n /\ n # 0
    BY <1>4
  <2>2. call_stack'[1].func = call_stack[1].func
    BY <1>8, <2>1
  <2>3. call_stack # <<>> /\ call_stack' # <<>>
    BY <1>4, <1>7, <2>1, EmptySeq
  <2> QED
    BY <1>1, <2>2, <2>3 DEF pcBar
<1> QED
  BY <1>1, <1>11, <1>12

LEMMA StepKeeps == InterpInv /\ [Next]_vars => InterpInv' /\ [CF!Next]_CF!cfVars
<1> SUFFICES ASSUME InterpInv, [Next]_vars
             PROVE  InterpInv' /\ [CF!Next]_CF!cfVars
  OBVIOUS
<1>1. CASE StepCommand
  BY <1>1, CommandKeeps
<1>2. CASE StepFails
  BY <1>2, FailureKeeps DEF CF!cfVars
<1>3. CASE StepTooMany
  <2>1. /\ status' = "MaxCommandsRun"
        /\ UNCHANGED <<run_state, call_stack, commands_run, count, chosen, stack, before>>
    BY <1>3 DEF StepTooMany
  <2>2. (status # "ok")' /\ TickQueuedOnce'
    <3>1. status' = "MaxCommandsRun"
      BY <2>1
    <3>2. TickQueuedOnce'
      BY <3>1 DEF TickQueuedOnce
    <3> QED
      BY <3>1, <3>2
  <2>3. TypeOK' /\ (call_stack \in Seq(Frames))' /\ (chosen \in Int)'
    BY <2>1, SameTypes DEF InterpInv
  <2>4. UNCHANGED <<pcBar, before>>
    BY <2>1 DEF pcBar
  <2> QED
    BY <2>2, <2>3, <2>4 DEF InterpInv, CF!cfVars
<1>4. CASE UNCHANGED vars
  <2>1. UNCHANGED <<run_state, call_stack, commands_run, status, count, chosen, stack, before>>
    BY <1>4 DEF vars
  <2>2. TypeOK' /\ (call_stack \in Seq(Frames))' /\ (chosen \in Int)'
    BY <2>1, SameTypes DEF InterpInv
  <2>3. (status = "ok" => RunInv)' /\ TickQueuedOnce'
    <3>1. status' = status
      BY <2>1
    <3>2. TickQueuedOnce
      BY DEF InterpInv
    <3>3. TickQueuedOnce'
      BY <3>1, <3>2, StatusKept, Zenon
    <3>4. status = "ok" => RunInv
      BY DEF InterpInv
    <3>5. RunInv => RunInv'
      BY <2>1, SameShape
    <3> QED
      BY <3>1, <3>3, <3>4, <3>5
  <2>4. UNCHANGED <<pcBar, before>>
    BY <2>1 DEF pcBar
  <2> QED
    BY <2>2, <2>3, <2>4 DEF InterpInv, CF!cfVars
<1> QED
  BY <1>1, <1>2, <1>3, <1>4 DEF Next

LEMMA InitHolds == Init => InterpInv /\ CF!Init
<1> SUFFICES ASSUME Init PROVE InterpInv /\ CF!Init
  OBVIOUS
<1> DEFINE m == Frame(MainFn, "away")
<1>1. /\ run_state = [resume_cmd |-> NoCmd, cmd_1 |-> NoCmd, cmd_2 |-> NoCmd,
                      idx |-> NoCmd, tick_queued |-> FALSE, next_pos |-> "away"]
      /\ call_stack = <<m>> /\ commands_run = 0 /\ status = "ok" /\ count = 0
      /\ chosen = MainReturn /\ stack = <<>> /\ before = <<>>
  BY DEF Init
<1>2. m \in Frames /\ m.func = MainFn /\ m.line = 1 /\ m.pos = "away"
  BY CodeOf, NewFrame DEF Positions
<1>3. Booting(m)
  <2> HIDE DEF m
  <2>1. m.line \in {1, 2} /\ m.line # 2
    BY <1>2
  <2>2. run_state.idx = NoCmd /\ ~run_state.tick_queued
    BY <1>1
  <2> QED
    BY <1>1, <1>2, <2>1, <2>2 DEF Booting
<1>4. RunInv
  BY <1>2, <1>3 DEF RunInv
<1>5. chosen \in Int /\ Values
  <2>1. run_state \in RunStates
    BY <1>1 DEF RunStates, Commands, Positions
  <2>2. chosen \in Int /\ count \in Nat
    BY <1>1 DEF MainReturn
  <2>3. stack \in Seq(Int) /\ before \in Seq(Int)
    BY <1>1, EmptySeq
  <2> QED
    BY <2>1, <2>2, <2>3 DEF Values
<1>6. Stacked
  BY <1>4, <1>5, Readiness
<1>7. TypeOK
  <2>1. \A i \in DOMAIN call_stack :
           /\ call_stack[i].func \in AllFuncs
           /\ call_stack[i].line \in 1 .. Len(Code[call_stack[i].func]) + 1
           /\ call_stack[i].pos \in Positions
    BY <1>6 DEF Stacked, Fits, Frames
  <2>2. commands_run \in 0 .. MaxCommands
    BY <1>1, InterpreterAssumption
  <2> QED
    BY <1>5, <2>1, <2>2 DEF TypeOK, Values, RunStates
<1>8. InterpInv
  BY <1>1, <1>4, <1>5, <1>6, <1>7 DEF InterpInv, Stacked, TickQueuedOnce
<1>9. pcBar = -1
  <2>1. call_stack # <<>> /\ call_stack[1] = m
    BY <1>1
  <2> HIDE DEF m
  <2> QED
    BY <1>2, <2>1, CodeOf DEF pcBar, MainFn, OnTickFn
<1>10. CF!Init
  BY <1>1, <1>9 DEF CF!Init, CF!Halted
<1> QED
  BY <1>8, <1>10

-----------------------------------------------------------------------------
(***************************************************************************)
(* Theorems.                                                               *)
(***************************************************************************)

(* Whatever the program, the limit and the bound on commands, the call     *)
(* stack is in one of six shapes, and the line its frames have reached     *)
(* says what the blocks, the pointer and the return addresses hold.        *)
THEOREM InterpreterInvariant == Spec => []InterpInv
<1>1. Init => InterpInv
  BY InitHolds
<1>2. InterpInv /\ [Next]_vars => InterpInv'
  BY StepKeeps
<1> QED
  BY <1>1, <1>2, PTL DEF Spec

(* No frame runs past the end of its function, and what the interpreter    *)
(* keeps has the types of its structs.                                     *)
THEOREM TypesOfInterpreter == Spec => []TypeOK
BY InterpreterInvariant, PTL DEF InterpInv

(* The assertion of execute_setblock never fails: redstone is not placed   *)
(* while a tick is queued.                                                 *)
THEOREM OneTickQueued == Spec => []TickQueuedOnce
BY InterpreterInvariant, PTL DEF InterpInv

(* When the interpreter reports the program as halted, main has returned,  *)
(* provided that no function pointer leads to main's return address.       *)
THEOREM MainHasReturned ==
  ASSUME \A f \in Funcs : MainReturn \notin Succ[f]
  PROVE  Spec => []HaltedMeansReturned
<1>1. InterpInv => HaltedMeansReturned
  <2> SUFFICES ASSUME InterpInv, status = "ok", Halted PROVE stack = <<>>
    BY DEF HaltedMeansReturned
  <2>1. RunInv /\ Values
    BY TypeMeans DEF InterpInv
  <2>2. Ended
    BY <2>1, Readiness DEF Ready, Halted
  <2> QED
    BY <2>2 DEF Ended
<1> QED
  BY <1>1, InterpreterInvariant, PTL

(* Command by command, the interpreter runs the program's control flow: a  *)
(* block hands over to the block its end has chosen at its last command,   *)
(* under the limit and over a tick alike, and never to another.            *)
THEOREM CommandsRefineControlFlow == Spec => ImplementsControlFlow
<1>1. Init => CF!Init
  BY InitHolds
<1>2. InterpInv /\ [Next]_vars => [CF!Next]_CF!cfVars
  BY StepKeeps
<1> QED
  BY <1>1, <1>2, InterpreterInvariant, PTL DEF Spec, ImplementsControlFlow, CF!Spec
=============================================================================
