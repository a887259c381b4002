------------------------- MODULE CommandChainProofs -------------------------
(***************************************************************************)
(* Proofs about the machine of command blocks, for every program, every    *)
(* command limit and any number of runs.                                   *)
(***************************************************************************)
EXTENDS CommandChain, SequenceTheorems, TLAPS

(* The worlds in which the machine works: the score and the entity exist,  *)
(* the limit is one the game's chain length can honour, and the program    *)
(* has no terminator without destination.                                  *)
Ready ==
  /\ LimitStates = {TRUE} /\ HasNext
  /\ Limit <= 10 * MaxChain
  /\ \A f \in Funcs : Kind[f] # "stop"

-----------------------------------------------------------------------------
(***************************************************************************)
(* Type correctness, in every world.                                       *)
(***************************************************************************)
LEMMA StackTypes ==
  ASSUME NEW s \in Seq(Int), NEW p \in Int
  PROVE  /\ Append(s, p) \in Seq(Int)
         /\ Pop(s) \in Seq(Int)
         /\ <<p>> \in Seq(Int)
<1>1. Append(s, p) \in Seq(Int) /\ <<p>> \in Seq(Int)
  OBVIOUS
<1>2. \A i \in 1 .. Len(s) - 1 : s[i] \in Int
  OBVIOUS
<1>3. Len(s) - 1 \in Int
  OBVIOUS
<1>4. Pop(s) \in Seq(Int)
  BY <1>2, <1>3, SubSeqProperties DEF Pop
<1> QED
  BY <1>1, <1>4

Contents == [Blocks -> Funcs \cup {Air, Blank}]

LEMMA PutType ==
  ASSUME NEW c \in Contents, NEW b, NEW p
  PROVE  Put(c, b, p) \in Contents /\ Cleared(c, b) \in Contents
BY DEF Put, Cleared, Contents

(* What the end of a block makes of the world has the right type.          *)
LEMMA HandOverType ==
  ASSUME TypeOK, NEW f \in Funcs, NEW p, at \in Chain, HandOver(f, p)
  PROVE  /\ cmd' \in Contents
         /\ start' \in BOOLEAN /\ redstone' \in BOOLEAN /\ queued' \in BOOLEAN
         /\ next' \in Chain \cup {"away", "none"}
         /\ count' \in Nat
<1>1. cmd \in Contents
  BY DEF TypeOK, Contents
<1>2. Charged(f) \in Nat
  BY ProgramAssumption DEF TypeOK, Charged
<1>3. Survives(p) \in BOOLEAN
  BY DEF Survives
<1>4. CASE PassOn(f, p)
  <2>1. cmd' \in Contents
    BY <1>1, <1>4, PutType DEF PassOn
  <2>2. start' \in BOOLEAN
    BY <1>3, <1>4 DEF PassOn, TypeOK
  <2> QED
    BY <1>2, <1>4, <2>1, <2>2 DEF PassOn, TypeOK, Teleported
<1>5. CASE Suspend(f, p)
  <2>1. cmd' \in Contents
    BY <1>1, <1>5, PutType DEF Suspend
  <2>2. start' \in BOOLEAN
    BY <1>3, <1>5 DEF Suspend
  <2>3. queued' \in BOOLEAN
    BY <1>5 DEF Suspend
  <2> QED
    BY <1>5, <2>1, <2>2, <2>3 DEF Suspend, TypeOK
<1> QED
  BY <1>4, <1>5 DEF HandOver

LEMMA AdvanceType ==
  ASSUME TypeOK, at \in Chain, AdvanceChain
  PROVE  at' \in Chain \cup {"idle"} /\ burst' \in Nat /\ runs' \in Nat
         /\ hasLimit' \in LimitStates
BY DEF TypeOK, AdvanceChain, Reach, Other, Chain

LEMMA RunningFacts ==
  ASSUME NEW f, NEW kinds, Running(f, kinds)
  PROVE  at \in Chain /\ cmd[at] = f /\ Kind[f] \in kinds
BY DEF Running, Triggered

THEOREM TypeCorrect == Spec => []TypeOK
<1>1. Init => TypeOK
  <2> SUFFICES ASSUME Init PROVE TypeOK
    OBVIOUS
  <2>1. start \in BOOLEAN /\ redstone \in BOOLEAN /\ queued \in BOOLEAN
    BY DEF Init
  <2>2. next \in Chain \cup {"away", "none"}
    BY DEF Init
  <2> QED
    BY <2>1, <2>2 DEF Init, TypeOK
<1>2. TypeOK /\ [Next]_vars => TypeOK'
  <2> SUFFICES ASSUME TypeOK, [Next]_vars PROVE TypeOK'
    OBVIOUS
  <2>1. CASE RunMain
    <3>1. <<MainReturn>> \in Seq(Int)
      BY DEF MainReturn
    <3>2. cmd' \in Contents
      BY <2>1, ProgramAssumption DEF RunMain, TypeOK, Contents
    <3>3. start' \in BOOLEAN /\ redstone' \in BOOLEAN /\ queued' \in BOOLEAN
      BY <2>1 DEF RunMain
    <3> QED
      BY <2>1, <3>1, <3>2, <3>3 DEF RunMain, TypeOK, Contents
  <2>2. CASE OnTick
    BY <2>2 DEF OnTick, TypeOK, Chain, Blocks, Reach, Teleported
  <2>3. ASSUME NEW f \in Funcs, RunBranch(f) PROVE TypeOK'
    BY <2>3, RunningFacts, HandOverType, AdvanceType
    DEF RunBranch, TypeOK, Contents
  <2>4. ASSUME NEW f \in Funcs, RunCall(f) PROVE TypeOK'
    <3>1. stack' \in Seq(Int)
      BY <2>4, StackTypes, ProgramAssumption DEF RunCall, TypeOK, Funcs
    <3> QED
      BY <2>4, <3>1, RunningFacts, HandOverType, AdvanceType
      DEF RunCall, TypeOK, Contents
  <2>5. ASSUME NEW f \in Funcs, RunReturn(f) PROVE TypeOK'
    <3>1. stack' \in Seq(Int)
      BY <2>5, StackTypes DEF RunReturn, TypeOK
    <3> QED
      BY <2>5, <3>1, RunningFacts, HandOverType, AdvanceType
      DEF RunReturn, TypeOK, Contents
  <2>6. ASSUME NEW f \in Funcs, RunStop(f) PROVE TypeOK'
    BY <2>6, RunningFacts, AdvanceType DEF RunStop, TypeOK, Chain, Blocks
  <2>7. ASSUME NEW f \in Funcs, RunStranded(f) PROVE TypeOK'
    <3>1. stack' \in Seq(Int)
      BY <2>7, StackTypes, ProgramAssumption DEF RunStranded, TypeOK, Funcs
    <3>2. count' \in Nat
      BY <2>7, ProgramAssumption DEF RunStranded, Charged, TypeOK
    <3> QED
      BY <2>7, <3>1, <3>2, RunningFacts, AdvanceType DEF RunStranded, TypeOK
  <2>8. CASE RunNothing
    BY <2>8, AdvanceType DEF RunNothing, TypeOK
  <2>9. CASE UNCHANGED vars
    BY <2>9 DEF vars, TypeOK
  <2> QED
    BY <2>1, <2>2, <2>3, <2>4, <2>5, <2>6, <2>7, <2>8, <2>9
    DEF Next, RunBlock
<1> QED
  BY <1>1, <1>2, PTL DEF Spec
-----------------------------------------------------------------------------
(***************************************************************************)
(* The invariant of the chain.  Of the properties only NextIsReady is      *)
(* about the moment a block runs; that it holds again when the next one    *)
(* does needs the template to hold a function whenever the chain runs (it  *)
(* is the only block that can be written at the limit), the impulse block  *)
(* to be there, and the count to bound the chain so the game never cuts it.*)
(***************************************************************************)
BetweenTicks ==
  /\ next # "none"
  /\ cmd["R"] # Blank
  /\ queued => start /\ count = 0

WithinTick ==
  at \in Chain =>
    start /\ cmd["R"] \in Funcs

ChainInv ==
  /\ TypeOK
  /\ BetweenTicks
  /\ WithinTick
  /\ NextIsReady
  /\ OneTickPending
  /\ BurstBounded

LEMMA Others ==
  ASSUME NEW b \in Chain
  PROVE  Other(b) \in Chain /\ Other(b) # b /\ Other(Other(b)) = b
BY DEF Other, Chain

LEMMA InvInit == Ready /\ Init => ChainInv
<1> SUFFICES ASSUME Ready, Init PROVE ChainInv
  OBVIOUS
<1>1. TypeOK
  <2>1. start \in BOOLEAN /\ redstone \in BOOLEAN /\ queued \in BOOLEAN
    BY DEF Init
  <2>2. next \in Chain \cup {"away", "none"}
    BY DEF Init
  <2> QED
    BY <2>1, <2>2 DEF Init, TypeOK
<1>2. BetweenTicks
  BY ChainAssumption DEF Init, Ready, BetweenTicks, Blocks
<1>3. WithinTick /\ NextIsReady /\ OneTickPending /\ BurstBounded
  BY DEF Init, WithinTick, NextIsReady, OneTickPending, BurstBounded, Chain
<1> QED
  BY <1>1, <1>2, <1>3 DEF ChainInv

(* What the chain knows while it runs a function of the program.           *)
LEMMA WhileRunning ==
  ASSUME ChainInv, NEW f \in Funcs, NEW kinds, Running(f, kinds)
  PROVE  /\ at \in Chain /\ at # "idle" /\ cmd[at] = f
         /\ pcBar = f
         /\ next = Other(at) /\ next \in Chain /\ next # at
         /\ cmd[next] # Air
         /\ start /\ ~redstone /\ ~queued
         /\ cmd["R"] \in Funcs
         /\ 10 * burst <= count /\ count < Limit
<1>1. at \in Chain /\ cmd[at] = f
  BY RunningFacts
<1>2. at # "idle"
  BY <1>1 DEF Chain
<1>3. pcBar = f
  BY <1>1, <1>2 DEF pcBar, Pending
<1> QED
  BY <1>1, <1>2, <1>3, Others
  DEF ChainInv, WithinTick, NextIsReady, OneTickPending, BurstBounded

LEMMA TargetDef ==
  ASSUME NEW p
  PROVE  CF!Target(p) = IF p \in Funcs THEN p ELSE -1
BY DEF CF!Target, CF!Funcs, CF!Halted, Funcs

(***************************************************************************)
(* Under the limit: the other chain block receives the destination and the *)
(* chain goes on to it, or the program has ended.                          *)
(***************************************************************************)
LEMMA PassOnStep ==
  ASSUME Ready, ChainInv, TypeOK', NEW f \in Funcs, NEW kinds, NEW p,
         Running(f, kinds), PassOn(f, p), AdvanceChain
  PROVE  ChainInv' /\ pcBar' = CF!Target(p)
<1>1. /\ at \in Chain /\ at # "idle" /\ cmd[at] = f
      /\ next = Other(at) /\ next \in Chain /\ next # at
      /\ cmd[next] # Air
      /\ start /\ ~redstone /\ ~queued
      /\ cmd["R"] \in Funcs
      /\ 10 * burst <= count /\ count < Limit
  BY WhileRunning
<1>2. next \in Blocks /\ "R" \in Blocks /\ next # "R" /\ at \in Blocks
  BY <1>1 DEF Chain, Blocks
<1>3. cmd \in [Blocks -> Funcs \cup {Air, Blank}]
  BY DEF ChainInv, TypeOK
<1>4. cmd'[at] = f /\ cmd'["R"] = cmd["R"]
  BY <1>1, <1>2, <1>3 DEF PassOn, Put
<1>5. next' = at
  BY <1>1, Zenon DEF PassOn, Teleported, Chain, ChainInv, BetweenTicks
<1>6. ~redstone' /\ ~queued'
  BY <1>1 DEF PassOn
<1>7. /\ count' = count + Body[f] + 10
      /\ count' < Limit
      /\ Body[f] \in Nat /\ count \in Nat /\ burst \in Nat
  BY ProgramAssumption DEF PassOn, Charged, ChainInv, TypeOK
<1>8. 10 * burst' <= count' /\ burst' = burst + 1
  BY <1>1, <1>7 DEF AdvanceChain
<1>9. burst + 1 < MaxChain
  BY <1>7, <1>8, ChainAssumption DEF Ready
<1>10. CASE p \in Funcs
  <2>1. cmd'[next] = p /\ p # Air
    BY <1>1, <1>2, <1>3, <1>10, ChainAssumption DEF PassOn, Put
  <2>2. at' = next
    BY <1>1, <1>2, <1>9, <2>1, ChainAssumption DEF AdvanceChain, Reach
  <2>3. start'
    BY <1>1, <1>2, <1>10 DEF PassOn, Survives
  <2>4. at' \in Chain /\ at' # "idle" /\ cmd'[at'] \in Funcs
    BY <1>1, <1>10, <2>1, <2>2 DEF Chain
  <2>5. next' = Other(at') /\ cmd'[next'] # Air
    BY <1>1, <1>4, <1>5, <2>2, Others, ChainAssumption
  <2>6. BetweenTicks'
    BY <1>1, <1>4, <1>5, <1>6, ChainAssumption DEF BetweenTicks, Chain
  <2>7. WithinTick' /\ NextIsReady' /\ OneTickPending' /\ BurstBounded'
    BY <1>1, <1>4, <1>6, <1>7, <1>8, <2>3, <2>4, <2>5
    DEF WithinTick, NextIsReady, OneTickPending, BurstBounded
  <2>8. pcBar' = p
    BY <1>10, <2>1, <2>2, <2>4 DEF pcBar, Pending
  <2> QED
    BY <1>10, <2>6, <2>7, <2>8, TargetDef DEF ChainInv
<1>11. CASE p \notin Funcs
  <2>1. cmd'[next] = Air
    BY <1>1, <1>2, <1>3, <1>11 DEF PassOn, Put
  <2>2. at' = "idle"
    BY <1>1, <2>1 DEF AdvanceChain, Reach
  <2>3. BetweenTicks'
    BY <1>1, <1>4, <1>5, <1>6, ChainAssumption DEF BetweenTicks, Chain
  <2>4. WithinTick' /\ NextIsReady' /\ OneTickPending' /\ BurstBounded'
    BY <2>2 DEF WithinTick, NextIsReady, OneTickPending, BurstBounded, Chain
  <2>5. Pending' = Air
    BY <1>6, <2>2 DEF Pending
  <2>6. pcBar' = -1
    BY <2>5, ChainAssumption DEF pcBar
  <2> QED
    BY <1>11, <2>3, <2>4, <2>6, TargetDef DEF ChainInv
<1> QED
  BY <1>10, <1>11

(***************************************************************************)
(* At the limit: the template receives the destination, the chain ends and *)
(* the next tick is due, unless the program has ended.                     *)
(***************************************************************************)
LEMMA SuspendStep ==
  ASSUME Ready, ChainInv, TypeOK', NEW f \in Funcs, NEW kinds, NEW p,
         Running(f, kinds), Suspend(f, p), AdvanceChain
  PROVE  ChainInv' /\ pcBar' = CF!Target(p)
<1>1. /\ at \in Chain /\ at # "idle" /\ cmd[at] = f
      /\ next = Other(at) /\ next \in Chain /\ next # at
      /\ start /\ ~redstone /\ ~queued
      /\ cmd["R"] \in Funcs
  BY WhileRunning
<1>2. next \in Blocks /\ "R" \in Blocks /\ next # "R"
  BY <1>1 DEF Chain, Blocks
<1>3. cmd \in [Blocks -> Funcs \cup {Air, Blank}]
  BY DEF ChainInv, TypeOK
<1>4. Put(cmd, "R", p) = [cmd EXCEPT !["R"] = IF p \in Funcs THEN p ELSE Air]
  BY <1>1, <1>2, <1>3, ChainAssumption DEF Put
<1>5. cmd'[next] = Air /\ cmd'["R"] = IF p \in Funcs THEN p ELSE Air
  BY <1>2, <1>3, <1>4 DEF Suspend, Cleared
<1>6. at' = "idle"
  BY <1>1, <1>5 DEF AdvanceChain, Reach
<1>7. queued' <=> start'
  BY <1>1 DEF Suspend
<1>8. count' = 0 /\ next' = next
  BY DEF Suspend
<1>9. cmd'["R"] # Blank
  BY <1>5, ChainAssumption
<1>10. BetweenTicks'
  BY <1>1, <1>7, <1>8, <1>9 DEF BetweenTicks, Chain
<1>11. WithinTick' /\ NextIsReady' /\ OneTickPending' /\ BurstBounded'
  BY <1>6 DEF WithinTick, NextIsReady, OneTickPending, BurstBounded, Chain
<1>12. CASE p \in Funcs
  <2>1. queued'
    BY <1>1, <1>7, <1>12 DEF Suspend, Survives
  <2>2. pcBar' = p
    BY <1>5, <1>6, <1>12, <2>1 DEF pcBar, Pending
  <2> QED
    BY <1>10, <1>11, <1>12, <2>2, TargetDef DEF ChainInv
<1>13. CASE p \notin Funcs
  <2>1. Pending' = Air
    BY <1>5, <1>6, <1>13 DEF Pending
  <2>2. pcBar' = -1
    BY <2>1, ChainAssumption DEF pcBar
  <2> QED
    BY <1>10, <1>11, <1>13, <2>2, TargetDef DEF ChainInv
<1> QED
  BY <1>12, <1>13

LEMMA HandOverStep ==
  ASSUME Ready, ChainInv, TypeOK', NEW f \in Funcs, NEW kinds, NEW p,
         Running(f, kinds), HandOver(f, p), AdvanceChain
  PROVE  ChainInv' /\ pcBar' = CF!Target(p)
BY PassOnStep, SuspendStep DEF HandOver

-----------------------------------------------------------------------------
(***************************************************************************)
(* Every step keeps the invariant and is a step of the control flow or     *)
(* leaves its state alone.                                                 *)
(***************************************************************************)
LEMMA RunMainStep ==
  ASSUME Ready, ChainInv, TypeOK', RunMain
  PROVE  ChainInv' /\ CF!Start
<1>1. cmd'["R"] = Main /\ Main \in Funcs
  BY ProgramAssumption DEF RunMain, ChainInv, TypeOK, Blocks
<1>2. at' = "idle" /\ queued' /\ start' /\ count' = 0 /\ next' = next
  BY DEF RunMain
<1>3. BetweenTicks'
  BY <1>1, <1>2, ChainAssumption DEF BetweenTicks, ChainInv
<1>4. WithinTick' /\ NextIsReady' /\ OneTickPending' /\ BurstBounded'
  BY <1>2 DEF WithinTick, NextIsReady, OneTickPending, BurstBounded, Chain
<1>5. pcBar' = Main
  BY <1>1, <1>2 DEF pcBar, Pending
<1>6. stack' = <<CF!MainReturn>>
  BY DEF RunMain, MainReturn, CF!MainReturn
<1> QED
  BY <1>3, <1>4, <1>5, <1>6 DEF ChainInv, CF!Start

LEMMA OnTickStep ==
  ASSUME Ready, ChainInv, TypeOK', OnTick
  PROVE  ChainInv' /\ UNCHANGED <<pcBar, stack>>
<1>1. cmd \in [Blocks -> Funcs \cup {Air, Blank}]
  BY DEF ChainInv, TypeOK
<1>2. cmd'["A"] = cmd["R"] /\ cmd'["B"] = Blank /\ cmd'["R"] = cmd["R"]
  BY <1>1 DEF OnTick, Blocks
<1>3. at = "idle" /\ queued /\ start /\ count = 0 /\ next # "none"
  BY DEF OnTick, ChainInv, BetweenTicks
<1>4. cmd["R"] \in Funcs \cup {Air}
  BY <1>1 DEF ChainInv, BetweenTicks, Blocks
<1>5. next' = "B"
  BY <1>3 DEF OnTick, Teleported
<1>6. start' /\ ~queued' /\ ~redstone' /\ count' = 0 /\ burst' = 0
  BY <1>3 DEF OnTick
<1>7. BetweenTicks'
  BY <1>2, <1>4, <1>5, <1>6, ChainAssumption DEF BetweenTicks
<1>8. pcBar = IF cmd["R"] \in Funcs THEN cmd["R"] ELSE -1
  BY <1>3 DEF pcBar, Pending
<1>9. CASE cmd["R"] \in Funcs
  <2>1. at' = "A"
    BY <1>2, <1>9, ChainAssumption DEF OnTick, Reach
  <2>2. NextIsReady' /\ OneTickPending'
    BY <1>2, <1>5, <1>6, <1>9, <2>1, ChainAssumption
    DEF NextIsReady, OneTickPending, Other, Chain
  <2>3. WithinTick' /\ BurstBounded'
    BY <1>2, <1>6, <1>9, <2>1, ChainAssumption DEF WithinTick, BurstBounded
  <2>4. pcBar' = cmd["R"]
    BY <1>2, <1>9, <2>1 DEF pcBar, Pending
  <2> QED
    BY <1>7, <1>8, <1>9, <2>2, <2>3, <2>4 DEF ChainInv, OnTick
<1>10. CASE cmd["R"] = Air
  <2>1. at' = "idle"
    BY <1>2, <1>10 DEF OnTick, Reach
  <2>2. WithinTick' /\ NextIsReady' /\ OneTickPending' /\ BurstBounded'
    BY <2>1 DEF WithinTick, NextIsReady, OneTickPending, BurstBounded, Chain
  <2>3. pcBar' = -1
    BY <1>6, <2>1, ChainAssumption DEF pcBar, Pending
  <2> QED
    BY <1>7, <1>8, <1>10, <2>2, <2>3, ChainAssumption DEF ChainInv, OnTick
<1> QED
  BY <1>4, <1>9, <1>10

LEMMA RunBlockStep ==
  ASSUME Ready, ChainInv, TypeOK', RunBlock
  PROVE  ChainInv' /\ CF!Step
<1> USE DEF CF!Step
<1>1. PICK f \in Funcs :
        RunBranch(f) \/ RunCall(f) \/ RunReturn(f) \/ RunStop(f) \/ RunStranded(f)
  BY DEF RunBlock
<1>2. f \in CF!Funcs
  BY DEF Funcs, CF!Funcs
<1>3. CASE RunBranch(f)
  <2>1. PICK d \in Succ[f] : HandOver(f, d)
    BY <1>3 DEF RunBranch
  <2>2. Running(f, {"branch"}) /\ AdvanceChain
    BY <1>3 DEF RunBranch
  <2>3. pcBar = f /\ Kind[f] = "branch"
    BY <2>2, WhileRunning, RunningFacts
  <2>4. ChainInv' /\ pcBar' = CF!Target(d)
    BY <2>1, <2>2, HandOverStep
  <2>5. d \in Funcs
    BY <2>3, ProgramAssumption
  <2>6. pcBar' = d
    BY <2>4, <2>5, TargetDef
  <2> QED
    BY <1>2, <1>3, <2>3, <2>4, <2>6 DEF RunBranch, CF!Branch
<1>4. CASE RunCall(f)
  <2>1. PICK p \in Succ[f] : HandOver(f, p)
    BY <1>4 DEF RunCall
  <2>2. Running(f, Calls) /\ AdvanceChain
    BY <1>4 DEF RunCall
  <2>3. pcBar = f /\ Kind[f] \in CF!Calls
    BY <2>2, WhileRunning, RunningFacts DEF Calls, CF!Calls
  <2>4. ChainInv' /\ pcBar' = CF!Target(p)
    BY <2>1, <2>2, HandOverStep
  <2> QED
    BY <1>2, <1>4, <2>3, <2>4 DEF RunCall, CF!Call
<1>5. CASE RunReturn(f)
  <2>1. Running(f, {"ret"}) /\ AdvanceChain /\ HandOver(f, Top(stack))
    BY <1>5 DEF RunReturn
  <2>2. pcBar = f /\ Kind[f] = "ret" /\ next # "none"
    BY <2>1, WhileRunning, RunningFacts DEF Chain
  <2>3. ChainInv' /\ pcBar' = CF!Target(Top(stack))
    BY <2>1, HandOverStep
  <2>4. stack' = CF!Pop(stack) /\ Top(stack) = CF!Top(stack)
    BY <1>5, <2>2 DEF RunReturn, Pop, Top, CF!Pop, CF!Top
  <2> QED
    BY <1>2, <2>2, <2>3, <2>4 DEF CF!Return
<1>6. CASE RunStop(f)
  BY <1>6, RunningFacts DEF RunStop, Ready
<1>7. CASE RunStranded(f)
  BY <1>7 DEF RunStranded, Ready, ChainInv, TypeOK
<1> QED
  BY <1>1, <1>3, <1>4, <1>5, <1>6, <1>7

LEMMA StepFacts ==
  ASSUME Ready, ChainInv, TypeOK', [Next]_vars
  PROVE  ChainInv' /\ [CF!Next]_(CF!cfVars)
<1> USE DEF CF!Next, CF!cfVars
<1>1. CASE RunMain
  BY <1>1, RunMainStep
<1>2. CASE OnTick
  BY <1>2, OnTickStep
<1>3. CASE RunBlock
  BY <1>3, RunBlockStep
<1>4. CASE RunNothing
  BY <1>4, ChainAssumption
  DEF RunNothing, Triggered, ChainInv, WithinTick, NextIsReady
<1>5. CASE UNCHANGED vars
  <2>1. ChainInv'
    BY <1>5 DEF vars, ChainInv, TypeOK, BetweenTicks, WithinTick, NextIsReady,
                OneTickPending, BurstBounded
  <2>2. UNCHANGED <<pcBar, stack>>
    BY <1>5 DEF vars, pcBar, Pending
  <2> QED
    BY <2>1, <2>2
<1> QED
  BY <1>1, <1>2, <1>3, <1>4, <1>5 DEF Next

(* In a ready world the chain's invariant holds at all times: the block to *)
(* be written always exists and is the other one, one tick at most is      *)
(* pending, and a tick's work is bounded.                                  *)
THEOREM ChainInvariant == ASSUME Ready PROVE Spec => []ChainInv
<1>1. Init => ChainInv
  BY InvInit
<1>2. TypeOK' /\ ChainInv /\ [Next]_vars => ChainInv'
  BY StepFacts
<1> QED
  BY <1>1, <1>2, TypeCorrect, PTL DEF Spec

(* In a ready world the machine implements the program's control flow: it  *)
(* neither skips nor repeats nor loses a block, across any number of ticks.*)
THEOREM Refinement == ASSUME Ready PROVE Spec => ImplementsControlFlow
<1>1. Init => CF!Init
  BY ChainAssumption
  DEF Init, CF!Init, CF!Halted, pcBar, Pending
<1>2. TypeOK' /\ ChainInv /\ [Next]_vars => [CF!Next]_(CF!cfVars)
  BY StepFacts
<1> QED
  BY <1>1, <1>2, TypeCorrect, ChainInvariant, PTL
  DEF Spec, ImplementsControlFlow, CF!Spec

-----------------------------------------------------------------------------
(***************************************************************************)
(* The stack of return addresses.  This is a matter of the control flow    *)
(* alone, so it is proved of its steps.                                    *)
(***************************************************************************)
Bottomed(s) ==
  /\ s # <<>>
  /\ s[1] = MainReturn
  /\ \A i \in 2 .. Len(s) : s[i] \in Funcs

LEMMA PushBottomed ==
  ASSUME NEW s \in Seq(Int), NEW p \in Funcs, Bottomed(s)
  PROVE  Bottomed(Append(s, p))
<1>1. Len(s) \in Nat /\ Len(s) >= 1
  BY EmptySeq DEF Bottomed
<1>2. /\ Len(Append(s, p)) = Len(s) + 1
      /\ \A i \in 1 .. Len(s) : Append(s, p)[i] = s[i]
      /\ Append(s, p)[Len(s) + 1] = p
  BY DEF Funcs
<1>3. Append(s, p)[1] = MainReturn
  BY <1>1, <1>2 DEF Bottomed
<1>4. \A i \in 2 .. Len(Append(s, p)) : Append(s, p)[i] \in Funcs
  BY <1>1, <1>2 DEF Bottomed
<1>5. Append(s, p) # <<>>
  BY <1>1, <1>2
<1> QED
  BY <1>3, <1>4, <1>5 DEF Bottomed

(* A return to a function leaves main's return address where it was.       *)
LEMMA PopBottomed ==
  ASSUME NEW s \in Seq(Int), Bottomed(s), Top(s) \in Funcs
  PROVE  Bottomed(Pop(s))
<1>1. Len(s) \in Nat /\ Len(s) >= 1
  BY EmptySeq DEF Bottomed
<1>2. Len(s) # 1
  BY DEF Bottomed, Top, Funcs, MainReturn
<1>3. \A i \in 1 .. Len(s) - 1 : s[i] \in Int
  BY <1>1
<1>4. /\ Pop(s) \in Seq(Int)
      /\ Len(Pop(s)) = Len(s) - 1
      /\ \A i \in 1 .. Len(s) - 1 : Pop(s)[i] = s[i]
  <2>1. Len(s) - 1 \in Int /\ 1 <= Len(s) - 1
    <3>1. \A n \in Nat : n >= 1 /\ n # 1 => n - 1 \in Int /\ 1 <= n - 1
      OBVIOUS
    <3> QED
      BY <1>1, <1>2, <3>1
  <2>2. /\ SubSeq(s, 1, Len(s) - 1) \in Seq(Int)
        /\ Len(SubSeq(s, 1, Len(s) - 1)) = (Len(s) - 1) - 1 + 1
        /\ \A i \in 1 .. (Len(s) - 1) - 1 + 1 :
             SubSeq(s, 1, Len(s) - 1)[i] = s[1 + i - 1]
    BY <1>3, <2>1, SubSeqProperties
  <2> QED
    BY <1>1, <2>1, <2>2 DEF Pop
<1>5. Pop(s)[1] = MainReturn /\ Pop(s) # <<>>
  BY <1>1, <1>2, <1>4, SMTT(30) DEF Bottomed
<1>6. \A i \in 2 .. Len(Pop(s)) : Pop(s)[i] \in Funcs
  BY <1>1, <1>4 DEF Bottomed
<1> QED
  BY <1>5, <1>6 DEF Bottomed

LEMMA ShapeStep ==
  ASSUME TypeOK, ReturnsAreGood, [CF!Next]_(CF!cfVars)
  PROVE  ReturnsAreGood'
<1>1. (Pending \in Funcs <=> pcBar \in Funcs) /\ (Pending \in Funcs => pcBar = Pending)
  BY DEF pcBar, Funcs
<1>2. Pending' \in Funcs <=> pcBar' \in Funcs
  BY DEF pcBar, Funcs
<1>3. pcBar \in Funcs => Bottomed(stack)
  BY <1>1 DEF ReturnsAreGood, Bottomed
<1>4. stack \in Seq(Int) /\ Cont \in [Funcs -> Funcs] /\ Funcs = CF!Funcs
  BY ProgramAssumption DEF TypeOK, Funcs, CF!Funcs
<1>5. SUFFICES ASSUME pcBar' \in Funcs PROVE Bottomed(stack')
  BY <1>2 DEF ReturnsAreGood, Bottomed
<1>6. CASE CF!Start
  <2>1. stack' = <<MainReturn>>
    BY <1>6 DEF CF!Start, CF!MainReturn, MainReturn
  <2> QED
    BY <2>1 DEF Bottomed
<1>7. CASE CF!Branch
  BY <1>3, <1>4, <1>7 DEF CF!Branch
<1>8. CASE CF!Call
  BY <1>3, <1>4, <1>8, PushBottomed DEF CF!Call
<1>9. CASE CF!Return
  <2>1. Top(stack) \in Funcs
    BY <1>5, <1>9, TargetDef DEF CF!Return, CF!Top, Top, Funcs
  <2>2. stack' = Pop(stack) /\ pcBar \in Funcs
    BY <1>4, <1>9 DEF CF!Return, CF!Pop, Pop
  <2> QED
    BY <1>3, <1>4, <2>1, <2>2, PopBottomed
<1>10. CASE CF!Stop
  BY <1>5, <1>10 DEF CF!Stop, CF!Halted, Funcs
<1>11. CASE UNCHANGED CF!cfVars
  BY <1>3, <1>5, <1>11 DEF CF!cfVars
<1> QED
  BY <1>6, <1>7, <1>8, <1>9, <1>10, <1>11 DEF CF!Next, CF!Step

(* In a ready world a return never finds a pointer that is no function and *)
(* not main's return address, however calls are nested and wherever ticks  *)
(* fall between them.                                                      *)
THEOREM GoodReturns == ASSUME Ready PROVE Spec => []ReturnsAreGood
<1>1. Init => ReturnsAreGood
  BY ChainAssumption DEF Init, ReturnsAreGood, Pending
<1>2. TypeOK /\ TypeOK' /\ ChainInv /\ ReturnsAreGood /\ [Next]_vars
        => ReturnsAreGood'
  BY StepFacts, ShapeStep
<1> QED
  BY <1>1, <1>2, TypeCorrect, ChainInvariant, PTL DEF Spec

(* The parts of the invariant that the runs check by name.                 *)
THEOREM NextAlwaysReady == ASSUME Ready PROVE Spec => []NextIsReady
BY ChainInvariant, PTL DEF ChainInv

THEOREM OneTickOnly == ASSUME Ready PROVE Spec => []OneTickPending
BY ChainInvariant, PTL DEF ChainInv

THEOREM TicksBounded == ASSUME Ready PROVE Spec => []BurstBounded
BY ChainInvariant, PTL DEF ChainInv
-----------------------------------------------------------------------------
(***************************************************************************)
(* Programs that stop.  Here a terminator without destination may occur    *)
(* and the game may cut a chain short, so the machine of ChainInv is lost; *)
(* what is left is that the impulse block, once removed, is never rung     *)
(* again and that the chain has one block at most to go.  With the impulse *)
(* block there, the entity stands on the block to be written, so that a    *)
(* bad pointer removes the very block the chain would have gone on to.     *)
(***************************************************************************)
Live ==
  start /\ hasLimit =>
    (at \in Chain => next = Other(at) /\ cmd[at] \in Funcs)

StopInv ==
  /\ TypeOK
  /\ next # "none"
  /\ cmd["R"] # Blank
  /\ queued => start
  /\ OneTickPending
  /\ Live
  /\ StopIsFinal

(* When the other block is gone the chain ends, and with it every promise  *)
(* about what it would have found there.                                   *)
LEMMA ChainEnds ==
  ASSUME at' = "idle", next' # "none", cmd'["R"] # Blank,
         queued' => start', TypeOK'
  PROVE  StopInv'
BY DEF StopInv, OneTickPending, Live, StopIsFinal, Chain

LEMMA PassOnStops ==
  ASSUME StopInv, TypeOK', NEW f \in Funcs, NEW kinds, NEW p,
         Running(f, kinds), PassOn(f, p), AdvanceChain
  PROVE  StopInv'
<1>1. at \in Chain /\ at # "idle" /\ cmd[at] = f /\ ~queued /\ ~redstone
  BY RunningFacts DEF StopInv, OneTickPending, Chain
<1>2. cmd \in Contents /\ at \in Blocks /\ Other(at) \in Chain
  BY <1>1, Others DEF StopInv, TypeOK, Contents, Chain, Blocks
<1>3. next' = at /\ next' # "none" /\ ~queued' /\ ~redstone'
  BY <1>1 DEF PassOn, StopInv, Teleported, Chain
<1>4. next # "R"
  BY DEF StopInv, TypeOK, Chain
<1>5. cmd'["R"] # Blank
  BY <1>2, <1>4 DEF PassOn, Put, StopInv, Contents
<1>6. CASE cmd'[Other(at)] = Air
  <2>1. at' = "idle"
    BY <1>6 DEF AdvanceChain, Reach
  <2> QED
    BY <1>3, <1>5, <2>1, ChainEnds
<1>7. CASE cmd'[Other(at)] # Air /\ ~start
  <2>1. cmd[Other(at)] = Air
    BY <1>1, <1>7 DEF StopInv, StopIsFinal
  <2>2. cmd'[Other(at)] = Air
    BY <1>2, <2>1 DEF PassOn, Put, Contents
  <2> QED
    BY <1>7, <2>2
<1>8. CASE cmd'[Other(at)] # Air /\ start
  <2>1. next = Other(at) /\ next \in Blocks
    BY <1>1, <1>2, <1>8 DEF StopInv, Live, Chain, Blocks, PassOn
  <2>2. p \in Funcs /\ cmd'[next] = p
    BY <1>2, <1>8, <2>1 DEF PassOn, Put, Contents
  <2>3. start'
    BY <1>8, <2>1, <2>2 DEF PassOn, Survives
  <2>4. at' = "idle" \/ at' = next
    BY <2>1 DEF AdvanceChain, Reach
  <2>5. CASE at' = "idle"
    BY <1>3, <1>5, <2>5, ChainEnds
  <2>6. CASE at' = next
    <3>1. next' = Other(at') /\ cmd'[at'] \in Funcs
      BY <1>1, <1>3, <2>1, <2>2, <2>6, Others
    <3> QED
      BY <1>3, <1>5, <2>3, <3>1
      DEF StopInv, OneTickPending, Live, StopIsFinal
  <2> QED
    BY <2>4, <2>5, <2>6
<1> QED
  BY <1>6, <1>7, <1>8

(* Putting the program off ends the chain in any case: by the block that   *)
(* it removes, or because that block was gone already.                     *)
LEMMA SuspendStops ==
  ASSUME StopInv, TypeOK', NEW f \in Funcs, NEW kinds, NEW p,
         Running(f, kinds), Suspend(f, p), AdvanceChain
  PROVE  StopInv'
<1>1. at \in Chain /\ at # "idle" /\ cmd[at] = f /\ ~queued /\ ~redstone
  BY RunningFacts DEF StopInv, OneTickPending, Chain
<1>2. cmd \in Contents /\ Other(at) \in Chain
  BY <1>1, Others DEF StopInv, TypeOK, Contents
<1>3. Other(at) \in Blocks /\ Other(at) # "R" /\ next # "R"
  BY <1>2 DEF Chain, Blocks, StopInv, TypeOK
<1> DEFINE put == Put(cmd, "R", p)
<1>4. put \in Contents /\ Cleared(put, next) \in Contents
  BY <1>2, PutType
<1>5. put["R"] # Blank /\ put[Other(at)] = cmd[Other(at)]
  BY <1>2, <1>3, ChainAssumption DEF Put, Contents, StopInv, Blocks
<1>6. cmd' = Cleared(put, next)
  BY DEF Suspend
<1> HIDE DEF put
<1>7. cmd'["R"] # Blank
  BY <1>3, <1>4, <1>5, <1>6 DEF Cleared, Contents
<1>8. cmd'[Other(at)] = Air
  <2>1. CASE start
    BY <1>1, <1>3, <1>4, <1>6, <2>1 DEF Cleared, Contents, StopInv, Live, Suspend
  <2>2. CASE ~start
    <3>1. put[Other(at)] = Air
      BY <1>1, <1>5, <2>2 DEF StopInv, StopIsFinal
    <3> QED
      BY <1>3, <1>4, <1>6, <3>1 DEF Cleared, Contents
  <2> QED
    BY <2>1, <2>2
<1>9. at' = "idle"
  BY <1>8 DEF AdvanceChain, Reach
<1>10. next' # "none" /\ (queued' => start')
  BY <1>1 DEF Suspend, StopInv
<1> QED
  BY <1>7, <1>9, <1>10, ChainEnds

(* A block that writes nothing, run in a world without limit or with the   *)
(* impulse block gone, leaves the promises as they are.                    *)
LEMMA IdlePassesOn ==
  ASSUME StopInv, TypeOK', at \in Chain, ~start \/ ~hasLimit,
         UNCHANGED <<cmd, start, redstone, queued, next>>, AdvanceChain
  PROVE  StopInv'
<1>1. hasLimit' = hasLimit /\ at # "idle" /\ ~queued /\ ~redstone
  BY DEF AdvanceChain, Chain, StopInv, OneTickPending
<1>2. CASE start
  BY <1>1, <1>2 DEF StopInv, OneTickPending, Live, StopIsFinal
<1>3. CASE ~start
  <2>1. cmd'[Other(at)] = Air
    BY <1>3 DEF StopInv, StopIsFinal
  <2>2. at' = "idle"
    BY <2>1 DEF AdvanceChain, Reach
  <2> QED
    BY <2>2, ChainEnds DEF StopInv
<1> QED
  BY <1>2, <1>3

LEMMA StopInvStep ==
  ASSUME StopInv, TypeOK', [Next]_vars
  PROVE  StopInv'
<1>1. CASE RunMain
  <2>1. cmd'["R"] = Main /\ at' = "idle" /\ start' /\ next' = next
    BY <1>1 DEF RunMain, StopInv, TypeOK, Blocks
  <2> QED
    BY <2>1, ProgramAssumption, ChainAssumption, ChainEnds DEF StopInv
<1>2. CASE OnTick
  <2>1. cmd'["A"] = cmd["R"] /\ cmd'["R"] = cmd["R"]
    BY <1>2 DEF OnTick, StopInv, TypeOK, Blocks
  <2>2. start' /\ ~queued' /\ ~redstone' /\ next' = "B" /\ cmd'["R"] # Blank
    BY <1>2, <2>1 DEF OnTick, StopInv, Teleported
  <2>3. at' = "idle" \/ (at' = "A" /\ cmd'["A"] # Air)
    BY <1>2 DEF OnTick, Reach
  <2>4. CASE at' = "idle"
    BY <2>2, <2>4, ChainEnds
  <2>5. CASE at' = "A" /\ cmd'["A"] # Air
    <3>1. cmd'["A"] \in Funcs
      BY <2>1, <2>5 DEF StopInv, TypeOK, Blocks
    <3>2. next' = Other(at') /\ cmd'[at'] \in Funcs
      BY <2>2, <2>5, <3>1 DEF Other
    <3> QED
      BY <2>2, <3>2 DEF StopInv, OneTickPending, Live, StopIsFinal
  <2> QED
    BY <2>3, <2>4, <2>5
<1>3. ASSUME NEW f \in Funcs, NEW kinds, NEW p,
             Running(f, kinds), HandOver(f, p), AdvanceChain
      PROVE  StopInv'
  BY <1>3, PassOnStops, SuspendStops DEF HandOver
<1>4. ASSUME NEW f \in Funcs, RunStop(f)
      PROVE  StopInv'
  <2>1. at \in Chain /\ at # "idle" /\ ~queued /\ ~redstone
    BY <1>4, RunningFacts DEF RunStop, StopInv, OneTickPending, Chain
  <2>2. cmd'[at] = Air /\ cmd'["R"] = cmd["R"]
    BY <1>4, <2>1 DEF RunStop, StopInv, TypeOK, Chain, Blocks
  <2>3. ~start' /\ ~queued' /\ ~redstone' /\ next' = next
    BY <1>4, <2>1 DEF RunStop
  <2>4. at' = "idle" \/ at' = Other(at)
    BY <1>4 DEF RunStop, AdvanceChain, Reach
  <2>5. at' \in Chain => cmd'[Other(at')] = Air
    BY <2>1, <2>2, <2>4, Others DEF Chain
  <2> QED
    BY <2>2, <2>3, <2>5 DEF StopInv, OneTickPending, Live, StopIsFinal
<1>5. CASE RunNothing
  <2>1. at \in Chain /\ (cmd[at] = Blank \/ (at = "A" /\ ~start))
    BY <1>5 DEF RunNothing, Triggered
  <2>2. ~start \/ ~hasLimit
    BY <2>1, ChainAssumption DEF StopInv, Live
  <2> QED
    BY <1>5, <2>1, <2>2, IdlePassesOn DEF RunNothing
<1>6. CASE UNCHANGED vars
  BY <1>6 DEF vars, StopInv, TypeOK, OneTickPending, Live, StopIsFinal
<1>7. CASE RunBlock
  <2>1. PICK f \in Funcs :
          RunBranch(f) \/ RunCall(f) \/ RunReturn(f) \/ RunStop(f)
            \/ RunStranded(f)
    BY <1>7 DEF RunBlock
  <2>2. CASE RunBranch(f)
    BY <1>3, <2>2 DEF RunBranch
  <2>3. CASE RunCall(f)
    BY <1>3, <2>3 DEF RunCall
  <2>4. CASE RunReturn(f)
    BY <1>3, <2>4 DEF RunReturn
  <2>5. CASE RunStranded(f)
    <3>1. at \in Chain /\ ~hasLimit
      BY <2>5, RunningFacts DEF RunStranded
    <3> QED
      BY <2>5, <3>1, IdlePassesOn DEF RunStranded
  <2> QED
    BY <1>4, <2>1, <2>2, <2>3, <2>4, <2>5
<1> QED
  BY <1>1, <1>2, <1>5, <1>6, <1>7 DEF Next

(* Wherever the entity exists, with the score or without it, for every     *)
(* program, limit and chain length: as long as the impulse block is away,  *)
(* removed by a bad pointer or by a terminator without destination (or not *)
(* built yet), no tick is queued and a block still being run has none      *)
(* after it.  So the block left over after such a terminator is the last   *)
(* to run until the user runs the program again.                           *)
THEOREM StoppedForGood == ASSUME HasNext PROVE Spec => []StopIsFinal
<1>1. TypeOK /\ Init => StopInv
  <2> SUFFICES ASSUME TypeOK, Init PROVE StopInv
    OBVIOUS
  <2>1. cmd["R"] # Blank /\ next # "none" /\ ~queued /\ at = "idle"
    BY ChainAssumption DEF Init, Blocks
  <2> QED
    BY <2>1 DEF StopInv, OneTickPending, Live, StopIsFinal, Chain
<1>2. StopInv /\ TypeOK' /\ [Next]_vars => StopInv'
  BY StopInvStep
<1>3. StopInv => StopIsFinal
  BY DEF StopInv
<1> QED
  BY <1>1, <1>2, <1>3, TypeCorrect, PTL DEF Spec

-----------------------------------------------------------------------------
(***************************************************************************)
(* A world in which nobody has set CMD_LIMIT, as the README of the        *)
(* repository sets one up.  Neither comparison at the end of a block       *)
(* holds, so nothing writes a block but the run and the tick, and those    *)
(* write main and an empty command.                                        *)
(***************************************************************************)
StalledInMain == at \in Chain => cmd[at] \in {Main, Blank}

Unwritten ==
  /\ cmd["A"] \in {Air, Main}
  /\ cmd["B"] \in {Air, Blank}
  /\ cmd["R"] \in {Air, Main}
  /\ at \in Chain => cmd[at] # Air

LEMMA UnwrittenStep ==
  ASSUME LimitStates = {FALSE}, TypeOK, Unwritten, [Next]_vars
  PROVE  Unwritten'
<1>1. cmd \in Contents /\ Chain \subseteq Blocks
  BY DEF TypeOK, Contents, Chain, Blocks
<1>2. ASSUME AdvanceChain PROVE at' \in Chain => cmd'[at'] # Air
  BY <1>2 DEF AdvanceChain, Reach, Chain
<1>3. CASE RunMain
  BY <1>1, <1>3 DEF RunMain, Unwritten, Contents, Blocks, Chain
<1>4. CASE OnTick
  BY <1>1, <1>4 DEF OnTick, Reach, Unwritten, Contents, Blocks, Chain
<1>5. ASSUME NEW f \in Funcs, NEW p PROVE ~HandOver(f, p)
  BY DEF HandOver, PassOn, Suspend, TypeOK
<1>6. ASSUME NEW f \in Funcs, RunStop(f) PROVE Unwritten'
  <2>1. at \in Chain /\ AdvanceChain /\ cmd' = [cmd EXCEPT ![at] = Air]
    BY <1>6, RunningFacts DEF RunStop
  <2> QED
    BY <1>1, <1>2, <2>1 DEF Unwritten, Contents, Blocks
<1>7. ASSUME NEW f \in Funcs, RunStranded(f) PROVE Unwritten'
  BY <1>2, <1>7 DEF RunStranded, Unwritten
<1>8. CASE RunNothing
  BY <1>2, <1>8 DEF RunNothing, Unwritten
<1>9. CASE UNCHANGED vars
  BY <1>9 DEF vars, Unwritten
<1> QED
  BY <1>3, <1>4, <1>5, <1>6, <1>7, <1>8, <1>9
  DEF Next, RunBlock, RunBranch, RunCall, RunReturn

(* A world set up as the README says never gets past main's first block:   *)
(* for every program, whatever the entity and the chain length, no other   *)
(* function is run as long as nobody sets CMD_LIMIT.                       *)
THEOREM NeverPastMain ==
  ASSUME LimitStates = {FALSE} PROVE Spec => []StalledInMain
<1>1. Init => Unwritten
  BY DEF Init, Unwritten, Blocks, Chain
<1>2. TypeOK /\ Unwritten /\ [Next]_vars => Unwritten'
  BY UnwrittenStep
<1>3. Unwritten => StalledInMain
  BY DEF Unwritten, StalledInMain, Chain
<1> QED
  BY <1>1, <1>2, <1>3, TypeCorrect, PTL DEF Spec
=============================================================================
