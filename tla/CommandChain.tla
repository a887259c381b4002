---------------------------- MODULE CommandChain ----------------------------
(***************************************************************************)
(* The machine that runs a compiled program in a Minecraft world.  It is   *)
(* four command blocks and a marker entity:                                *)
(*                                                                         *)
(*   start   at -2 0 0   an impulse block: runs __langcraft_on_tick when   *)
(*                       the redstone block at -2 1 0 appears above it     *)
(*   "A"     at -2 0 1   chain block, facing south towards "B"             *)
(*   "B"     at -2 0 2   chain block, facing north towards "A"             *)
(*   "R"     at -2 1 1   the template copied to "A" when a tick starts     *)
(*   next                the entity tagged next, standing on the chain     *)
(*                       block whose command is to be filled in            *)
(*                                                                         *)
(* A and B trigger each other in turn.  Each block of the program ends by  *)
(* writing the function that follows into the other chain block; once the  *)
(* count of commands reaches CMD_LIMIT it writes it into the template      *)
(* instead, removes the other chain block and puts the redstone block back *)
(* so that the program goes on in the next tick.                           *)
(***************************************************************************)
EXTENDS Program

CONSTANTS
  Air,        \* no command block stands at a position
  Blank,      \* a command block without a command
  Limit,      \* the score CMD_LIMIT
  LimitStates,  \* the worlds to look at: whether that score has been set
  HasNext,    \* somebody has summoned the entity tagged next
  MaxChain,   \* the game's maxCommandChainLength
  MaxRuns     \* bound of the model: how often the user runs the program

ASSUME ChainAssumption ==
  /\ Air \notin Funcs /\ Blank \notin Funcs /\ Air # Blank
  /\ Limit \in Nat \ {0}
  /\ LimitStates \subseteq BOOLEAN /\ HasNext \in BOOLEAN
  /\ MaxChain \in Nat \ {0}
  /\ MaxRuns \in Nat

Chain  == {"A", "B"}
Blocks == {"A", "B", "R"}

VARIABLES
  hasLimit,   \* somebody has set the score CMD_LIMIT
  cmd,        \* the function each block runs, Blank or Air
  start,      \* the impulse block exists
  redstone,   \* the redstone block above it exists
  queued,     \* the impulse block will run in the next tick
  at,         \* the chain block being run, or "idle" between ticks
  next,       \* where the entity tagged next is: a chain block, "away", "none"
  count,      \* the score %%cmdcount
  stack,      \* the return addresses in memory
  burst,      \* history: chain blocks run since the tick started
  runs        \* how often the user has run the program

vars == <<hasLimit, cmd, start, redstone, queued, at, next, count, stack, burst,
          runs>>

Other(b) == IF b = "A" THEN "B" ELSE "A"

-----------------------------------------------------------------------------
(* An empty world; the entity, if there is one, was summoned elsewhere.    *)
Init ==
  /\ hasLimit \in LimitStates
  /\ cmd = [b \in Blocks |-> Air]
  /\ start = FALSE /\ redstone = FALSE /\ queued = FALSE
  /\ at = "idle"
  /\ next = IF HasNext THEN "away" ELSE "none"
  /\ count = 0
  /\ stack = <<>>
  /\ burst = 0
  /\ runs = 0

(* The chain goes on to a block unless there is none or it is too long.    *)
Reach(b, contents, length) ==
  IF contents[b] = Air \/ length >= MaxChain THEN "idle" ELSE b

(* `tp @e[tag=next]`, which moves nothing when there is no such entity.    *)
Teleported(b) == IF next = "none" THEN "none" ELSE b

(* Mutant: main's return address goes on top of the last run's stack.      *)
RunMainOverOldStack ==
  /\ at = "idle"
  /\ runs < MaxRuns
  /\ cmd' = [cmd EXCEPT !["A"] = Air, !["B"] = Blank, !["R"] = Main]
  /\ start' = TRUE /\ redstone' = TRUE /\ queued' = TRUE
  /\ count' = 0
  /\ stack' = Append(stack, MainReturn)
  /\ runs' = runs + 1
  /\ UNCHANGED <<hasLimit, at, next, burst>>

(* `/function rust:`.  It may be given between any two ticks.              *)
RunMain ==
  /\ at = "idle"
  /\ runs < MaxRuns
  /\ cmd' = [cmd EXCEPT !["A"] = Air, !["B"] = Blank, !["R"] = Main]
  /\ start' = TRUE /\ redstone' = TRUE /\ queued' = TRUE
  /\ count' = 0
  /\ stack' = <<MainReturn>>
  /\ runs' = runs + 1
  /\ UNCHANGED <<hasLimit, at, next, burst>>

(* Mutant: the tick does not rebuild the other chain block.                *)
OnTickKeepingB ==
  /\ at = "idle"
  /\ queued
  /\ queued' = FALSE
  /\ redstone' = FALSE
  /\ cmd' = [cmd EXCEPT !["A"] = cmd["R"]]
  /\ next' = Teleported("B")
  /\ at' = Reach("A", cmd', 0)
  /\ burst' = 0
  /\ UNCHANGED <<hasLimit, start, count, stack, runs>>

(* Mutant: the tick leaves the redstone block where it is.                 *)
OnTickLeavingRedstone ==
  /\ at = "idle"
  /\ queued
  /\ queued' = FALSE
  /\ cmd' = [cmd EXCEPT !["A"] = cmd["R"], !["B"] = Blank]
  /\ next' = Teleported("B")
  /\ at' = Reach("A", cmd', 0)
  /\ burst' = 0
  /\ UNCHANGED <<hasLimit, redstone, start, count, stack, runs>>

(* The impulse block runs __langcraft_on_tick.                             *)
OnTick ==
  /\ at = "idle"
  /\ queued
  /\ queued' = FALSE
  /\ redstone' = FALSE
  /\ cmd' = [cmd EXCEPT !["A"] = cmd["R"], !["B"] = Blank]
  /\ next' = Teleported("B")
  /\ at' = Reach("A", cmd', 0)
  /\ burst' = 0
  /\ UNCHANGED <<hasLimit, start, count, stack, runs>>

-----------------------------------------------------------------------------
(* Mutant: whatever the pointer holds is written.                          *)
PutUnchecked(contents, b, p) ==
  IF b \notin Blocks \/ contents[b] = Air THEN contents
  ELSE [contents EXCEPT ![b] = p]

(***************************************************************************)
(* The end of a block: `data modify block ... Command` for a known         *)
(* destination, __langcraft_call for a pointer.  The latter removes the    *)
(* block when the pointer is main's return address or no function at all.  *)
(* A block that is not there cannot be modified.                           *)
(***************************************************************************)
Put(contents, b, p) ==
  IF b \notin Blocks THEN contents
  ELSE IF p \notin Funcs THEN [contents EXCEPT ![b] = Air]
  ELSE IF contents[b] = Air THEN contents
  ELSE [contents EXCEPT ![b] = p]

Cleared(contents, b) ==
  IF b \notin Blocks THEN contents ELSE [contents EXCEPT ![b] = Air]

(* __langcraft_call also removes the impulse block for a bad pointer.      *)
Survives(p) == start /\ p \in {MainReturn} \cup Funcs

(* Mutant: the commands of the end itself are not charged for.             *)
ChargedForBody(f) == count + Body[f]

Charged(f) == count + Body[f] + 10

(* Under the limit, control goes to the other chain block in this tick.    *)
PassOn(f, p) ==
  /\ hasLimit /\ Charged(f) < Limit
  /\ cmd' = Put(cmd, next, p)
  /\ start' = IF next \in Blocks THEN Survives(p) ELSE start
  /\ next' = Teleported(at)
  /\ count' = Charged(f)
  /\ UNCHANGED <<redstone, queued>>

(* Mutants: the other chain block is not removed; the limit itself belongs *)
(* to neither side; redstone wakes an impulse block that is gone.          *)
SuspendKeepingOther(f, p) ==
  /\ hasLimit /\ Charged(f) >= Limit
  /\ cmd' = Put(cmd, "R", p)
  /\ start' = Survives(p)
  /\ redstone' = TRUE
  /\ queued' = (queued \/ (start' /\ ~redstone))
  /\ count' = 0
  /\ UNCHANGED next

SuspendAbove(f, p) ==
  /\ hasLimit /\ Charged(f) > Limit
  /\ cmd' = Cleared(Put(cmd, "R", p), next)
  /\ start' = Survives(p)
  /\ redstone' = TRUE
  /\ queued' = (queued \/ (start' /\ ~redstone))
  /\ count' = 0
  /\ UNCHANGED next

SuspendWakingAnyway(f, p) ==
  /\ hasLimit /\ Charged(f) >= Limit
  /\ cmd' = Cleared(Put(cmd, "R", p), next)
  /\ start' = Survives(p)
  /\ redstone' = TRUE
  /\ queued' = (queued \/ ~redstone)
  /\ count' = 0
  /\ UNCHANGED next

(* At the limit, control goes to the template and waits for the next tick; *)
(* redstone wakes the impulse block only when it was not there before.     *)
Suspend(f, p) ==
  /\ hasLimit /\ Charged(f) >= Limit
  /\ cmd' = Cleared(Put(cmd, "R", p), next)
  /\ start' = Survives(p)
  /\ redstone' = TRUE
  /\ queued' = (queued \/ (start' /\ ~redstone))
  /\ count' = 0
  /\ UNCHANGED next

HandOver(f, p) == PassOn(f, p) \/ Suspend(f, p)

(* The copy of the template is conditional: "A" runs only while the        *)
(* impulse block behind it, whose command succeeded, is there.             *)
Triggered(b) == at = b /\ (b = "A" => start)

Running(f, kinds) ==
  /\ \E b \in Chain : Triggered(b) /\ cmd[b] = f
  /\ Kind[f] \in kinds

AdvanceChain ==
  /\ burst' = burst + 1
  /\ at' = Reach(Other(at), cmd', burst + 1)
  /\ UNCHANGED <<hasLimit, runs>>

RunBranch(f) ==
  /\ Running(f, {"branch"})
  /\ \E d \in Succ[f] : HandOver(f, d)
  /\ UNCHANGED stack
  /\ AdvanceChain

(* The return address is pushed by the body, before the destination.       *)
RunCall(f) ==
  /\ Running(f, Calls)
  /\ \E p \in Succ[f] : HandOver(f, p)
  /\ stack' = Append(stack, Cont[f])
  /\ AdvanceChain

(* __langcraft_return pops the pointer it hands to __langcraft_call; under *)
(* the limit it runs `at @e[tag=next]`, once for each such entity.         *)
RunReturn(f) ==
  /\ Running(f, {"ret"})
  /\ HandOver(f, Top(stack))
  /\ stack' = IF Charged(f) < Limit /\ next = "none" THEN stack ELSE Pop(stack)
  /\ AdvanceChain

(* Mutant: only the impulse block is removed.                              *)
RunStopStaying(f) ==
  /\ Running(f, {"stop"})
  /\ start' = FALSE
  /\ UNCHANGED <<cmd, redstone, queued, next, count, stack>>
  /\ AdvanceChain

(* A terminator without destination removes its own block and start.       *)
RunStop(f) ==
  /\ Running(f, {"stop"})
  /\ cmd' = [cmd EXCEPT ![at] = Air]
  /\ start' = FALSE
  /\ UNCHANGED <<redstone, queued, next, count, stack>>
  /\ AdvanceChain

(* With CMD_LIMIT unset neither comparison holds: the body runs and the    *)
(* end writes nothing.                                                     *)
RunStranded(f) ==
  /\ Running(f, Kinds \ {"stop"})
  /\ ~hasLimit
  /\ count' = Charged(f)
  /\ stack' = IF Kind[f] \in Calls THEN Append(stack, Cont[f]) ELSE stack
  /\ UNCHANGED <<cmd, start, redstone, queued, next>>
  /\ AdvanceChain

(* A block without a command, or whose condition fails, does nothing and   *)
(* passes the trigger on.                                                  *)
RunNothing ==
  /\ at \in Chain
  /\ cmd[at] = Blank \/ ~Triggered(at)
  /\ UNCHANGED <<cmd, start, redstone, queued, next, count, stack>>
  /\ AdvanceChain

RunBlock ==
  \E f \in Funcs :
    RunBranch(f) \/ RunCall(f) \/ RunReturn(f) \/ RunStop(f) \/ RunStranded(f)

Next == RunMain \/ OnTick \/ RunBlock \/ RunNothing

Spec == Init /\ [][Next]_vars

(* The game's tick loop runs a powered impulse block and a reached chain   *)
(* block; nothing obliges the user to run the program again.               *)
Fairness == WF_vars(OnTick) /\ WF_vars(RunBlock \/ RunNothing)

FairSpec == Spec /\ Fairness

-----------------------------------------------------------------------------
(***************************************************************************)
(* Properties.                                                             *)
(***************************************************************************)
TypeOK ==
  /\ hasLimit \in LimitStates
  /\ cmd \in [Blocks -> Funcs \cup {Air, Blank}]
  /\ start \in BOOLEAN /\ redstone \in BOOLEAN /\ queued \in BOOLEAN
  /\ at \in Chain \cup {"idle"}
  /\ next \in Chain \cup {"away", "none"}
  /\ count \in Nat
  /\ stack \in Seq(Int)
  /\ burst \in Nat
  /\ runs \in Nat

(* Whenever the chain comes to a block, somebody has filled it in, the     *)
(* entity stands on the other chain block, and that block exists: the      *)
(* `data modify` and the return function that the running function ends    *)
(* with find a command block to write to (compile_block_end relies on it   *)
(* and checks nothing).                                                    *)
NextIsReady ==
  at \in Chain =>
    cmd[at] \in Funcs /\ next = Other(at) /\ cmd[next] # Air

(* While the chain runs no further tick is pending and the redstone block  *)
(* is gone, so that placing it wakes the impulse block exactly once: what  *)
(* the interpreter asserts of `tick_queued`.                               *)
OneTickPending == at # "idle" => ~redstone /\ ~queued

(* The count of commands bounds what one tick does: every block charges    *)
(* for at least ten commands, so the chain is never longer than a tenth of *)
(* CMD_LIMIT, well below the length at which the game would cut it.        *)
BurstBounded == at # "idle" => 10 * burst <= count /\ count < Limit

(* A bad pointer and a terminator without destination remove the impulse   *)
(* block for good: until the user runs the program again no tick is ever   *)
(* queued, even if the block left over in the chain reaches the limit.  A  *)
(* terminator removes its own block but not the other chain block: the game*)
(* goes on to that one and, if it is "B", runs its old command once more.  *)
(* It is the last, there is nothing after it.                              *)
StopIsFinal ==
  ~start => /\ ~queued
            /\ at \in Chain => cmd[Other(at)] = Air

(* The abstract program counter: the command of the block being run, or    *)
(* the one that waits in the template for the next tick.                   *)
Pending == IF at # "idle" THEN cmd[at]
           ELSE IF queued THEN cmd["R"] ELSE Air

pcBar == IF Pending \in Funcs THEN Pending ELSE -1

CF == INSTANCE ControlFlow WITH pc <- pcBar

(* Below a running block the stack holds main's return address at the      *)
(* bottom and indices of functions above it, so a return never meets a     *)
(* pointer that __langcraft_call rejects: only a call through a pointer    *)
(* can.                                                                    *)
ReturnsAreGood ==
  Pending \in Funcs =>
    /\ stack # <<>>
    /\ stack[1] = MainReturn
    /\ \A i \in 2 .. Len(stack) : stack[i] \in Funcs

(* Every block that runs is the one the program's control flow names: none *)
(* is skipped, run twice or lost between two ticks, and the machine stands *)
(* still only when the program has ended.                                  *)
ImplementsControlFlow == CF!Spec

(* A program that put itself off to the next tick is woken: the redstone   *)
(* block it placed was not there already, and nothing it leaves behind     *)
(* keeps the impulse block from running.                                   *)
SuspendedResumes ==
  (redstone /\ cmd["R"] \in Funcs) ~> (at \in Chain)

(* A block that runs, or waits for the next tick, always hands over: its   *)
(* two comparisons with CMD_LIMIT leave no count out.                      *)
ControlProgresses == CF!Progress
=============================================================================
