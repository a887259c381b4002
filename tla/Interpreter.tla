----------------------------- MODULE Interpreter -----------------------------
(***************************************************************************)
(* The command interpreter that `--run` and the tests execute a datapack   *)
(* with, in its Chain mode: interpreter.rs runs one command in each step,  *)
(* keeps the stack of functions being run, and picks the next chain block  *)
(* when that stack is empty.                                               *)
(***************************************************************************)
EXTENDS CompiledCode

CONSTANTS
  NoCmd,       \* None: a block without a command
  Limit,       \* the score %%CMD_LIMIT
  MaxCommands  \* the number of commands one chain block may run

ASSUME InterpreterAssumption ==
  /\ NoCmd \notin Nat
  /\ Limit \in Int
  /\ MaxCommands \in Nat

VARIABLES
  run_state,    \* resume_cmd, cmd_1, cmd_2, idx, tick_queued, next_pos
  call_stack,   \* frames: function, next command, position
  commands_run, \* commands since the last chain block was started
  status,       \* "ok", the error that step returned or the panic
  count,        \* the score %%cmdcount
  chosen,       \* the scores that conditions test, or %%tempfuncptr
  stack,        \* the return addresses in memory
  before        \* history: stack when the running block was started

vars == <<run_state, call_stack, commands_run, status, count, chosen, stack,
          before>>

Frame(f, pos) == [func |-> f, line |-> 1, pos |-> pos]

Init ==
  /\ run_state = [resume_cmd |-> NoCmd, cmd_1 |-> NoCmd, cmd_2 |-> NoCmd,
                  idx |-> NoCmd, tick_queued |-> FALSE, next_pos |-> "away"]
  /\ call_stack = <<Frame(MainFn, "away")>>
  /\ commands_run = 0
  /\ status = "ok"
  /\ count = 0
  /\ chosen = MainReturn
  /\ stack = <<>>
  /\ before = <<>>

Halted == call_stack = <<>> /\ ~run_state.tick_queued

-----------------------------------------------------------------------------
(* execute_cmd.                                                            *)
Command == Code[Top(call_stack).func][Top(call_stack).line]

Passes(c) ==
  /\ c.when = "under" => count < Limit
  /\ c.when = "over" => count >= Limit
  /\ IF c.unless THEN chosen \notin c.test ELSE chosen \in c.test

Position(c) ==
  CASE c.pos = "here" -> Top(call_stack).pos
    [] c.pos = "next" -> run_state.next_pos
    [] OTHER          -> c.pos

(* Setting the command of a block, or what `setblock` leaves of it.        *)
Filled(rs, pos, command) ==
  CASE pos = "R" -> [rs EXCEPT !.resume_cmd = command]
    [] pos = "A" -> [rs EXCEPT !.cmd_1 = command]
    [] pos = "B" -> [rs EXCEPT !.cmd_2 = command]

RunStateAfter(c) ==
  LET rs == run_state
      pos == Position(c)
  IN CASE c.op = "set"             -> Filled(rs, pos, c.arg)
       [] c.op \in {"air", "blank"} -> Filled(rs, pos, NoCmd)
       [] c.op = "redstone"        -> [rs EXCEPT !.tick_queued = TRUE]
       [] c.op = "clone"           -> [rs EXCEPT !.cmd_1 = rs.resume_cmd]
       [] c.op = "tp"              -> [rs EXCEPT !.next_pos = pos]
       [] OTHER                    -> rs

(* The errors and panics of a command.                                     *)
Failure(c) ==
  CASE c.op = "unreachable" -> "EnteredUnreachable"
    [] c.op = "redstone" /\ run_state.tick_queued -> "tick already queued"
    [] c.op = "air" /\ Position(c) = "R" -> "no command block"
    [] c.op \in {"air", "set"} /\ Position(c) \notin {"A", "B", "R"} -> "todo"
    [] OTHER -> "ok"

Scores(c) ==
  /\ count' = CASE c.op = "charge" -> count + c.arg
                [] c.op \in {"reset", "boot"} -> 0
                [] OTHER -> count
  /\ stack' = CASE c.op = "push" -> Append(stack, c.arg)
                [] c.op = "pop"  -> Pop(stack)
                [] c.op = "boot" -> <<MainReturn>>
                [] OTHER -> stack
  /\ CASE c.op = "decide" -> chosen' \in Succ[c.arg]
       [] c.op = "pop"    -> chosen' = Top(stack)
       [] OTHER           -> UNCHANGED chosen

-----------------------------------------------------------------------------
(* The rest of step: functions that have come to their end are left, and   *)
(* when none is left the next chain block is looked for.                   *)
Unfinished(frames) ==
  LET open == {i \in DOMAIN frames :
                 frames[i].line <= Len(Code[frames[i].func])}
  IN SubSeq(frames, 1, IF open = {} THEN 0 ELSE Max(open))

(* Mutant: the chain goes on southwards.                                   *)
MovedOn(idx) == idx + 1

Moved(idx) == CASE idx = 0 -> 1 [] idx = 1 -> 2 [] idx = 2 -> 1

CommandAt(rs, idx) ==
  CASE idx = 0 -> OnTickFn
    [] idx = 1 -> rs.cmd_1
    [] idx = 2 -> rs.cmd_2
    [] OTHER   -> NoCmd

PosOf(idx) == CASE idx = 0 -> "S" [] idx = 1 -> "A" [] idx = 2 -> "B"

(* The impulse block is next when it is due and nothing else is, be it     *)
(* that the program has only been started or that its chain has ended.     *)
NextBlock(rs) ==
  LET idx    == IF rs.idx = NoCmd THEN NoCmd ELSE Moved(rs.idx)
      onTick == rs.tick_queued /\ CommandAt(rs, idx) = NoCmd
  IN [rs EXCEPT !.idx = IF onTick THEN 0 ELSE idx,
                !.tick_queued = rs.tick_queued /\ ~onTick]

Continue(rs, frames) ==
  LET left == Unfinished(frames)
      nb == NextBlock(rs)
      command == CommandAt(nb, nb.idx)
  IN IF left # <<>>
     THEN /\ run_state' = rs
          /\ call_stack' = left
          /\ commands_run' = commands_run + 1
          /\ UNCHANGED before
     ELSE /\ run_state' = nb
          /\ call_stack' = IF command = NoCmd THEN <<>>
                           ELSE <<Frame(command, PosOf(nb.idx))>>
          /\ commands_run' = 0
          /\ before' = stack'

Advanced == [call_stack EXCEPT ![Len(call_stack)].line = @ + 1]

StepCommand ==
  /\ status = "ok"
  /\ ~Halted
  /\ commands_run < MaxCommands
  /\ LET c == Command IN
       /\ Passes(c) => Failure(c) = "ok"
       /\ IF Passes(c) THEN Scores(c) ELSE UNCHANGED <<count, chosen, stack>>
       /\ Continue(IF Passes(c) THEN RunStateAfter(c) ELSE run_state,
                   IF Passes(c) /\ c.op = "call"
                   THEN Append(Advanced, Frame(c.arg, Position(c)))
                   ELSE Advanced)
  /\ UNCHANGED status

StepFails ==
  /\ status = "ok"
  /\ ~Halted
  /\ commands_run < MaxCommands
  /\ Passes(Command)
  /\ Failure(Command) # "ok"
  /\ status' = Failure(Command)
  /\ call_stack' = Advanced
  /\ UNCHANGED <<run_state, commands_run, count, chosen, stack, before>>

StepTooMany ==
  /\ status = "ok"
  /\ ~Halted
  /\ commands_run >= MaxCommands
  /\ status' = "MaxCommandsRun"
  /\ UNCHANGED <<run_state, call_stack, commands_run, count, chosen, stack,
                 before>>

Next == StepCommand \/ StepFails \/ StepTooMany

(* run_to_end calls step until the program has halted or step fails.       *)
Spec == Init /\ [][Next]_vars

-----------------------------------------------------------------------------
(***************************************************************************)
(* Properties.                                                             *)
(***************************************************************************)
Commands == Funcs \cup {NoCmd}
Positions == {"S", "A", "B", "R", "away"}

TypeOK ==
  /\ run_state \in [resume_cmd : Commands, cmd_1 : Commands, cmd_2 : Commands,
                    idx : {NoCmd, 0, 1, 2}, tick_queued : BOOLEAN,
                    next_pos : Positions]
  /\ \A i \in DOMAIN call_stack :
       /\ call_stack[i].func \in AllFuncs
       /\ call_stack[i].line \in 1 .. Len(Code[call_stack[i].func]) + 1
       /\ call_stack[i].pos \in Positions
  /\ commands_run \in 0 .. MaxCommands
  /\ count \in Nat
  /\ stack \in Seq(Int) /\ before \in Seq(Int)

(* Redstone is never placed while a tick is queued: the assertion of       *)
(* execute_setblock on tick_queued holds, whatever the commands of a block *)
(* do before and after they place it.                                      *)
TickQueuedOnce == status # "tick already queued"

(* A block set at the template's position is always a command block: the   *)
(* assertion in execute_setblock's extract_cmd.                            *)
TemplateIsCommandBlock == status # "no command block"

(* The block of the program being run: the one at the bottom of the call   *)
(* stack, or the one in the template while __langcraft_on_tick runs.       *)
pcBar ==
  IF call_stack = <<>> THEN -1
  ELSE LET f == call_stack[1].func
           g == IF f = OnTickFn THEN run_state.resume_cmd ELSE f
       IN IF g \in Funcs THEN g ELSE -1

CF == INSTANCE ControlFlow WITH pc <- pcBar, stack <- before

(* Run command by command, a block hands over to exactly the block its     *)
(* control flow names, at the moment its last command has run.             *)
ImplementsControlFlow == CF!Spec

(* The interpreter reports the program as halted only when main returned:  *)
(* no continuation is lost on the way.  Bad pointers and unreachable code  *)
(* end with an error instead.                                              *)
HaltedMeansReturned == status = "ok" /\ Halted => stack = <<>>
=============================================================================
