\* A program whose main returns at the limit.
SPECIFICATION Spec
CONSTANTS
  NoCmd = NoCmd
  N = 10
  Main = 0
  Kind <- MCLoopKind
  Succ <- MCLoopSucc
  Cont <- MCLoopCont
  Body <- MCLoopBody
  Limit = 97
  MaxCommands = 40
INVARIANTS
  TemplateIsCommandBlock
\* The interpreter halts with the program and stops at an error.
CHECK_DEADLOCK FALSE
