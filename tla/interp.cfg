\* A program with every kind of end.
SPECIFICATION Spec
CONSTANTS
  NoCmd = NoCmd
  N = 10
  Main = 0
  Kind <- MCLoopKind
  Succ <- MCLoopSucc
  Cont <- MCLoopCont
  Body <- MCLoopBody
  Limit = 97
  MaxCommands = 40
INVARIANTS
  TypeOK
  TickQueuedOnce
  HaltedMeansReturned
PROPERTIES
  ImplementsControlFlow
\* The interpreter halts with the program and stops at an error.
CHECK_DEADLOCK FALSE
