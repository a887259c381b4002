\* A world with limit and entity; a program without unreachable code.
SPECIFICATION FairSpec
CONSTANTS
  Air = Air
  Blank = Blank
  N = 8
  Main = 0
  Kind <- MCLoopKind
  Succ <- MCLoopSucc
  Cont <- MCLoopCont
  Body <- MCLoopBody
  Limit = 113
  LimitStates = {TRUE}
  HasNext = TRUE
  MaxChain = 12
  MaxRuns = 2
INVARIANTS
  TypeOK
  NextIsReady
  OneTickPending
  BurstBounded
  ReturnsAreGood
PROPERTIES
  ImplementsControlFlow
  ControlProgresses
  SuspendedResumes
\* The machine stops when the program has ended and is not run again.
CHECK_DEADLOCK FALSE
