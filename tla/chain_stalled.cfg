\* A world set up as the README says: neither the score nor the entity.
SPECIFICATION FairSpec
CONSTANTS
  Air = Air
  Blank = Blank
  N = 8
  Main = 0
  Kind <- MCLoopKind
  Succ <- MCLoopSucc
  Cont <- MCLoopCont
  Body <- MCLoopBody
  Limit = 97
  LimitStates = {FALSE}
  HasNext = FALSE
  MaxChain = 60
  MaxRuns = 2
PROPERTIES
  ImplementsControlFlow
\* The machine stops when the program has ended and is not run again.
CHECK_DEADLOCK FALSE
