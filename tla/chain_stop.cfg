\* A program that reaches a terminator without destination.
SPECIFICATION FairSpec
CONSTANTS
  Air = Air
  Blank = Blank
  N = 8
  Main = 0
  Kind <- MCStopKind
  Succ <- MCLoopSucc
  Cont <- MCLoopCont
  Body <- MCLoopBody
  Limit = 53
  LimitStates = {TRUE, FALSE}
  HasNext = TRUE
  MaxChain = 10
  MaxRuns = 2
INVARIANTS
  StopIsFinal
\* The machine stops when the program has ended and is not run again.
CHECK_DEADLOCK FALSE
