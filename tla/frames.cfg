\* Three functions that share holders, one of them recursive.
SPECIFICATION Spec
CONSTANTS
  x = x
  y = y
  z = z
  p0 = p0
  main = main
  rec = rec
  leaf = leaf
  Fn = {main, rec, leaf}
  Main = main
  Holder = {x, y, z}
  Param <- MCParam
  Saved <- MCSaved
  Args <- MCArgs
  Site = {2, 3}
  Caller <- MCCaller
  Dest <- MCDest
  Words <- MCWords
  Junk <- MCJunk
  Literals = {0}
  AllocSizes = {1}
  StackWords = 13
  MaxFrames = 3
  MaxWork = 5
INVARIANTS
  TypeOK
  FramesLinked
  ReturnsToCaller
  StackBalanced
PROPERTIES
  ImplementsActivations
\* The program ends, or has no room left for another frame.
CHECK_DEADLOCK FALSE
