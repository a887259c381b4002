\* Two orders of the variables; the program is started again and again.
SPECIFICATION Spec

CONSTANTS
  ByteBits = 2
  Ty <- MCTy
  Con <- MCCon
  Var = {"a", "u", "p", "d"}
  VarType <- MCVarType
  VarInit <- MCVarInit
  Fn = {"Inc", "main", "dec.1"}
  FnOrder <- MCFnOrder
  Blocks <- MCBlocks
  Params <- MCParams
  RegType <- MCRegType
  Main = "main"
  Norm <- MCNorm
  Numerals <- MCNumerals
  Intrinsics <- MCIntrinsics
  CondStackBytes = 8
  Orders <- MCOrders
  MaxParams = 2
  MemBytes = 60
  Garbage = 2
  MaxActs = 4

INVARIANTS
  TypeOK
  GlobalsApart
  LeavesAligned
  NamesUnique
  PlacesAgree
  OneEdge

PROPERTIES
  ImplementsModule

\* A start is always possible once the module is compiled.
