\* Every instruction on words, where it is right.
SPECIFICATION Spec

CONSTANTS
  ByteBits = 2
  Operands <- MCOperands

INVARIANTS
  TypeOK
  OtherConstantsSet
  ShiftsRight
  ArithmeticRight
  ComparisonsRight
  
  VectorsRight

\* A behaviour is one instruction.
CHECK_DEADLOCK FALSE
