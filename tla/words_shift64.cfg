\* 64-bit shifts by any distance.
SPECIFICATION Spec

CONSTANTS
  ByteBits = 2
  Operands <- MCOperands

INVARIANTS
  Shifts64

CHECK_DEADLOCK FALSE
