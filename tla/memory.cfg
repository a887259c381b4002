\* Every load and store but the load of three bytes.
SPECIFICATION Spec

CONSTANTS
  ByteBits = 2
  Side = 2
  Planes = 2
  LoadLengths = {1, 2, 4, 8}
  StoreLengths = {1, 2, 3, 4, 8}
  Alignments = {1, 2, 4}
  Values <- MCValues
  FirstWords <- MCFirstWords
  MaxOps = 2

INVARIANTS
  TypeOK

PROPERTIES
  ReadsAtPtr
  ImplementsByteMemory

\* A behaviour ends with its last load or store.
CHECK_DEADLOCK FALSE
