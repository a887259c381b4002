\* Every memcpy up to a chunk, whole words in line, every memset and bcmp.
SPECIFICATION Spec

CONSTANTS
  ByteBits = 2
  Side = 2
  Planes = 1
  Chunk = 8
  MemcpyLengths = {0, 1, 2, 3, 5, 6, 8}
  InlineLengths = {4, 8}
  MemsetLengths = {0, 1, 2, 3, 7, 11}
  BcmpLengths = {0, 1, 3}
  FirstWords <- MCFirstWords

INVARIANTS
  TypeOK
  PartDone
  InlineCopies
  CallsDone

\* A behaviour ends when its call returns.
CHECK_DEADLOCK FALSE
