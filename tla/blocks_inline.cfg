\* A memcpy in line that ends in the middle of a word.
SPECIFICATION Spec

CONSTANTS
  ByteBits = 2
  Side = 2
  Planes = 1
  Chunk = 8
  MemcpyLengths = {}
  InlineLengths = {5}
  MemsetLengths = {}
  BcmpLengths = {}
  FirstWords <- MCFirstWords

INVARIANTS
  InlineCopies

\* A behaviour ends when its call returns.
CHECK_DEADLOCK FALSE
