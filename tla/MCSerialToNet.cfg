\* Every packing option by itself, all together, and none.
CONSTANTS
  D = D
  X = X
  NoDelim = NoDelim
  Byte <- MCByte
  RingSize = 4
  BufSize = 3
  Option <- MCOption
SPECIFICATION FairSpec
INVARIANTS
  TypeOK
  StreamKept
  CountedIsThere
PROPERTIES
  PacketCut
  Delivery
