\* The delimiter as the only packing option.
CONSTANTS
  D = D
  X = X
  NoDelim = NoDelim
  Byte <- MCByte
  RingSize = 4
  BufSize = 3
  Option <- MCDelimiter
SPECIFICATION Spec
INVARIANT NoOverflow
