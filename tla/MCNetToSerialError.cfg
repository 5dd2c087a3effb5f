\* A client without password and flow control; the connection is lost under recv().
CONSTANTS
  Pw = Pw
  X = X
  Item <- MCItem
  Password = Pw
  BufSize = 2
  ErrSize = 9
  Option <- MCPlain
SPECIFICATION Spec
INVARIANT NeverBeyondBuffer
