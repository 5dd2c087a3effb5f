\* A client with XON/XOFF flow control.
CONSTANTS
  Pw = Pw
  X = X
  Item <- MCItem
  Password = Pw
  BufSize = 2
  ErrSize = 9
  Option <- MCXonXoff
SPECIFICATION Spec
INVARIANT NothingLostToXoff
