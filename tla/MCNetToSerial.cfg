\* Server and client, with and without password and flow control.
CONSTANTS
  Pw = Pw
  X = X
  Item <- MCItem
  Password = Pw
  BufSize = 2
  ErrSize = 9
  Option <- MCOption
SPECIFICATION FairSpec
INVARIANTS
  TypeOK
  StreamKept
PROPERTIES
  PasswordFirst
  DataIsTaken
  CloseWaitEnds
