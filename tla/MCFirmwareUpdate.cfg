SPECIFICATION Spec
CONSTANTS
  Sizes = {4, 5, 6}
  BankPages = 2
  PageSize = 3
  BufSize = 2
  RxMax = 4
  Extra = 1
  MaxConn = 3
INVARIANTS
  TypeOK
  TakenIsWritten
  AsksForSome
  StaysInBank
  SuccessIsImage
PROPERTIES
  UpdateEnds
