SPECIFICATION Spec
CONSTANTS
  Setting = {1, 2}
  FactorySetting = 1
  HiddenSetting = {2}
  Cert = {3, 4}
  Refused = {4}
  NWords = 3
  MaxRetry = 2
  MaxCmd = 1
  PinUse = {FALSE}
INVARIANTS
  TypeOK
  AcceptedIsWhole
  BootBankWhole
  LenMatchesCert
  FailedSaveIsDeaf
PROPERTIES
  StartsUp
  RoundEnds
  ButtonIsHeard
  SavesAreAtomic
