\* The receive path on a ring of five cells without flow control, with the default gap time.
CONSTANTS
  Plus = Plus
  Data = Data
  None = None
  Size = 5
  Byte <- MCByte
  Trigger <- MCTrigger
  SerialCommand = TRUE
  MixedMode = FALSE
  XonXoff = FALSE
  Xon = Data
  Xoff = Data
  CmdEnd = Data
  CmdMin = 2
  DefaultGap = 2
  PackingTime = 0
  Delimiter = FALSE
SPECIFICATION HSpec
VIEW MCView
INVARIANTS
  TypeOK
  HeldIsTrigger
  ByteTakenIsOldest
  GatewayNeverSpins
PROPERTIES
  RingIsFifo
  RequestIsDeserved
  OverrunOnlyByRestore
