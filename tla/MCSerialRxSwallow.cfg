\* The same system; the detector takes a byte that is not in the trigger code.
CONSTANTS
  Plus = Plus
  Data = Data
  None = None
  Size = 5
  Byte <- MCByte
  Trigger <- MCTrigger
  SerialCommand = TRUE
  MixedMode = FALSE
  XonXoff = FALSE
  Xon = Data
  Xoff = Data
  CmdEnd = Data
  CmdMin = 2
  DefaultGap = 2
  PackingTime = 0
  Delimiter = FALSE
SPECIFICATION HSpec
PROPERTY OnlyTriggerHeldBack
