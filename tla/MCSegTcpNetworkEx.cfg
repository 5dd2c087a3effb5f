\* Every mode, with an EX command over the network.
CONSTANTS
  Mode = {"client", "server", "mixed"}
  Password = TRUE
  NetworkEx = TRUE
  Reconnection = 2
  Inactivity = 1
  AuthLimit = 1
  Wrap = 4
SPECIFICATION Spec
INVARIANT AtModeIsOffline
