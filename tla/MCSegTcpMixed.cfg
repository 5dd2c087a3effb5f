\* Mixed mode without configuration over the network.
CONSTANTS
  Mode = {"mixed"}
  Password = TRUE
  NetworkEx = FALSE
  Reconnection = 2
  Inactivity = 1
  AuthLimit = 1
  Wrap = 4
SPECIFICATION FairSpec
PROPERTY MixedClientConnects
