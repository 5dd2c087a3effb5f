\* Every working mode with a connection password, EX over the network.
CONSTANTS
  Mode = {"client", "server", "mixed", "udp", "tls", "mqtt"}
  Password = TRUE
  NetworkEx = TRUE
  Reconnection = 2
  Inactivity = 1
  AuthLimit = 1
  Wrap = 3
SPECIFICATION FairSpec
INVARIANTS
  TypeOK
  NoStaleConnect
  AuthIsFresh
  SocketFitsMode
  ContextLive
PROPERTIES
  ConnectPaced
  BackInService
  PasswordDeadline
