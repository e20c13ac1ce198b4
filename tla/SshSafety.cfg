SPECIFICATION Spec
CONSTANTS
  Host = host
  Ssh = {s1}
  NoTransport = NoTransport
  MaxTasks = 2
  MaxTransports = 2
INVARIANTS RevokedStaysDown EpochsAgree ConnectingIsReal
