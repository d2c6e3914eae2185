SPECIFICATION Spec
CONSTANTS
  Devices = {"client", "server"}
  Client = "client"
  Server = "server"
  PortMod = 5
  FirstFree = 4
  QueueLimit = 2
  ClientPort = 1
  ServerPort = 1
  EchoPort = 2
  UserPort = 2
  Forms = {"known", "unknown", "long"}
  MaxQueries = 3
INVARIANTS
  EndpointsAlive
  DataReachesItsCommand
PROPERTIES
  ImplementsRemoteCall
  Answered
CHECK_DEADLOCK FALSE
