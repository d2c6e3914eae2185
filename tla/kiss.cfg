SPECIFICATION Spec
CONSTANTS
  Peers = {"a", "b"}
  IdMod = 4
  RetriesMax = 3
  RetryHoldoff = 1
  PingHoldoff = 1
  MaxPackets = 2
  Scenes <- MCScenes
INVARIANTS
  TypeOK
  NoneGivenUp
PROPERTIES
  ImplementsAckedTransfer
  Drains
  AliveIsSeen
