SPECIFICATION Spec
CONSTANTS
  Peers = {p, q}
  IdMod = 3
  IndexMod = 3
  Sizes = {0, 1, 2}
  Chunks = {1, 2, 3}
  MaxListed = 1
  MaxCreated = 1
  MaxTransmits = 1
PROPERTIES
  MainReturns
CHECK_DEADLOCK FALSE
