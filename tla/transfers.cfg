SPECIFICATION Spec
CONSTANTS
  Peers = {p, q}
  IdMod = 3
  IndexMod = 3
  Sizes = {0, 1, 2}
  Chunks = {1, 3}
  MaxListed = 2
  MaxCreated = 3
  MaxTransmits = 2
SYMMETRY Permuted
INVARIANTS
  TypeOK
  OneTransferPerId
  IdsApart
  EachEndsOnce
  OldestFirst
CHECK_DEADLOCK FALSE
