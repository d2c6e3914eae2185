SPECIFICATION Spec
CONSTANTS
  Preamble = 85
  Destinations = {2, 85}
  Preambles = {0, 1, 3}
  MaxPackets = 3
INVARIANTS
  OneOwner
  DeliveredInOrder
PROPERTIES
  Served
