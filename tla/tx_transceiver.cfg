SPECIFICATION Spec
CONSTANTS
  Drivers = {"rs485"}
  MaxQueue = 1
  MaxData = 2
  Overhead = 3
  Destinations = {0, 7}
  Sizes = {0, 1, 2, 3}
  MaxAccepted = 4
  MaxReceived = 2
INVARIANTS
  TransceiverReleased
