SPECIFICATION Spec
CONSTANTS
  Drivers = {"stm32", "stm32_zst", "rs485", "linux", "usbcdc"}
  MaxQueue = 1
  MaxData = 2
  Overhead = 3
  Destinations = {0, 7}
  Sizes = {0, 1, 2, 3}
  MaxAccepted = 4
  MaxReceived = 2
INVARIANTS
  TypeOK
  QueueInOrder
  SentInOrder
  NeverTwice
  BufferStable
PROPERTIES
  EventuallySent
