SPECIFICATION FSpec
CONSTANTS
  BufSize = 16
  CountMod = 4096
  Postponed = TRUE
  Burst = 3
  MaxArrived = 40
  ByteMod = 256
  Preamble = 85
  HeaderSize = 4
  FooterSize = 1
  MaxData = 2
  Address = 2
  Broadcast = 255
  Lines <- AllLines
INVARIANTS
  FTypeOK
  NoneSkipped
  
  Room
PROPERTIES
  EventuallyDelivered
  CallReturns
