SPECIFICATION FSpec
CONSTANTS
  BufSize = 8
  CountMod = 12
  Postponed = FALSE
  Burst = 5
  MaxArrived = 40
  ByteMod = 256
  Preamble = 85
  HeaderSize = 4
  FooterSize = 1
  MaxData = 4
  Address = 2
  Broadcast = 255
  Lines <- LappingLines
INVARIANTS
  RingView
  CountedAtMostOnce
  NeverCopiesEmpty
PROPERTIES
  ImplementsLossyLine
