SPECIFICATION Spec
CONSTANTS
  Byte = {0, 1, 2}
  MaxLength = 2
  MaxCapacity = 4
  AnyAssign = TRUE
PROPERTIES
  ImplementsByteString
