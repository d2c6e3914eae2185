SPECIFICATION Spec
CONSTANTS
  MaxId = 5
  MaxDepth = 2
INVARIANTS
  TypeOK
  ToldInOrder
  SkipsAccounted
  NeverDangling
CHECK_DEADLOCK FALSE
