SPECIFICATION TameSpec
CONSTANTS
  Owner = {a, b, c}
  MemorySz = 5
  BlockSize = 2
  MaxRequest = 11
  NULL = NULL
INVARIANTS
  TypeOK
  Exact
  NoOverlap
  Contents
PROPERTIES
  Implements
CHECK_DEADLOCK FALSE
SYMMETRY Symmetry
