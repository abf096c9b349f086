SPECIFICATION Spec
CONSTANTS
  Owner = {a, b, c}
  MemorySz = 5
  BlockSize = 2
  MaxRequest = 11
  NULL = NULL
PROPERTY RefusalIsHarmless
CHECK_DEADLOCK FALSE
