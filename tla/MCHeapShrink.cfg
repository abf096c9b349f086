SPECIFICATION Spec
CONSTANTS
  Owner = {a, b, c}
  MemorySz = 5
  BlockSize = 2
  MaxRequest = 11
  NULL = NULL
PROPERTY ShrinkIsLocal
CHECK_DEADLOCK FALSE
