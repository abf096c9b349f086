SPECIFICATION Spec
CONSTANTS
  OBUF_SZ = 8
  IBUF_SZ = 5
  Workloads <- Usual
INVARIANTS
  TypeOK
  FlushedOnReturn
  NoLostWakeup
  InOrder
  ReadsInOrder
PROPERTIES
  CallsReturn
CHECK_DEADLOCK FALSE
