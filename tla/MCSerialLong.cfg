SPECIFICATION Spec
CONSTANTS
  OBUF_SZ = 8
  IBUF_SZ = 5
  Workloads <- LongWrite
INVARIANTS
  FlushedOnReturn
CHECK_DEADLOCK FALSE
