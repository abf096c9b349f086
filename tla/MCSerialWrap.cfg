SPECIFICATION Spec
CONSTANTS
  OBUF_SZ = 8
  IBUF_SZ = 5
  Workloads <- ReadOn
INVARIANTS
  ReadsReceived
CHECK_DEADLOCK FALSE
