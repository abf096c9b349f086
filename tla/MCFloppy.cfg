SPECIFICATION MCSpec
CONSTANTS
  Delay = 6
  SpinUp = 3
  MaxCalls = 2
  PoolSize = 4
  Lba = {0, 36}
  MaxNum = 2
  MaxXfers = 1
INVARIANTS
  TypesOK
  Accounted
  OffArmed
  AtSpeed
  DmaSound
  InStep
  OnlyWritesFail
PROPERTIES
  CallsReturn
CHECK_DEADLOCK FALSE
