SPECIFICATION MCSpec
CONSTANTS
  NotFound = NotFound
  NULL = NULL
  NilValue = NilValue
  MemorySz = 7
  MemUpper <- Machines
  N = 3
  Show <- Digits
  Minute = 3
  MaxTime = 10
  IntBits = 5
  MaxBits = 16
  Width = 2
  Height = 2
  Tokens <- TokensOf
INVARIANTS
  CalendarRight
  TextRight
  LongjmpRestores
  ShowsLastLines
  FirstFit
  TableBelowHeap
  HeapPastRam
  OneInstant
  TableRight
  LuaTextRight
  LuaDataRight
PROPERTIES
  CallsReturn
CHECK_DEADLOCK FALSE
