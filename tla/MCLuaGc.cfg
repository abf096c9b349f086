CONSTANTS
  a = a
  b = b
  c = c
  d = d
  Main = Main
  NULL = NULL
  Obj <- MCObj
  Shapes <- MCShapes
  StepOf <- CollectorStep
  FullOf <- CollectorFull
  SweepMax = 2
  MaxWork = 2
SPECIFICATION GcSpec
INVARIANTS
  NothingLost
  TriColour
  WhiteAgain
  FullCollects
PROPERTIES
  GarbageOnly
CHECK_DEADLOCK FALSE
