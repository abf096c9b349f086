CONSTANTS
  a = a
  b = b
  c = c
  d = d
  Main = Main
  NULL = NULL
  Obj <- MCObj
  Shapes <- Many
  StepOf <- CollectorStep
  FullOf <- CollectorFull
  SweepMax = 1
  MaxWork = 2
SPECIFICATION GcSpec
SYMMETRY ManySymmetry
INVARIANT WhiteAgain
CHECK_DEADLOCK FALSE
