SPECIFICATION SkippedSpec
CONSTANTS
  Compiled <- CompiledBy
  Meant <- MeantBy
  Allowed <- AllowedBy
  MaxIndexRK = 255
  FieldsPerFlush = 2
  StackSize = 20
INVARIANTS
  Meaning
