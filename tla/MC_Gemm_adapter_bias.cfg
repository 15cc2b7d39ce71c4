CONSTANTS
  NoneArg = NoneArg
  Lit = Lit
  Shapes <- AllShapes
  Configs <- UnforcedConfigs
  MaxPrograms = 1
SPECIFICATION Spec
INVARIANT AdapterBiasInPartition
CHECK_DEADLOCK FALSE
