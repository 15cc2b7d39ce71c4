CONSTANTS
  NoneArg = NoneArg
  Lit = Lit
  Shapes <- ReuseShapes
  Configs <- UnforcedConfigs
  MaxPrograms = 2
SPECIFICATION Spec
INVARIANT PartitionIndexCurrent
CHECK_DEADLOCK FALSE
