CONSTANTS
  NoneArg = NoneArg
  Lit = Lit
  Shapes <- TwoQparamShapes
  Configs <- UnforcedConfigs
  MaxPrograms = 1
SPECIFICATION Spec
INVARIANT DynamicClusterSealed
CHECK_DEADLOCK FALSE
