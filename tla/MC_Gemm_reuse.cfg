CONSTANTS
  NoneArg = NoneArg
  Lit = Lit
  Shapes <- ReuseShapes
  Configs <- AllConfigs
  MaxPrograms = 2
SPECIFICATION Spec
INVARIANT ForcedWeightsNotClaimed
CHECK_DEADLOCK FALSE
