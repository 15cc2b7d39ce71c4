CONSTANTS
  NoneArg = NoneArg
  Lit = Lit
  Shapes <- AllShapes
  Configs <- UnforcedConfigs
  MaxPrograms = 1
SPECIFICATION Spec
INVARIANT AddmmAgreesWithLinear
CHECK_DEADLOCK FALSE
