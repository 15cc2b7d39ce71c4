CONSTANTS
  NoneArg = NoneArg
  Lit = Lit
  Shapes <- AllShapes
  Configs <- UnforcedConfigs
  MaxPrograms = 1
SPECIFICATION Spec
INVARIANT ImplicitTagsInsideClusters
CHECK_DEADLOCK FALSE
