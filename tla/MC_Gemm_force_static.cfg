CONSTANTS
  NoneArg = NoneArg
  Lit = Lit
  Shapes <- AllShapes
  Configs <- AllConfigs
  MaxPrograms = 1
SPECIFICATION Spec
INVARIANT StaticClusterSealed
CHECK_DEADLOCK FALSE
