CONSTANTS
  NoneArg = NoneArg
  Lit = Lit
  Shapes <- SameBiasShapes
  Configs <- FullConfigs
  MaxPrograms = 1
SPECIFICATION Spec
INVARIANT BiasIsStaticParam
CHECK_DEADLOCK FALSE
