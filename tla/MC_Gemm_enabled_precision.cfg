CONSTANTS
  NoneArg = NoneArg
  Lit = Lit
  Shapes <- AllShapes
  Configs <- UnforcedConfigs
  MaxPrograms = 1
SPECIFICATION Spec
INVARIANT OnlyEnabledPrecisions
CHECK_DEADLOCK FALSE
