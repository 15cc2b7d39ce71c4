CONSTANTS
  NoneArg = NoneArg
  Lit = Lit
  Shapes <- AllShapes
  Configs <- UnforcedConfigs
  MaxPrograms = 1
SPECIFICATION Spec
INVARIANT TypeOK
INVARIANT ProgramUnchanged
INVARIANT ClusterSelfContained
INVARIANT StaticClusterSealed
INVARIANT DynamicClusterSealed
CHECK_DEADLOCK FALSE
