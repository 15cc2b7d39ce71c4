CONSTANTS
  NoneArg = NoneArg
  Lit = Lit
  Shapes <- ContractShapes
  Configs <- FullConfigs
  MaxPrograms = 1
SPECIFICATION Spec
INVARIANT ProgramUnchanged IndependentVerdicts
PROPERTY Refinement
CHECK_DEADLOCK FALSE
