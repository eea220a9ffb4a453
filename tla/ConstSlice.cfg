SPECIFICATION Spec
CONSTANTS
  Sym <- MCSym
  Kind <- MCKind
  Constant <- MCConstant
  Width = 2
  MaxArgs = 2
INVARIANTS ConstNotPassedAsVar
CHECK_DEADLOCK FALSE
