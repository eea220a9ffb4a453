SPECIFICATION Spec
CONSTANTS
  Sym <- MCSym
  Kind <- MCKind
  Constant <- MCConstant
  Width = 2
  MaxArgs = 2
INVARIANTS NoSharedCell
CHECK_DEADLOCK FALSE
