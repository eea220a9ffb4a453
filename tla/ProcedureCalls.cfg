SPECIFICATION Spec
CONSTANTS
  Sym <- MCSym
  Kind <- MCKind
  Constant <- MCConstant
  Width = 2
  MaxArgs = 2
INVARIANTS ConstParamKeepsValue WritesReachTheirArgument ConstantsKept ArgumentsExist LegalCallAccepted
CHECK_DEADLOCK FALSE
