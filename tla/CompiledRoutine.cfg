SPECIFICATION FairRoutine
CONSTANTS
  MaxStatements = 4
  Kinds = {"procedure", "function"}
  BareWhile = FALSE
  Source <- MCSource
  Parsed <- MCParsed
  Routine <- MCRoutine
  Stmt <- MCStmt
  Height <- MCHeight
INVARIANTS
  TypeOK BlockInv LoopInv JumpsToInnermostLoop WellFormedFunction
  JumpHasTarget SameBehaviour NeverUnreachable
PROPERTIES KeepsUp
CHECK_DEADLOCK FALSE
