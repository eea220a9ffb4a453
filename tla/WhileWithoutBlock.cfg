SPECIFICATION SpecRoutine
CONSTANTS
  MaxStatements = 2
  Kinds = {"procedure"}
  BareWhile = TRUE
  Source <- MCSource
  Parsed <- MCParsed
  Routine <- MCRoutine
  Stmt <- MCStmt
  Height <- MCHeight
INVARIANTS WhileTestsFirst
CHECK_DEADLOCK FALSE
