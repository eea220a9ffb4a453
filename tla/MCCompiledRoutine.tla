------------------------- MODULE MCCompiledRoutine -------------------------
(* CompiledRoutine for every routine of at most MaxStatements statements.  *)
(* RoutineSets comes first: TLC evaluates definitions in the order of the  *)
(* modules, and what a .cfg assigns anew at each use: only names here.     *)
EXTENDS RoutineSets, CompiledRoutine

MCSource  == Sources
MCParsed  == SourceStatements
MCRoutine == Routines
MCStmt    == SubStatements
MCHeight  == Depths

(* What CodeDoesAsSource asks of the routines holds in the runs.           *)
ASSUME BlocksAssumption == BareWhile \/ WhilesHaveBlocks
=============================================================================
