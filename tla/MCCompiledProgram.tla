-------------------------- MODULE MCCompiledProgram --------------------------
(* CompiledProgram for every program of ProgramSets, which comes first: TLC *)
(* evaluates definitions in the order of the modules, and what a .cfg       *)
(* assigns anew at each use: only names here.                               *)
EXTENDS ProgramSets, CompiledProgram

MCSource == Sources
MCTree   == Trees
MCHeight == Depths
=============================================================================
