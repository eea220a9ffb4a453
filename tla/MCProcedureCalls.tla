-------------------------- MODULE MCProcedureCalls --------------------------
(***************************************************************************)
(* An instance of ProcedureCalls: a variable of each kind, and a const     *)
(* scalar and a const vector.                                              *)
(***************************************************************************)
EXTENDS ProcedureCalls, TLC

MCSym == {"x", "y", "r", "t", "v", "k", "c"}
MCKind == [s \in MCSym |-> CASE s \in {"x", "y", "k"} -> "int"
                             [] s = "r"             -> "real"
                             [] s = "t"             -> "tuple"
                             [] s \in {"v", "c"}    -> "vector"]
MCConstant == {"k", "c"}
=============================================================================
