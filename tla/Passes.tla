------------------------------- MODULE Passes -------------------------------
(* The passes of Lowering, on the statements of the program at hand.       *)
EXTENDS Lowering

CONSTANTS
  Stmt,    \* lowered statements, with every statement inside them
  Routine, \* the bodies of the routines to compile
  Height   \* of each tree: trees are finite

Ops == {"act", "break", "continue", "return", "block", "if", "ifelse",
        "loop", "while", "dowhile", "domain", "inner"}

ASSUME StmtAssumption ==
  /\ \A t \in Stmt :
       /\ DOMAIN t = {"op", "at", "kids"}
       /\ t.op \in Ops
       /\ t.kids \in Seq(Stmt)
       /\ t.op \in {"if", "loop", "while", "dowhile", "domain", "inner"} => Len(t.kids) = 1
       /\ t.op = "ifelse" => Len(t.kids) = 2
  /\ Routine \subseteq Stmt

ASSUME HeightAssumption ==
  \A t \in Parsed \union Stmt :
    /\ Height[t] \in Nat
    /\ \A i \in DOMAIN t.kids : Height[t.kids[i]] < Height[t]
-----------------------------------------------------------------------------
Built[t \in Parsed] == BuildNode(t, Listed([i \in DOMAIN t.kids |-> Built[t.kids[i]]]))

HasStray[t \in Stmt] == StrayAt(t, Listed([i \in DOMAIN t.kids |-> HasStray[t.kids[i]]]))

Returns[t \in Stmt] == ReturnsAt(t, Listed([i \in DOMAIN t.kids |-> Returns[t.kids[i]]]))

EnsureReturnAccepts(routine, body) == routine = "procedure" \/ Returns[body]

Compiled(routine, body) == EnsuredReturn(routine, Built[body])

(* EnsureReturn runs first; either pass ends the compilation by throwing.  *)
Accepted(routine, body) ==
  LET built == Built[body]
  IN EnsureReturnAccepts(routine, built) /\ ~HasStray[EnsuredReturn(routine, built)]
=============================================================================
