----------------------------- MODULE Statements -----------------------------
(***************************************************************************)
(* The statements of a Gazprea routine, as the parser delivers them        *)
(* (grammar/Gazprea.g4), reduced to what decides control flow.             *)
(*                                                                         *)
(* A statement is a record [op, at, kids]: "at" is its place in the        *)
(* source, the path of child numbers from the routine's body.  Statements  *)
(* without control flow (assignment, output, call...) are all "act";       *)
(* conditions and loop domains are left to the environment that runs the   *)
(* program.  A conditional loop is "while" or "dowhile", a loop over one   *)
(* domain is "domain", one over two domains "domain2".                     *)
(***************************************************************************)
EXTENDS Naturals, Sequences

CONSTANT Parsed  \* the parser's statements, with every statement inside them

Leaf  == {"act", "break", "continue", "return"}
Unary == {"if", "loop", "while", "dowhile", "domain", "domain2"}

Fits(t) ==
  /\ t.op \in Leaf => Len(t.kids) = 0
  /\ t.op \in Unary => Len(t.kids) = 1
  /\ t.op = "ifelse" => Len(t.kids) = 2

(* A sequence written out: TLC evaluates a function expression at each     *)
(* use, a concatenation once.                                              *)
Listed(s) == <<>> \o s

ASSUME ParsedAssumption ==
  \A t \in Parsed :
    /\ DOMAIN t = {"op", "at", "kids"}
    /\ t.op \in Leaf \union Unary \union {"block", "ifelse"}
    /\ t.kids \in Seq(Parsed)
    /\ Fits(t)
=============================================================================
