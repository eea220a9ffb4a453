------------------------------ MODULE Programs ------------------------------
(***************************************************************************)
(* Whole Gazprea programs, as the tree ASTBuilderPass delivers, reduced to *)
(* what names and scopes are about.                                        *)
(*                                                                         *)
(* A node is a record [k, xs, kids, val]: its kind, the names it carries   *)
(* itself, its children in the order of the AST and, for a literal, its    *)
(* value, a sequence of numbers: a scalar has one, a vector or a tuple     *)
(* several.  A node is known by its path of child numbers from the root.   *)
(***************************************************************************)
EXTENDS Integers, Sequences

Routines   == {"procedure", "function"}
Forwards   == {"procedure declaration", "function declaration"}
DomainKind == {"loop", "generator", "filter", "matrix"}

Node(k, xs, kids) == [k |-> k, xs |-> xs, kids |-> kids, val |-> <<>>]

Program(items) == Node("program", <<>>, items)
Declaration(x, init) == Node("declaration", <<x>>, <<init>>)
Procedure(f, params, stmts) ==
  Node("procedure", <<f>> \o params, <<Node("block", <<>>, stmts)>>)
Function(f, params, stmts) ==
  Node("function", <<f>> \o params, <<Node("block", <<>>, stmts)>>)
Forward(k, f, params) == Node(k, <<f>> \o params, <<>>)

Block(stmts)     == Node("block", <<>>, stmts)
Assign(x, e)     == Node("assignment", <<>>, <<Node("name", <<x>>, <<>>), e>>)
Unpack(xs, e)    ==
  Node("assignment", <<>>,
       <<Node("destruct", <<>>, [i \in DOMAIN xs |-> Node("name", <<xs[i]>>, <<>>)]), e>>)
Output(e)        == Node("output", <<>>, <<e>>)
Return(e)        == Node("return", <<>>, <<e>>)
CallStmt(f, es)  == Node("call statement", <<>>, <<Node("name", <<f>>, <<>>)>> \o es)
Loop(x, domain, body)   == Node("loop", <<x>>, <<domain, body>>)

Name(x)          == Node("name", <<x>>, <<>>)
Literal(val)     == [Node("literal", <<>>, <<>>) EXCEPT !.val = val]
Tuple(es)        == Node("tuple", <<>>, es)
Member(e, i)     == [Node("member", <<>>, <<e>>) EXCEPT !.val = <<i>>]
Call(f, es)      == Node("call", <<>>, <<Node("name", <<f>>, <<>>)>> \o es)
Generator(x, domain, e) == Node("generator", <<x>>, <<domain, e>>)
Filter(x, domain, e)    == Node("filter", <<x>>, <<domain, e>>)
Matrix(r, c, rows, columns, e) == Node("matrix", <<r, c>>, <<rows, columns, e>>)

CallKind == {"call", "call statement"}

(* The place of the i-th name a node carries itself.                       *)
NameAt(at, i) == Append(at, -i)
=============================================================================
