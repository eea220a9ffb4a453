----------------------------- MODULE Expressions -----------------------------
(***************************************************************************)
(* Expressions of the tree (ASTNodes.h) and what a program means by them.  *)
(* A node has an operator, its operands and the type the annotator gave    *)
(* it; arg holds what a node has besides: the type of a name or of a cast, *)
(* a value, the index of a member or the label of a call.  A value is a    *)
(* sequence of components, each a sequence of integers: a scalar has one   *)
(* number, a vector one component, a matrix one per row, a tuple one per   *)
(* member.  Reals are counted in halves.                                   *)
(***************************************************************************)
EXTENDS Types, SequencesExt

NoTy == Simple("None")

ArithOps      == {"+", "-", "*", "/"}
ComparisonOps == {"<", ">="}
BoolOps       == {"and", "or", "xor"}
EqOps         == {"==", "!="}
LogicalOps    == BoolOps \union EqOps
BinaryOps     == ArithOps \union ComparisonOps \union LogicalOps

Node(op, arg, kids) == [op |-> op, arg |-> arg, kids |-> kids, ty |-> NoTy]
NoArg == [ty |-> NoTy, val |-> <<>>, n |-> 0]
ArgTy(t) == [NoArg EXCEPT !.ty = t]

Scalar(n) == << <<n>> >>
Literal(k, n) == Node("Literal", [ty |-> Simple(k), val |-> Scalar(n), n |-> 0], <<>>)
NullLiteral     == Node("Opaque", ArgTy(Simple("Null")), <<>>)
IdentityLiteral == Node("Opaque", ArgTy(Simple("Identity")), <<>>)
Identifier(t, v) == Node("Identifier", [ty |-> t, val |-> v, n |-> 0], <<>>)
Call(t, v, label) == Node("Call", [ty |-> t, val |-> v, n |-> label], <<>>)
TypeCast(e, t) == Node("TypeCast", ArgTy(t), <<e>>)
ExplicitCast(e, t) == Node("ExplicitCast", ArgTy(t), <<e>>)
MemberAccess(e, i) == Node("MemberAccess", [NoArg EXCEPT !.n = i], <<e>>)
TupleLiteral(es)  == Node("TupleLiteral", NoArg, es)
VectorLiteral(es) == Node("VectorLiteral", NoArg, es)
Op(op, l, r) == Node(op, NoArg, <<l, r>>)
Unary(op, e) == Node(op, NoArg, <<e>>)

(* The nodes of an expression, and the labels of its calls, in the order   *)
(* a visitor leaves them.                                                  *)
RECURSIVE Nodes(_)
Nodes(e) == FlattenSeq([i \in DOMAIN e.kids |-> Nodes(e.kids[i])]) \o <<e>>

Calls(e) ==
  LET calls == SelectSeq(Nodes(e), LAMBDA n : n.op = "Call")
  IN  [i \in DOMAIN calls |-> calls[i].arg.n]
-----------------------------------------------------------------------------
(* Arithmetic on the numbers of an element kind.  0 stands for what a real *)
(* division by zero gives, which no meaning is compared with.              *)
Quotient(a, b) == IF b = 0 THEN 0
                  ELSE LET q == (IF a < 0 THEN -a ELSE a) \div (IF b < 0 THEN -b ELSE b)
                       IN  IF (a < 0) = (b < 0) THEN q ELSE -q
Truth(p) == IF p THEN 1 ELSE 0

Compute(op, kind, a, b) ==
  LET real == kind = "Real" IN
  CASE op = "+"   -> a + b
    [] op = "-"   -> a - b
    [] op = "*"   -> IF real THEN Quotient(a * b, 2) ELSE a * b
    [] op = "/"   -> Quotient(IF real THEN 2 * a ELSE a, b)
    [] op = "<"   -> Truth(a < b)
    [] op = ">="  -> Truth(a >= b)
    [] op = "and" -> Truth(a # 0 /\ b # 0)
    [] op = "or"  -> Truth(a # 0 \/ b # 0)
    [] op = "xor" -> Truth((a # 0) # (b # 0))
    [] op = "=="  -> Truth(a = b)
    [] op = "!="  -> Truth(a # b)

ConvertScalar(from, to, n) ==
  CASE from = to     -> n
    [] to = "Bool"   -> Truth(n # 0)
    [] to = "Char"   -> (IF from = "Real" THEN Quotient(n, 2) ELSE n) % 256
    [] to = "Int"    -> IF from = "Real" THEN Quotient(n, 2) ELSE n
    [] to = "Real"   -> 2 * n

OneOf(kind)  == IF kind = "Real" THEN 2 ELSE 1
Map(f(_), v) == [i \in DOMAIN v |-> [j \in DOMAIN v[i] |-> f(v[i][j])]]
Pairwise(f(_, _), v, w) ==
  [i \in DOMAIN v |-> [j \in DOMAIN v[i] |-> f(v[i][j], w[i][j])]]
Copies(n, len) == << [j \in 1..len |-> n] >>
Squared(n, len) == [i \in 1..len |-> [j \in 1..len |-> n]]
Padded(s, len) ==
  IF len = Unknown THEN s ELSE [j \in 1..len |-> IF j \in DOMAIN s THEN s[j] ELSE 0]
Elements(lo, hi) == [j \in 1..(hi - lo + 1) |-> lo + j - 1]
=============================================================================
