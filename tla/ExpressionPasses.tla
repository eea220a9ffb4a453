--------------------------- MODULE ExpressionPasses ---------------------------
(***************************************************************************)
(* The passes between the annotations: the checks that wrap what is        *)
(* declared, assigned or returned in a cast, and the transformations that  *)
(* leave the code generator no null, no cast of a tuple and no comparison  *)
(* of tuples.  A transformation rewrites every node of an expression from  *)
(* the leaves up, with the types of the last annotation.                   *)
(***************************************************************************)
EXTENDS Annotation

(* AssignmentTypeCheckerPass, for a variable of type t.                    *)
Promoted(e, t) == Unless(canPromoteTo(e.ty, t), wrapWithCastTo(e, t))

SameComposite(e, t) == e.ty.kind = t.kind

visitAssignment(e, t) ==
  LET inner == InnerTy(t) IN
  CASE isSameTypeAs(e.ty, t) -> e
    [] ~isCompositeTy(t) -> Unless(~isCompositeTy(e.ty), Promoted(e, t))
    [] isCompositeTy(e.ty) ->
         CASE ~SameComposite(e, t) -> Reject(e)
           [] isSameTypeAs(InnerTy(e.ty), inner) -> e
           [] OTHER -> Unless(canPromoteTo(InnerTy(e.ty), inner),
                              wrapWithCastTo(e, WithInner(e.ty, inner)))
    [] isSameTypeAs(e.ty, inner) -> e
    [] OTHER -> Promoted(e, inner)

(* A scalar is only cast to a vector or matrix whose length is written.    *)
visitDeclaration(e, t) ==
  LET inner == InnerTy(t) IN
  CASE isSameTypeAs(e.ty, t) -> e
    [] ~isCompositeTy(t) -> Unless(~isCompositeTy(e.ty), Promoted(e, t))
    [] isCompositeTy(e.ty) ->
         CASE ~SameComposite(e, t) -> Reject(e)
           [] isSameTypeAs(InnerTy(e.ty), inner) -> e
           [] OTHER -> Unless(canPromoteTo(InnerTy(e.ty), inner), wrapWithCastTo(e, t))
    [] isSameTypeAs(e.ty, inner) -> e
    [] e.ty.kind = "Interval" /\ t.kind = "Vector" ->
         Unless(inner.kind \in {"Real", "Int"}, wrapWithCastTo(e, WithInner(t, inner)))
    [] OTHER -> Unless(canPromoteTo(e.ty, inner),
                       IF t.len = Unknown THEN e ELSE wrapWithCastTo(e, t))

(* ReturnValuePromotionPass.                                               *)
visitReturn(e, t) ==
  CASE isSameTypeAs(e.ty, t)      -> e
    [] PromotionAsserts(e.ty, t)  -> Reject(e)
    [] OTHER                      -> Promoted(e, t)

(* ExplicitCastCheckPass does not look below a cast.                       *)
RECURSIVE CastsAllowed(_)
CastsAllowed(e) ==
  IF e.op = "ExplicitCast" THEN canCastTo(e.kids[1].ty, e.arg.ty)
  ELSE \A i \in DOMAIN e.kids : CastsAllowed(e.kids[i])
-----------------------------------------------------------------------------
(* NullIdentityTypeCastPass.                                               *)
RECURSIVE getScalarLiteral(_, _)
getScalarLiteral(t, opaque) ==
  IF isCompositeTy(t)
  THEN wrapWithCastTo(getScalarLiteral(InnerTy(t), opaque), t)
  ELSE LET k == IF t.kind = "Interval" THEN "Int" ELSE t.kind
       IN  Typed(Literal(k, IF opaque = "Null" THEN 0 ELSE OneOf(k)), Simple(k))

NullIdentityTypeCast(e) ==
  LET x == e.kids[1]
      t == e.arg.ty
      Lit(m) == getScalarLiteral(m, x.ty.kind) IN
  CASE e.op # "TypeCast" \/ ~isOpaqueTy(x.ty) -> e
    [] t.kind = "Tuple" ->
         Typed(TupleLiteral([i \in DOMAIN t.members |-> Lit(t.members[i])]), t)
    [] t.kind = "Interval" -> Typed(Op("Interval", Lit(t), Lit(t)), t)
    [] t.kind \in ScalarKinds \union {"Vector", "Matrix"} -> Typed(Lit(t), t)
    [] OTHER -> Reject(e)

(* Mutant: casts the programmer wrote are left alone.                      *)
SimplifyPromotions(e) ==
  IF e.op = "TypeCast" /\ e.arg.ty.kind = "Tuple"
  THEN Typed(TupleLiteral([i \in DOMAIN e.arg.ty.members |->
         wrapWithCastTo(MemberAccess(e.kids[1], i), e.arg.ty.members[i])]), e.arg.ty)
  ELSE e

(* A cast to a tuple casts each member of the operand, which is cached.    *)
SimplifyTupleCasting(e) ==
  LET t == e.arg.ty
      Member(i) == wrapWithCastTo(MemberAccess(e.kids[1], i), t.members[i]) IN
  IF e.op \in {"TypeCast", "ExplicitCast"} /\ t.kind = "Tuple"
  THEN Typed(TupleLiteral([i \in DOMAIN t.members |-> Member(i)]), t) ELSE e

SimplifyTupleLiteralMemAccess(e) ==
  IF e.op = "MemberAccess" /\ e.kids[1].op = "TupleLiteral"
  THEN Typed(e.kids[1].kids[e.arg.n], e.ty) ELSE e

OnTuples(e) == /\ e.op \in LogicalOps
               /\ \A i \in DOMAIN e.kids : e.kids[i].ty.kind = "Tuple"

TupleNotEqual(e) ==
  IF OnTuples(e) /\ e.op = "!=" THEN Unary("not", [e EXCEPT !.op = "=="]) ELSE e

(* The members of a tuple are compared with the operator of the tuples,    *)
(* from the left and joined from the right: m1 and (m2 and (... and mn)).  *)
TupleCompToMemberComp(e) ==
  LET l == e.kids[1]
      Compared(i) == Op(e.op, MemberAccess(l, i), MemberAccess(e.kids[2], i))
      n == Len(l.ty.members) IN
  IF OnTuples(e)
  THEN FoldRight(LAMBDA c, rest : Op("and", c, rest),
                 [i \in 1..n - 1 |-> Compared(i)], Compared(n))
  ELSE e

(* TupleNotEqualTransformationPass does not look below a logical operator. *)
Descends(pass, e) == ~(pass = "TupleNotEqual" /\ e.op \in LogicalOps)

Visit(pass, e) ==
  CASE pass = "NullIdentityTypeCast"          -> NullIdentityTypeCast(e)
    [] pass = "SimplifyTupleCasting"          -> SimplifyTupleCasting(e)
    [] pass = "SimplifyTupleLiteralMemAccess" -> SimplifyTupleLiteralMemAccess(e)
    [] pass = "TupleNotEqual"                 -> TupleNotEqual(e)
    [] pass = "TupleCompToMemberComp"         -> TupleCompToMemberComp(e)

RECURSIVE Rewritten(_, _)
Rewritten(pass, e) ==
  LET Kid(k) == IF Descends(pass, e) THEN Rewritten(pass, k) ELSE k
  IN  Visit(pass, [e EXCEPT !.kids = [i \in DOMAIN e.kids |-> Kid(e.kids[i])]])
=============================================================================
