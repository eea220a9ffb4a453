----------------------------- MODULE Annotation -----------------------------
(***************************************************************************)
(* ExprTypeAnnotatorPass: one visit of an expression, which gives every    *)
(* node its type and wraps operands in casts to the type they must have.   *)
(* It runs again after every pass that rewrites the tree.  want is the     *)
(* type null and identity take when neither operand has one (NoTy: none).  *)
(***************************************************************************)
EXTENDS Expressions

Rejected == Simple("Rejected")
Reject(e) == [e EXCEPT !.ty = Rejected]
Typed(e, t) == [e EXCEPT !.ty = t]
Unless(ok, e) == IF ok THEN e ELSE Reject(e)
wrapWithCastTo(e, t) == Typed(TypeCast(e, t), t)

isTypeSizeKnown(t) == isCompositeTy(t) => isSizeKnown(t)
-----------------------------------------------------------------------------
(* An operand: the visited expression, the expression that replaces it and *)
(* the type the visitor goes on with.                                      *)
Operand(e) == [raw |-> e, expr |-> e, ty |-> e.ty]
Recast(o, t) ==
  LET c == wrapWithCastTo(o.raw, t) IN [raw |-> c, expr |-> c, ty |-> t]

isOpaque(o) == isOpaqueTy(o.ty)
OpaqueAs(o, t, other) ==
  IF isOpaque(o) THEN [o EXCEPT !.expr = wrapWithCastTo(o.raw, t), !.ty = other.ty]
                 ELSE o

FromInterval(o) == IF o.ty.kind = "Interval" THEN Recast(o, IntVector) ELSE o

Compatible(a, b) ==
  /\ isCompositeTy(a) /\ isCompositeTy(b) => a.kind = b.kind
  /\ HaveWider(ElementTy(a), ElementTy(b))

Wider(a, b) == getWiderType(ElementTy(a), ElementTy(b))

(* Mutant: only a vector or a matrix is widened.                           *)
WidenedComposite(o, w) ==
  IF isCompositeTy(o.ty) /\ ~isSameTypeAs(ElementTy(o.ty), w)
  THEN Recast(o, WithInner(o.ty, w)) ELSE o

Widened(o, w) ==
  IF isSameTypeAs(ElementTy(o.ty), w) THEN o
  ELSE Recast(o, IF isCompositeTy(o.ty) THEN WithInner(o.ty, w) ELSE w)

CompositeOf(a, b) == IF isCompositeTy(a) THEN a ELSE b
Shaped(a, b, inner) ==
  LET c == CompositeOf(a, b)
  IN  IF isCompositeTy(c) THEN WithInner(c, inner) ELSE inner

Operands(e, l, r, t) == [e EXCEPT !.kids = <<l.expr, r.expr>>, !.ty = t]

BothOpaque(e, l, r, want, t) ==
  Operands(e, Recast(l, want), Recast(r, want), t)

(* Both operands cast to the wider element type; scalars: the type of two  *)
(* scalars that had to be cast.                                            *)
Mixed(e, l, r, inner, scalars) ==
  LET a == FromInterval(l)
      b == FromInterval(r)
      w == Wider(a.ty, b.ty) IN
  IF ~Compatible(a.ty, b.ty) THEN Reject(e)
  ELSE Operands(e, Widened(a, w), Widened(b, w),
                IF isCompositeTy(CompositeOf(a.ty, b.ty))
                THEN WithInner(CompositeOf(a.ty, b.ty), IF inner = NoTy THEN w ELSE inner)
                ELSE IF scalars = NoTy THEN w ELSE scalars)

visitComparisonOp(e, l0, r0, want) ==
  LET l == OpaqueAs(l0, ElementTy(r0.ty), r0)
      r == OpaqueAs(r0, ElementTy(l.ty), l) IN
  CASE isOpaque(l0) /\ isOpaque(r0) ->
         Unless(isCompositeTy(want) /\ isValidForComparisonOp(want) /\ isSizeKnown(want),
                BothOpaque(e, l0, r0, want, BoolTy))
    [] ~isValidForComparisonOp(l.ty) \/ ~isValidForComparisonOp(r.ty) -> Reject(e)
    [] isSameTypeAs(l.ty, r.ty) -> Operands(e, l, r, Shaped(l.ty, r.ty, BoolTy))
    [] OTHER -> Mixed(e, l, r, BoolTy, NoTy)

visitArithmeticOp(e, l0, r0, want) ==
  LET l == OpaqueAs(l0, ElementTy(r0.ty), r0)
      r == OpaqueAs(r0, ElementTy(l.ty), l) IN
  CASE isOpaque(l0) /\ isOpaque(r0) ->
         Unless(isValidForComparisonOp(want) /\ isTypeSizeKnown(want),
                BothOpaque(e, l0, r0, want, want))
    [] ~isValidForArithOps(l.ty) \/ ~isValidForArithOps(r.ty) -> Reject(e)
    [] isSameTypeAs(l.ty, r.ty) -> Operands(e, l, r, l.ty)
    [] OTHER -> Mixed(e, l, r, NoTy, NoTy)

(* == and != on operands an interval of which has become a vector.         *)
Equality(e, l, r) ==
  CASE ~isValidForEq(l.ty) \/ ~isValidForEq(r.ty) -> Reject(e)
    [] isSameTypeAs(l.ty, r.ty) -> Operands(e, l, r, BoolTy)
    [] ~Compatible(l.ty, r.ty)  -> Reject(e)
    [] OTHER -> LET w == Wider(l.ty, r.ty)
                IN  Operands(e, Widened(l, w), Widened(r, w), BoolTy)

(* The other logical operators are only supported for booleans.            *)
OnBooleans(e, l, r) ==
  Unless(/\ isCompositeTy(l.ty) /\ isCompositeTy(r.ty) => l.ty.kind = r.ty.kind
         /\ ElementTy(l.ty) = BoolTy /\ ElementTy(r.ty) = BoolTy,
         Operands(e, l, r, Shaped(l.ty, r.ty, BoolTy)))

visitLogicalOp(e, l0, r0, want) ==
  LET l == FromInterval(OpaqueAs(l0, r0.ty, r0))
      r == FromInterval(OpaqueAs(r0, l0.ty, l0)) IN
  CASE isOpaque(l0) /\ isOpaque(r0) ->
         Unless(isValidForComparisonOp(want), BothOpaque(e, l0, r0, want, want))
    [] e.op \in EqOps -> Equality(e, l, r)
    [] OTHER          -> OnBooleans(e, l, r)
-----------------------------------------------------------------------------
visitUnaryOp(e, x) ==
  Unless(IF e.op = "not" THEN isValidForUnaryNot(x.ty) ELSE isValidForUnaryAddOrSub(x.ty),
         [e EXCEPT !.kids = <<x>>,
                   !.ty = IF isCompositeTy(x.ty) THEN WithInner(x.ty, InnerTy(x.ty)) ELSE x.ty])

visitMemberAccess(e, x) ==
  IF x.ty.kind = "Tuple" /\ e.arg.n <= Len(x.ty.members)
  THEN [e EXCEPT !.kids = <<x>>, !.ty = x.ty.members[e.arg.n]] ELSE Reject(e)

(* visitTypeCast and visitExplicitCast.                                    *)
visitCast(e, x) ==
  LET t == e.arg.ty
      direct == isCompositeTy(t) => \/ isCompositeTy(x.ty) \/ x.ty.kind = "Interval"
                                    \/ isSameTypeAs(x.ty, InnerTy(t)) IN
  Unless(isCompositeTy(x.ty) => isCompositeTy(t),
         [e EXCEPT !.kids = << IF direct THEN x ELSE wrapWithCastTo(x, InnerTy(t)) >>,
                   !.ty = t])

IndexType(x) == IF x.ty.kind = "Interval" THEN Recast(Operand(x), IntVector) ELSE Operand(x)
isIndex(t) == t = IntTy \/ (t.kind = "Vector" /\ t.inner = "Int")

(* A vector takes one index, a matrix two.                                 *)
visitIndex(e, xs) ==
  LET base == xs[1]
      is == [i \in 1..Len(xs) - 1 |-> IndexType(xs[i + 1])]
      vs == SelectSeq(is, LAMBDA o : o.ty.kind = "Vector")
      t  == CASE vs = <<>> -> InnerTy(base.ty)
              [] Len(vs) = 2 -> Matrix(base.ty.inner, vs[1].ty.size, Unknown)
              [] OTHER -> Vector(base.ty.inner, vs[1].ty.size, Unknown) IN
  IF /\ isCompositeTy(base.ty)
     /\ Len(is) = IF base.ty.kind = "Vector" THEN 1 ELSE 2
     /\ \A i \in DOMAIN is : isIndex(is[i].ty)
  THEN [e EXCEPT !.kids = <<base>> \o [i \in DOMAIN is |-> is[i].expr], !.ty = t]
  ELSE Reject(e)

visitInterval(e, x, y) ==
  LET Bound(o) == IF isOpaque(o) THEN Recast(o, IntTy) ELSE o
      lower == Bound(Operand(x))
      upper == Bound(Operand(y)) IN
  Unless(lower.ty = IntTy \/ upper.ty = IntTy, Operands(e, lower, upper, IntervalTy))

visitByOp(e, x, y) ==
  LET base == FromInterval(Operand(x))
      by   == IF isOpaqueTy(y.ty) THEN Recast(base, IntTy) ELSE Operand(y) IN
  IF by.ty = IntTy /\ base.ty.kind = "Vector"
  THEN Operands(e, base, by, Vector(base.ty.inner, Unknown, Unknown)) ELSE Reject(e)

(* An interval on the right wraps the operand on the left.                 *)
visitDotProduct(e, x, y) ==
  LET l1 == FromInterval(Operand(x))
      l  == IF y.ty.kind = "Interval" THEN [Recast(l1, IntVector) EXCEPT !.ty = l1.ty] ELSE l1
      r  == IF y.ty.kind = "Interval" THEN [Operand(y) EXCEPT !.ty = IntVector] ELSE Operand(y)
      w  == Wider(l.ty, r.ty)
      Whole(k) == [kind |-> l.ty.kind, inner |-> k, size |-> Unknown, len |-> Unknown]
      Cast(o) == IF isSameTypeAs(InnerTy(o.ty), w) THEN o ELSE Recast(o, Whole(w.kind)) IN
  IF isCompositeTy(l.ty) /\ r.ty.kind = l.ty.kind /\ Compatible(l.ty, r.ty)
  THEN Operands(e, Cast(l), Cast(r), IF l.ty.kind = "Vector" THEN w ELSE Whole(w.kind))
  ELSE Reject(e)

(* What is no vector is made a vector of one element, on the left of the   *)
(* type of the other operand.                                              *)
visitConcat(e, x, y) ==
  LET l == Operand(x)
      r == IF y.ty.kind = "Vector" THEN Operand(y)
           ELSE Recast(Operand(y), Vector(y.ty.kind, 1, 1))
      known == isSizeKnown(l.ty) /\ isSizeKnown(r.ty)
      w == Wider(l.ty, r.ty) IN
  CASE x.ty.kind # "Vector" \/ ElementTy(y.ty).kind \notin ScalarKinds \union OpaqueKinds
         -> Reject(e)
    [] isSameTypeAs(InnerTy(l.ty), InnerTy(r.ty))
         -> Operands(e, l, r, Vector(l.ty.inner, Unknown, Unknown))
    [] ~HaveWider(InnerTy(l.ty), InnerTy(r.ty)) -> Reject(e)
    [] OTHER -> Operands(e, Widened(l, w), Widened(r, w),
                  Vector(w.kind, IF known THEN l.ty.size + r.ty.size ELSE Unknown, Unknown))
-----------------------------------------------------------------------------
visitTupleLiteral(e, xs) ==
  [e EXCEPT !.kids = xs, !.ty = Tuple([i \in DOMAIN xs |-> xs[i].ty])]

(* The widest of the types, met from the first to the last: Rejected when  *)
(* one of them and the widest before it have none.                         *)
WidestOf(ts) ==
  FoldLeft(LAMBDA w, t : IF w = Rejected \/ ~HaveWider(w, t) THEN Rejected
                         ELSE getWiderType(w, t),
           ts[1], Tail(ts))

(* xs are the children as the loop that looks for the widest type meets    *)
(* them, ys as the loop that casts them does.                              *)
VectorOf(e, xs, ys) ==
  LET w == WidestOf([i \in DOMAIN xs |-> xs[i].ty])
      Cast(y) == IF isSameTypeAs(y.ty, w) THEN y ELSE wrapWithCastTo(y, w) IN
  IF w = Rejected THEN Reject(e)
  ELSE [e EXCEPT !.kids = [i \in DOMAIN ys |-> Cast(ys[i])],
                 !.ty = Vector(w.kind, Len(ys), Unknown)]

MatrixOf(e, xs, ys) ==
  LET Row(x) == FromInterval(Operand(x))
      rows == [i \in DOMAIN xs |-> Row(xs[i])]
      w == WidestOf([i \in DOMAIN rows |-> InnerTy(rows[i].ty)])
      Cast(o) == IF isSameTypeAs(InnerTy(o.ty), w) THEN o.expr
                 ELSE wrapWithCastTo(o.expr, Vector(w.kind, Unknown, Unknown)) IN
  IF \E i \in DOMAIN rows : rows[i].ty.kind # "Vector" THEN Reject(e)
  ELSE IF w = Rejected THEN Reject(e)
  ELSE [e EXCEPT !.kids = [i \in DOMAIN ys |-> Cast(Row(ys[i]))],
                 !.ty = Matrix(w.kind, Len(ys), Unknown)]

visitVectorLiteral(e, xs, ys) ==
  CASE e.kids = <<>> -> Typed(e, Vector("Int", 0, 0))
    [] \E i \in DOMAIN xs : isCompositeTy(xs[i].ty) \/ xs[i].ty.kind = "Interval"
                     -> MatrixOf(e, xs, ys)
    [] OTHER         -> VectorOf(e, xs, ys)

(* length and reverse.                                                     *)
visitBuiltIn(e, x) ==
  [e EXCEPT !.kids = <<x>>, !.ty = IF e.op = "length" THEN IntTy ELSE x.ty]
-----------------------------------------------------------------------------
(* One visit: the expression with its types and casts, Rejected if the     *)
(* visitor throws.  The children of a vector literal are visited again by  *)
(* each of its loops.                                                      *)
RECURSIVE Annotate(_, _)
Annotate(e, want) ==
  LET Visit(xs) == [i \in DOMAIN xs |-> Annotate(xs[i], want)]
      xs == Visit(e.kids)
      x == xs[1]
      y == xs[2] IN
  CASE \E i \in DOMAIN xs : xs[i].ty = Rejected -> Reject(e)
    [] e.op \in {"Literal", "Identifier", "Call", "Opaque"} -> Typed(e, e.arg.ty)
    [] e.op \in ComparisonOps -> visitComparisonOp(e, Operand(x), Operand(y), want)
    [] e.op \in ArithOps      -> visitArithmeticOp(e, Operand(x), Operand(y), want)
    [] e.op \in LogicalOps    -> visitLogicalOp(e, Operand(x), Operand(y), want)
    [] e.op \in {"not", "neg"}     -> visitUnaryOp(e, x)
    [] e.op = "MemberAccess"  -> visitMemberAccess(e, x)
    [] e.op = "TupleLiteral"  -> visitTupleLiteral(e, xs)
    [] e.op = "VectorLiteral" -> visitVectorLiteral(e, Visit(xs), Visit(Visit(xs)))
    [] e.op \in {"TypeCast", "ExplicitCast"} -> visitCast(e, x)
    [] e.op = "Index"    -> visitIndex(e, xs)
    [] e.op = "Interval" -> visitInterval(e, x, y)
    [] e.op = "by"       -> visitByOp(e, x, y)
    [] e.op = "dot"      -> visitDotProduct(e, x, y)
    [] e.op = "concat"   -> visitConcat(e, x, y)
    [] e.op \in {"length", "reverse"} -> visitBuiltIn(e, x)

(* The expression of a statement: what is printed, and a condition, are    *)
(* cast when they have no type of their own.                               *)
visitOutStream(e) ==
  CASE e.ty.kind = "Interval" -> wrapWithCastTo(e, IntVector)
    [] isOpaqueTy(e.ty)       -> wrapWithCastTo(e, Simple("Char"))
    [] OTHER                  -> e

visitConditional(e) == IF isOpaqueTy(e.ty) THEN wrapWithCastTo(e, BoolTy) ELSE e
=============================================================================
