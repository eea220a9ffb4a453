-------------------------- MODULE ExpressionMeaning --------------------------
(***************************************************************************)
(* What the programmer means by an expression, from the operators alone    *)
(* and with no casts but the explicit ones: integers promote to reals,     *)
(* scalars and intervals to vectors, and null or identity take the type of *)
(* the other operand or of the target.  An operation without a meaning     *)
(* (lengths that differ, an index out of bounds) is undefined.             *)
(***************************************************************************)
EXTENDS Expressions

Meant(t, v) == [ty |-> t, val |-> v]
Undefined == Meant(NoTy, <<>>)
isDefined(x) == x.ty # NoTy

OpaqueNumber(opaque, kind) == IF opaque = "Null" THEN 0 ELSE OneOf(kind)

RECURSIVE OpaqueValue(_, _)
OpaqueValue(opaque, t) ==
  LET n == OpaqueNumber(opaque, ElementTy(t).kind) IN
  CASE t.kind = "Vector"   -> Copies(n, t.len)
    [] t.kind = "Matrix"   -> Squared(n, t.len)
    [] t.kind = "Interval" -> << <<n, n>> >>
    [] t.kind = "Tuple"    -> [i \in DOMAIN t.members |->
                                OpaqueValue(opaque, t.members[i])[1]]
    [] OTHER               -> Scalar(n)

RECURSIVE Convert(_, _)
Convert(x, t) ==
  LET Number(n) == ConvertScalar(ElementTy(x.ty).kind, ElementTy(t).kind, n)
      n == x.val[1][1] IN
  CASE ~isDefined(x)       -> Undefined
    [] t = NoTy            -> x
    [] isOpaqueTy(x.ty)    -> Meant(t, OpaqueValue(x.ty.kind, t))
    [] t.kind = "Tuple"    -> Meant(t, [i \in DOMAIN t.members |->
         Convert(Meant(x.ty.members[i], <<x.val[i]>>), t.members[i]).val[1]])
    [] t.kind = "Interval" -> x
    [] x.ty.kind = "Interval" ->
         LET s == Elements(n, x.val[1][2]) IN
         Meant(t, << Padded([j \in DOMAIN s |-> ConvertScalar("Int", t.inner, s[j])], t.len) >>)
    [] isCompositeTy(x.ty) -> Meant(t, [i \in DOMAIN x.val |->
         Padded([j \in DOMAIN x.val[i] |-> Number(x.val[i][j])], t.len)])
    [] t.kind = "Vector"   -> Meant(t, Copies(Number(n), t.len))
    [] t.kind = "Matrix"   -> Meant(t, Squared(Number(n), t.len))
    [] OTHER               -> Meant(t, Scalar(Number(n)))

WiderKind(a, b) == IF "Real" \in {a, b} THEN "Real" ELSE a
WidestKind(kinds) == IF "Real" \in kinds THEN "Real" ELSE CHOOSE k \in kinds : TRUE
-----------------------------------------------------------------------------
(* Each operand as the other and the target ask: an opaque one takes a     *)
(* type, an interval becomes a vector unless both are intervals.           *)
Spread(x, y) ==
  IF isDefined(x) /\ x.ty.kind = "Interval" /\ y.ty.kind # "Interval"
     /\ ~isOpaqueTy(y.ty)
  THEN Convert(x, IntVector) ELSE x

Taken(x, y, want) ==
  Spread(IF isOpaqueTy(x.ty)
         THEN Convert(x, IF isOpaqueTy(y.ty) THEN want ELSE ElementTy(y.ty)) ELSE x, y)

Broadcast(x, y) ==
  IF isCompositeTy(y.ty) /\ ~isCompositeTy(x.ty)
  THEN [i \in DOMAIN y.val |-> [j \in DOMAIN y.val[i] |-> x.val[1][1]]] ELSE x.val

HasZero(v) == \E i \in DOMAIN v : \E j \in DOMAIN v[i] : v[i][j] = 0
SameShape(v, w) == Len(v) = Len(w) /\ \A i \in DOMAIN v : Len(v[i]) = Len(w[i])

ShapedAs(x, y, kind) ==
  CASE isCompositeTy(x.ty) -> WithInner(x.ty, Simple(kind))
    [] isCompositeTy(y.ty) -> WithInner(y.ty, Simple(kind))
    [] OTHER               -> Simple(kind)

(* Two operands of simple or composite types.                              *)
Elementwise(op, x, y) ==
  LET xk == ElementTy(x.ty).kind
      yk == ElementTy(y.ty).kind
      w  == WiderKind(xk, yk)
      v  == Broadcast(x, y)
      u  == Broadcast(y, x)
      F(a, b) == Compute(op, w, ConvertScalar(xk, w, a), ConvertScalar(yk, w, b)) IN
  IF ~SameShape(v, u) \/ (op = "/" /\ HasZero(u)) THEN Undefined
  ELSE Meant(ShapedAs(x, y, IF op \in ArithOps THEN w ELSE "Bool"), Pairwise(F, v, u))

AllTrue(v)   == \A i \in DOMAIN v : \A j \in DOMAIN v[i] : v[i][j] # 0
AllOf(x)     == IF isDefined(x) THEN Meant(BoolTy, Scalar(Truth(AllTrue(x.val)))) ELSE x
Negated(x)   == IF isDefined(x) THEN Meant(BoolTy, Scalar(1 - x.val[1][1])) ELSE x

OnIntervals(op, x, y) ==
  LET a == x.val[1]
      b == y.val[1]
      p == {a[i] * b[j] : i, j \in {1, 2}}
      Least == CHOOSE n \in p : \A m \in p : n <= m
      Most  == CHOOSE n \in p : \A m \in p : n >= m IN
  CASE op = "+" -> Meant(IntervalTy, << <<a[1] + b[1], a[2] + b[2]>> >>)
    [] op = "-" -> Meant(IntervalTy, << <<a[1] - b[2], a[2] - b[1]>> >>)
    [] op = "*" -> Meant(IntervalTy, << <<Least, Most>> >>)
    [] OTHER    -> Undefined

RECURSIVE Equal(_, _)
Equal(x, y) ==
  IF x.ty.kind = "Tuple"
  THEN Meant(BoolTy, Scalar(Truth(\A i \in DOMAIN x.val :
         Equal(Meant(x.ty.members[i], <<x.val[i]>>),
               Meant(y.ty.members[i], <<y.val[i]>>)).val = Scalar(1))))
  ELSE IF x.ty.kind = "Interval"
  THEN Meant(BoolTy, Scalar(Truth(x.val = y.val)))
  ELSE AllOf(Elementwise("==", x, y))

OnTaken(op, x, y) ==
  CASE ~isDefined(x) \/ ~isDefined(y) -> Undefined
    [] op = "==" -> Equal(x, y)
    [] op = "!=" -> Negated(Equal(x, y))
    [] op \notin EqOps /\ x.ty.kind = "Interval" -> OnIntervals(op, x, y)
    [] OTHER     -> Elementwise(op, x, y)

Binary(op, a, b, want) == OnTaken(op, Taken(a, b, want), Taken(b, a, want))
-----------------------------------------------------------------------------
RowOf(x, kind) == Convert(x, Vector(kind, Unknown, Unknown)).val[1]

(* A literal of scalars is a vector, one of vectors or intervals a matrix. *)
Listed(xs) ==
  LET isRow(x) == isCompositeTy(x.ty) \/ x.ty.kind = "Interval"
      KindOf(x) == IF x.ty.kind = "Interval" THEN "Int" ELSE ElementTy(x.ty).kind
      k  == WidestKind({KindOf(xs[i]) : i \in DOMAIN xs} \ OpaqueKinds) IN
  IF isRow(xs[1])
  THEN Meant(Matrix(k, Len(xs), Unknown), [i \in DOMAIN xs |-> RowOf(xs[i], k)])
  ELSE Meant(Vector(k, Len(xs), Unknown),
             << [i \in DOMAIN xs |-> Convert(xs[i], Simple(k)).val[1][1]] >>)

(* Elements of a vector or matrix at positions counted from one.           *)
Positions(i) == IF i.ty.kind = "Interval" THEN RowOf(i, "Int") ELSE i.val[1]
AtIndex(t, i) == IF i.ty.kind = "Int" THEN InnerTy(t) ELSE WithInner(t, InnerTy(t))

At(x, i) ==
  LET ps == Positions(i) IN
  IF \A j \in DOMAIN ps : ps[j] \in DOMAIN x.val[1]
  THEN Meant(AtIndex(x.ty, i), << [j \in DOMAIN ps |-> x.val[1][ps[j]]] >>) ELSE Undefined

AtBoth(x, i, j) ==
  LET rs == Positions(i)
      cs == Positions(j)
      picked == [a \in DOMAIN rs |-> [c \in DOMAIN cs |-> x.val[rs[a]][cs[c]]]] IN
  CASE \/ \E a \in DOMAIN rs : rs[a] \notin DOMAIN x.val
       \/ \E c \in DOMAIN cs : cs[c] \notin DOMAIN x.val[1] -> Undefined
    [] i.ty = IntTy /\ j.ty = IntTy -> Meant(InnerTy(x.ty), picked)
    [] i.ty # IntTy /\ j.ty # IntTy -> Meant(Matrix(x.ty.inner, Unknown, Unknown), picked)
    [] OTHER -> Meant(Vector(x.ty.inner, Unknown, Unknown), <<FlattenSeq(picked)>>)

Strided(x, n) ==
  Meant(x.ty, << [j \in 1..((Len(x.val[1]) + n - 1) \div n) |-> x.val[1][1 + (j - 1) * n]] >>)

AsVector(x) == IF x.ty.kind = "Interval" THEN Convert(x, IntVector) ELSE x

Total(s) == FoldSeq(LAMBDA n, acc : n + acc, 0, s)

TotalOf(p) == IF isDefined(p) THEN Meant(InnerTy(p.ty), Scalar(Total(p.val[1]))) ELSE p
DotRows(a, b) == TotalOf(Elementwise("*", a, b))

(* The product of two vectors, or of two matrices.                         *)
Dotted(a, b) ==
  LET Column(k) == [i \in DOMAIN b.val |-> b.val[i][k]]
      Vec(t, s) == Meant(Vector(t.inner, Unknown, Unknown), <<s>>)
      Cell(i, k) == DotRows(Vec(a.ty, a.val[i]), Vec(b.ty, Column(k)))
      kind == WiderKind(ElementTy(a.ty).kind, ElementTy(b.ty).kind) IN
  CASE a.ty.kind # "Matrix" -> DotRows(AsVector(a), AsVector(b))
    [] Len(a.val[1]) # Len(b.val) -> Undefined
    [] OTHER -> Meant(WithInner(a.ty, Simple(kind)),
         [i \in DOMAIN a.val |-> [k \in DOMAIN b.val[1] |-> Cell(i, k).val[1][1]]])

Joined(a, b) ==
  LET k == WidestKind({ElementTy(AsVector(x).ty).kind : x \in {a, b}} \ OpaqueKinds)
      Part(x) == Convert(x, Vector(k, Unknown, IF isCompositeTy(x.ty) \/ x.ty.kind = "Interval"
                                               THEN Unknown ELSE 1)).val[1] IN
  Meant(Vector(k, Unknown, Unknown), <<Part(a) \o Part(b)>>)

Opposite(x) ==
  IF x.ty.kind = "Interval" THEN Meant(x.ty, << <<-x.val[1][2], -x.val[1][1]>> >>)
  ELSE Meant(x.ty, Map(LAMBDA n : -n, x.val))

AsBound(x) == Convert(x, IntTy).val[1][1]

(* An operator applied to what its operands mean.                          *)
Applied(e, xs, want) ==
  LET x == xs[1]
      y == xs[2] IN
  CASE \E i \in DOMAIN xs : ~isDefined(xs[i]) -> Undefined
    [] e.op \in {"Literal", "Identifier", "Call"} -> Meant(e.arg.ty, e.arg.val)
    [] e.op = "Opaque"        -> Meant(e.arg.ty, Scalar(0))
    [] e.op \in BinaryOps     -> Binary(e.op, x, y, want)
    [] e.op = "not"           -> Meant(x.ty, Map(LAMBDA n : 1 - n, x.val))
    [] e.op = "neg"           -> Opposite(x)
    [] e.op = "ExplicitCast"  -> Convert(x, e.arg.ty)
    [] e.op = "TupleLiteral"  -> Meant(Tuple([i \in DOMAIN xs |-> xs[i].ty]),
                                       [i \in DOMAIN xs |-> xs[i].val[1]])
    [] e.op = "MemberAccess"  -> Meant(x.ty.members[e.arg.n], <<x.val[e.arg.n]>>)
    [] e.op = "VectorLiteral" -> Listed(xs)
    [] e.op = "Interval"      -> Meant(IntervalTy, << <<AsBound(x), AsBound(y)>> >>)
    [] e.op = "by"            -> Strided(AsVector(x), AsBound(y))
    [] e.op = "dot"           -> Dotted(x, y)
    [] e.op = "concat"        -> Joined(x, y)
    [] e.op = "Index"         -> IF Len(xs) = 2 THEN At(x, y) ELSE AtBoth(x, y, xs[3])
    [] e.op = "length"        -> Meant(IntTy, Scalar(Len(x.val[1])))
    [] e.op = "reverse"       -> Meant(x.ty, <<Reverse(x.val[1])>>)

RECURSIVE Meaning(_, _)
Meaning(e, want) ==
  Applied(e, [i \in DOMAIN e.kids |-> Meaning(e.kids[i], want)], want)
=============================================================================
