--------------------------- MODULE ExpressionCodegen ---------------------------
(***************************************************************************)
(* CodeGenPass on the expressions the passes hand it, and the functions of *)
(* the runtime the code it emits calls (vectors.c, matrix.c, casting.c).   *)
(* Lower gives the value the compiled expression computes, or says that    *)
(* the code generator refuses it (an exception, an assertion, ill-typed    *)
(* code), that the program stops (exit(1)), or that it does what C leaves  *)
(* undefined.  Rows are counted from one; reals, as elsewhere, in halves.  *)
(***************************************************************************)
EXTENDS ExpressionPasses

Value(v)  == [st |-> "value", val |-> v]
Refused   == [st |-> "refused", val |-> <<>>]
Stopped   == [st |-> "stopped", val |-> <<>>]
Undefined == [st |-> "undefined", val |-> <<>>]
If(ok, r, other) == IF ok THEN r ELSE other
-----------------------------------------------------------------------------
(* The runtime on the rows of vectors and matrices.  The loops run over    *)
(* the first operand; the second is read beside it whatever its length.    *)
Covers(w, v) == /\ Len(w) >= Len(v)
                /\ \A i \in DOMAIN v : Len(w[i]) >= Len(v[i])

DividesByZero(v, w) == \E i \in DOMAIN v : \E j \in DOMAIN v[i] : w[i][j] = 0

rt_arith(op, kind, v, w) ==
  LET F(a, b) == Compute(op, kind, a, b) IN
  CASE kind \notin {"Int", "Real"} -> Stopped
    [] ~Covers(w, v)               -> Undefined
    [] op = "/" /\ kind = "Int" /\ DividesByZero(v, w) -> Undefined
    [] OTHER                       -> Value(Pairwise(F, v, w))

rt_comp(op, kind, v, w) ==
  LET F(a, b) == Compute(op, kind, a, b) IN
  CASE kind \notin {"Int", "Real"} -> Stopped
    [] ~Covers(w, v)               -> Undefined
    [] OTHER                       -> Value(Pairwise(F, v, w))

rt_logical(op, kind, v, w) ==
  LET F(a, b) == Compute(op, kind, a, b) IN
  CASE kind # "Bool"  -> Stopped
    [] ~Covers(w, v)  -> Undefined
    [] OTHER          -> Value(Pairwise(F, v, w))

(* == stops at the first pair that differs and != at the first that is     *)
(* equal; a boolean or character vector exits after its first pair.        *)
rt_vector_eq(op, kind, a, b) ==
  LET Settles(i) == (a[i] = b[i]) = (op = "!=")
      bad == {i \in DOMAIN a : i \notin DOMAIN b \/ Settles(i)}
      first == CHOOSE i \in bad : \A j \in bad : i <= j IN
  CASE a = <<>> -> Value(Scalar(1))
    [] kind \in {"Bool", "Char"} ->
         IF b = <<>> THEN Undefined ELSE IF Settles(1) THEN Value(Scalar(0)) ELSE Stopped
    [] bad = {} -> Value(Scalar(1))
    [] OTHER    -> If(first \in DOMAIN b, Value(Scalar(0)), Undefined)

Cols(v) == IF v = <<>> THEN 0 ELSE Len(v[1])
rt_matrix_eq(op, kind, v, w) ==
  LET Row(i) == rt_vector_eq(op, kind, v[i], w[i])
      not1 == {i \in DOMAIN v : Row(i) # Value(Scalar(1))} IN
  CASE Len(v) # Len(w) \/ Cols(v) # Cols(w) -> Stopped
    [] not1 = {} -> Value(Scalar(1))
    [] OTHER     -> Row(CHOOSE i \in not1 : \A j \in not1 : i <= j)

rt_get_same_as(target, n) == [i \in DOMAIN target |-> [j \in DOMAIN target[i] |-> n]]

rt_get_casted_vector(v, size, from, to) ==
  LET F(n) == ConvertScalar(from, to, n) IN
  CASE from = "Real" /\ to = "Char" -> Undefined
    [] OTHER -> Value(<< Padded(Map(F, v)[1], size) >>)

rt_interval_vector(v, size, to) ==
  LET s == Elements(v[1][1], v[1][2])
  IN  Value(<< Padded([j \in DOMAIN s |-> ConvertScalar("Int", to, s[j])], size) >>)

(* A checked access stops out of bounds; a view checks nothing but itself. *)
InBounds(v, i) == i \in 1..Len(v)
rt_vector_access(v, i) == If(InBounds(v, i), Value(Scalar(v[i])), Stopped)
rt_vector_view(v, idx) ==
  IF \A j \in DOMAIN idx : InBounds(v, idx[j])
  THEN Value(<< [j \in DOMAIN idx |-> v[idx[j]]] >>) ELSE Undefined

rt_matrix_access(m, r, c) ==
  IF InBounds(m, r) /\ c \in 1..Cols(m) THEN rt_vector_access(m[r], c) ELSE Stopped
rt_matrix_view_matrix(m, rs, cs) ==
  IF /\ \A i \in DOMAIN rs : InBounds(m, rs[i])
     /\ \A j \in DOMAIN cs : cs[j] \in 1..Cols(m)
  THEN Value([i \in DOMAIN rs |-> [j \in DOMAIN cs |-> m[rs[i]][cs[j]]]])
  ELSE Undefined
rt_matrix_vector_get(m, at, domain) ==
  IF \A i \in DOMAIN domain : at[i].st = "value"
  THEN Value(<< [i \in DOMAIN domain |-> at[i].val[1][1]] >>) ELSE Stopped

rt_dotproduct(kind, a, b) ==
  LET Term(i) == Compute("*", kind, a[i], b[i]) IN
  IF kind \notin {"Int", "Real"} \/ Len(b) < Len(a) THEN Undefined
  ELSE Value(Scalar(FoldSeq(LAMBDA i, sum : sum + Term(i), 0, [i \in DOMAIN a |-> i])))

rt_vector_by(v, stride) ==
  IF stride < 1 THEN Undefined
  ELSE Value(<< [j \in 1..((Len(v) + stride - 1) \div stride) |-> v[1 + (j - 1) * stride]] >>)

(* rt_get_built_matrix_literal__: rows padded to the longest, element by   *)
(* element of the type of the literal.                                     *)
rt_built_matrix(rows, from, to) ==
  LET longest == CHOOSE n \in {Len(rows[i]) : i \in DOMAIN rows} :
                   \A i \in DOMAIN rows : Len(rows[i]) <= n
      Row(i) == [j \in DOMAIN rows[i] |-> ConvertScalar(from[i], to, rows[i][j])]
  IN  Value([i \in DOMAIN rows |-> Padded(Row(i), longest)])
-----------------------------------------------------------------------------
(* Operands of one shape: a scalar beside a vector or matrix is repeated.  *)
BroadcastTo(x, xt, y, yt) ==
  IF isCompositeTy(yt) /\ ~isCompositeTy(xt) THEN rt_get_same_as(y, x[1][1]) ELSE x
OperandType(xt, yt) == IF isCompositeTy(xt) THEN xt ELSE IF isCompositeTy(yt) THEN yt ELSE xt

(* Numbers of two kinds: LLVM takes no instruction on them, the runtime    *)
(* reads one as the other.                                                 *)
IllTyped(e) == IF \E i \in DOMAIN e.kids : isCompositeTy(e.kids[i].ty) THEN Undefined ELSE Refused

generateComparisonOp(e, x, y) ==
  LET lt == e.kids[1].ty
      rt == e.kids[2].ty
      t  == OperandType(lt, rt)
      l  == BroadcastTo(x, lt, y, rt)
      r  == BroadcastTo(y, rt, x, lt) IN
  CASE ElementTy(lt) # ElementTy(rt) -> IllTyped(e)
    [] isCompositeTy(t) -> rt_comp(e.op, t.inner, l, r)
    [] t.kind \in {"Int", "Real"} -> Value(Scalar(Compute(e.op, t.kind, l[1][1], r[1][1])))
    [] OTHER -> Undefined

IntervalArith(op, a, b) ==
  LET p == {a[i] * b[j] : i, j \in {1, 2}} IN
  CASE op = "+" -> Value(<< <<a[1] + b[1], a[2] + b[2]>> >>)
    [] op = "-" -> Value(<< <<a[1] - b[2], a[2] - b[1]>> >>)
    [] op = "*" -> Value(<< << CHOOSE n \in p : \A m \in p : n <= m,
                               CHOOSE n \in p : \A m \in p : n >= m >> >>)
    [] OTHER    -> Refused

generateArithmeticOp(e, x, y) ==
  LET lt == e.kids[1].ty
      rt == e.kids[2].ty
      l  == BroadcastTo(x, lt, y, rt)
      r  == BroadcastTo(y, rt, x, lt) IN
  CASE ElementTy(lt) # ElementTy(rt) -> IllTyped(e)
    [] isCompositeTy(e.ty) -> rt_arith(e.op, e.ty.inner, l, r)
    [] e.ty.kind = "Interval" -> IntervalArith(e.op, l[1], r[1])
    [] e.ty.kind = "Int" /\ e.op = "/" /\ r[1][1] = 0 -> Undefined
    [] e.ty.kind \in {"Int", "Real"} -> Value(Scalar(Compute(e.op, e.ty.kind, l[1][1], r[1][1])))
    [] OTHER -> Refused

IntervalEq(op, a, b) ==
  Value(Scalar(Truth(IF op = "==" THEN a[1] = b[1] /\ a[2] = b[2]
                                  ELSE a[1] # b[1] \/ a[2] # b[2])))

generateLogicalOp(e, x, y) ==
  LET t == e.kids[1].ty
      eq == e.op \in EqOps IN
  CASE ~isSameTypeAs(e.kids[2].ty, t) -> Refused
    [] t.kind = "Interval" -> If(eq, IntervalEq(e.op, x[1], y[1]), Refused)
    [] t.kind = "Vector"   -> IF eq THEN rt_vector_eq(e.op, t.inner, x[1], y[1])
                              ELSE rt_logical(e.op, t.inner, x, y)
    [] t.kind = "Matrix"   -> IF eq THEN rt_matrix_eq(e.op, t.inner, x, y)
                              ELSE rt_logical(e.op, t.inner, x, y)
    [] t.kind = "Tuple" \/ (t.kind = "Real" /\ ~eq) -> Refused
    [] OTHER -> Value(Scalar(Compute(e.op, t.kind, x[1][1], y[1][1])))

generateUnaryOp(e, x) ==
  LET t == e.kids[1].ty IN
  CASE e.op = "not" -> IF ElementTy(t).kind = "Bool" THEN Value(Map(LAMBDA n : 1 - n, x))
                       ELSE Refused
    [] t.kind = "Interval" -> Value(<< <<-x[1][2], -x[1][1]>> >>)
    [] OTHER -> Value(Map(LAMBDA n : -n, x))

generateIndex(e, xs) ==
  LET v == xs[1]
      isVec(i) == e.kids[i].ty.kind = "Vector"
      n(i) == xs[i][1][1]
      MatrixAt(i, j) == rt_matrix_access(v, i, j) IN
  CASE Len(xs) = 2 /\ isVec(2) -> rt_vector_view(v[1], xs[2][1])
    [] Len(xs) = 2             -> rt_vector_access(v[1], n(2))
    [] isVec(2) /\ isVec(3)    -> rt_matrix_view_matrix(v, xs[2][1], xs[3][1])
    [] isVec(2) -> rt_matrix_vector_get(v,
                     [i \in DOMAIN xs[2][1] |-> MatrixAt(xs[2][1][i], n(3))], xs[2][1])
    [] isVec(3) -> rt_matrix_vector_get(v,
                     [i \in DOMAIN xs[3][1] |-> MatrixAt(n(2), xs[3][1][i])], xs[3][1])
    [] OTHER    -> MatrixAt(n(2), n(3))
-----------------------------------------------------------------------------
(* getCastValue and CastOperation.h.                                       *)
CastsTo(from, to) ==
  CASE to = "Bool" -> from \in {"Int", "Char"}
    [] to = "Char" -> from \in {"Int", "Bool"}
    [] to = "Int"  -> from \in {"Char", "Bool", "Real"}
    [] to = "Real" -> from \in {"Int", "Char", "Bool"}
    [] OTHER       -> FALSE

getCastValue(n, from, to) ==
  If(from = to \/ CastsTo(from, to), Value(Scalar(ConvertScalar(from, to, n))), Refused)

FromScalar(n, from, t) ==
  CASE t.len = Unknown   -> Refused
    [] t.kind = "Matrix" -> Undefined
    [] from # t.inner    -> Undefined
    [] OTHER             -> Value(Copies(n, t.len))

(* Of a cast from a composite to a matrix no element can be read.          *)
FromComposite(x, from, t) ==
  CASE from.kind # t.kind   -> Refused
    [] t.kind = "Matrix"    -> Undefined
    [] OTHER                -> rt_get_casted_vector(x, t.len, from.inner, t.inner)

generateTypeCast(e, x) ==
  LET from == e.kids[1].ty
      t == e.arg.ty IN
  CASE from.kind = "Interval" /\ t.kind = "Vector" ->
         If(t.inner \in {"Int", "Real"}, rt_interval_vector(x, t.len, t.inner), Refused)
    [] ElementTy(t).kind \notin ScalarKinds \/ from.kind \in {"Interval", "Tuple"} -> Refused
    [] isCompositeTy(from) -> If(isCompositeTy(t), FromComposite(x, from, t), Refused)
    [] isCompositeTy(t)    -> FromScalar(x[1][1], from.kind, t)
    [] OTHER               -> getCastValue(x[1][1], from.kind, t.kind)

generateVectorLiteral(e, xs) ==
  CASE e.ty.kind = "Matrix" ->
         rt_built_matrix([i \in DOMAIN xs |-> xs[i][1]],
                         [i \in DOMAIN xs |-> e.kids[i].ty.inner], e.ty.inner)
    [] e.ty.inner \in ScalarKinds -> Value(<< [i \in DOMAIN xs |-> xs[i][1][1]] >>)
    [] OTHER -> Refused

(* Both bounds are stored as integers, whatever the annotator let pass.    *)
generateInterval(e, x, y) ==
  If(\A i \in {1, 2} : e.kids[i].ty = IntTy, Value(<< <<x[1][1], y[1][1]>> >>), Refused)

rt_matrix_mul(v, w, kind) ==
  LET Column(j) == [k \in DOMAIN w |-> w[k][j]] IN
  If(Cols(v) = Len(w),
     Value([i \in DOMAIN v |-> [j \in 1..Cols(w) |->
              rt_dotproduct(kind, v[i], Column(j)).val[1][1]]]), Undefined)

generateDotProduct(e, x, y) ==
  LET t == e.kids[1].ty IN
  CASE t.kind = "Vector" -> rt_dotproduct(t.inner, x[1], y[1])
    [] t.kind = "Matrix" -> rt_matrix_mul(x, y, t.inner)
    [] OTHER             -> Refused

generateBuiltIn(e, x) ==
  CASE e.kids[1].ty.kind # "Vector" -> Refused
    [] e.op = "length"  -> Value(Scalar(Len(x[1])))
    [] OTHER            -> Value(<<Reverse(x[1])>>)
-----------------------------------------------------------------------------
RECURSIVE Lower(_)
Lower(e) ==
  LET rs == [i \in DOMAIN e.kids |-> Lower(e.kids[i])]
      xs == [i \in DOMAIN rs |-> rs[i].val]
      x == xs[1]
      y == xs[2]
      failed == {i \in DOMAIN rs : rs[i].st # "value"} IN
  CASE \E i \in failed : rs[i].st = "refused" -> Refused
    [] failed # {} -> rs[CHOOSE i \in failed : \A j \in failed : i <= j]
    [] e.op \in {"Literal", "Identifier", "Call"} -> Value(e.arg.val)
    [] e.op = "Opaque"        -> Refused
    [] e.op \in ComparisonOps -> generateComparisonOp(e, x, y)
    [] e.op \in ArithOps      -> generateArithmeticOp(e, x, y)
    [] e.op \in LogicalOps    -> generateLogicalOp(e, x, y)
    [] e.op \in {"not", "neg"}    -> generateUnaryOp(e, x)
    [] e.op = "TupleLiteral"  -> Value([i \in DOMAIN xs |-> xs[i][1]])
    [] e.op = "MemberAccess"  -> Value(<<x[e.arg.n]>>)
    [] e.op = "VectorLiteral" -> generateVectorLiteral(e, xs)
    [] e.op \in {"TypeCast", "ExplicitCast"} -> generateTypeCast(e, x)
    [] e.op = "Index"    -> generateIndex(e, xs)
    [] e.op = "Interval" -> generateInterval(e, x, y)
    [] e.op = "by"       -> rt_vector_by(x[1], y[1][1])
    [] e.op = "dot"      -> generateDotProduct(e, x, y)
    [] e.op = "concat"   -> Value(<<x[1] \o y[1]>>)
    [] e.op \in {"length", "reverse"} -> generateBuiltIn(e, x)

(* The calls the generated code makes.  A cast between scalars visits its  *)
(* operand twice; the base of a member access, when it is cached, once for *)
(* all accesses to it.                                                     *)
CastsScalar(e) == /\ e.op \in {"TypeCast", "ExplicitCast"}
                  /\ ~isCompositeTy(e.arg.ty) /\ ~isCompositeTy(e.kids[1].ty)

RECURSIVE CachedBases(_)
CachedBases(e) ==
  IF e.op = "MemberAccess" THEN {e.kids[1]}
  ELSE UNION {CachedBases(e.kids[i]) : i \in DOMAIN e.kids}

RECURSIVE CallsOutside(_)
CallsOutside(e) ==
  LET below == FlattenSeq([i \in DOMAIN e.kids |-> CallsOutside(e.kids[i])]) IN
  CASE e.op = "Call"         -> <<e.arg.n>>
    [] e.op = "MemberAccess" -> <<>>
    [] CastsScalar(e)        -> below \o below
    [] OTHER                 -> below

(* Mutant: the base of an access is not cached.                            *)
ExecutedUncached(e) ==
  CallsOutside([e EXCEPT !.op = "Block"]) \o
  FlattenSeq([i \in DOMAIN Nodes(e) |->
    IF Nodes(e)[i].op = "MemberAccess" THEN CallsOutside(Nodes(e)[i].kids[1]) ELSE <<>>])

Executed(e) == CallsOutside(e) \o
  FlattenSeq(SetToSeq({CallsOutside(b) : b \in CachedBases(e)}))
-----------------------------------------------------------------------------
(* What is stored by a declaration or an assignment to a variable of type  *)
(* t, whose current length an assignment must meet.                        *)
Stored(r, from, t) ==
  IF r.st = "value" /\ ElementTy(from).kind # ElementTy(t).kind THEN Undefined ELSE r

storeDeclared(r, from, t) ==
  CASE r.st # "value" \/ ~isScalarTy(from) \/ ~isCompositeTy(t) -> Stored(r, from, t)
    [] t.len = Unknown   -> Refused
    [] t.kind = "Vector" -> Stored(Value(Copies(r.val[1][1], t.len)), from, t)
    [] OTHER             -> Stored(Value(Squared(r.val[1][1], t.len)), from, t)

rt_copy(r, t) ==
  LET Fits(v) == Len(v) = t.len IN
  IF \A i \in DOMAIN r.val : Fits(r.val[i]) THEN r ELSE Stopped

storeAssigned(r, from, t) ==
  CASE r.st # "value" \/ ~isCompositeTy(t) -> Stored(r, from, t)
    [] isScalarTy(from) /\ t.kind = "Vector" -> Stored(Value(Copies(r.val[1][1], t.len)), from, t)
    [] isScalarTy(from) -> Stored(Value(Squared(r.val[1][1], t.len)), from, t)
    [] OTHER            -> Stored(rt_copy(r, t), from, t)
=============================================================================
