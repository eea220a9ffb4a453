------------------------- MODULE MCExpressionPipeline -------------------------
(***************************************************************************)
(* Statements over names and literals of every type: every operator on     *)
(* every pair of them, and operators below operators, casts and tuples.    *)
(***************************************************************************)
EXTENDS ExpressionPipeline

Real  == Simple("Real")
Char  == Simple("Char")
IntVec2  == Vector("Int", Unknown, 2)
RealVec2 == Vector("Real", Unknown, 2)
BoolVec2 == Vector("Bool", Unknown, 2)
IntVec3  == Vector("Int", Unknown, 3)
IntMat2  == Matrix("Int", Unknown, 2)
Pair  == Tuple(<<IntTy, Real>>)
Ints  == Tuple(<<IntTy, IntTy>>)
Flags == Tuple(<<BoolTy, IntTy>>)

n == Identifier(IntTy, Scalar(2))
x == Identifier(Real, Scalar(3))
b == Identifier(BoolTy, Scalar(1))
v == Identifier(IntVec2, << <<3, 2>> >>)
u == Identifier(RealVec2, << <<3, 4>> >>)
w == Identifier(BoolVec2, << <<1, 0>> >>)
m == Identifier(IntMat2, << <<1, 2>>, <<3, 4>> >>)
t == Identifier(Pair, << <<2>>, <<3>> >>)
s == Identifier(Ints, << <<2>>, <<5>> >>)
range == Op("Interval", Literal("Int", 2), Literal("Int", 3))
half == Op("Interval", Literal("Int", 1), x)
one == VectorLiteral(<<Literal("Int", 1), Literal("Int", 3)>>)

Simples == {n, x, b, Literal("Char", 65), NullLiteral, IdentityLiteral}
Lists   == {v, u, w, m, range, one}
Tuples  == {t, s, TupleLiteral(<<n, NullLiteral>>)}
Atoms   == Simples \union Lists \union Tuples

Operators == {"+", "/", "<", "and", "==", "!="}
Lists2 == {"by", "dot", "concat"}
Applied(ops, ls, rs) == {Op(op, l, r) : op \in ops, l \in ls, r \in rs}
Cells == {n, Literal("Int", 1), one, range, x}
MatrixAt == {Node("Index", NoArg, <<m, i, j>>) : i, j \in Cells}
Indexed(es) == {Node("Index", NoArg, <<l, r>>) : l \in Lists, r \in es}
Unaries(es) == {Unary(op, e) : op \in {"not", "neg", "length", "reverse"}, e \in es}

Targets == {BoolTy, IntTy, Real, Char, IntervalTy, IntVec2, RealVec2, IntVec3,
            Vector("Int", Unknown, Unknown), Vector("Real", Unknown, Unknown),
            Pair, Ints, Flags}

Casted(es)  == {ExplicitCast(e, ty) : e \in es, ty \in Targets}

P == Call(Pair, << <<2>>, <<3>> >>, 1)
Q == Call(IntTy, Scalar(4), 2)

Stmt(ctx, ty, e) == [ctx |-> ctx, ty |-> ty, e |-> e]

Flat == Atoms \union Applied(Operators \union Lists2, Atoms, Atoms)
              \union Indexed(Atoms) \union Unaries(Atoms) \union Casted(Atoms) \union MatrixAt

Some == {n, x, b, v, NullLiteral, range, s, t}
Inner == Applied({"-", "==", "!="}, Some, Some) \union {Q, P}
Ranges == {half, Op("Interval", NullLiteral, n), Op("by", range, n), Op("by", half, n)}
Nested == Ranges \union Applied({"*", "==", "and"}, Inner, {n, b, v, s})
          \union Applied({"<", "or"}, {b, u}, Inner) \union Unaries(Inner)
          \union {VectorLiteral(<<e, x>>) : e \in Inner \union Atoms}
          \union {VectorLiteral(<<e, one>>) : e \in Lists}
          \union {TupleLiteral(<<e, Q>>) : e \in {n, x, NullLiteral}}
          \union Casted({Q, P, ExplicitCast(n, Char), ExplicitCast(x, IntTy), Op("-", s, s)})

Stored0 == Atoms \union {Q, P, Op("+", n, x), Op("+", v, x), Op("==", t, s),
                         Op("+", NullLiteral, NullLiteral), ExplicitCast(s, Pair),
                         VectorLiteral(<<n, x>>), TupleLiteral(<<Q, NullLiteral>>)}

MCSources ==
  {Stmt("print", NoTy, e) : e \in Flat \union Nested}
  \union {Stmt("if", NoTy, e) : e \in Atoms \union Applied({"<", "==", "!="}, Atoms, Some)}
  \union {Stmt("decl", NoTy, e) : e \in Stored0}
  \union {Stmt(c, ty, e) : c \in {"decl", "return"}, ty \in Targets, e \in Stored0}
  \union {Stmt("assign", ty, e) : ty \in Targets \ {Vector("Int", Unknown, Unknown),
                                    Vector("Real", Unknown, Unknown)}, e \in Stored0}

=============================================================================
