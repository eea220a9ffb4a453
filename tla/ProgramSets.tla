----------------------------- MODULE ProgramSets -----------------------------
(***************************************************************************)
(* Bodies of main with two names, declared, shadowed and bound by loops    *)
(* and generators in every arrangement; every order of globals, routines   *)
(* and forward declarations; and calls and unpackings.                     *)
(***************************************************************************)
EXTENDS Execution

One   == Literal(<<1>>)
Two   == Literal(<<2>>)
List  == Literal(<<3, 4>>)
Xs    == {"x", "y"}
Main(stmts) == Procedure("main", <<>>, stmts)
OnlyMain(stmts) == Program(<<Main(stmts)>>)

Values  == {One, Name("x"), Name("y")}
Simple  == {Declaration(x, e) : x \in Xs, e \in Values}
             \union {Assign(x, e) : x \in Xs, e \in {Two, Name("x")}}
             \union {Output(e) : e \in Values}
Domain2 == {List, Name("x")}
Nonzero == {Filter(y, d, Name(y)) : y \in Xs, d \in Domain2}
Lists   == {Generator(y, d, e) : y \in Xs, d \in Domain2, e \in Values}
             \union {Generator(x, d, e) : x \in Xs, d \in Nonzero, e \in Values}
             \union {Matrix(r, c, List, d, e) : r, c \in Xs, d \in Domain2, e \in Values}
Blocks  == {Block(<<s>>) : s \in Simple}
Around  == Blocks \union {Loop(x, d, b) : x \in Xs, d \in Domain2, b \in Blocks}
             \union {Declaration("x", e) : e \in Lists} \union {Output(e) : e \in Lists}
Prints  == {Output(Name(x)) : x \in Xs}
Starts  == {Declaration("x", List), Declaration("y", Two)}

(* Types are left out of the model, and so the bodies are those that have  *)
(* them right: lists and scalars are used as such.  A name of no           *)
(* declaration passes, it is what scope resolution is there to find.       *)
KindOf(e, env) ==
  CASE e.k = "literal" -> IF Len(e.val) = 1 THEN "scalar" ELSE "list"
    [] e.k = "name" /\ e.xs[1] \in DOMAIN env -> env[e.xs[1]]
    [] e.k \in DomainKind \ {"loop"} -> "list"
    [] OTHER -> "unknown"
WithDeclared(env, d) ==
  IF d.k = "declaration" THEN Store(env, d.xs[1], KindOf(d.kids[1], env)) ELSE env
Before(stmts, i, env) == FoldLeft(WithDeclared, env, SubSeq(stmts, 1, i - 1))

RECURSIVE Typed(_, _)
Typed(t, env) ==
  CASE t.k = "block" -> \A i \in DOMAIN t.kids : Typed(t.kids[i], Before(t.kids, i, env))
    [] t.k = "assignment" ->
         {KindOf(t.kids[1], env), KindOf(t.kids[2], env)} # {"scalar", "list"}
    [] t.k \in DomainKind ->
         LET inner == FoldLeft(LAMBDA m, x : Store(m, x, "scalar"), env, t.xs) IN
         /\ \A d \in ToSet(Front(t.kids)) : Typed(d, env) /\ KindOf(d, env) # "scalar"
         /\ Typed(Last(t.kids), inner) /\ KindOf(Last(t.kids), inner) # "list"
    [] OTHER -> \A kid \in ToSet(t.kids) : Typed(kid, env)

Bodies  == {b \in {<<Declaration("x", List), Declaration("y", Two), s, t, Output(Name("x"))>> :
                     s \in Around, t \in Blocks}
                    \union {<<r, s, t>> : r \in Starts, s \in Around, t \in Prints} :
              Typed(Block(b), <<>>)}

(* Unpackings, also in blocks and twice in a row.                          *)
Pairs == {Tuple(<<d, e>>) : d, e \in Values}
Swaps == {Unpack(<<x, y>>, e) : x, y \in Xs, e \in Pairs}
Again == Unpack(<<"y", "x">>, Tuple(<<Name("x"), Name("y")>>))
Below == Block(<<Declaration("x", One), Unpack(<<"x", "y">>, Tuple(<<Two, One>>))>>)
Unpackings == {<<Declaration("x", One), Declaration("y", Two), s, t>> \o <<Output(Name("x")), Output(Name("y"))>> :
                 s \in Swaps, t \in {Again, Below}}

(* Top-level items in every order of four, out of globals and routines     *)
(* that read and call one another.                                         *)
G == Declaration("g", Two)
H == Declaration("h", Name("g"))
K == Declaration("h", Call("f", <<One>>))
F == Function("f", <<"x">>, <<Return(Name("g"))>>)
FDecl  == Forward("function declaration", "f", <<"x">>)
FOther == Forward("procedure declaration", "f", <<"x">>)
FWide  == Forward("function declaration", "f", <<"x", "y">>)
P == Procedure("p", <<"g">>, <<Output(Name("g")), Output(Call("f", <<Name("g")>>))>>)
PDecl == Forward("procedure declaration", "p", <<"g">>)
Q == Procedure("q", <<"x", "x">>, <<Output(Name("x"))>>)
M1 == Main(<<Output(Call("f", <<Two>>)), CallStmt("p", <<One>>)>>)
M2 == Main(<<Output(Name("h"))>>)
M3 == Main(<<Output(Call("f", <<Two, One>>)), CallStmt("p", <<One>>)>>)
M4 == Main(<<Output(Call("f", <<One>>))>>)
M5 == Main(<<Declaration("f", One), Output(Call("f", <<One>>))>>)
Items == {G, H, K, F, FDecl, P, M1, M2, M4}
Odd   == {FOther, FWide, Q, M3, M5}
Apart(s) == Cardinality({s[i] : i \in DOMAIN s}) = Len(s)
Orders == {Program(s) : s \in {r \in [1 .. 4 -> Items] : Apart(r)}}
            \union {Program(<<a, b, c, d>>) : a \in {G, F}, b \in {F, P} \union Odd,
                                              c \in {P, F} \union Odd, d \in {M1, M4} \union Odd}
            \union {Program(<<FDecl, PDecl, a, b, c, d>>) : a, b, c, d \in {G, F, P, M1}}

Mains == {Main(b) : b \in Bodies \union Unpackings}
Sources == {Program(<<m>>) : m \in Mains} \union Orders

(* Every node of these programs.                                           *)
KidsOf(ts) == ts \union {n[1].kids[n[2]] : n \in {m \in ts \X (1 .. 5) : m[2] \in DOMAIN m[1].kids}}
Small == Around \union Starts \union Prints \union Swaps \union {Again, Below}
           \union {G, H, K, F, FDecl, FOther, FWide, P, PDecl, Q, M1, M2, M3, M4, M5}
           \union {Declaration("x", One)}
Trees == Sources \union Mains \union {m.kids[1] : m \in Mains}
            \union KidsOf(KidsOf(KidsOf(KidsOf(KidsOf(Small)))))

RECURSIVE Depth(_)
Depth(t) == 1 + FoldSeq(LAMBDA kid, d : LET n == Depth(kid) IN IF n > d THEN n ELSE d, 0, t.kids)
Depths == [t \in Trees |-> Depth(t)]
=============================================================================
