------------------------ MODULE MCExpressionBuilders ------------------------
(***************************************************************************)
(* Filters of one or two predicates over up to three values, matrices of   *)
(* up to two rows, and those in which one is evaluated for another, also   *)
(* one of the same kind in a predicate or a row.                           *)
(***************************************************************************)
EXTENDS ExpressionBuilders, SequencesExt

MCValue == {0, 1, 2}
Upto(S, n) == UNION {[1 .. k -> S] : k \in 0 .. n}

FilterOf(d, b, ts, cs) == [k |-> "filter", domain |-> d, before |-> b, tests |-> ts, calls |-> cs]
MatrixOf(rs, cs) == [k |-> "matrix", rows |-> rs, calls |-> cs]
NoCalls(n) == [q \in 1 .. n |-> <<>>]

Tests == {{}, {1}, {1, 2}}
Simple ==
  {FilterOf(d, <<>>, ts, NoCalls(Len(ts))) : d \in Upto({1, 2}, 3), ts \in Upto(Tests, 2) \ {<<>>}}
Literals ==
  {MatrixOf(rs, NoCalls(Len(rs))) : rs \in Upto({<<1>>, <<1, 2>>, <<>>}, 3) \ {<<>>}}

AFilter == FilterOf(<<1, 2, 1>>, <<>>, <<{1}>>, NoCalls(1))
AMatrix == MatrixOf(<< <<1>>, <<2, 2>> >>, NoCalls(2))

(* A domain may be another filter; predicates build matrices, and rows     *)
(* build filters.                                                          *)
Domains == {<<>>, <<AFilter>>, <<AMatrix>>, <<AFilter, AMatrix>>}
Nested ==
  {FilterOf(d, b, <<S, {2}>>, <<c, <<AMatrix>> >>) :
     d \in Upto({1, 2}, 2), b \in Domains, S \in Tests, c \in {<<>>, <<AMatrix, AMatrix>>}}
NestedRows ==
  {MatrixOf(<<r, <<1>> >>, <<c, <<AFilter>> >>) :
     r \in {<<1>>, <<1, 2>>, <<>>}, c \in {<<>>, <<AFilter, AFilter>>}}

(* A filter over a domain that takes a nested one.                         *)
Deep == {FilterOf(<<2, 1>>, <<n>>, <<{1}>>, << <<AMatrix>> >>) : n \in Nested \union NestedRows}

(* Filters in a predicate, literals in a row: the first or the last, by    *)
(* themselves, for another, or in what is evaluated for one.               *)
Rowed == MatrixOf(<< <<1>>, <<1, 2>> >>, << <<>>, <<AFilter>> >>)
Tested == FilterOf(<<2, 1>>, <<>>, <<{1}, {2}>>, << <<AMatrix>>, <<>> >>)
Inner == FilterOf(<<1, 2>>, <<>>, <<{2}>>, << <<AFilter>> >>)
InnerRow == MatrixOf(<< <<1>>, <<>> >>, << <<>>, <<AMatrix>> >>)
Reentered ==
  {FilterOf(d, b, <<{1}, S>>, cs) :
     d \in Upto({1, 2}, 2), b \in {<<>>, <<AFilter>>}, S \in {{}, {1, 2}},
     cs \in {<< <<AFilter>>, <<>> >>, << <<>>, <<AMatrix, AFilter>> >>, << <<Rowed>>, <<AMatrix>> >>}}
ReenteredRows ==
  {MatrixOf(<< <<1, 2>>, <<1>> >>, cs) :
     cs \in {<< <<AMatrix>>, <<>> >>, << <<>>, <<AFilter, AMatrix>> >>, << <<Tested>>, <<>> >>}}
Around ==
  {FilterOf(<<1, 2>>, <<n>>, <<{1}>>, << <<AMatrix>> >>) : n \in {Inner, InnerRow}} \union
  {FilterOf(<<1, 2>>, <<>>, <<{1}>>, << <<n>> >>) : n \in {Inner, InnerRow}} \union
  {MatrixOf(<< <<1>>, <<1, 2>> >>, << <<AFilter>>, <<n>> >>) : n \in {Inner, InnerRow}}
Others == {AFilter, AMatrix, Rowed, Tested, Inner, InnerRow}

MCTree ==
  Simple \union Literals \union Nested \union NestedRows \union Deep \union
  Reentered \union ReenteredRows \union Around \union Others
MCSource == MCTree

RECURSIVE UsesOf(_)
UsesOf(t) ==
  {t.k} \union UNION {UsesOf(c) : c \in Called(t) \union (IF t.k = "filter" THEN Before(t) ELSE {})}
MCUses == [t \in MCTree |-> UsesOf(t)]
=============================================================================
