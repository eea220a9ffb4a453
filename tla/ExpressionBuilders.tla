------------------------- MODULE ExpressionBuilders -------------------------
(***************************************************************************)
(* Filters and matrix literals (runtime/src/filters.c, matrix_literals.c)  *)
(* under the code CodeGenPass emits for them.  Each is built in variables  *)
(* that are static in its file; between two calls that build it, the code  *)
(* evaluates the predicates or rows, whose routines may build others, of   *)
(* the same kind too: the inner one then replaces the variables, and       *)
(* releases them, while the outer one is still being built.                *)
(*                                                                         *)
(* A tree is a filter or a matrix literal: the values its domain or rows   *)
(* have, which values satisfy its predicates, and the trees that are       *)
(* evaluated on the way.  An evaluation is a stack: expressions still to   *)
(* be evaluated, and frames of code that is waiting for them.              *)
(***************************************************************************)
EXTENDS Integers, Sequences

CONSTANTS
  Value,  \* elements of vectors
  Zero,   \* what a short row is filled up with
  Tree,   \* filters and matrix literals, with all that are evaluated for them
  Source, \* those the program evaluates
  Uses    \* for each tree, the kinds of trees its evaluation builds

Kinds == {"filter", "matrix"}

(* calls: for each predicate or row, what the routines it calls build.     *)
Filters ==
  [k : {"filter"}, domain : Seq(Value), before : Seq(Tree),
   tests : Seq(SUBSET Value), calls : Seq(Seq(Tree))]
Matrices ==
  [k : {"matrix"}, rows : Seq(Seq(Value)), calls : Seq(Seq(Tree))]

Called(t) == UNION {{t.calls[p][j] : j \in DOMAIN t.calls[p]} : p \in DOMAIN t.calls}
Before(t) == {t.before[j] : j \in DOMAIN t.before}

ASSUME TreeAssumption ==
  /\ Zero \in Value
  /\ Tree \subseteq Filters \union Matrices
  /\ Source \subseteq Tree
  /\ \A t \in Tree : Len(t.calls) = Len(IF t.k = "filter" THEN t.tests ELSE t.rows)

(* What a tree builds has what the trees evaluated for it build.           *)
ASSUME UsesAssumption ==
  /\ Uses \in [Tree -> SUBSET Kinds]
  /\ \A t \in Tree :
       /\ t.k \in Uses[t]
       /\ \A c \in Called(t) : Uses[c] \subseteq Uses[t]
       /\ t.k = "filter" => \A c \in Before(t) : Uses[c] \subseteq Uses[t]

(* The routines of its predicates or rows build none of its own kind.      *)
Separate(t) == \A c \in Called(t) : t.k \notin Uses[c]

VARIABLES
  work,      \* what is being evaluated, innermost first
  filters,   \* num_of_filters, current_filter_vecs, should_add_to_residual
  literal,   \* literal_size, current_vecs: the rows that are there
  built,     \* the expression built last, if any, and its value
  undefined  \* freed memory, or memory outside its block, has been accessed

vars == <<work, filters, literal, built, undefined>>
-----------------------------------------------------------------------------
Frame(op, t, i, p) == [op |-> op, node |-> t, i |-> i, p |-> p]
Visit(t)   == Frame("visit", t, 1, 1)
Visits(ts) == [j \in DOMAIN ts |-> Visit(ts[j])]

Top   == work[1]
Under == Tail(work)
At(op) == ~undefined /\ work # <<>> /\ Top.op = op
Goes(op, i, p) == work' = <<Frame(op, Top.node, i, p)>> \o Under

(* What an access outside a live block does is not defined.                *)
Access(ok) == undefined' = ~ok

Init ==
  /\ \E t \in Source : work = <<Visit(t)>>
  /\ filters = [num |-> 0, vecs |-> <<>>, live |-> FALSE, residual |-> FALSE]
  /\ literal = [size |-> 0, vecs |-> <<>>, live |-> FALSE]
  /\ built = <<>>
  /\ undefined = FALSE
-----------------------------------------------------------------------------
(* Mutant: the domain is evaluated in the loop, after the builder is made. *)
InitFirst ==
  /\ At("visit") /\ Top.node.k = "filter"
  /\ filters' = [num |-> Len(Top.node.tests) + 1, live |-> TRUE, residual |-> TRUE,
                 vecs |-> [q \in 1 .. Len(Top.node.tests) + 1 |->
                             [data |-> <<>>, room |-> Len(Top.node.domain)]]]
  /\ work' = Visits(Top.node.before) \o <<Frame("header", Top.node, 1, 1)>> \o Under
  /\ UNCHANGED <<literal, built, undefined>>

(* visitFilter: the domain is evaluated before anything else.              *)
visitFilter ==
  /\ At("visit") /\ Top.node.k = "filter"
  /\ work' = Visits(Top.node.before) \o <<Frame("init", Top.node, 1, 1)>> \o Under
  /\ UNCHANGED <<filters, literal, built, undefined>>

(* One vector for each predicate and one for the rest, each with room for  *)
(* the whole domain.                                                       *)
rt_init_filter_expr ==
  /\ At("init")
  /\ LET n == Len(Top.node.tests) + 1 IN
     filters' = [num |-> n, live |-> TRUE, residual |-> TRUE,
                 vecs |-> [q \in 1 .. n |-> [data |-> <<>>, room |-> Len(Top.node.domain)]]]
  /\ Goes("header", 1, 1)
  /\ UNCHANGED <<literal, built, undefined>>

(* The loop over the domain.                                               *)
LoopHeader ==
  /\ At("header")
  /\ Goes(IF Top.i <= Len(Top.node.domain) THEN "predicate" ELSE "complete", Top.i, 1)
  /\ UNCHANGED <<filters, literal, built, undefined>>

Predicate ==
  /\ At("predicate") /\ Top.p <= Len(Top.node.tests)
  /\ work' = Visits(Top.node.calls[Top.p]) \o <<Frame("update", Top.node, Top.i, Top.p)>> \o Under
  /\ UNCHANGED <<filters, literal, built, undefined>>

Holds == Top.node.domain[Top.i] \in Top.node.tests[Top.p]
Put(vec, v) == [vec EXCEPT !.data = Append(@, v)]
Fits(q) == filters.live /\ q \in DOMAIN filters.vecs /\ Len(filters.vecs[q].data) < filters.vecs[q].room

(* Mutant: the value is taken for the rest as well.                        *)
UpdateOnly ==
  /\ At("update")
  /\ IF Holds /\ Fits(Top.p)
     THEN filters' = [filters EXCEPT !.vecs[Top.p] = Put(@, Top.node.domain[Top.i])]
     ELSE UNCHANGED filters
  /\ Access(Holds => Fits(Top.p))
  /\ Goes("predicate", Top.i, Top.p + 1)
  /\ UNCHANGED <<literal, built>>

rt_update_filter_at_pos ==
  /\ At("update")
  /\ IF Holds /\ Fits(Top.p)
     THEN filters' = [filters EXCEPT !.vecs[Top.p] = Put(@, Top.node.domain[Top.i]),
                                     !.residual = FALSE]
     ELSE UNCHANGED filters
  /\ Access(Holds => Fits(Top.p))
  /\ Goes("predicate", Top.i, Top.p + 1)
  /\ UNCHANGED <<literal, built>>

(* Mutant: a value that was taken leaves the flag down for the next one.   *)
EndWithoutReset ==
  /\ At("predicate") /\ Top.p > Len(Top.node.tests)
  /\ IF filters.residual /\ Fits(filters.num)
     THEN filters' = [filters EXCEPT !.vecs[filters.num] = Put(@, Top.node.domain[Top.i])]
     ELSE UNCHANGED filters
  /\ Access(filters.residual => Fits(filters.num))
  /\ Goes("header", Top.i + 1, 1)
  /\ UNCHANGED <<literal, built>>

rt_filter_end_iter ==
  /\ At("predicate") /\ Top.p > Len(Top.node.tests)
  /\ IF ~filters.residual THEN filters' = [filters EXCEPT !.residual = TRUE]
     ELSE IF Fits(filters.num)
     THEN filters' = [filters EXCEPT !.vecs[filters.num] = Put(@, Top.node.domain[Top.i])]
     ELSE UNCHANGED filters
  /\ Access(filters.residual => Fits(filters.num))
  /\ Goes("header", Top.i + 1, 1)
  /\ UNCHANGED <<literal, built>>

(* Mutant: the variables are not released.                                 *)
CompleteOnly ==
  LET n == Len(Top.node.tests) + 1
      ok == filters.live /\ n <= Len(filters.vecs) IN
  /\ At("complete")
  /\ Access(ok)
  /\ built' = IF ok THEN <<Top.node, [q \in 1 .. n |-> filters.vecs[q].data]>> ELSE built
  /\ work' = IF ok THEN Under ELSE work
  /\ UNCHANGED <<filters, literal>>

(* rt_get_completed_filter_at for each of the vectors the tuple has, and   *)
(* rt_shutdown_filter_expr_builder.                                        *)
CompleteFilter ==
  LET n == Len(Top.node.tests) + 1
      ok == filters.live /\ n <= Len(filters.vecs) IN
  /\ At("complete")
  /\ Access(ok)
  /\ built' = IF ok THEN <<Top.node, [q \in 1 .. n |-> filters.vecs[q].data]>> ELSE built
  /\ filters' = [filters EXCEPT !.live = FALSE, !.num = 0, !.residual = FALSE]
  /\ work' = IF ok THEN Under ELSE work
  /\ UNCHANGED literal
-----------------------------------------------------------------------------
(* visitVectorLiteral for a matrix: the builder is made before the rows    *)
(* are evaluated.                                                          *)
rt_init_matrix_literal ==
  /\ At("visit") /\ Top.node.k = "matrix"
  /\ literal' = [size |-> Len(Top.node.rows), vecs |-> <<>>, live |-> TRUE]
  /\ Goes("row", 1, 1)
  /\ UNCHANGED <<filters, built, undefined>>

Row ==
  /\ At("row") /\ Top.i <= Len(Top.node.rows)
  /\ work' = Visits(Top.node.calls[Top.i]) \o <<Frame("add", Top.node, Top.i, 1)>> \o Under
  /\ UNCHANGED <<filters, literal, built, undefined>>

With(vecs, i, row) == [q \in DOMAIN vecs \union {i} |-> IF q = i THEN row ELSE vecs[q]]

rt_add_vector_to_matrix_literal ==
  LET ok == literal.live /\ Top.i \in 1 .. literal.size IN
  /\ At("add")
  /\ literal' = IF ok THEN [literal EXCEPT !.vecs = With(@, Top.i, Top.node.rows[Top.i])] ELSE literal
  /\ Access(ok)
  /\ Goes("row", Top.i + 1, 1)
  /\ UNCHANGED <<filters, built>>

AllAdded ==
  /\ At("row") /\ Top.i > Len(Top.node.rows)
  /\ Goes("widen", 1, 0)
  /\ UNCHANGED <<filters, literal, built, undefined>>

(* rt_get_built_matrix_literal: first the length of the longest row, then  *)
(* rows of that length.                                                    *)
MaxSize ==
  LET ok == literal.live /\ Top.i \in DOMAIN literal.vecs
      size == IF ok THEN Len(literal.vecs[Top.i]) ELSE 0 IN
  /\ At("widen") /\ Top.i <= literal.size
  /\ Access(ok)
  /\ Goes("widen", Top.i + 1, IF Top.p < size THEN size ELSE Top.p)
  /\ UNCHANGED <<filters, literal, built>>

Filled(row, n) == [j \in 1 .. n |-> IF j <= Len(row) THEN row[j] ELSE Zero]

rt_get_built_matrix_literal ==
  LET ok == literal.live /\ DOMAIN literal.vecs = 1 .. literal.size IN
  /\ At("widen") /\ Top.i > literal.size
  /\ Access(ok)
  /\ built' = IF ok THEN <<Top.node, [q \in 1 .. literal.size |-> Filled(literal.vecs[q], Top.p)]>>
              ELSE built
  /\ literal' = [literal EXCEPT !.live = FALSE]
  /\ work' = IF ok THEN Under ELSE work
  /\ UNCHANGED filters

Next == \/ visitFilter \/ rt_init_filter_expr \/ LoopHeader \/ Predicate
        \/ rt_update_filter_at_pos \/ rt_filter_end_iter \/ CompleteFilter
        \/ rt_init_matrix_literal \/ Row \/ rt_add_vector_to_matrix_literal
        \/ AllAdded \/ MaxSize \/ rt_get_built_matrix_literal

Spec == Init /\ [][Next]_vars
-----------------------------------------------------------------------------
(* v is what lies in S of the first n elements of d, in their order.       *)
Selects(v, d, S, n, f) ==
  /\ \A j \in DOMAIN v : v[j] = d[f[j]] /\ d[f[j]] \in S
  /\ \A j, h \in DOMAIN v : j < h => f[j] < f[h]
  /\ \A i \in 1 .. n : d[i] \in S => \E j \in DOMAIN v : f[j] = i
Selected(v, d, S, n) == \E f \in [DOMAIN v -> 1 .. n] : Selects(v, d, S, n, f)

Rest(t) == {v \in Value : \A q \in DOMAIN t.tests : v \notin t.tests[q]}

(* What an expression denotes: each predicate of a filter gets the values  *)
(* of the domain that satisfy it, the last vector those that satisfy none; *)
(* the rows of a matrix are filled up to the longest.                      *)
IsFiltered(t, value) ==
  /\ Len(value) = Len(t.tests) + 1
  /\ \A q \in DOMAIN t.tests : Selected(value[q], t.domain, t.tests[q], Len(t.domain))
  /\ Selected(value[Len(t.tests) + 1], t.domain, Rest(t), Len(t.domain))
IsLongest(n, rows, k) ==
  /\ \A q \in 1 .. k : Len(rows[q]) <= n
  /\ n = 0 \/ \E q \in 1 .. k : n = Len(rows[q])
IsMatrix(t, value) ==
  \E n \in {0} \union {Len(t.rows[q]) : q \in DOMAIN t.rows} :
    /\ IsLongest(n, t.rows, Len(t.rows))
    /\ value = [q \in DOMAIN t.rows |-> Filled(t.rows[q], n)]

(* What is delivered is right, whatever was evaluated for it.              *)
BuiltRight ==
  built # <<>> =>
    IF built[1].k = "filter" THEN IsFiltered(built[1], built[2]) ELSE IsMatrix(built[1], built[2])

(* No vector gets more values than it has room for, and a builder that     *)
(* another evaluation has released is used only by an expression whose own *)
(* predicates or rows build another of its kind.                           *)
StaleOnlyNested == undefined => ~Separate(Top.node)

(* A filter with a filter in a predicate, or a matrix literal with another *)
(* in a row, never becomes a value: the inner one has released the outer's *)
(* variables by then.  A filter over no values asks no predicate.          *)
Reenters(t) ==
  (\E c \in Called(t) : c.k = t.k) /\ (t.k = "filter" => t.domain # <<>>)
ReenteredNeverBuilt == built # <<>> => ~Reenters(built[1])

(* One set of variables in filters.c and in matrix_literals.c: what nests  *)
(* its own kind in a predicate or row loses them, and nothing else does.   *)
NothingStale == StaleOnlyNested /\ ReenteredNeverBuilt

(* In the loop, a predicate's vector has what the predicate selects of the *)
(* values seen, the current one included once it was asked; the flag says  *)
(* whether no predicate has taken the current one.                         *)
Filtering(f) == f.op \in {"header", "predicate", "update", "complete"}
Seen(f, q) == IF q < f.p THEN f.i ELSE f.i - 1

FilterSoFar(f) ==
  LET t == f.node
      n == Len(t.tests) + 1 IN
  /\ filters.live /\ filters.num = n /\ DOMAIN filters.vecs = 1 .. n
  /\ \A q \in 1 .. n : filters.vecs[q].room = Len(t.domain)
  /\ \A q \in DOMAIN t.tests : Selected(filters.vecs[q].data, t.domain, t.tests[q], Seen(f, q))
  /\ Selected(filters.vecs[n].data, t.domain, Rest(t), f.i - 1)
  /\ filters.residual <=> \A q \in DOMAIN t.tests : q < f.p => t.domain[f.i] \notin t.tests[q]

(* Between two rows, the literal has the rows before; when it has them     *)
(* all, their length is that of the longest one so far.                    *)
Joining(f) == f.op \in {"row", "add", "widen"}
Added(f)   == IF f.op = "widen" THEN Len(f.node.rows) ELSE f.i - 1

MatrixSoFar(f) ==
  /\ literal.live /\ literal.size = Len(f.node.rows) /\ DOMAIN literal.vecs = 1 .. Added(f)
  /\ \A q \in 1 .. Added(f) : literal.vecs[q] = f.node.rows[q]
  /\ f.op = "widen" => IsLongest(f.p, f.node.rows, f.i - 1)

(* The variables are those of the loop, unless it evaluates another of its *)
(* kind, which is under way or has released them.                          *)
BuilderInv ==
  ~undefined =>
    \A x \in DOMAIN work :
      /\ Filtering(work[x]) =>
           \/ FilterSoFar(work[x])
           \/ /\ ~Separate(work[x].node)
              /\ ~filters.live \/ \E y \in 1 .. x - 1 : Filtering(work[y])
      /\ Joining(work[x]) =>
           \/ MatrixSoFar(work[x])
           \/ /\ ~Separate(work[x].node)
              /\ ~literal.live \/ \E y \in 1 .. x - 1 : Joining(work[y])
=============================================================================
