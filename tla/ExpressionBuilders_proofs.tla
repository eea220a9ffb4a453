---------------------- MODULE ExpressionBuilders_proofs ----------------------
(***************************************************************************)
(* Filters and matrix literals that become values are what they denote,    *)
(* for every program.  One set of variables is enough for an expression    *)
(* whose predicates or rows build none of its kind.  Any other has them    *)
(* replaced and released while it is being built; it may use them then,    *)
(* but never becomes a wrong value, and none with one of its kind directly *)
(* in a predicate or row becomes a value at all.                           *)
(***************************************************************************)
EXTENDS ExpressionBuilders, FiniteSetTheorems, SequenceTheorems, TLAPS

FilterOps == {"init", "header", "predicate", "update", "complete"}
MatrixOps == {"row", "add", "widen"}

InLoop(f) ==
  /\ f.op \in FilterOps => f.node.k = "filter"
  /\ f.op \in MatrixOps => f.node.k = "matrix"
  /\ f.op \in {"header", "complete"} => f.p = 1
  /\ f.op = "header" => f.i <= Len(f.node.domain) + 1
  /\ f.op \in {"predicate", "update"} => f.i <= Len(f.node.domain) /\ f.p >= 1
  /\ f.op = "predicate" => f.p <= Len(f.node.tests) + 1
  /\ f.op = "update" => f.p <= Len(f.node.tests)
  /\ f.op = "complete" => f.i = Len(f.node.domain) + 1
  /\ f.op \in {"row", "widen"} => f.i <= Len(f.node.rows) + 1
  /\ f.op = "add" => f.i <= Len(f.node.rows)

FrameRecords ==
  [op : {"visit"} \union FilterOps \union MatrixOps, node : Tree, i : Nat \ {0}, p : Nat]
Frames == {f \in FrameRecords : InLoop(f)}
Stacks == Seq(Frames)

Vec == [data : Seq(Value), room : Nat]
Vectors == Seq(Vec)
FilterStates == [num : Nat, vecs : Vectors, live : BOOLEAN, residual : BOOLEAN]

PartialRows == UNION {[1 .. n -> Seq(Value)] : n \in Nat}
LiteralStates == [size : Nat, vecs : PartialRows, live : BOOLEAN]

Active(f) == Filtering(f) \/ Joining(f)

(* What is evaluated for a separate tree under construction builds none of *)
(* its kind.                                                               *)
Apart(w) ==
  \A x, y \in DOMAIN w :
    x < y /\ Active(w[y]) /\ Separate(w[y].node) => w[y].node.k \notin Uses[w[x].node]

Shapes ==
  /\ work \in Stacks /\ filters \in FilterStates /\ literal \in LiteralStates
  /\ undefined = FALSE

BInv == Shapes /\ Apart(work) /\ BuilderInv /\ BuiltRight

(* An expression that is not separate has used what it lost; no step       *)
(* follows.                                                                *)
Ruined == undefined = TRUE /\ ~Separate(Top.node) /\ BuiltRight

RInv == BInv \/ Ruined
-----------------------------------------------------------------------------
(* Selections, one element more.                                           *)
LEMMA SelectedNone ==
  ASSUME NEW d, NEW S
  PROVE  Selected(<<>>, d, S, 0)
<1> DEFINE f == [j \in {} |-> 1]
<1>1. f \in [DOMAIN <<>> -> 1 .. 0]
  OBVIOUS
<1>2. Selects(<<>>, d, S, 0, f)
  BY DEF Selects
<1> QED
  BY <1>1, <1>2 DEF Selected

LEMMA SelectedTake ==
  ASSUME NEW d \in Seq(Value), NEW v \in Seq(Value), NEW S, NEW n \in 1 .. Len(d),
         Selected(v, d, S, n - 1), d[n] \in S
  PROVE  Selected(Append(v, d[n]), d, S, n)
<1>1. PICK f \in [DOMAIN v -> 1 .. n - 1] : Selects(v, d, S, n - 1, f)
  BY DEF Selected
<1> DEFINE w == Append(v, d[n])
           m == Len(v) + 1
           g == [j \in DOMAIN w |-> IF j = m THEN n ELSE f[j]]
<1>2. /\ DOMAIN w = 1 .. m /\ DOMAIN v = 1 .. Len(v) /\ Len(v) \in Nat /\ n \in Nat
      /\ w[m] = d[n] /\ \A j \in DOMAIN v : w[j] = v[j] /\ j # m /\ j \in DOMAIN w
      /\ \A j \in DOMAIN w : j = m \/ j \in DOMAIN v
  OBVIOUS
<1>3. \A j \in DOMAIN v : f[j] \in 1 .. n - 1 /\ g[j] = f[j]
  BY <1>2
<1>4. g[m] = n /\ m \in DOMAIN w
  BY <1>2
<1>5. g \in [DOMAIN w -> 1 .. n]
  BY <1>2, <1>3
<1> HIDE DEF w, g, m
<1>6. \A j \in DOMAIN w : w[j] = d[g[j]] /\ d[g[j]] \in S
  BY <1>1, <1>2, <1>3, <1>4 DEF Selects
<1>7. ASSUME NEW j \in DOMAIN w, NEW h \in DOMAIN w, j < h PROVE g[j] < g[h]
  <2>1. j \in DOMAIN v
    BY <1>2, <1>7 DEF m
  <2>2. CASE h \in DOMAIN v
    BY <1>1, <1>3, <1>7, <2>1, <2>2 DEF Selects
  <2>3. CASE h = m
    BY <1>2, <1>3, <1>4, <2>1, <2>3
  <2> QED
    BY <1>2, <2>2, <2>3
<1>8. ASSUME NEW i \in 1 .. n, d[i] \in S PROVE \E j \in DOMAIN w : g[j] = i
  <2>1. CASE i = n
    BY <1>4, <2>1
  <2>2. CASE i # n
    <3>1. i \in 1 .. n - 1
      BY <1>2, <2>2
    <3>2. PICK j \in DOMAIN v : f[j] = i
      BY <1>1, <1>8, <3>1 DEF Selects
    <3> QED
      BY <1>2, <1>3, <3>2
  <2> QED
    BY <2>1, <2>2
<1>9. Selects(w, d, S, n, g)
  BY <1>6, <1>7, <1>8 DEF Selects
<1> QED
  BY <1>5, <1>9 DEF Selected, w

LEMMA SelectedSkip ==
  ASSUME NEW d \in Seq(Value), NEW v \in Seq(Value), NEW S, NEW n \in 1 .. Len(d),
         Selected(v, d, S, n - 1), d[n] \notin S
  PROVE  Selected(v, d, S, n)
<1>1. PICK f \in [DOMAIN v -> 1 .. n - 1] : Selects(v, d, S, n - 1, f)
  BY DEF Selected
<1>2. n \in Nat /\ \A i \in 1 .. n : i = n \/ i \in 1 .. n - 1
  OBVIOUS
<1>3. f \in [DOMAIN v -> 1 .. n]
  BY <1>2
<1>4. Selects(v, d, S, n, f)
  BY <1>1, <1>2 DEF Selects
<1> QED
  BY <1>3, <1>4 DEF Selected

(* A selection is no longer than what it selects from.                     *)
LEMMA UpTo ==
  ASSUME NEW n \in Nat
  PROVE  IsFiniteSet(1 .. n) /\ Cardinality(1 .. n) = n
<1>1. 1 \in Int /\ n \in Int /\ n - 1 + 1 = n /\ (1 > n => n = 0)
  OBVIOUS
<1>2. IsFiniteSet(1 .. n) /\ Cardinality(1 .. n) = IF 1 > n THEN 0 ELSE n - 1 + 1
  BY <1>1, FS_Interval
<1> QED
  BY <1>1, <1>2

LEMMA SelectedShort ==
  ASSUME NEW d, NEW v \in Seq(Value), NEW S, NEW n \in Nat, Selected(v, d, S, n)
  PROVE  Len(v) <= n
<1>1. PICK f \in [DOMAIN v -> 1 .. n] : Selects(v, d, S, n, f)
  BY DEF Selected
<1>2. DOMAIN v = 1 .. Len(v) /\ Len(v) \in Nat
  OBVIOUS
<1>3. /\ IsFiniteSet(1 .. Len(v)) /\ Cardinality(1 .. Len(v)) = Len(v)
      /\ IsFiniteSet(1 .. n) /\ Cardinality(1 .. n) = n
  BY <1>2, UpTo
<1> SUFFICES ASSUME Len(v) > n PROVE FALSE
  BY <1>2
<1>4. f \in [1 .. Len(v) -> 1 .. n]
  BY <1>2
<1>5. PICK x \in 1 .. Len(v), y \in 1 .. Len(v) : x # y /\ f[x] = f[y]
  BY <1>3, <1>4, FS_PigeonHole
<1>6. \A j, h \in 1 .. Len(v) : j < h => f[j] < f[h]
  BY <1>1, <1>2 DEF Selects
<1>7. f[x] \in Nat /\ f[y] \in Nat
  BY <1>4
<1>8. (x < y \/ y < x) /\ x \in Nat /\ y \in Nat
  BY <1>2, <1>5
<1> QED
  BY <1>5, <1>6, <1>7, <1>8
-----------------------------------------------------------------------------
LEMMA FilterShape ==
  ASSUME NEW t \in Tree, t.k = "filter"
  PROVE  /\ t.domain \in Seq(Value) /\ t.before \in Seq(Tree) /\ t.tests \in Seq(SUBSET Value)
         /\ t.calls \in Seq(Seq(Tree)) /\ Len(t.calls) = Len(t.tests)
<1>1. t \in Filters \/ t \in Matrices
  BY TreeAssumption
<1>2. Len(t.calls) = Len(t.tests)
  BY TreeAssumption
<1>3. t \notin Matrices
  BY DEF Matrices
<1> QED
  BY <1>1, <1>2, <1>3 DEF Filters

LEMMA MatrixShape ==
  ASSUME NEW t \in Tree, t.k = "matrix"
  PROVE  t.rows \in Seq(Seq(Value)) /\ t.calls \in Seq(Seq(Tree)) /\ Len(t.calls) = Len(t.rows)
<1>1. t \in Filters \/ t \in Matrices
  BY TreeAssumption
<1>2. Len(t.calls) = Len(t.rows)
  BY TreeAssumption
<1>3. t \notin Filters
  BY DEF Filters
<1> QED
  BY <1>1, <1>2, <1>3 DEF Matrices

LEMMA UsesShape ==
  ASSUME NEW t \in Tree
  PROVE  t.k \in Uses[t] /\ Uses[t] \subseteq Kinds
  BY UsesAssumption

LEMMA CalledUses ==
  ASSUME NEW t \in Tree, NEW q \in DOMAIN t.calls, t.calls[q] \in Seq(Tree),
         NEW j \in DOMAIN t.calls[q]
  PROVE  /\ Uses[t.calls[q][j]] \subseteq Uses[t]
         /\ Separate(t) => t.k \notin Uses[t.calls[q][j]]
<1>1. t.calls[q][j] \in Called(t)
  BY DEF Called
<1> QED
  BY <1>1, UsesAssumption DEF Separate

LEMMA BeforeUses ==
  ASSUME NEW t \in Tree, t.k = "filter", NEW j \in DOMAIN t.before
  PROVE  Uses[t.before[j]] \subseteq Uses[t]
<1>1. t.before[j] \in Before(t)
  BY DEF Before
<1> QED
  BY <1>1, UsesAssumption

LEMMA VisitsShape ==
  ASSUME NEW ts \in Seq(Tree)
  PROVE  /\ Visits(ts) \in Stacks /\ Len(Visits(ts)) = Len(ts)
         /\ \A j \in 1 .. Len(ts) : Visits(ts)[j].op = "visit" /\ Visits(ts)[j].node = ts[j]
<1>1. \A j \in DOMAIN ts : Visit(ts[j]) \in Frames /\ Visit(ts[j]).op = "visit" /\ Visit(ts[j]).node = ts[j]
  BY DEF Visit, Frame, Frames, FrameRecords, InLoop, FilterOps, MatrixOps
<1>2. DOMAIN ts = 1 .. Len(ts) /\ Len(ts) \in Nat
  OBVIOUS
<1> QED
  BY <1>1, <1>2 DEF Visits, Stacks

LEMMA Concat ==
  ASSUME NEW p \in Stacks, NEW q \in Stacks
  PROVE  /\ p \o q \in Stacks /\ DOMAIN (p \o q) = 1 .. Len(p) + Len(q)
         /\ \A i \in 1 .. Len(p) : (p \o q)[i] = p[i]
         /\ \A i \in 1 .. Len(q) : (p \o q)[Len(p) + i] = q[i]
  BY DEF Stacks

LEMMA Associative ==
  ASSUME NEW p \in Stacks, NEW q \in Stacks, NEW r \in Stacks
  PROVE  p \o q \o r = p \o (q \o r)
  BY DEF Stacks

(* Where the frames of a stack come from when its top is replaced.         *)
Comes(w, ts, g) ==
  \A y \in DOMAIN w :
    \/ y <= Len(ts) /\ w[y].op = "visit" /\ w[y].node = ts[y]
    \/ y = Len(ts) + 1 /\ w[y] = g
    \/ y - Len(ts) \in 2 .. Len(work) /\ w[y] = work[y - Len(ts)]

LEMMA Pushed ==
  ASSUME work \in Stacks, work # <<>>, NEW ts \in Seq(Tree), NEW g \in Frames
  PROVE  /\ Visits(ts) \o <<g>> \o Under \in Stacks
         /\ Comes(Visits(ts) \o <<g>> \o Under, ts, g)
<1> DEFINE ps == Visits(ts)
           v == <<g>> \o Under
           w == ps \o v
           n == Len(ts)
<1>1. /\ ps \in Stacks /\ Len(ps) = n /\ n \in Nat
      /\ \A j \in 1 .. n : ps[j].op = "visit" /\ ps[j].node = ts[j]
  BY VisitsShape
<1>2. /\ Under \in Stacks /\ Len(Under) = Len(work) - 1 /\ Len(work) \in Nat /\ Len(work) >= 1
      /\ \A i \in 1 .. Len(Under) : Under[i] = work[i + 1]
  BY DEF Stacks, Under
<1>3. /\ v \in Stacks /\ Len(v) = Len(Under) + 1 /\ v[1] = g
      /\ \A i \in 1 .. Len(Under) : v[i + 1] = Under[i]
  BY <1>2 DEF Stacks
<1> HIDE DEF v, ps
<1>4. /\ w \in Stacks /\ DOMAIN w = 1 .. n + Len(v)
      /\ \A j \in 1 .. n : w[j] = ps[j]
      /\ \A j \in 1 .. Len(v) : w[n + j] = v[j]
  <2>1. ps \in Stacks /\ v \in Stacks
    BY <1>1, <1>3
  <2>2. /\ w \in Stacks /\ DOMAIN w = 1 .. Len(ps) + Len(v)
        /\ \A j \in 1 .. Len(ps) : w[j] = ps[j]
        /\ \A j \in 1 .. Len(v) : w[Len(ps) + j] = v[j]
    BY <2>1, Concat
  <2> QED
    BY <1>1, <2>2
<1>0. ps \o <<g>> \o Under = w
  <2>1. <<g>> \in Stacks
    BY DEF Stacks
  <2> QED
    BY <1>1, <1>2, <2>1, Associative DEF v
<1> HIDE DEF w
<1>5. ASSUME NEW y \in DOMAIN w
      PROVE  \/ y <= n /\ w[y].op = "visit" /\ w[y].node = ts[y]
             \/ y = n + 1 /\ w[y] = g
             \/ y - n \in 2 .. Len(work) /\ w[y] = work[y - n]
  <2>1. CASE y <= n
    BY <1>1, <1>4, <2>1
  <2>2. CASE y = n + 1
    <3>1. w[n + 1] = v[1]
      BY <1>2, <1>3, <1>4
    <3> QED
      BY <1>3, <2>2, <3>1
  <2>3. CASE y > n + 1
    <3> DEFINE i == y - n - 1
    <3>1. i \in 1 .. Len(Under) /\ i + 1 \in 1 .. Len(v) /\ y = n + (i + 1) /\ y - n = i + 1
      BY <1>1, <1>2, <1>3, <1>4, <2>3, SMTT(30)
    <3>2. w[y] = work[i + 1]
      BY <1>2, <1>3, <1>4, <3>1
    <3> QED
      BY <1>2, <3>1, <3>2
  <2> QED
    BY <1>1, <1>4, <2>1, <2>2, <2>3
<1> QED
  BY <1>0, <1>4, <1>5 DEF Comes, ps, n

LEMMA Popped ==
  ASSUME work \in Stacks, work # <<>>
  PROVE  /\ Under \in Stacks
         /\ \A y \in DOMAIN Under : y + 1 \in 2 .. Len(work) /\ Under[y] = work[y + 1]
  BY DEF Stacks, Under

LEMMA TopIsFirst ==
  ASSUME work \in Stacks, work # <<>>
  PROVE  /\ Top \in Frames /\ Top.node \in Tree /\ 1 \in DOMAIN work /\ Top = work[1]
         /\ Len(work) \in Nat /\ DOMAIN work = 1 .. Len(work)
  BY DEF Stacks, Top, Frames, FrameRecords
-----------------------------------------------------------------------------
(* The invariants for any stack, filter builder and literal builder.       *)
FilterFor(F, f) ==
  LET t == f.node
      n == Len(t.tests) + 1 IN
  /\ F.live /\ F.num = n /\ DOMAIN F.vecs = 1 .. n
  /\ \A q \in 1 .. n : F.vecs[q].room = Len(t.domain)
  /\ \A q \in DOMAIN t.tests : Selected(F.vecs[q].data, t.domain, t.tests[q], Seen(f, q))
  /\ Selected(F.vecs[n].data, t.domain, Rest(t), f.i - 1)
  /\ F.residual <=> \A q \in DOMAIN t.tests : q < f.p => t.domain[f.i] \notin t.tests[q]

MatrixFor(M, f) ==
  /\ M.live /\ M.size = Len(f.node.rows) /\ DOMAIN M.vecs = 1 .. Added(f)
  /\ \A q \in 1 .. Added(f) : M.vecs[q] = f.node.rows[q]
  /\ f.op = "widen" => IsLongest(f.p, f.node.rows, f.i - 1)

(* The variables are those of the frame, or the last of its kind that was  *)
(* evaluated for it has released them.                                     *)
FilterHas(F, f) == FilterFor(F, f) \/ (~Separate(f.node) /\ ~F.live)
MatrixHas(M, f) == MatrixFor(M, f) \/ (~Separate(f.node) /\ ~M.live)

FilterAt(w, F, x) ==
  Filtering(w[x]) =>
    FilterHas(F, w[x]) \/ (~Separate(w[x].node) /\ \E y \in 1 .. x - 1 : Filtering(w[y]))
MatrixAt(w, M, x) ==
  Joining(w[x]) =>
    MatrixHas(M, w[x]) \/ (~Separate(w[x].node) /\ \E y \in 1 .. x - 1 : Joining(w[y]))
BuilderFor(w, F, M) == \A x \in DOMAIN w : FilterAt(w, F, x) /\ MatrixAt(w, M, x)

LEMMA BuilderInvFor ==
  ASSUME undefined = FALSE
  PROVE  BuilderInv <=> BuilderFor(work, filters, literal)
<1>1. ASSUME NEW f
      PROVE  /\ FilterSoFar(f) <=> FilterFor(filters, f)
             /\ MatrixSoFar(f) <=> MatrixFor(literal, f)
  BY DEF FilterSoFar, FilterFor, MatrixSoFar, MatrixFor
<1>2. ASSUME NEW x \in DOMAIN work
      PROVE  /\ FilterAt(work, filters, x) <=>
                  (Filtering(work[x]) =>
                     \/ FilterSoFar(work[x])
                     \/ /\ ~Separate(work[x].node)
                        /\ ~filters.live \/ \E y \in 1 .. x - 1 : Filtering(work[y]))
             /\ MatrixAt(work, literal, x) <=>
                  (Joining(work[x]) =>
                     \/ MatrixSoFar(work[x])
                     \/ /\ ~Separate(work[x].node)
                        /\ ~literal.live \/ \E y \in 1 .. x - 1 : Joining(work[y]))
  BY <1>1, Zenon DEF FilterAt, MatrixAt, FilterHas, MatrixHas
<1> QED
  BY <1>2, Zenon DEF BuilderInv, BuilderFor

LEMMA ApartPush ==
  ASSUME work \in Stacks, work # <<>>, Apart(work),
         NEW ts \in Seq(Tree), NEW g \in Frames, g.node = Top.node,
         \A j \in 1 .. Len(ts) : Uses[ts[j]] \subseteq Uses[Top.node],
         Active(g) /\ Separate(Top.node) => \A j \in 1 .. Len(ts) : Top.node.k \notin Uses[ts[j]],
         NEW w \in Stacks, Comes(w, ts, g)
  PROVE  Apart(w)
<1> DEFINE n == Len(ts)
<1> SUFFICES ASSUME NEW x \in DOMAIN w, NEW y \in DOMAIN w, x < y, Active(w[y]), Separate(w[y].node)
             PROVE  w[y].node.k \notin Uses[w[x].node]
  BY DEF Apart
<1>1. n \in Nat /\ x \in Nat /\ y \in Nat /\ x >= 1 /\ DOMAIN work = 1 .. Len(work) /\ Len(work) \in Nat
      /\ Top = work[1]
  BY DEF Stacks, Top
<1>2. \/ y = n + 1 /\ w[y] = g
      \/ y - n \in 2 .. Len(work) /\ w[y] = work[y - n]
  <2>1. w[y].op # "visit"
    BY DEF Active, Filtering, Joining
  <2> QED
    BY <2>1 DEF Comes
<1>3. \/ x <= n /\ w[x].node = ts[x] /\ x \in 1 .. Len(ts)
      \/ x = n + 1 /\ w[x] = g
      \/ x - n \in 2 .. Len(work) /\ w[x] = work[x - n]
  <2>1. \/ x <= n /\ w[x].node = ts[x]
        \/ x = n + 1 /\ w[x] = g
        \/ x - n \in 2 .. Len(work) /\ w[x] = work[x - n]
    BY DEF Comes
  <2> QED
    BY <1>1, <2>1
<1>4. CASE y = n + 1 /\ w[y] = g
  <2>1. x <= n /\ w[x].node = ts[x] /\ x \in 1 .. Len(ts)
    BY <1>1, <1>3, <1>4
  <2> QED
    BY <1>4, <2>1
<1>5. CASE y - n \in 2 .. Len(work) /\ w[y] = work[y - n]
  <2>1. 1 \in DOMAIN work /\ y - n \in DOMAIN work /\ 1 < y - n
    BY <1>1, <1>5
  <2>2. w[y].node.k \notin Uses[Top.node]
    BY <1>1, <1>5, <2>1 DEF Apart
  <2>3. CASE x - n \in 2 .. Len(work) /\ w[x] = work[x - n]
    <3>1. x - n \in DOMAIN work /\ x - n < y - n
      BY <1>1, <2>3
    <3> QED
      BY <1>5, <2>1, <2>3, <3>1 DEF Apart
  <2> QED
    BY <1>3, <2>2, <2>3
<1> QED
  BY <1>2, <1>4, <1>5

LEMMA ApartPop ==
  ASSUME work \in Stacks, work # <<>>, Apart(work)
  PROVE  Apart(Under)
<1> SUFFICES ASSUME NEW x \in DOMAIN Under, NEW y \in DOMAIN Under, x < y, Active(Under[y]),
                    Separate(Under[y].node)
             PROVE  Under[y].node.k \notin Uses[Under[x].node]
  BY DEF Apart
<1>1. /\ x + 1 \in DOMAIN work /\ y + 1 \in DOMAIN work /\ x + 1 < y + 1
      /\ Under[x] = work[x + 1] /\ Under[y] = work[y + 1]
  BY Popped, TopIsFirst DEF Stacks
<1> QED
  BY <1>1 DEF Apart

(* Below the top, whatever of its kind is being built is not separate.     *)
LEMMA NoOther ==
  ASSUME work \in Stacks, work # <<>>, Apart(work), NEW z \in 2 .. Len(work)
  PROVE  /\ Top.node.k = "filter" /\ Filtering(work[z]) => ~Separate(work[z].node)
         /\ Top.node.k = "matrix" /\ Joining(work[z]) => ~Separate(work[z].node)
<1>1. 1 \in DOMAIN work /\ z \in DOMAIN work /\ 1 < z /\ Top = work[1] /\ Top.node \in Tree
  BY TopIsFirst
<1>2. Active(work[z]) /\ Separate(work[z].node) => work[z].node.k \notin Uses[Top.node]
  BY <1>1 DEF Apart
<1>3. Active(work[z]) /\ Separate(work[z].node) => work[z].node.k # Top.node.k
  BY <1>1, <1>2, UsesShape
<1>4. work[z] \in Frames
  BY <1>1 DEF Stacks
<1>5. /\ Filtering(work[z]) => work[z].node.k = "filter"
      /\ Joining(work[z]) => work[z].node.k = "matrix"
  BY <1>4 DEF Frames, InLoop, Filtering, Joining, FilterOps, MatrixOps
<1> QED
  BY <1>3, <1>5 DEF Active

(* What is below the top stays below what replaces the top.                *)
LEMMA StillUnder ==
  ASSUME work \in Stacks, work # <<>>, NEW ts \in Seq(Tree), NEW g \in Frames,
         NEW w \in Stacks, Comes(w, ts, g),
         NEW y \in DOMAIN w, y - Len(ts) \in 2 .. Len(work), NEW v \in 1 .. (y - Len(ts)) - 1
  PROVE  v + Len(ts) \in 1 .. y - 1 /\ w[v + Len(ts)] = IF v = 1 THEN g ELSE work[v]
<1> DEFINE n == Len(ts)
           u == v + n
<1>1. n \in Nat /\ v \in Nat /\ v >= 1 /\ y \in Nat /\ DOMAIN w = 1 .. Len(w) /\ Len(w) \in Nat
  BY DEF Stacks
<1>2. u \in 1 .. y - 1 /\ u \in DOMAIN w /\ u > n /\ u - n = v /\ (u = n + 1 <=> v = 1)
  BY <1>1
<1>3. \/ u <= n
      \/ u = n + 1 /\ w[u] = g
      \/ u - n \in 2 .. Len(work) /\ w[u] = work[u - n]
  BY <1>2 DEF Comes
<1>4. CASE u = n + 1 /\ w[u] = g
  BY <1>2, <1>4
<1>5. CASE u - n \in 2 .. Len(work) /\ w[u] = work[u - n]
  <2>1. v # 1
    BY <1>2, <1>5
  <2> QED
    BY <1>2, <1>5, <2>1
<1> QED
  BY <1>1, <1>2, <1>3, <1>4, <1>5

(* A frame takes the place of the top, under what it waits for.            *)
Calls(ts) ==
  /\ \A j \in 1 .. Len(ts) : Uses[ts[j]] \subseteq Uses[Top.node]
  /\ Separate(Top.node) => \A j \in 1 .. Len(ts) : Top.node.k \notin Uses[ts[j]]

FilterReplaced(g, F) ==
  /\ F = filters \/ Filtering(g)
  /\ Filtering(Top) => Filtering(g)
  /\ Filtering(g) => FilterHas(F, g)

MatrixReplaced(g, M) ==
  /\ M = literal \/ Joining(g)
  /\ Joining(Top) => Joining(g)
  /\ Joining(g) => MatrixHas(M, g)

(* The top is gone: its variables are as they were, or are released.       *)
FilterReleased(F) == (F = filters /\ ~Filtering(Top)) \/ (Top.node.k = "filter" /\ ~F.live)
MatrixReleased(M) == (M = literal /\ ~Joining(Top)) \/ (Top.node.k = "matrix" /\ ~M.live)

LEMMA FilterPush ==
  ASSUME work \in Stacks, work # <<>>, Apart(work), BuilderFor(work, filters, literal),
         NEW ts \in Seq(Tree), NEW g \in Frames, g.node = Top.node, NEW w \in Stacks, Comes(w, ts, g),
         NEW F, FilterReplaced(g, F), NEW y \in DOMAIN w
  PROVE  FilterAt(w, F, y)
<1> DEFINE z == y - Len(ts)
<1> SUFFICES ASSUME Filtering(w[y])
             PROVE  \/ FilterHas(F, w[y])
                    \/ ~Separate(w[y].node) /\ \E v \in 1 .. y - 1 : Filtering(w[v])
  BY Zenon DEF FilterAt
<1>1. CASE w[y].op = "visit"
  BY <1>1 DEF Filtering
<1>2. CASE w[y] = g
  BY <1>2 DEF FilterReplaced
<1>3. CASE z \in 2 .. Len(work) /\ w[y] = work[z]
  <2>1. z \in DOMAIN work /\ Filtering(work[z]) /\ 1 \in 1 .. z - 1
    BY <1>3, TopIsFirst
  <2>2. ASSUME NEW v \in 1 .. z - 1, Filtering(IF v = 1 THEN g ELSE work[v])
        PROVE  \E u \in 1 .. y - 1 : Filtering(w[u])
    BY <1>3, <2>2, StillUnder
  <2>3. CASE Filtering(g)
    <3>1. F = filters \/ ~Separate(work[z].node)
      <4>1. Top.node.k = "filter"
        BY <2>3 DEF Frames, InLoop, Filtering, FilterOps
      <4> QED
        BY <1>3, <2>1, <4>1, NoOther
    <3>2. \E u \in 1 .. y - 1 : Filtering(w[u])
      BY <2>1, <2>2, <2>3
    <3>3. FilterHas(filters, work[z]) \/ ~Separate(work[z].node)
      BY <2>1, Zenon DEF BuilderFor, FilterAt
    <3> QED
      BY <1>3, <3>1, <3>2, <3>3
  <2>4. CASE ~Filtering(g)
    <3>1. F = filters /\ ~Filtering(Top) /\ Top = work[1]
      BY <2>4 DEF FilterReplaced, Top
    <3>2. \/ FilterHas(filters, work[z])
          \/ ~Separate(work[z].node) /\ \E v \in 1 .. z - 1 : Filtering(work[v])
      BY <2>1, Zenon DEF BuilderFor, FilterAt
    <3>3. ASSUME NEW v \in 1 .. z - 1, Filtering(work[v])
          PROVE  \E u \in 1 .. y - 1 : Filtering(w[u])
      <4>1. v # 1
        BY <3>1, <3>3
      <4> QED
        BY <2>2, <3>3, <4>1
    <3> QED
      BY <1>3, <3>1, <3>2, <3>3
  <2> QED
    BY <2>3, <2>4
<1> QED
  BY <1>1, <1>2, <1>3 DEF Comes

LEMMA FilterPop ==
  ASSUME work \in Stacks, work # <<>>, Apart(work), BuilderFor(work, filters, literal),
         NEW F, FilterReleased(F), NEW y \in DOMAIN Under
  PROVE  FilterAt(Under, F, y)
<1> SUFFICES ASSUME Filtering(Under[y])
             PROVE  \/ FilterHas(F, Under[y])
                    \/ ~Separate(Under[y].node) /\ \E v \in 1 .. y - 1 : Filtering(Under[v])
  BY Zenon DEF FilterAt
<1>1. y + 1 \in 2 .. Len(work) /\ y + 1 \in DOMAIN work /\ Under[y] = work[y + 1]
      /\ y \in Nat /\ DOMAIN Under = 1 .. Len(Under) /\ Len(Under) \in Nat /\ Top = work[1]
  BY Popped, TopIsFirst DEF Stacks
<1>2. CASE F = filters /\ ~Filtering(Top)
  <2>1. \/ FilterHas(filters, work[y + 1])
        \/ ~Separate(work[y + 1].node) /\ \E v \in 1 .. (y + 1) - 1 : Filtering(work[v])
    BY <1>1, Zenon DEF BuilderFor, FilterAt
  <2>2. ASSUME NEW v \in 1 .. (y + 1) - 1, Filtering(work[v])
        PROVE  \E u \in 1 .. y - 1 : Filtering(Under[u])
    <3>1. v # 1
      BY <1>1, <1>2, <2>2
    <3>2. v - 1 \in 1 .. y - 1 /\ v - 1 \in DOMAIN Under /\ (v - 1) + 1 = v
      BY <1>1, <3>1
    <3>3. Under[v - 1] = work[v]
      BY <3>2, Popped
    <3> QED
      BY <2>2, <3>2, <3>3
  <2> QED
    BY <1>1, <1>2, <2>1, <2>2
<1>3. CASE Top.node.k = "filter" /\ ~F.live
  <2>1. ~Separate(work[y + 1].node)
    BY <1>1, <1>3, NoOther
  <2> QED
    BY <1>1, <1>3, <2>1 DEF FilterHas
<1> QED
  BY <1>2, <1>3 DEF FilterReleased

LEMMA MatrixPush ==
  ASSUME work \in Stacks, work # <<>>, Apart(work), BuilderFor(work, filters, literal),
         NEW ts \in Seq(Tree), NEW g \in Frames, g.node = Top.node, NEW w \in Stacks, Comes(w, ts, g),
         NEW M, MatrixReplaced(g, M), NEW y \in DOMAIN w
  PROVE  MatrixAt(w, M, y)
<1> DEFINE z == y - Len(ts)
<1> SUFFICES ASSUME Joining(w[y])
             PROVE  \/ MatrixHas(M, w[y])
                    \/ ~Separate(w[y].node) /\ \E v \in 1 .. y - 1 : Joining(w[v])
  BY Zenon DEF MatrixAt
<1>1. CASE w[y].op = "visit"
  BY <1>1 DEF Joining
<1>2. CASE w[y] = g
  BY <1>2 DEF MatrixReplaced
<1>3. CASE z \in 2 .. Len(work) /\ w[y] = work[z]
  <2>1. z \in DOMAIN work /\ Joining(work[z]) /\ 1 \in 1 .. z - 1
    BY <1>3, TopIsFirst
  <2>2. ASSUME NEW v \in 1 .. z - 1, Joining(IF v = 1 THEN g ELSE work[v])
        PROVE  \E u \in 1 .. y - 1 : Joining(w[u])
    BY <1>3, <2>2, StillUnder
  <2>3. CASE Joining(g)
    <3>1. M = literal \/ ~Separate(work[z].node)
      <4>1. Top.node.k = "matrix"
        BY <2>3 DEF Frames, InLoop, Joining, MatrixOps
      <4> QED
        BY <1>3, <2>1, <4>1, NoOther
    <3>2. \E u \in 1 .. y - 1 : Joining(w[u])
      BY <2>1, <2>2, <2>3
    <3>3. MatrixHas(literal, work[z]) \/ ~Separate(work[z].node)
      BY <2>1, Zenon DEF BuilderFor, MatrixAt
    <3> QED
      BY <1>3, <3>1, <3>2, <3>3
  <2>4. CASE ~Joining(g)
    <3>1. M = literal /\ ~Joining(Top) /\ Top = work[1]
      BY <2>4 DEF MatrixReplaced, Top
    <3>2. \/ MatrixHas(literal, work[z])
          \/ ~Separate(work[z].node) /\ \E v \in 1 .. z - 1 : Joining(work[v])
      BY <2>1, Zenon DEF BuilderFor, MatrixAt
    <3>3. ASSUME NEW v \in 1 .. z - 1, Joining(work[v])
          PROVE  \E u \in 1 .. y - 1 : Joining(w[u])
      <4>1. v # 1
        BY <3>1, <3>3
      <4> QED
        BY <2>2, <3>3, <4>1
    <3> QED
      BY <1>3, <3>1, <3>2, <3>3
  <2> QED
    BY <2>3, <2>4
<1> QED
  BY <1>1, <1>2, <1>3 DEF Comes

LEMMA MatrixPop ==
  ASSUME work \in Stacks, work # <<>>, Apart(work), BuilderFor(work, filters, literal),
         NEW M, MatrixReleased(M), NEW y \in DOMAIN Under
  PROVE  MatrixAt(Under, M, y)
<1> SUFFICES ASSUME Joining(Under[y])
             PROVE  \/ MatrixHas(M, Under[y])
                    \/ ~Separate(Under[y].node) /\ \E v \in 1 .. y - 1 : Joining(Under[v])
  BY Zenon DEF MatrixAt
<1>1. y + 1 \in 2 .. Len(work) /\ y + 1 \in DOMAIN work /\ Under[y] = work[y + 1]
      /\ y \in Nat /\ DOMAIN Under = 1 .. Len(Under) /\ Len(Under) \in Nat /\ Top = work[1]
  BY Popped, TopIsFirst DEF Stacks
<1>2. CASE M = literal /\ ~Joining(Top)
  <2>1. \/ MatrixHas(literal, work[y + 1])
        \/ ~Separate(work[y + 1].node) /\ \E v \in 1 .. (y + 1) - 1 : Joining(work[v])
    BY <1>1, Zenon DEF BuilderFor, MatrixAt
  <2>2. ASSUME NEW v \in 1 .. (y + 1) - 1, Joining(work[v])
        PROVE  \E u \in 1 .. y - 1 : Joining(Under[u])
    <3>1. v # 1
      BY <1>1, <1>2, <2>2
    <3>2. v - 1 \in 1 .. y - 1 /\ v - 1 \in DOMAIN Under /\ (v - 1) + 1 = v
      BY <1>1, <3>1
    <3>3. Under[v - 1] = work[v]
      BY <3>2, Popped
    <3> QED
      BY <2>2, <3>2, <3>3
  <2> QED
    BY <1>1, <1>2, <2>1, <2>2
<1>3. CASE Top.node.k = "matrix" /\ ~M.live
  <2>1. ~Separate(work[y + 1].node)
    BY <1>1, <1>3, NoOther
  <2> QED
    BY <1>1, <1>3, <2>1 DEF MatrixHas
<1> QED
  BY <1>2, <1>3 DEF MatrixReleased

LEMMA BuilderPush ==
  ASSUME work \in Stacks, work # <<>>, Apart(work), BuilderFor(work, filters, literal),
         NEW ts \in Seq(Tree), NEW g \in Frames, g.node = Top.node, NEW w \in Stacks, Comes(w, ts, g),
         NEW F, NEW M, FilterReplaced(g, F), MatrixReplaced(g, M)
  PROVE  BuilderFor(w, F, M)
  BY FilterPush, MatrixPush DEF BuilderFor

LEMMA BuilderPop ==
  ASSUME work \in Stacks, work # <<>>, Apart(work), BuilderFor(work, filters, literal),
         NEW F, NEW M, FilterReleased(F), MatrixReleased(M)
  PROVE  BuilderFor(Under, F, M)
  BY FilterPop, MatrixPop DEF BuilderFor
-----------------------------------------------------------------------------
LEMMA BuilderInvNext ==
  ASSUME undefined' = FALSE
  PROVE  BuilderInv' <=> BuilderFor(work', filters', literal')
<1>1. ASSUME NEW f
      PROVE  /\ FilterSoFar(f)' <=> FilterFor(filters', f')
             /\ MatrixSoFar(f)' <=> MatrixFor(literal', f')
  BY DEF FilterSoFar, FilterFor, MatrixSoFar, MatrixFor
<1> QED
  BY DEF BuilderInv, BuilderFor, FilterAt, MatrixAt, FilterHas, MatrixHas, FilterSoFar, FilterFor, MatrixSoFar, MatrixFor

LEMMA BInvGives ==
  ASSUME BInv
  PROVE  /\ work \in Stacks /\ filters \in FilterStates /\ literal \in LiteralStates
         /\ undefined = FALSE /\ Apart(work) /\ BuilderFor(work, filters, literal) /\ BuiltRight
  BY BuilderInvFor DEF BInv, Shapes

LEMMA BInvMade ==
  ASSUME NEW w, NEW F, NEW M, work' = w, filters' = F, literal' = M, undefined' = FALSE,
         w \in Stacks, F \in FilterStates, M \in LiteralStates, Apart(w), BuilderFor(w, F, M), BuiltRight'
  PROVE  BInv'
<1>1. Shapes'
  BY DEF Shapes
<1>2. Apart(work)'
  BY DEF Apart, Active, Filtering, Joining
<1>3. BuilderFor(work', filters', literal')
  BY Zenon
<1> QED
  BY <1>1, <1>2, <1>3, BuilderInvNext DEF BInv

Replaces(ts, g, F, M) ==
  /\ g.node = Top.node
  /\ \A j \in 1 .. Len(ts) : Uses[ts[j]] \subseteq Uses[Top.node]
  /\ Active(g) /\ Separate(Top.node) => \A j \in 1 .. Len(ts) : Top.node.k \notin Uses[ts[j]]
  /\ FilterReplaced(g, F)
  /\ MatrixReplaced(g, M)

LEMMA PushKeeps ==
  ASSUME BInv, work # <<>>, NEW ts \in Seq(Tree), NEW g \in Frames, NEW F \in FilterStates, NEW M \in LiteralStates,
         Replaces(ts, g, F, M),
         work' = Visits(ts) \o <<g>> \o Under,
         filters' = F, literal' = M, undefined' = FALSE, built' = built
  PROVE  BInv'
<1> DEFINE w == Visits(ts) \o <<g>> \o Under
<1>1. /\ work \in Stacks /\ Apart(work) /\ BuilderFor(work, filters, literal) /\ BuiltRight
  BY BInvGives
<1>2. w \in Stacks /\ Comes(w, ts, g)
  BY <1>1, Pushed
<1>3. work' = w
  OBVIOUS
<1> HIDE DEF w
<1>4. Apart(w)
  BY <1>1, <1>2, ApartPush DEF Replaces
<1>5. BuilderFor(w, F, M)
  BY <1>1, <1>2, BuilderPush DEF Replaces
<1>6. BuiltRight'
  BY <1>1 DEF BuiltRight
<1> QED
  BY <1>2, <1>3, <1>4, <1>5, <1>6, BInvMade

LEMMA GoesKeeps ==
  ASSUME BInv, work # <<>>, NEW g \in Frames, NEW F \in FilterStates, NEW M \in LiteralStates,
         Replaces(<<>>, g, F, M),
         work' = <<g>> \o Under,
         filters' = F, literal' = M, undefined' = FALSE, built' = built
  PROVE  BInv'
<1>1. <<>> \in Seq(Tree) /\ Visits(<<>>) = <<>>
  BY DEF Visits
<1>2. work \in Stacks
  BY BInvGives
<1>3. Under \in Stacks
  BY <1>2, Popped
<1>4. <<>> \o <<g>> \o Under = <<g>> \o Under
  BY <1>3 DEF Stacks
<1>5. work' = Visits(<<>>) \o <<g>> \o Under
  BY <1>1, <1>4
<1> QED
  BY <1>1, <1>5, PushKeeps

LEMMA PopKeeps ==
  ASSUME BInv, work # <<>>, NEW F \in FilterStates, NEW M \in LiteralStates,
         FilterReleased(F), MatrixReleased(M),
         work' = Under, filters' = F, literal' = M, undefined' = FALSE, BuiltRight'
  PROVE  BInv'
<1>1. /\ work \in Stacks /\ Apart(work) /\ BuilderFor(work, filters, literal)
  BY BInvGives
<1>2. Under \in Stacks /\ Apart(Under) /\ BuilderFor(Under, F, M)
  BY <1>1, Popped, ApartPop, BuilderPop
<1> QED
  BY <1>2, BInvMade

LEMMA TopHas ==
  ASSUME BInv, work # <<>>
  PROVE  /\ work \in Stacks /\ Top \in Frames /\ Top.node \in Tree /\ InLoop(Top)
         /\ Top.i \in Nat /\ Top.i >= 1 /\ Top.p \in Nat
         /\ filters \in FilterStates /\ literal \in LiteralStates /\ undefined = FALSE /\ BuiltRight
         /\ Filtering(Top) => FilterHas(filters, Top)
         /\ Joining(Top) => MatrixHas(literal, Top)
<1>1. /\ work \in Stacks /\ BuilderFor(work, filters, literal)
      /\ filters \in FilterStates /\ literal \in LiteralStates /\ undefined = FALSE /\ BuiltRight
  BY BInvGives
<1>2. Top \in Frames /\ Top.node \in Tree /\ 1 \in DOMAIN work /\ Top = work[1]
  BY <1>1, TopIsFirst
<1>3. InLoop(Top) /\ Top.i \in Nat /\ Top.i >= 1 /\ Top.p \in Nat
  BY <1>2 DEF Frames, FrameRecords
<1>4. FilterAt(work, filters, 1) /\ MatrixAt(work, literal, 1)
  BY <1>1, <1>2, Zenon DEF BuilderFor
<1>5. ~\E y \in 1 .. 1 - 1 : TRUE
  OBVIOUS
<1>6. /\ Filtering(Top) => FilterHas(filters, Top)
      /\ Joining(Top) => MatrixHas(literal, Top)
  BY <1>2, <1>4, <1>5 DEF FilterAt, MatrixAt
<1> QED
  BY <1>1, <1>2, <1>3, <1>6

LEMMA NoCalls == Calls(<<>>)
  BY DEF Calls

(* A frame of the loop over a domain, or over rows, takes the top's place. *)
LEMMA FilterStep ==
  ASSUME BInv, work # <<>>, NEW ts \in Seq(Tree), Calls(ts), NEW g \in Frames, NEW F,
         g.node = Top.node, Filtering(g), FilterHas(F, g)
  PROVE  Replaces(ts, g, F, literal)
<1>1. InLoop(Top) /\ InLoop(g)
  BY TopHas DEF Frames
<1>2. ~Joining(Top) /\ ~Joining(g)
  BY <1>1 DEF InLoop, Filtering, Joining, FilterOps, MatrixOps
<1>3. FilterReplaced(g, F) /\ MatrixReplaced(g, literal)
  BY <1>2 DEF FilterReplaced, MatrixReplaced
<1> QED
  BY <1>3 DEF Replaces, Calls

LEMMA MatrixStep ==
  ASSUME BInv, work # <<>>, NEW ts \in Seq(Tree), Calls(ts), NEW g \in Frames, NEW M,
         g.node = Top.node, Joining(g), MatrixHas(M, g)
  PROVE  Replaces(ts, g, filters, M)
<1>1. InLoop(Top) /\ InLoop(g)
  BY TopHas DEF Frames
<1>2. ~Filtering(Top) /\ ~Filtering(g)
  BY <1>1 DEF InLoop, Filtering, Joining, FilterOps, MatrixOps
<1>3. FilterReplaced(g, filters) /\ MatrixReplaced(g, M)
  BY <1>2 DEF FilterReplaced, MatrixReplaced
<1> QED
  BY <1>3 DEF Replaces, Calls

LEMMA FilterNext ==
  ASSUME BInv, work # <<>>, NEW g \in Frames, NEW F, g.node = Top.node, Filtering(g), FilterHas(F, g)
  PROVE  Replaces(<<>>, g, F, literal)
<1>1. <<>> \in Seq(Tree)
  OBVIOUS
<1> QED
  BY <1>1, NoCalls, FilterStep

LEMMA MatrixNext ==
  ASSUME BInv, work # <<>>, NEW g \in Frames, NEW M, g.node = Top.node, Joining(g), MatrixHas(M, g)
  PROVE  Replaces(<<>>, g, filters, M)
<1>1. <<>> \in Seq(Tree)
  OBVIOUS
<1> QED
  BY <1>1, NoCalls, MatrixStep

(* What an expression that is not separate does with what it lost.         *)
LEMMA Ruins ==
  ASSUME BInv, ~Separate(Top.node), undefined' = TRUE, built' = built, work'[1].node = Top.node
  PROVE  Ruined'
<1>1. BuiltRight'
  BY BInvGives DEF BuiltRight
<1>2. (~Separate(Top.node))'
  BY DEF Top, Separate
<1> QED
  BY <1>1, <1>2 DEF Ruined

LEMMA GoesRuins ==
  ASSUME BInv, work # <<>>, ~Separate(Top.node), undefined' = TRUE, built' = built,
         NEW g, g.node = Top.node, work' = <<g>> \o Under
  PROVE  Ruined'
<1>1. Under \in Stacks
  BY BInvGives, Popped
<1>2. (<<g>> \o Under)[1] = g
  BY <1>1 DEF Stacks
<1> QED
  BY <1>2, Ruins
-----------------------------------------------------------------------------
LEMMA VisitKeeps ==
  ASSUME BInv, visitFilter
  PROVE  BInv'
<1> DEFINE t == Top.node
           g == Frame("init", t, 1, 1)
<1>1. work # <<>> /\ t.k = "filter" /\ ~Filtering(Top) /\ ~Joining(Top)
  BY DEF visitFilter, At, Filtering, Joining
<1>2. t \in Tree /\ filters \in FilterStates /\ literal \in LiteralStates /\ undefined = FALSE
  BY <1>1, TopHas
<1>3. t.before \in Seq(Tree) /\ DOMAIN t.before = 1 .. Len(t.before)
  BY <1>1, <1>2, FilterShape
<1>4. g \in Frames /\ g.node = t /\ ~Active(g) /\ ~Filtering(g) /\ ~Joining(g)
  BY <1>1, <1>2 DEF Frame, Frames, FrameRecords, InLoop, FilterOps, MatrixOps, Active, Filtering, Joining
<1>5. Replaces(t.before, g, filters, literal)
  BY <1>1, <1>2, <1>3, <1>4, BeforeUses DEF Replaces, FilterReplaced, MatrixReplaced
<1>6. /\ work' = Visits(t.before) \o <<g>> \o Under /\ filters' = filters /\ literal' = literal
      /\ undefined' = FALSE /\ built' = built
  BY <1>2 DEF visitFilter
<1> QED
  BY <1>1, <1>2, <1>3, <1>4, <1>5, <1>6, PushKeeps

LEMMA InitExprKeeps ==
  ASSUME BInv, rt_init_filter_expr
  PROVE  BInv'
<1> DEFINE t == Top.node
           n == Len(t.tests) + 1
           g == Frame("header", t, 1, 1)
           F == [num |-> n, live |-> TRUE, residual |-> TRUE,
                 vecs |-> [q \in 1 .. n |-> [data |-> <<>>, room |-> Len(t.domain)]]]
<1>1. work # <<>> /\ Top.op = "init" /\ undefined' = undefined /\ literal' = literal /\ built' = built
      /\ work' = <<g>> \o Under /\ filters' = F
  BY DEF rt_init_filter_expr, At, Goes
<1>2. t \in Tree /\ t.k = "filter" /\ undefined = FALSE /\ literal \in LiteralStates
  BY <1>1, TopHas DEF InLoop, FilterOps
<1>3. /\ Len(t.tests) \in Nat /\ Len(t.domain) \in Nat /\ t.domain \in Seq(Value)
      /\ DOMAIN t.tests = 1 .. Len(t.tests)
  BY <1>2, FilterShape
<1>4. g \in Frames /\ g.node = t /\ Filtering(g)
  BY <1>2, <1>3 DEF Frame, Frames, FrameRecords, InLoop, FilterOps, MatrixOps, Filtering
<1>5. F \in FilterStates
  <2>1. [data |-> <<>>, room |-> Len(t.domain)] \in Vec
    BY <1>3 DEF Vec
  <2>2. F.vecs \in Vectors
    BY <1>3, <2>1 DEF Vectors
  <2>3. n \in Nat
    BY <1>3
  <2> QED
    BY <2>2, <2>3 DEF FilterStates
<1>6. FilterFor(F, g)
  <2>1. g.i = 1 /\ g.p = 1 /\ g.node = t /\ g.i - 1 = 0
    BY DEF Frame
  <2>2. \A q \in DOMAIN t.tests : Seen(g, q) = 0 /\ ~(q < 1) /\ q \in 1 .. n
    BY <1>3, <2>1 DEF Seen
  <2>3. n \in 1 .. n
    BY <1>3
  <2>4. \A q \in 1 .. n : F.vecs[q].data = <<>> /\ F.vecs[q].room = Len(t.domain)
    OBVIOUS
  <2>5. \A q \in DOMAIN t.tests : Selected(F.vecs[q].data, t.domain, t.tests[q], Seen(g, q))
    BY <2>2, <2>4, SelectedNone
  <2>6. Selected(F.vecs[n].data, t.domain, Rest(t), g.i - 1)
    BY <2>1, <2>3, <2>4, SelectedNone
  <2>7. F.live /\ F.num = n /\ DOMAIN F.vecs = 1 .. n /\ F.residual
    OBVIOUS
  <2> HIDE DEF F, n, g, t
  <2> QED
    BY <2>1, <2>2, <2>4, <2>5, <2>6, <2>7 DEF FilterFor, n
<1>7. Replaces(<<>>, g, F, literal)
  BY <1>1, <1>4, <1>6, FilterNext DEF FilterHas
<1> QED
  BY <1>1, <1>2, <1>4, <1>5, <1>7, GoesKeeps
-----------------------------------------------------------------------------
LEMMA FilterSame ==
  ASSUME NEW F, NEW f, NEW g, g.node = f.node, g.i = f.i, g.p = f.p, FilterHas(F, f)
  PROVE  FilterHas(F, g)
  BY DEF FilterHas, FilterFor, Seen

LEMMA HeaderKeeps ==
  ASSUME BInv, LoopHeader
  PROVE  BInv'
<1> DEFINE t == Top.node
           g == Frame(IF Top.i <= Len(t.domain) THEN "predicate" ELSE "complete", t, Top.i, 1)
<1>1. /\ work # <<>> /\ Top.op = "header" /\ undefined' = undefined /\ built' = built
      /\ work' = <<g>> \o Under /\ filters' = filters /\ literal' = literal
  BY DEF LoopHeader, At, Goes
<1>2. /\ t \in Tree /\ t.k = "filter" /\ undefined = FALSE /\ filters \in FilterStates /\ literal \in LiteralStates
      /\ Top.p = 1 /\ Top.i <= Len(t.domain) + 1 /\ Top.i \in Nat /\ Top.i >= 1
  BY <1>1, TopHas DEF InLoop, FilterOps
<1>3. Len(t.tests) \in Nat /\ Len(t.domain) \in Nat
  BY <1>2, FilterShape
<1>4. /\ g.node = t /\ g.i = Top.i /\ g.p = 1 /\ g.op \in {"predicate", "complete"}
      /\ (g.op = "predicate" => Top.i <= Len(t.domain))
      /\ (g.op = "complete" => Top.i = Len(t.domain) + 1)
  BY <1>2, <1>3 DEF Frame
<1>5. g \in FrameRecords
  BY <1>2, <1>4 DEF Frame, FrameRecords, FilterOps, MatrixOps
<1>6. InLoop(g) /\ Filtering(g)
  BY <1>2, <1>3, <1>4 DEF InLoop, FilterOps, MatrixOps, Filtering
<1>7. g \in Frames
  BY <1>5, <1>6 DEF Frames
<1> HIDE DEF g
<1>8. FilterHas(filters, Top)
  BY <1>1, TopHas DEF Filtering
<1>9. FilterHas(filters, g)
  BY <1>2, <1>4, <1>8, FilterSame
<1>10. Replaces(<<>>, g, filters, literal)
  BY <1>1, <1>4, <1>6, <1>7, <1>9, FilterNext
<1> QED
  BY <1>1, <1>2, <1>7, <1>10, GoesKeeps

LEMMA PredicateKeeps ==
  ASSUME BInv, Predicate
  PROVE  BInv'
<1> DEFINE t == Top.node
           ts == t.calls[Top.p]
           g == Frame("update", t, Top.i, Top.p)
<1>1. /\ work # <<>> /\ Top.op = "predicate" /\ undefined' = undefined /\ built' = built
      /\ work' = Visits(ts) \o <<g>> \o Under /\ filters' = filters /\ literal' = literal
      /\ Top.p <= Len(t.tests)
  BY DEF Predicate, At
<1>2. /\ t \in Tree /\ t.k = "filter" /\ undefined = FALSE /\ filters \in FilterStates /\ literal \in LiteralStates
      /\ Top.p >= 1 /\ Top.p \in Nat /\ Top.i <= Len(t.domain) /\ Top.i \in Nat /\ Top.i >= 1
  BY <1>1, TopHas DEF InLoop, FilterOps
<1>3. /\ Len(t.tests) \in Nat /\ t.calls \in Seq(Seq(Tree)) /\ Len(t.calls) = Len(t.tests)
  BY <1>2, FilterShape
<1>4. Top.p \in DOMAIN t.calls /\ ts \in Seq(Tree)
  BY <1>1, <1>2, <1>3
<1>5. /\ g.node = t /\ g.i = Top.i /\ g.p = Top.p /\ g.op = "update"
  BY DEF Frame
<1>6. g \in FrameRecords
  BY <1>2 DEF Frame, FrameRecords, FilterOps, MatrixOps
<1>7. InLoop(g) /\ Filtering(g)
  BY <1>1, <1>2, <1>5 DEF InLoop, FilterOps, MatrixOps, Filtering
<1>8. g \in Frames
  BY <1>6, <1>7 DEF Frames
<1>9. FilterHas(filters, Top)
  BY <1>1, TopHas DEF Filtering
<1>10. Calls(ts)
  <2>1. DOMAIN ts = 1 .. Len(ts)
    BY <1>4
  <2> QED
    BY <1>2, <1>4, <2>1, CalledUses DEF Calls
<1> HIDE DEF g, ts
<1>11. FilterHas(filters, g)
  BY <1>5, <1>9, FilterSame
<1>12. Replaces(ts, g, filters, literal)
  BY <1>1, <1>4, <1>5, <1>7, <1>8, <1>10, <1>11, FilterStep
<1> QED
  BY <1>1, <1>2, <1>4, <1>8, <1>12, PushKeeps
-----------------------------------------------------------------------------
LEMMA VectorsHave ==
  ASSUME NEW vs \in Vectors
  PROVE  /\ \A q \in DOMAIN vs : vs[q] \in Vec
         /\ \A q \in DOMAIN vs, x \in Vec : [vs EXCEPT ![q] = x] \in Vectors
  BY DEF Vectors

(* What a builder in the loop looks like.                                  *)
LEMMA FilterGives ==
  ASSUME NEW F \in FilterStates, NEW f, f.node \in Tree, f.node.k = "filter", FilterFor(F, f)
  PROVE  /\ F.live /\ F.num = Len(f.node.tests) + 1 /\ F.num \in Nat /\ DOMAIN F.vecs = 1 .. F.num
         /\ DOMAIN f.node.tests = 1 .. F.num - 1 /\ Len(f.node.tests) = F.num - 1
         /\ F.num \in 1 .. F.num /\ F.residual \in BOOLEAN
         /\ \A q \in 1 .. F.num :
              /\ F.vecs[q] \in Vec
              /\ F.vecs[q].room = Len(f.node.domain)
<1>1. /\ Len(f.node.tests) \in Nat /\ DOMAIN f.node.tests = 1 .. Len(f.node.tests)
  BY FilterShape
<1>2. F.live /\ F.num = Len(f.node.tests) + 1 /\ DOMAIN F.vecs = 1 .. F.num
      /\ \A q \in 1 .. F.num : F.vecs[q].room = Len(f.node.domain)
  BY DEF FilterFor
<1>3. F.num \in Nat /\ F.vecs \in Vectors /\ F.residual \in BOOLEAN
  BY DEF FilterStates
<1>4. \A q \in DOMAIN F.vecs : F.vecs[q] \in Vec
  BY <1>3, VectorsHave
<1>5. \A q \in 1 .. F.num : F.vecs[q] \in Vec
  BY <1>2, <1>4
<1>6. Len(f.node.tests) = F.num - 1 /\ F.num \in 1 .. F.num
  BY <1>1, <1>2, <1>3
<1>7. DOMAIN f.node.tests = 1 .. F.num - 1
  BY <1>1, <1>6
<1> QED
  BY <1>2, <1>3, <1>5, <1>6, <1>7

(* A vector that has what is selected of fewer values has room for more.   *)
LEMMA HasRoom ==
  ASSUME NEW F \in FilterStates, NEW f, f.node \in Tree, f.node.k = "filter", FilterFor(F, f),
         NEW q \in 1 .. F.num, NEW S, NEW n \in Nat, n < Len(f.node.domain),
         Selected(F.vecs[q].data, f.node.domain, S, n)
  PROVE  Len(F.vecs[q].data) < F.vecs[q].room
<1>1. F.vecs[q] \in Vec /\ F.vecs[q].room = Len(f.node.domain)
  BY FilterGives
<1>0. F.vecs[q].data \in Seq(Value)
  BY <1>1 DEF Vec
<1>2. Len(F.vecs[q].data) <= n
  BY <1>0, SelectedShort
<1>3. Len(F.vecs[q].data) \in Nat /\ Len(f.node.domain) \in Nat
  BY <1>0, FilterShape
<1> QED
  BY <1>1, <1>2, <1>3

(* One value more for the vector at q.                                     *)
Taken(F, q, v, r) == [F EXCEPT !.vecs[q] = Put(@, v), !.residual = r]

LEMMA TakenShape ==
  ASSUME NEW F \in FilterStates, NEW q \in DOMAIN F.vecs, NEW v \in Value, NEW r \in BOOLEAN
  PROVE  /\ Taken(F, q, v, r) \in FilterStates
         /\ Taken(F, q, v, r).num = F.num /\ Taken(F, q, v, r).live = F.live
         /\ Taken(F, q, v, r).residual = r
         /\ DOMAIN Taken(F, q, v, r).vecs = DOMAIN F.vecs
         /\ \A h \in DOMAIN F.vecs : h # q => Taken(F, q, v, r).vecs[h] = F.vecs[h]
         /\ Taken(F, q, v, r).vecs[q].data = Append(F.vecs[q].data, v)
         /\ Taken(F, q, v, r).vecs[q].room = F.vecs[q].room
<1>0. F.vecs \in Vectors
  BY DEF FilterStates
<1>1. F.vecs[q] \in Vec
  BY <1>0, VectorsHave
<1>2. Put(F.vecs[q], v) \in Vec
  BY <1>1, SMTT(30) DEF Put, Vec
<1>3. [F.vecs EXCEPT ![q] = Put(F.vecs[q], v)] \in Vectors
  BY <1>0, <1>2, VectorsHave
<1>4. Taken(F, q, v, r) = [F EXCEPT !.vecs = [F.vecs EXCEPT ![q] = Put(F.vecs[q], v)], !.residual = r]
  BY DEF Taken, FilterStates
<1>5. Taken(F, q, v, r) \in FilterStates
  BY <1>3, <1>4 DEF FilterStates
<1>6. /\ Put(F.vecs[q], v).data = Append(F.vecs[q].data, v)
      /\ Put(F.vecs[q], v).room = F.vecs[q].room
  BY <1>1 DEF Put, Vec
<1>7. Taken(F, q, v, r).vecs = [F.vecs EXCEPT ![q] = Put(F.vecs[q], v)]
  BY <1>4 DEF FilterStates
<1>8. /\ Taken(F, q, v, r).num = F.num /\ Taken(F, q, v, r).live = F.live
      /\ Taken(F, q, v, r).residual = r
  BY <1>4 DEF FilterStates
<1> QED
  BY <1>5, <1>6, <1>7, <1>8

LEMMA UpdateTakes ==
  ASSUME NEW F \in FilterStates, NEW f, NEW g, f.node \in Tree, f.node.k = "filter", FilterFor(F, f),
         f.i \in 1 .. Len(f.node.domain), f.p \in 1 .. Len(f.node.tests),
         f.node.domain[f.i] \in f.node.tests[f.p],
         g.node = f.node, g.i = f.i, g.p = f.p + 1
  PROVE  FilterFor(Taken(F, f.p, f.node.domain[f.i], FALSE), g)
<1> DEFINE t == f.node
           n == F.num
           v == t.domain[f.i]
           G == Taken(F, f.p, v, FALSE)
<1>1. /\ F.live /\ n = Len(t.tests) + 1 /\ n \in Nat /\ DOMAIN F.vecs = 1 .. n
      /\ DOMAIN t.tests = 1 .. n - 1 /\ n \in 1 .. n /\ Len(t.tests) = n - 1
  BY FilterGives
<1>2. \A q \in 1 .. n : F.vecs[q] \in Vec /\ F.vecs[q].room = Len(t.domain)
  BY FilterGives
<1>3. t.domain \in Seq(Value) /\ v \in Value /\ f.i \in Nat /\ f.p \in Nat
  <2>1. t.domain \in Seq(Value)
    BY FilterShape
  <2> QED
    BY <2>1
<1>4. f.p \in DOMAIN F.vecs /\ f.p # n /\ f.p \in DOMAIN t.tests /\ FALSE \in BOOLEAN
  BY <1>1, SMTT(30)
<1>5. /\ G.num = F.num /\ G.live = F.live /\ G.residual = FALSE
      /\ DOMAIN G.vecs = DOMAIN F.vecs
      /\ \A h \in DOMAIN F.vecs : h # f.p => G.vecs[h] = F.vecs[h]
      /\ G.vecs[f.p].data = Append(F.vecs[f.p].data, v)
      /\ G.vecs[f.p].room = F.vecs[f.p].room
  <2>1. PICK q \in DOMAIN F.vecs, w \in Value, r \in BOOLEAN : q = f.p /\ w = v /\ r = FALSE
    BY <1>3, <1>4
  <2> DEFINE H == Taken(F, q, w, r)
  <2>2. /\ H.num = F.num /\ H.live = F.live /\ H.residual = r
        /\ DOMAIN H.vecs = DOMAIN F.vecs
        /\ \A h \in DOMAIN F.vecs : h # q => H.vecs[h] = F.vecs[h]
        /\ H.vecs[q].data = Append(F.vecs[q].data, w)
        /\ H.vecs[q].room = F.vecs[q].room
    BY TakenShape
  <2>3. G = H
    BY <2>1
  <2> HIDE DEF G, H
  <2> QED
    BY <2>1, <2>2, <2>3
<1>6. /\ \A q \in DOMAIN t.tests : Selected(F.vecs[q].data, t.domain, t.tests[q], Seen(f, q))
      /\ Selected(F.vecs[n].data, t.domain, Rest(t), f.i - 1)
  BY <1>1 DEF FilterFor
<1> HIDE DEF G
<1>7. Selected(G.vecs[f.p].data, t.domain, t.tests[f.p], f.i)
  <2>1. Seen(f, f.p) = f.i - 1
    BY <1>3 DEF Seen
  <2>2. F.vecs[f.p].data \in Seq(Value)
    BY <1>1, <1>2, <1>4 DEF Vec
  <2>3. Selected(F.vecs[f.p].data, t.domain, t.tests[f.p], f.i - 1)
    BY <1>4, <1>6, <2>1
  <2>4. Selected(Append(F.vecs[f.p].data, t.domain[f.i]), t.domain, t.tests[f.p], f.i)
    BY <1>3, <2>2, <2>3, SelectedTake
  <2> QED
    BY <1>5, <2>4
<1>8. ASSUME NEW q \in DOMAIN t.tests
      PROVE  Selected(G.vecs[q].data, t.domain, t.tests[q], Seen(g, q))
  <2>1. CASE q = f.p
    BY <1>3, <1>7, <2>1 DEF Seen
  <2>2. CASE q # f.p
    <3>1. Seen(g, q) = Seen(f, q)
      BY <1>1, <1>3, <2>2 DEF Seen
    <3>2. G.vecs[q] = F.vecs[q]
      BY <1>1, <1>5, <2>2, SMTT(30)
    <3> QED
      BY <1>6, <3>1, <3>2
  <2> QED
    BY <2>1, <2>2
<1>9. Selected(G.vecs[n].data, t.domain, Rest(t), g.i - 1)
  BY <1>1, <1>4, <1>5, <1>6
<1>10. \A q \in 1 .. n : G.vecs[q].room = Len(t.domain)
  BY <1>1, <1>2, <1>5, ZenonT(40)
<1>11. ~(\A q \in DOMAIN t.tests : q < g.p => t.domain[g.i] \notin t.tests[q])
  BY <1>3, <1>4
<1>12. G.live /\ G.num = Len(t.tests) + 1 /\ DOMAIN G.vecs = 1 .. Len(t.tests) + 1 /\ ~G.residual
  BY <1>1, <1>5
<1>13. FilterFor(G, g)
  BY <1>1, <1>8, <1>9, <1>10, <1>11, <1>12 DEF FilterFor
<1> QED
  BY <1>13 DEF G

LEMMA UpdateSkips ==
  ASSUME NEW F \in FilterStates, NEW f, NEW g, f.node \in Tree, f.node.k = "filter", FilterFor(F, f),
         f.i \in 1 .. Len(f.node.domain), f.p \in 1 .. Len(f.node.tests),
         f.node.domain[f.i] \notin f.node.tests[f.p],
         g.node = f.node, g.i = f.i, g.p = f.p + 1
  PROVE  FilterFor(F, g)
<1> DEFINE t == f.node
           n == F.num
<1>1. /\ F.live /\ n = Len(t.tests) + 1 /\ n \in Nat /\ DOMAIN F.vecs = 1 .. n
      /\ DOMAIN t.tests = 1 .. n - 1 /\ n \in 1 .. n /\ Len(t.tests) = n - 1
  BY FilterGives
<1>2. \A q \in 1 .. n : F.vecs[q] \in Vec /\ F.vecs[q].room = Len(t.domain)
  BY FilterGives
<1>3. t.domain \in Seq(Value) /\ f.i \in Nat /\ f.p \in Nat /\ f.p \in DOMAIN t.tests
  BY <1>1, FilterShape
<1>4. /\ \A q \in DOMAIN t.tests : Selected(F.vecs[q].data, t.domain, t.tests[q], Seen(f, q))
      /\ Selected(F.vecs[n].data, t.domain, Rest(t), f.i - 1)
      /\ F.residual <=> \A q \in DOMAIN t.tests : q < f.p => t.domain[f.i] \notin t.tests[q]
  BY <1>1 DEF FilterFor
<1>5. Selected(F.vecs[f.p].data, t.domain, t.tests[f.p], f.i)
  <2>1. Seen(f, f.p) = f.i - 1
    BY <1>3 DEF Seen
  <2>2. F.vecs[f.p].data \in Seq(Value)
    BY <1>1, <1>2, <1>3 DEF Vec
  <2>3. Selected(F.vecs[f.p].data, t.domain, t.tests[f.p], f.i - 1)
    BY <1>3, <1>4, <2>1
  <2> QED
    BY <1>3, <2>2, <2>3, SelectedSkip
<1>6. ASSUME NEW q \in DOMAIN t.tests
      PROVE  Selected(F.vecs[q].data, t.domain, t.tests[q], Seen(g, q))
  <2>1. CASE q = f.p
    BY <1>3, <1>5, <2>1 DEF Seen
  <2>2. CASE q # f.p
    <3>1. Seen(g, q) = Seen(f, q)
      BY <1>1, <1>3, <2>2 DEF Seen
    <3> QED
      BY <1>4, <3>1
  <2> QED
    BY <2>1, <2>2
<1>7. \A q \in DOMAIN t.tests : q < g.p <=> q < f.p \/ q = f.p
  BY <1>1, <1>3
<1>8. F.residual <=> \A q \in DOMAIN t.tests : q < g.p => t.domain[g.i] \notin t.tests[q]
  BY <1>3, <1>4, <1>7
<1>9. Selected(F.vecs[n].data, t.domain, Rest(t), g.i - 1)
  BY <1>4
<1> QED
  BY <1>1, <1>2, <1>6, <1>8, <1>9 DEF FilterFor

LEMMA AfterUpdate ==
  ASSUME BInv, rt_update_filter_at_pos
  PROVE  LET t == Top.node
             g == Frame("predicate", t, Top.i, Top.p + 1) IN
         /\ work # <<>> /\ Filtering(Top) /\ work' = <<g>> \o Under
         /\ literal' = literal /\ built' = built
         /\ t \in Tree /\ t.k = "filter" /\ filters \in FilterStates /\ literal \in LiteralStates
         /\ Top.p \in 1 .. Len(t.tests) /\ Top.p \in DOMAIN t.tests
         /\ Top.i \in 1 .. Len(t.domain) /\ t.domain[Top.i] \in Value
         /\ Len(t.tests) \in Nat /\ Len(t.domain) \in Nat
         /\ g \in Frames /\ Filtering(g) /\ g.node = t /\ g.i = Top.i /\ g.p = Top.p + 1
<1> DEFINE t == Top.node
           g == Frame("predicate", t, Top.i, Top.p + 1)
<1>1. /\ work # <<>> /\ Top.op = "update" /\ built' = built /\ work' = <<g>> \o Under /\ literal' = literal
  BY DEF rt_update_filter_at_pos, At, Goes
<1>2. /\ t \in Tree /\ t.k = "filter" /\ filters \in FilterStates /\ literal \in LiteralStates
      /\ Top.p >= 1 /\ Top.p \in Nat /\ Top.p <= Len(t.tests)
      /\ Top.i <= Len(t.domain) /\ Top.i \in Nat /\ Top.i >= 1
  BY <1>1, TopHas DEF InLoop, FilterOps
<1>3. /\ Len(t.tests) \in Nat /\ Len(t.domain) \in Nat /\ t.domain \in Seq(Value)
      /\ DOMAIN t.tests = 1 .. Len(t.tests)
  BY <1>2, FilterShape
<1>4. /\ Top.p \in 1 .. Len(t.tests) /\ Top.i \in 1 .. Len(t.domain) /\ t.domain[Top.i] \in Value
      /\ Top.p \in DOMAIN t.tests
  BY <1>2, <1>3
<1>5. /\ g.node = t /\ g.i = Top.i /\ g.p = Top.p + 1 /\ g.op = "predicate"
  BY DEF Frame
<1>6. g \in FrameRecords
  BY <1>2 DEF Frame, FrameRecords, FilterOps, MatrixOps
<1>7. InLoop(g) /\ Filtering(g) /\ Filtering(Top)
  BY <1>1, <1>2, <1>3, <1>5 DEF InLoop, FilterOps, MatrixOps, Filtering
<1>8. g \in Frames
  BY <1>6, <1>7 DEF Frames
<1> QED
  BY <1>1, <1>2, <1>3, <1>4, <1>5, <1>7, <1>8

LEMMA UpdateKeeps ==
  ASSUME BInv, rt_update_filter_at_pos, FilterFor(filters, Top)
  PROVE  BInv'
<1> DEFINE t == Top.node
           g == Frame("predicate", t, Top.i, Top.p + 1)
           G == Taken(filters, Top.p, t.domain[Top.i], FALSE)
<1>1. /\ IF Holds /\ Fits(Top.p) THEN filters' = G ELSE filters' = filters
      /\ undefined' = ~(Holds => Fits(Top.p))
  BY DEF rt_update_filter_at_pos, Access, Taken
<1>2. /\ work # <<>> /\ work' = <<g>> \o Under /\ literal' = literal /\ built' = built
      /\ t \in Tree /\ t.k = "filter" /\ filters \in FilterStates /\ literal \in LiteralStates
      /\ Top.p \in 1 .. Len(t.tests) /\ Top.p \in DOMAIN t.tests
      /\ Top.i \in 1 .. Len(t.domain) /\ t.domain[Top.i] \in Value
      /\ Len(t.tests) \in Nat /\ Len(t.domain) \in Nat
      /\ g \in Frames /\ Filtering(g) /\ g.node = t /\ g.i = Top.i /\ g.p = Top.p + 1
  BY AfterUpdate
<1> HIDE DEF g
<1>3. Fits(Top.p)
  <2>1. Seen(Top, Top.p) = Top.i - 1 /\ Top.i - 1 \in Nat /\ Top.i - 1 < Len(t.domain)
    BY <1>2 DEF Seen
  <2>2. Selected(filters.vecs[Top.p].data, t.domain, t.tests[Top.p], Top.i - 1)
    BY <1>2, <2>1 DEF FilterFor
  <2>3. filters.live /\ DOMAIN filters.vecs = 1 .. filters.num /\ filters.num = Len(t.tests) + 1
    BY <1>2, FilterGives
  <2>4. Top.p \in 1 .. filters.num
    BY <1>2, <2>3
  <2>5. Len(filters.vecs[Top.p].data) < filters.vecs[Top.p].room
    BY <1>2, <2>1, <2>2, <2>4, HasRoom
  <2> QED
    BY <2>3, <2>4, <2>5 DEF Fits
<1>4. undefined' = FALSE
  BY <1>1, <1>3
<1>5. CASE Holds
  <2>1. filters' = G
    BY <1>1, <1>3, <1>5
  <2>2. Top.p \in DOMAIN filters.vecs
    BY <1>3 DEF Fits
  <2>3. G \in FilterStates
    BY <1>2, <2>2, TakenShape
  <2>4. FilterFor(G, g)
    BY <1>2, <1>5, UpdateTakes DEF Holds
  <2> HIDE DEF G
  <2>5. Replaces(<<>>, g, G, literal)
    BY <1>2, <2>4, FilterNext DEF FilterHas
  <2> QED
    BY <1>2, <1>4, <2>1, <2>3, <2>5, GoesKeeps
<1>6. CASE ~Holds
  <2>1. filters' = filters
    BY <1>1, <1>6
  <2>2. FilterFor(filters, g)
    BY <1>2, <1>6, UpdateSkips DEF Holds
  <2>3. Replaces(<<>>, g, filters, literal)
    BY <1>2, <2>2, FilterNext DEF FilterHas
  <2> QED
    BY <1>2, <1>4, <2>1, <2>3, GoesKeeps
<1> QED
  BY <1>5, <1>6

(* A value that satisfies the predicate goes into what was released.       *)
LEMMA UpdateLate ==
  ASSUME BInv, rt_update_filter_at_pos, ~Separate(Top.node), ~filters.live
  PROVE  BInv' \/ Ruined'
<1> DEFINE g == Frame("predicate", Top.node, Top.i, Top.p + 1)
<1>1. filters' = filters /\ undefined' = ~(Holds => FALSE)
  BY DEF rt_update_filter_at_pos, Access, Fits
<1>2. /\ work # <<>> /\ work' = <<g>> \o Under /\ literal' = literal /\ built' = built
      /\ filters \in FilterStates /\ literal \in LiteralStates
      /\ g \in Frames /\ Filtering(g) /\ g.node = Top.node
  BY AfterUpdate
<1> HIDE DEF g
<1>3. CASE Holds
  <2>1. undefined' = TRUE
    BY <1>1, <1>3
  <2> QED
    BY <1>2, <2>1, GoesRuins
<1>4. CASE ~Holds
  <2>1. undefined' = FALSE
    BY <1>1, <1>4
  <2>2. FilterHas(filters, g)
    BY <1>2 DEF FilterHas
  <2>3. Replaces(<<>>, g, filters, literal)
    BY <1>2, <2>2, FilterNext
  <2> QED
    BY <1>1, <1>2, <2>1, <2>3, GoesKeeps
<1> QED
  BY <1>3, <1>4
-----------------------------------------------------------------------------
(* After the last predicate the flag says whether the value is of the rest.*)
LEMMA FlagIsRest ==
  ASSUME NEW F \in FilterStates, NEW f, f.node \in Tree, f.node.k = "filter", FilterFor(F, f),
         f.i \in 1 .. Len(f.node.domain), f.p = Len(f.node.tests) + 1
  PROVE  /\ F.residual <=> f.node.domain[f.i] \in Rest(f.node)
         /\ \A q \in DOMAIN f.node.tests :
              Selected(F.vecs[q].data, f.node.domain, f.node.tests[q], f.i)
<1>1. /\ DOMAIN f.node.tests = 1 .. Len(f.node.tests) /\ Len(f.node.tests) \in Nat
      /\ f.node.domain \in Seq(Value)
  BY FilterShape
<1>2. \A q \in DOMAIN f.node.tests : q < f.p
  BY <1>1
<1>3. f.node.domain[f.i] \in Value
  BY <1>1
<1>4. \A q \in DOMAIN f.node.tests : Seen(f, q) = f.i
  BY <1>2 DEF Seen
<1> QED
  BY <1>2, <1>3, <1>4 DEF FilterFor, Rest

LEMMA EndTakes ==
  ASSUME NEW F \in FilterStates, NEW f, NEW g, f.node \in Tree, f.node.k = "filter", FilterFor(F, f),
         f.i \in 1 .. Len(f.node.domain), f.p = Len(f.node.tests) + 1, F.residual,
         g.node = f.node, g.i = f.i + 1, g.p = 1
  PROVE  FilterFor(Taken(F, F.num, f.node.domain[f.i], TRUE), g)
<1> DEFINE t == f.node
           n == F.num
<1>1. /\ F.live /\ n = Len(t.tests) + 1 /\ n \in Nat /\ DOMAIN F.vecs = 1 .. n
      /\ DOMAIN t.tests = 1 .. n - 1 /\ n \in 1 .. n /\ Len(t.tests) = n - 1
  BY FilterGives
<1>2. \A q \in 1 .. n : F.vecs[q] \in Vec /\ F.vecs[q].room = Len(t.domain)
  BY FilterGives
<1>3. t.domain \in Seq(Value) /\ f.i \in Nat /\ t.domain[f.i] \in Value
  <2>1. t.domain \in Seq(Value)
    BY FilterShape
  <2> QED
    BY <2>1
<1>4. PICK h \in DOMAIN F.vecs, v \in Value, r \in BOOLEAN : h = n /\ v = t.domain[f.i] /\ r = TRUE
  BY <1>1, <1>3
<1> DEFINE G == Taken(F, h, v, r)
<1>5. /\ G.num = F.num /\ G.live = F.live /\ G.residual = r
      /\ DOMAIN G.vecs = DOMAIN F.vecs
      /\ \A q \in DOMAIN F.vecs : q # h => G.vecs[q] = F.vecs[q]
      /\ G.vecs[h].data = Append(F.vecs[h].data, v)
      /\ G.vecs[h].room = F.vecs[h].room
  BY TakenShape
<1>6. /\ t.domain[f.i] \in Rest(t)
      /\ \A q \in DOMAIN t.tests : Selected(F.vecs[q].data, t.domain, t.tests[q], f.i)
  BY FlagIsRest
<1>7. Taken(F, n, t.domain[f.i], TRUE) = G
  BY <1>4, SMTT(30)
<1> HIDE DEF G
<1>8. Selected(G.vecs[n].data, t.domain, Rest(t), f.i)
  <2>1. Selected(F.vecs[n].data, t.domain, Rest(t), f.i - 1)
    BY <1>1 DEF FilterFor
  <2>2. F.vecs[n].data \in Seq(Value)
    BY <1>1, <1>2 DEF Vec
  <2>3. Selected(Append(F.vecs[n].data, t.domain[f.i]), t.domain, Rest(t), f.i)
    BY <1>3, <1>6, <2>1, <2>2, SelectedTake
  <2> QED
    BY <1>4, <1>5, <2>3
<1>9. /\ \A q \in DOMAIN t.tests : q # n /\ q \in DOMAIN F.vecs /\ Seen(g, q) = f.i
      /\ g.i - 1 = f.i /\ \A q \in DOMAIN t.tests : ~(q < g.p)
  <2>1. \A q \in DOMAIN t.tests : q # n /\ q \in DOMAIN F.vecs
    BY <1>1, SMTT(30)
  <2>2. g.i - 1 = f.i
    BY <1>3
  <2>3. \A q \in DOMAIN t.tests : ~(q < g.p)
    BY <1>1
  <2> QED
    BY <2>1, <2>2, <2>3 DEF Seen
<1>10. \A q \in DOMAIN t.tests : Selected(G.vecs[q].data, t.domain, t.tests[q], Seen(g, q))
  BY <1>4, <1>5, <1>6, <1>9
<1>11. \A q \in 1 .. n : G.vecs[q].room = Len(t.domain)
  BY <1>1, <1>2, <1>5
<1>12. G.live /\ G.num = Len(t.tests) + 1 /\ DOMAIN G.vecs = 1 .. Len(t.tests) + 1 /\ G.residual
  BY <1>1, <1>4, <1>5
<1>13. FilterFor(G, g)
  BY <1>1, <1>8, <1>9, <1>10, <1>11, <1>12 DEF FilterFor
<1> QED
  BY <1>7, <1>13

LEMMA EndSkips ==
  ASSUME NEW F \in FilterStates, NEW f, NEW g, f.node \in Tree, f.node.k = "filter", FilterFor(F, f),
         f.i \in 1 .. Len(f.node.domain), f.p = Len(f.node.tests) + 1, ~F.residual,
         g.node = f.node, g.i = f.i + 1, g.p = 1
  PROVE  /\ [F EXCEPT !.residual = TRUE] \in FilterStates
         /\ FilterFor([F EXCEPT !.residual = TRUE], g)
<1> DEFINE t == f.node
           n == F.num
           G == [F EXCEPT !.residual = TRUE]
<1>1. /\ F.live /\ n = Len(t.tests) + 1 /\ n \in Nat /\ DOMAIN F.vecs = 1 .. n
      /\ DOMAIN t.tests = 1 .. n - 1 /\ n \in 1 .. n /\ Len(t.tests) = n - 1
  BY FilterGives
<1>2. \A q \in 1 .. n : F.vecs[q] \in Vec /\ F.vecs[q].room = Len(t.domain)
  BY FilterGives
<1>3. t.domain \in Seq(Value) /\ f.i \in Nat
  BY FilterShape
<1>4. G \in FilterStates /\ G.num = F.num /\ G.live = F.live /\ G.vecs = F.vecs /\ G.residual = TRUE
  BY DEF FilterStates
<1>5. /\ t.domain[f.i] \notin Rest(t)
      /\ \A q \in DOMAIN t.tests : Selected(F.vecs[q].data, t.domain, t.tests[q], f.i)
  BY FlagIsRest
<1> HIDE DEF G
<1>6. Selected(G.vecs[n].data, t.domain, Rest(t), f.i)
  <2>1. Selected(F.vecs[n].data, t.domain, Rest(t), f.i - 1)
    BY <1>1 DEF FilterFor
  <2>2. F.vecs[n].data \in Seq(Value)
    BY <1>1, <1>2 DEF Vec
  <2> QED
    BY <1>3, <1>4, <1>5, <2>1, <2>2, SelectedSkip
<1>7. /\ \A q \in DOMAIN t.tests : Seen(g, q) = f.i
      /\ g.i - 1 = f.i /\ \A q \in DOMAIN t.tests : ~(q < g.p)
  <2>1. g.i - 1 = f.i
    BY <1>3
  <2>2. \A q \in DOMAIN t.tests : ~(q < g.p)
    BY <1>1
  <2> QED
    BY <2>1, <2>2 DEF Seen
<1>8. \A q \in DOMAIN t.tests : Selected(G.vecs[q].data, t.domain, t.tests[q], Seen(g, q))
  BY <1>4, <1>5, <1>7
<1>9. FilterFor(G, g)
  BY <1>1, <1>2, <1>4, <1>6, <1>7, <1>8 DEF FilterFor
<1> QED
  BY <1>4, <1>9 DEF G

LEMMA AfterEnd ==
  ASSUME BInv, rt_filter_end_iter
  PROVE  LET t == Top.node
             g == Frame("header", t, Top.i + 1, 1) IN
         /\ work # <<>> /\ Filtering(Top) /\ work' = <<g>> \o Under
         /\ literal' = literal /\ built' = built
         /\ t \in Tree /\ t.k = "filter" /\ filters \in FilterStates /\ literal \in LiteralStates
         /\ Top.p = Len(t.tests) + 1
         /\ Top.i \in 1 .. Len(t.domain) /\ t.domain[Top.i] \in Value
         /\ Len(t.domain) \in Nat
         /\ g \in Frames /\ Filtering(g) /\ g.node = t /\ g.i = Top.i + 1 /\ g.p = 1
<1> DEFINE t == Top.node
           g == Frame("header", t, Top.i + 1, 1)
<1>1. /\ work # <<>> /\ Top.op = "predicate" /\ built' = built /\ work' = <<g>> \o Under /\ literal' = literal
      /\ Top.p > Len(t.tests)
  BY DEF rt_filter_end_iter, At, Goes
<1>2. /\ t \in Tree /\ t.k = "filter" /\ filters \in FilterStates /\ literal \in LiteralStates
      /\ Top.p \in Nat /\ Top.p <= Len(t.tests) + 1
      /\ Top.i <= Len(t.domain) /\ Top.i \in Nat /\ Top.i >= 1
  BY <1>1, TopHas DEF InLoop, FilterOps
<1>3. /\ Len(t.tests) \in Nat /\ Len(t.domain) \in Nat /\ t.domain \in Seq(Value)
  BY <1>2, FilterShape
<1>4. Top.p = Len(t.tests) + 1 /\ Top.i \in 1 .. Len(t.domain) /\ t.domain[Top.i] \in Value
  BY <1>1, <1>2, <1>3
<1>5. /\ g.node = t /\ g.i = Top.i + 1 /\ g.p = 1 /\ g.op = "header"
  BY DEF Frame
<1>6. g \in FrameRecords
  BY <1>2 DEF Frame, FrameRecords, FilterOps, MatrixOps
<1>7. InLoop(g) /\ Filtering(g) /\ Filtering(Top)
  BY <1>1, <1>2, <1>3, <1>5 DEF InLoop, FilterOps, MatrixOps, Filtering
<1>8. g \in Frames
  BY <1>6, <1>7 DEF Frames
<1> QED
  BY <1>1, <1>2, <1>3, <1>4, <1>5, <1>7, <1>8

LEMMA EndIterKeeps ==
  ASSUME BInv, rt_filter_end_iter, FilterFor(filters, Top)
  PROVE  BInv'
<1> DEFINE t == Top.node
           v == t.domain[Top.i]
           n == filters.num
           g == Frame("header", t, Top.i + 1, 1)
<1>1. undefined' = ~(filters.residual => Fits(n))
  BY DEF rt_filter_end_iter, Access
<1>2. /\ work # <<>> /\ work' = <<g>> \o Under /\ literal' = literal /\ built' = built
      /\ t \in Tree /\ t.k = "filter" /\ filters \in FilterStates /\ literal \in LiteralStates
      /\ Top.p = Len(t.tests) + 1
      /\ Top.i \in 1 .. Len(t.domain) /\ v \in Value
      /\ Len(t.domain) \in Nat
      /\ g \in Frames /\ Filtering(g) /\ g.node = t /\ g.i = Top.i + 1 /\ g.p = 1
  BY AfterEnd
<1> HIDE DEF g
<1>3. /\ filters.live /\ n = Len(t.tests) + 1 /\ n \in Nat /\ DOMAIN filters.vecs = 1 .. n
      /\ n \in 1 .. n /\ filters.residual \in BOOLEAN
  BY <1>2, FilterGives
<1>4. Fits(n)
  <2>1. Selected(filters.vecs[n].data, t.domain, Rest(t), Top.i - 1)
    BY <1>3 DEF FilterFor
  <2>2. Top.i - 1 \in Nat /\ Top.i - 1 < Len(t.domain)
    BY <1>2
  <2>3. Len(filters.vecs[n].data) < filters.vecs[n].room
    BY <1>2, <1>3, <2>1, <2>2, HasRoom
  <2> QED
    BY <1>3, <2>3 DEF Fits
<1>5. undefined' = FALSE
  BY <1>1, <1>4
<1>6. CASE filters.residual
  <2> DEFINE G == Taken(filters, n, v, TRUE)
  <2>1. filters' = G
    <3>1. filters' = [filters EXCEPT !.vecs[n] = Put(@, v)]
      BY <1>4, <1>6 DEF rt_filter_end_iter
    <3>2. filters.residual = TRUE
      BY <1>3, <1>6
    <3>3. [filters EXCEPT !.vecs[n] = Put(@, v)] = [filters EXCEPT !.vecs[n] = Put(@, v), !.residual = TRUE]
      BY <1>2, <3>2 DEF FilterStates
    <3> QED
      BY <3>1, <3>3 DEF Taken
  <2>2. TRUE \in BOOLEAN /\ n \in DOMAIN filters.vecs
    BY <1>3
  <2>3. G \in FilterStates
    BY <1>2, <2>2, TakenShape
  <2>4. FilterFor(G, g)
    BY <1>2, <1>6, EndTakes
  <2> HIDE DEF G
  <2>5. Replaces(<<>>, g, G, literal)
    BY <1>2, <2>4, FilterNext DEF FilterHas
  <2> QED
    BY <1>2, <1>5, <2>1, <2>3, <2>5, GoesKeeps
<1>7. CASE ~filters.residual
  <2> DEFINE G == [filters EXCEPT !.residual = TRUE]
  <2>1. filters' = G
    BY <1>7 DEF rt_filter_end_iter
  <2>2. G \in FilterStates /\ FilterFor(G, g)
    BY <1>2, <1>7, EndSkips
  <2> HIDE DEF G
  <2>3. Replaces(<<>>, g, G, literal)
    BY <1>2, <2>2, FilterNext DEF FilterHas
  <2> QED
    BY <1>2, <1>5, <2>1, <2>2, <2>3, GoesKeeps
<1> QED
  BY <1>6, <1>7

(* A value no predicate has taken goes into what was released.             *)
LEMMA EndIterLate ==
  ASSUME BInv, rt_filter_end_iter, ~Separate(Top.node), ~filters.live
  PROVE  BInv' \/ Ruined'
<1> DEFINE g == Frame("header", Top.node, Top.i + 1, 1)
           G == [filters EXCEPT !.residual = TRUE]
<1>1. undefined' = ~(filters.residual => FALSE) /\ (~filters.residual => filters' = G)
  BY DEF rt_filter_end_iter, Access, Fits
<1>2. /\ work # <<>> /\ work' = <<g>> \o Under /\ literal' = literal /\ built' = built
      /\ filters \in FilterStates /\ literal \in LiteralStates
      /\ g \in Frames /\ Filtering(g) /\ g.node = Top.node
  BY AfterEnd
<1> HIDE DEF g
<1>3. CASE filters.residual
  <2>1. undefined' = TRUE
    BY <1>1, <1>3
  <2> QED
    BY <1>2, <2>1, GoesRuins
<1>4. CASE ~filters.residual
  <2>1. undefined' = FALSE /\ filters' = G
    BY <1>1, <1>4
  <2>2. G \in FilterStates /\ ~G.live
    BY <1>2 DEF FilterStates
  <2> HIDE DEF G
  <2>3. FilterHas(G, g)
    BY <1>2, <2>2 DEF FilterHas
  <2>4. Replaces(<<>>, g, G, literal)
    BY <1>2, <2>3, FilterNext
  <2> QED
    BY <1>2, <2>1, <2>2, <2>4, GoesKeeps
<1> QED
  BY <1>3, <1>4
LEMMA CompleteKeeps ==
  ASSUME BInv, CompleteFilter, FilterFor(filters, Top)
  PROVE  BInv'
<1> DEFINE t == Top.node
           n == Len(t.tests) + 1
           ok == filters.live /\ n <= Len(filters.vecs)
           value == [q \in 1 .. n |-> filters.vecs[q].data]
           G == [filters EXCEPT !.live = FALSE, !.num = 0, !.residual = FALSE]
<1>1. /\ work # <<>> /\ Top.op = "complete" /\ work' = (IF ok THEN Under ELSE work) /\ literal' = literal
      /\ filters' = G /\ undefined' = ~ok /\ built' = IF ok THEN <<t, value>> ELSE built
  BY DEF CompleteFilter, At, Access
<1>2. /\ t \in Tree /\ t.k = "filter" /\ filters \in FilterStates /\ literal \in LiteralStates
      /\ Top.p = 1 /\ Top.i = Len(t.domain) + 1
  BY <1>1, TopHas DEF InLoop, FilterOps
<1>3. ~Joining(Top)
  BY <1>1 DEF Joining
<1>4. /\ filters.live /\ filters.num = n /\ n \in Nat /\ DOMAIN filters.vecs = 1 .. n
      /\ DOMAIN t.tests = 1 .. n - 1 /\ n \in 1 .. n
  BY <1>2, FilterGives
<1>5. ok
  <2>1. filters.vecs \in Vectors
    BY <1>2 DEF FilterStates
  <2>2. Len(filters.vecs) = n
    BY <1>4, <2>1 DEF Vectors
  <2> QED
    BY <1>4, <2>2
<1>6. IsFiltered(t, value)
  <2>1. Len(t.domain) \in Nat /\ Len(t.tests) \in Nat
    BY <1>2, FilterShape
  <2>2. Top.i - 1 = Len(t.domain) /\ \A q \in DOMAIN t.tests : Seen(Top, q) = Len(t.domain)
    BY <1>2, <1>4, <2>1 DEF Seen
  <2>3. Len(value) = n
    BY <1>4
  <2>4. \A q \in DOMAIN t.tests : Selected(value[q], t.domain, t.tests[q], Len(t.domain))
    <3>1. \A q \in DOMAIN t.tests : value[q] = filters.vecs[q].data
      BY <1>4
    <3> QED
      BY <2>2, <3>1 DEF FilterFor
  <2>5. Selected(value[n], t.domain, Rest(t), Len(t.domain))
    <3>1. value[n] = filters.vecs[n].data
      BY <1>4
    <3> QED
      BY <2>2, <3>1 DEF FilterFor
  <2> QED
    BY <2>3, <2>4, <2>5 DEF IsFiltered
<1>7. BuiltRight'
  <2>1. built' = <<t, value>>
    BY <1>1, <1>5
  <2> HIDE DEF value
  <2>2. built'[1] = t /\ built'[2] = value
    BY <2>1
  <2> QED
    BY <1>2, <1>6, <2>2 DEF BuiltRight
<1>8. undefined' = FALSE
  BY <1>1, <1>5
<1>9. G \in FilterStates /\ ~G.live
  BY <1>2 DEF FilterStates
<1> HIDE DEF G
<1>10. FilterReleased(G) /\ MatrixReleased(literal)
  BY <1>2, <1>3, <1>9 DEF FilterReleased, MatrixReleased
<1>11. work' = Under
  BY <1>1, <1>5
<1> QED
  BY <1>1, <1>2, <1>7, <1>8, <1>9, <1>10, <1>11, PopKeeps

(* The vectors asked for were released.                                    *)
LEMMA CompleteLate ==
  ASSUME BInv, CompleteFilter, ~Separate(Top.node), ~filters.live
  PROVE  Ruined'
<1>1. undefined' = TRUE /\ built' = built /\ work' = work
  BY DEF CompleteFilter, Access
<1>2. work'[1].node = Top.node
  BY <1>1 DEF Top
<1> QED
  BY <1>1, <1>2, Ruins
-----------------------------------------------------------------------------
LEMMA LiteralInitKeeps ==
  ASSUME BInv, rt_init_matrix_literal
  PROVE  BInv'
<1> DEFINE t == Top.node
           g == Frame("row", t, 1, 1)
           M == [size |-> Len(t.rows), vecs |-> <<>>, live |-> TRUE]
<1>1. /\ work # <<>> /\ t.k = "matrix" /\ undefined' = undefined /\ built' = built
      /\ work' = <<g>> \o Under /\ literal' = M /\ filters' = filters
  BY DEF rt_init_matrix_literal, At, Goes
<1>2. t \in Tree /\ undefined = FALSE /\ filters \in FilterStates /\ literal \in LiteralStates
  BY <1>1, TopHas
<1>3. Len(t.rows) \in Nat
  BY <1>1, <1>2, MatrixShape
<1>7. M \in LiteralStates
  <2>1. <<>> \in [1 .. 0 -> Seq(Value)] /\ 0 \in Nat
    OBVIOUS
  <2>2. <<>> \in PartialRows
    BY <2>1 DEF PartialRows
  <2> QED
    BY <1>3, <2>2 DEF LiteralStates
<1>4. g \in Frames /\ g.node = t /\ Joining(g)
  BY <1>1, <1>2, <1>3 DEF Frame, Frames, FrameRecords, InLoop, FilterOps, MatrixOps, Joining
<1>5. MatrixFor(M, g)
  <2>1. g.op = "row" /\ g.node = t /\ Added(g) = 0
    BY DEF Frame, Added
  <2>2. DOMAIN M.vecs = 1 .. 0 /\ M.live /\ M.size = Len(t.rows)
    OBVIOUS
  <2> HIDE DEF M, g
  <2> QED
    BY <2>1, <2>2 DEF MatrixFor
<1> HIDE DEF M, g
<1>6. Replaces(<<>>, g, filters, M)
  BY <1>1, <1>4, <1>5, MatrixNext DEF MatrixHas
<1> QED
  BY <1>1, <1>2, <1>4, <1>6, <1>7, GoesKeeps

LEMMA RowKeeps ==
  ASSUME BInv, Row
  PROVE  BInv'
<1> DEFINE t == Top.node
           ts == t.calls[Top.i]
           g == Frame("add", t, Top.i, 1)
<1>1. /\ work # <<>> /\ Top.op = "row" /\ undefined' = undefined /\ built' = built
      /\ work' = Visits(ts) \o <<g>> \o Under /\ filters' = filters /\ literal' = literal
      /\ Top.i <= Len(t.rows)
  BY DEF Row, At
<1>2. /\ t \in Tree /\ t.k = "matrix" /\ undefined = FALSE /\ filters \in FilterStates /\ literal \in LiteralStates
      /\ Top.i \in Nat /\ Top.i >= 1
  BY <1>1, TopHas DEF InLoop, MatrixOps
<1>3. /\ Len(t.rows) \in Nat /\ t.calls \in Seq(Seq(Tree)) /\ Len(t.calls) = Len(t.rows)
  BY <1>2, MatrixShape
<1>4. Top.i \in DOMAIN t.calls /\ ts \in Seq(Tree)
  BY <1>1, <1>2, <1>3
<1>5. g.node = t /\ g.i = Top.i /\ g.op = "add"
  BY DEF Frame
<1>6. g \in FrameRecords
  BY <1>2 DEF Frame, FrameRecords, FilterOps, MatrixOps
<1>7. InLoop(g) /\ Joining(g)
  BY <1>1, <1>2, <1>5 DEF InLoop, FilterOps, MatrixOps, Joining
<1>8. g \in Frames
  BY <1>6, <1>7 DEF Frames
<1>9. MatrixHas(literal, Top)
  BY <1>1, TopHas DEF Joining
<1>10. Calls(ts)
  <2>1. DOMAIN ts = 1 .. Len(ts)
    BY <1>4
  <2> QED
    BY <1>2, <1>4, <2>1, CalledUses DEF Calls
<1> HIDE DEF g, ts
<1>11. MatrixHas(literal, g)
  BY <1>1, <1>5, <1>9 DEF MatrixHas, MatrixFor, Added
<1>12. Replaces(ts, g, filters, literal)
  BY <1>1, <1>4, <1>5, <1>7, <1>8, <1>10, <1>11, MatrixStep
<1> QED
  BY <1>1, <1>2, <1>4, <1>8, <1>12, PushKeeps

LEMMA AddKeeps ==
  ASSUME BInv, rt_add_vector_to_matrix_literal, MatrixFor(literal, Top)
  PROVE  BInv'
<1> DEFINE t == Top.node
           ok == literal.live /\ Top.i \in 1 .. literal.size
           g == Frame("row", t, Top.i + 1, 1)
           M == [literal EXCEPT !.vecs = With(@, Top.i, t.rows[Top.i])]
<1>1. /\ work # <<>> /\ Top.op = "add" /\ undefined' = ~ok /\ built' = built
      /\ work' = <<g>> \o Under /\ filters' = filters /\ literal' = IF ok THEN M ELSE literal
  BY DEF rt_add_vector_to_matrix_literal, At, Goes, Access
<1>2. /\ t \in Tree /\ t.k = "matrix" /\ filters \in FilterStates /\ literal \in LiteralStates
      /\ Top.i \in Nat /\ Top.i >= 1 /\ Top.i <= Len(t.rows)
  BY <1>1, TopHas DEF InLoop, MatrixOps
<1>3. Len(t.rows) \in Nat
  BY <1>2, MatrixShape
<1>4. Added(Top) = Top.i - 1
  BY <1>1 DEF Added
<1>5. ok /\ literal.size = Len(t.rows)
  BY <1>2, <1>3, <1>4 DEF MatrixFor
<1>6. g.node = t /\ g.i = Top.i + 1 /\ g.op = "row"
  BY DEF Frame
<1>7. g \in FrameRecords
  BY <1>2 DEF Frame, FrameRecords, FilterOps, MatrixOps
<1>8. InLoop(g) /\ Joining(g)
  BY <1>2, <1>3, <1>6 DEF InLoop, FilterOps, MatrixOps, Joining
<1>9. g \in Frames
  BY <1>7, <1>8 DEF Frames
<1>10. PICK M1 : M1 = literal'
  OBVIOUS
<1>11. M1 \in LiteralStates /\ MatrixFor(M1, g)
  <2>1. M1 = M
    BY <1>1, <1>5, <1>10
  <2>2. DOMAIN literal.vecs = 1 .. Top.i - 1 /\ \A q \in 1 .. Top.i - 1 : literal.vecs[q] = t.rows[q]
    BY <1>4 DEF MatrixFor
  <2>3. Added(g) = Top.i /\ (1 .. Top.i - 1) \union {Top.i} = 1 .. Top.i
    BY <1>2, <1>6 DEF Added
  <2>4. With(literal.vecs, Top.i, t.rows[Top.i]) = [q \in 1 .. Top.i |-> IF q = Top.i THEN t.rows[Top.i] ELSE literal.vecs[q]]
    BY <2>2, <2>3 DEF With
  <2>5. M1.vecs = With(literal.vecs, Top.i, t.rows[Top.i]) /\ M1.live = literal.live /\ M1.size = literal.size
    BY <1>2, <2>1 DEF LiteralStates
  <2>6. DOMAIN M1.vecs = 1 .. Added(g) /\ \A q \in 1 .. Added(g) : M1.vecs[q] = t.rows[q]
    BY <1>2, <2>2, <2>3, <2>4, <2>5
  <2>7. MatrixFor(M1, g)
    BY <1>5, <1>6, <2>5, <2>6 DEF MatrixFor
  <2>8. M1.vecs \in [1 .. Top.i -> Seq(Value)]
    <3>1. t.rows \in Seq(Seq(Value))
      BY <1>2, MatrixShape
    <3>2. \A q \in 1 .. Top.i : t.rows[q] \in Seq(Value)
      BY <1>2, <1>3, <3>1
    <3>3. M1.vecs = [q \in 1 .. Top.i |-> M1.vecs[q]]
      BY <2>4, <2>5
    <3> QED
      BY <2>3, <2>6, <3>2, <3>3
  <2>9. M1.vecs \in PartialRows
    BY <1>2, <2>8 DEF PartialRows
  <2>10. M1 = [size |-> literal.size, vecs |-> M1.vecs, live |-> literal.live]
    BY <1>2, <2>1, <2>5 DEF LiteralStates
  <2>11. M1 \in LiteralStates
    BY <1>2, <2>9, <2>10 DEF LiteralStates
  <2> QED
    BY <2>7, <2>11
<1> HIDE DEF g
<1>12. Replaces(<<>>, g, filters, M1)
  BY <1>1, <1>6, <1>8, <1>9, <1>11, MatrixNext DEF MatrixHas
<1>13. undefined' = FALSE
  BY <1>1, <1>5
<1> QED
  BY <1>1, <1>2, <1>9, <1>10, <1>11, <1>12, <1>13, GoesKeeps


(* The row goes into what was released.                                    *)
LEMMA AddLate ==
  ASSUME BInv, rt_add_vector_to_matrix_literal, ~Separate(Top.node), ~literal.live
  PROVE  Ruined'
<1> DEFINE g == Frame("row", Top.node, Top.i + 1, 1)
<1>1. /\ work # <<>> /\ work' = <<g>> \o Under /\ undefined' = TRUE /\ built' = built
  BY DEF rt_add_vector_to_matrix_literal, At, Goes, Access
<1>2. g.node = Top.node
  BY DEF Frame
<1> QED
  BY <1>1, <1>2, GoesRuins
LEMMA AllAddedKeeps ==
  ASSUME BInv, AllAdded
  PROVE  BInv'
<1> DEFINE t == Top.node
           g == Frame("widen", t, 1, 0)
<1>1. /\ work # <<>> /\ Top.op = "row" /\ undefined' = undefined /\ built' = built
      /\ work' = <<g>> \o Under /\ filters' = filters /\ literal' = literal /\ Top.i > Len(t.rows)
  BY DEF AllAdded, At, Goes
<1>2. /\ t \in Tree /\ t.k = "matrix" /\ undefined = FALSE /\ filters \in FilterStates /\ literal \in LiteralStates
      /\ Top.i \in Nat /\ Top.i <= Len(t.rows) + 1
  BY <1>1, TopHas DEF InLoop, MatrixOps
<1>3. Len(t.rows) \in Nat
  BY <1>2, MatrixShape
<1>4. MatrixHas(literal, Top) /\ Added(Top) = Len(t.rows)
  <2>1. MatrixHas(literal, Top)
    BY <1>1, TopHas DEF Joining
  <2>2. Top.i - 1 = Len(t.rows)
    BY <1>1, <1>2, <1>3
  <2> QED
    BY <1>1, <2>1, <2>2 DEF Added
<1>5. g.node = t /\ g.i = 1 /\ g.p = 0 /\ g.op = "widen"
  BY DEF Frame
<1>6. g \in FrameRecords
  BY <1>2 DEF Frame, FrameRecords, FilterOps, MatrixOps
<1>7. InLoop(g) /\ Joining(g)
  BY <1>2, <1>3, <1>5 DEF InLoop, FilterOps, MatrixOps, Joining
<1>8. g \in Frames
  BY <1>6, <1>7 DEF Frames
<1> HIDE DEF g
<1>9. IsLongest(g.p, t.rows, g.i - 1)
  BY <1>5 DEF IsLongest
<1>10. Added(g) = Len(t.rows)
  BY <1>5 DEF Added
<1>11. MatrixHas(literal, g)
  BY <1>4, <1>5, <1>9, <1>10 DEF MatrixHas, MatrixFor
<1>12. Replaces(<<>>, g, filters, literal)
  BY <1>1, <1>5, <1>7, <1>8, <1>11, MatrixNext
<1> QED
  BY <1>1, <1>2, <1>8, <1>12, GoesKeeps

LEMMA LongestMore ==
  ASSUME NEW rows \in Seq(Seq(Value)), NEW i \in 1 .. Len(rows), NEW p \in Nat, IsLongest(p, rows, i - 1)
  PROVE  IsLongest(IF p < Len(rows[i]) THEN Len(rows[i]) ELSE p, rows, i)
<1>1. /\ \A q \in 1 .. i : Len(rows[q]) \in Nat
      /\ i \in Nat /\ \A q \in 1 .. i : q = i \/ q \in 1 .. i - 1
      /\ \A q \in 1 .. i - 1 : q \in 1 .. i
      /\ i \in 1 .. i
  OBVIOUS
<1> QED
  BY <1>1 DEF IsLongest

LEMMA MaxSizeKeeps ==
  ASSUME BInv, MaxSize, MatrixFor(literal, Top)
  PROVE  BInv'
<1> DEFINE t == Top.node
           ok == literal.live /\ Top.i \in DOMAIN literal.vecs
           size == IF ok THEN Len(literal.vecs[Top.i]) ELSE 0
           n == IF Top.p < size THEN size ELSE Top.p
           g == Frame("widen", t, Top.i + 1, n)
<1>1. /\ work # <<>> /\ Top.op = "widen" /\ undefined' = ~ok /\ built' = built
      /\ work' = <<g>> \o Under /\ filters' = filters /\ literal' = literal /\ Top.i <= literal.size
  BY DEF MaxSize, At, Goes, Access
<1>2. /\ t \in Tree /\ t.k = "matrix" /\ filters \in FilterStates /\ literal \in LiteralStates
      /\ Top.i \in Nat /\ Top.i >= 1 /\ Top.p \in Nat
  BY <1>1, TopHas DEF InLoop, MatrixOps
<1>3. Len(t.rows) \in Nat /\ t.rows \in Seq(Seq(Value))
  BY <1>2, MatrixShape
<1>4. Added(Top) = Len(t.rows)
  BY <1>1 DEF Added
<1>5. /\ literal.live /\ literal.size = Len(t.rows) /\ DOMAIN literal.vecs = 1 .. Len(t.rows)
      /\ \A q \in 1 .. Len(t.rows) : literal.vecs[q] = t.rows[q]
      /\ IsLongest(Top.p, t.rows, Top.i - 1)
  BY <1>1, <1>4 DEF MatrixFor
<1>6. Top.i \in 1 .. Len(t.rows) /\ ok
  BY <1>1, <1>2, <1>3, <1>5
<1>7. size = Len(t.rows[Top.i]) /\ n \in Nat /\ IsLongest(n, t.rows, Top.i)
  <2>1. size = Len(t.rows[Top.i]) /\ size \in Nat
    BY <1>3, <1>5, <1>6, SMTT(30)
  <2>2. IsLongest(IF Top.p < Len(t.rows[Top.i]) THEN Len(t.rows[Top.i]) ELSE Top.p, t.rows, Top.i)
    BY <1>2, <1>3, <1>5, <1>6, LongestMore
  <2> QED
    BY <1>2, <2>1, <2>2
<1> HIDE DEF n
<1>8. g.node = t /\ g.i = Top.i + 1 /\ g.p = n /\ g.op = "widen" /\ g.i - 1 = Top.i
  BY <1>2 DEF Frame
<1>9. g \in FrameRecords
  BY <1>2, <1>7 DEF Frame, FrameRecords, FilterOps, MatrixOps
<1>10. InLoop(g) /\ Joining(g)
  BY <1>2, <1>3, <1>6, <1>8 DEF InLoop, FilterOps, MatrixOps, Joining
<1>11. g \in Frames
  BY <1>9, <1>10 DEF Frames
<1> HIDE DEF g
<1>12. MatrixFor(literal, g)
  <2>1. Added(g) = Len(t.rows)
    BY <1>8 DEF Added
  <2> QED
    BY <1>5, <1>7, <1>8, <2>1 DEF MatrixFor
<1>13. Replaces(<<>>, g, filters, literal)
  BY <1>1, <1>8, <1>10, <1>11, <1>12, MatrixNext DEF MatrixHas
<1>14. undefined' = FALSE
  BY <1>1, <1>6
<1> QED
  BY <1>1, <1>2, <1>11, <1>13, <1>14, GoesKeeps


(* The length of a row that was released is asked for.                     *)
LEMMA MaxSizeLate ==
  ASSUME BInv, MaxSize, ~Separate(Top.node), ~literal.live
  PROVE  Ruined'
<1> DEFINE size == IF literal.live /\ Top.i \in DOMAIN literal.vecs THEN Len(literal.vecs[Top.i]) ELSE 0
           g == Frame("widen", Top.node, Top.i + 1, IF Top.p < size THEN size ELSE Top.p)
<1>1. /\ work # <<>> /\ work' = <<g>> \o Under /\ undefined' = TRUE /\ built' = built
  BY DEF MaxSize, At, Goes, Access
<1>2. g.node = Top.node
  BY DEF Frame
<1> HIDE DEF g
<1> QED
  BY <1>1, <1>2, GoesRuins
LEMMA GetBuiltKeeps ==
  ASSUME BInv, rt_get_built_matrix_literal, MatrixFor(literal, Top)
  PROVE  BInv'
<1> DEFINE t == Top.node
           n == Len(t.rows)
           ok == literal.live /\ DOMAIN literal.vecs = 1 .. literal.size
           value == [q \in 1 .. literal.size |-> Filled(literal.vecs[q], Top.p)]
           M == [literal EXCEPT !.live = FALSE]
<1>1. /\ work # <<>> /\ Top.op = "widen" /\ undefined' = ~ok /\ filters' = filters
      /\ work' = IF ok THEN Under ELSE work
      /\ literal' = M /\ Top.i > literal.size /\ built' = IF ok THEN <<t, value>> ELSE built
  BY DEF rt_get_built_matrix_literal, At, Access
<1>2. /\ t \in Tree /\ t.k = "matrix" /\ filters \in FilterStates /\ literal \in LiteralStates
      /\ Top.i \in Nat /\ Top.i <= n + 1
  BY <1>1, TopHas DEF InLoop, MatrixOps
<1>3. n \in Nat /\ t.rows \in Seq(Seq(Value)) /\ DOMAIN t.rows = 1 .. n
  BY <1>2, MatrixShape
<1>4. Added(Top) = n /\ ~Filtering(Top)
  BY <1>1 DEF Added, Filtering
<1>5. /\ ok /\ literal.size = n
      /\ \A q \in 1 .. n : literal.vecs[q] = t.rows[q]
      /\ IsLongest(Top.p, t.rows, Top.i - 1)
  BY <1>1, <1>4 DEF MatrixFor
<1>6. IsLongest(Top.p, t.rows, n)
  <2>1. Top.i - 1 = n
    BY <1>1, <1>2, <1>3, <1>5
  <2> QED
    BY <1>5, <2>1
<1>7. value = [q \in DOMAIN t.rows |-> Filled(t.rows[q], Top.p)]
  BY <1>3, <1>5
<1>8. IsMatrix(t, value)
  <2>1. Top.p \in {0} \union {Len(t.rows[q]) : q \in DOMAIN t.rows}
    BY <1>3, <1>6 DEF IsLongest
  <2> HIDE DEF value
  <2> QED
    BY <1>6, <1>7, <2>1 DEF IsMatrix
<1>9. BuiltRight'
  <2>1. built' = <<t, value>>
    BY <1>1, <1>5
  <2> HIDE DEF value
  <2>2. built'[1] = t /\ built'[2] = value
    BY <2>1
  <2> QED
    BY <1>2, <1>8, <2>2 DEF BuiltRight
<1>10. undefined' = FALSE
  BY <1>1, <1>5
<1>11. M \in LiteralStates /\ ~M.live
  BY <1>2 DEF LiteralStates
<1> HIDE DEF M
<1>12. FilterReleased(filters) /\ MatrixReleased(M)
  BY <1>2, <1>4, <1>11 DEF FilterReleased, MatrixReleased
<1>13. work' = Under
  BY <1>1, <1>5
<1> QED
  BY <1>1, <1>2, <1>9, <1>10, <1>11, <1>12, <1>13, PopKeeps

(* The rows asked for were released.                                       *)
LEMMA GetBuiltLate ==
  ASSUME BInv, rt_get_built_matrix_literal, ~Separate(Top.node), ~literal.live
  PROVE  Ruined'
<1>1. undefined' = TRUE /\ built' = built /\ work' = work
  BY DEF rt_get_built_matrix_literal, Access
<1>2. work'[1].node = Top.node
  BY <1>1 DEF Top
<1> QED
  BY <1>1, <1>2, Ruins
-----------------------------------------------------------------------------
(* Nothing is being built when the program starts to evaluate.             *)
THEOREM NothingBuiltYet == Init => BInv
<1> SUFFICES ASSUME Init PROVE BInv
  OBVIOUS
<1>1. PICK t \in Source : work = <<Visit(t)>>
  BY DEF Init
<1>2. /\ filters = [num |-> 0, vecs |-> <<>>, live |-> FALSE, residual |-> FALSE]
      /\ literal = [size |-> 0, vecs |-> <<>>, live |-> FALSE]
      /\ built = <<>> /\ undefined = FALSE
  BY DEF Init
<1>3. Visit(t) \in Frames /\ ~Active(Visit(t)) /\ t \in Tree
  <2>1. t \in Tree
    BY TreeAssumption
  <2> QED
    BY <2>1 DEF Visit, Frame, Frames, FrameRecords, InLoop, FilterOps, MatrixOps, Active, Filtering, Joining
<1>4. work \in Stacks /\ DOMAIN work = {1} /\ work[1] = Visit(t)
  BY <1>1, <1>3 DEF Stacks
<1>5. filters \in FilterStates
  BY <1>2 DEF FilterStates, Vectors
<1>6. literal \in LiteralStates
  <2>1. <<>> \in [1 .. 0 -> Seq(Value)] /\ 0 \in Nat
    OBVIOUS
  <2>2. <<>> \in PartialRows
    BY <2>1 DEF PartialRows
  <2> QED
    BY <1>2, <2>2 DEF LiteralStates
<1>7. Apart(work)
  BY <1>4 DEF Apart
<1>8. BuilderInv
  BY <1>3, <1>4 DEF BuilderInv, Active
<1> QED
  BY <1>2, <1>4, <1>5, <1>6, <1>7, <1>8 DEF BInv, Shapes, BuiltRight

(* Every step of the emitted code and of the runtime keeps the builders    *)
(* apart and what they have right, until an expression uses what another   *)
(* of its kind has released.                                               *)
LEMMA RunningStep ==
  ASSUME BInv, Next
  PROVE  BInv' \/ Ruined'
<1>0. work # <<>> => /\ Filtering(Top) => FilterHas(filters, Top)
                     /\ Joining(Top) => MatrixHas(literal, Top)
  BY TopHas
<1>1. CASE visitFilter
  BY <1>1, VisitKeeps
<1>2. CASE rt_init_filter_expr
  BY <1>2, InitExprKeeps
<1>3. CASE LoopHeader
  BY <1>3, HeaderKeeps
<1>4. CASE Predicate
  BY <1>4, PredicateKeeps
<1>5. CASE rt_update_filter_at_pos
  <2>1. work # <<>> /\ Filtering(Top)
    BY <1>5 DEF rt_update_filter_at_pos, At, Filtering
  <2> QED
    BY <1>0, <1>5, <2>1, UpdateKeeps, UpdateLate DEF FilterHas
<1>6. CASE rt_filter_end_iter
  <2>1. work # <<>> /\ Filtering(Top)
    BY <1>6 DEF rt_filter_end_iter, At, Filtering
  <2> QED
    BY <1>0, <1>6, <2>1, EndIterKeeps, EndIterLate DEF FilterHas
<1>7. CASE CompleteFilter
  <2>1. work # <<>> /\ Filtering(Top)
    BY <1>7 DEF CompleteFilter, At, Filtering
  <2> QED
    BY <1>0, <1>7, <2>1, CompleteKeeps, CompleteLate DEF FilterHas
<1>8. CASE rt_init_matrix_literal
  BY <1>8, LiteralInitKeeps
<1>9. CASE Row
  BY <1>9, RowKeeps
<1>10. CASE rt_add_vector_to_matrix_literal
  <2>1. work # <<>> /\ Joining(Top)
    BY <1>10 DEF rt_add_vector_to_matrix_literal, At, Joining
  <2> QED
    BY <1>0, <1>10, <2>1, AddKeeps, AddLate DEF MatrixHas
<1>11. CASE AllAdded
  BY <1>11, AllAddedKeeps
<1>12. CASE MaxSize
  <2>1. work # <<>> /\ Joining(Top)
    BY <1>12 DEF MaxSize, At, Joining
  <2> QED
    BY <1>0, <1>12, <2>1, MaxSizeKeeps, MaxSizeLate DEF MatrixHas
<1>13. CASE rt_get_built_matrix_literal
  <2>1. work # <<>> /\ Joining(Top)
    BY <1>13 DEF rt_get_built_matrix_literal, At, Joining
  <2> QED
    BY <1>0, <1>13, <2>1, GetBuiltKeeps, GetBuiltLate DEF MatrixHas
<1> QED
  BY <1>1, <1>2, <1>3, <1>4, <1>5, <1>6, <1>7, <1>8, <1>9, <1>10, <1>11, <1>12, <1>13 DEF Next

LEMMA RuinedStops ==
  ASSUME Ruined
  PROVE  ~Next
<1>1. \A op : ~At(op)
  BY DEF Ruined, At
<1> QED
  BY <1>1 DEF Next, visitFilter, rt_init_filter_expr, LoopHeader, Predicate,
       rt_update_filter_at_pos, rt_filter_end_iter, CompleteFilter,
       rt_init_matrix_literal, Row, rt_add_vector_to_matrix_literal,
       AllAdded, MaxSize, rt_get_built_matrix_literal

(* The invariant of the running code, or what is left when it went wrong,  *)
(* is kept by every step.                                                  *)
THEOREM BuildersStayRight == RInv /\ [Next]_vars => RInv'
<1> SUFFICES ASSUME RInv, [Next]_vars PROVE RInv'
  OBVIOUS
<1>1. CASE UNCHANGED vars
  <2>1. work' = work /\ filters' = filters /\ literal' = literal /\ built' = built /\ undefined' = undefined
    BY <1>1 DEF vars
  <2>2. CASE BInv
    <3>1. /\ work \in Stacks /\ filters \in FilterStates /\ literal \in LiteralStates
          /\ undefined = FALSE /\ Apart(work) /\ BuilderFor(work, filters, literal) /\ BuiltRight
      BY <2>2, BInvGives
    <3>2. BuiltRight'
      BY <2>1, <3>1 DEF BuiltRight
    <3>3. BInv'
      BY <2>1, <3>1, <3>2, BInvMade
    <3> QED
      BY <3>3 DEF RInv
  <2>3. CASE Ruined
    <3>1. BuiltRight'
      BY <2>1, <2>3 DEF BuiltRight, Ruined
    <3>2. (~Separate(Top.node))'
      BY <2>1, <2>3 DEF Top, Separate, Ruined
    <3> QED
      BY <2>1, <2>3, <3>1, <3>2 DEF RInv, Ruined
  <2> QED
    BY <2>2, <2>3 DEF RInv
<1>2. CASE Next
  BY <1>2, RunningStep, RuinedStops DEF RInv
<1> QED
  BY <1>1, <1>2

LEMMA BuildersInit == Init => RInv
  BY NothingBuiltYet DEF RInv

(* What becomes a value is what the expression denotes, in every program.  *)
THEOREM FiltersAndLiteralsBuiltRight == Spec => []BuiltRight
<1>1. RInv => BuiltRight
  BY DEF RInv, BInv, Ruined
<1> QED
  BY <1>1, BuildersInit, BuildersStayRight, PTL DEF Spec

(* Under construction, the variables have what the loop has seen, unless   *)
(* it evaluates another of its kind, which is under way or has released    *)
(* them.                                                                   *)
THEOREM BuildersFollowTheirLoops == Spec => []BuilderInv
<1>1. RInv => BuilderInv
  BY DEF RInv, BInv, Ruined, BuilderInv
<1> QED
  BY <1>1, BuildersInit, BuildersStayRight, PTL DEF Spec
-----------------------------------------------------------------------------
(* What nests its own kind is lost.  A frame is past a call once what the  *)
(* predicate or row evaluates has been pushed.                             *)
Nests(t, q) == \E j \in DOMAIN t.calls[q] : t.calls[q][j].k = t.k

FilterPast(f) ==
  /\ Filtering(f)
  /\ \E q \in DOMAIN f.node.calls :
       Nests(f.node, q) /\ (f.i > 1 \/ q < f.p \/ (q = f.p /\ f.op = "update"))
MatrixPast(f) ==
  /\ Joining(f)
  /\ \E q \in DOMAIN f.node.calls :
       Nests(f.node, q) /\ (f.op = "widen" \/ q < f.i \/ (q = f.i /\ f.op = "add"))

(* The nested one has released the variables, or is still to do so.        *)
FilterLost(w, F, x) ==
  FilterPast(w[x]) => ~F.live \/ \E y \in 1 .. x - 1 : w[y].node.k = "filter"
MatrixLost(w, M, x) ==
  MatrixPast(w[x]) => ~M.live \/ \E y \in 1 .. x - 1 : w[y].node.k = "matrix"
Lost(w, F, M) == \A x \in DOMAIN w : FilterLost(w, F, x) /\ MatrixLost(w, M, x)

LInv == ReenteredNeverBuilt /\ (undefined = FALSE => Lost(work, filters, literal))

(* A tree that is pushed is in the new stack.                              *)
LEMMA PushedIsThere ==
  ASSUME NEW ts \in Seq(Tree), NEW g, NEW w \in Stacks, Comes(w, ts, g),
         NEW y \in DOMAIN w, y > Len(ts), NEW j \in 1 .. Len(ts)
  PROVE  j \in 1 .. y - 1 /\ w[j].node = ts[j]
<1>1. /\ Len(ts) \in Nat /\ DOMAIN w = 1 .. Len(w) /\ Len(w) \in Nat /\ y \in Nat
  BY DEF Stacks
<1>2. j \in DOMAIN w /\ j \in 1 .. y - 1 /\ ~(j = Len(ts) + 1) /\ ~(j - Len(ts) >= 2)
  BY <1>1
<1>3. ~(j - Len(ts) \in 2 .. Len(work))
  BY <1>2
<1> QED
  BY <1>2, <1>3 DEF Comes

LEMMA FilterLostPush ==
  ASSUME work \in Stacks, work # <<>>, Lost(work, filters, literal),
         NEW ts \in Seq(Tree), NEW g \in Frames, g.node = Top.node, NEW w \in Stacks, Comes(w, ts, g),
         NEW F, F.live => filters.live \/ Top.node.k = "filter",
         FilterPast(g) => ~F.live \/ \E j \in 1 .. Len(ts) : ts[j].k = "filter",
         NEW y \in DOMAIN w
  PROVE  FilterLost(w, F, y)
<1> DEFINE n == Len(ts)
           z == y - n
<1> SUFFICES ASSUME FilterPast(w[y]), F.live
             PROVE  \E u \in 1 .. y - 1 : w[u].node.k = "filter"
  BY Zenon DEF FilterLost
<1>0. n \in Nat /\ y \in Nat
  BY DEF Stacks
<1>1. CASE w[y].op = "visit"
  BY <1>1 DEF FilterPast, Filtering
<1>2. CASE y = n + 1 /\ w[y] = g
  <2>1. PICK j \in 1 .. n : ts[j].k = "filter"
    BY <1>2
  <2>2. j \in 1 .. y - 1 /\ w[j].node = ts[j]
    BY <1>0, <1>2, PushedIsThere
  <2> QED
    BY <2>1, <2>2
<1>3. CASE z \in 2 .. Len(work) /\ w[y] = work[z]
  <2>1. z \in DOMAIN work /\ 1 \in 1 .. z - 1 /\ Top = work[1]
    BY <1>3, TopIsFirst
  <2>2. ASSUME NEW v \in 1 .. z - 1, (IF v = 1 THEN g ELSE work[v]).node.k = "filter"
        PROVE  \E u \in 1 .. y - 1 : w[u].node.k = "filter"
    BY <1>3, <2>2, StillUnder
  <2>3. CASE Top.node.k = "filter"
    BY <2>1, <2>2, <2>3
  <2>4. CASE Top.node.k # "filter"
    <3>1. PICK v \in 1 .. z - 1 : work[v].node.k = "filter"
      BY <1>3, <2>1, <2>4, Zenon DEF Lost, FilterLost
    <3>2. v # 1
      BY <2>1, <2>4, <3>1
    <3> QED
      BY <2>2, <3>1, <3>2
  <2> QED
    BY <2>3, <2>4
<1> QED
  BY <1>1, <1>2, <1>3 DEF Comes

LEMMA FilterLostPop ==
  ASSUME work \in Stacks, work # <<>>, Lost(work, filters, literal),
         NEW F, F.live => filters.live /\ Top.node.k # "filter", NEW y \in DOMAIN Under
  PROVE  FilterLost(Under, F, y)
<1> SUFFICES ASSUME FilterPast(Under[y]), F.live
             PROVE  \E u \in 1 .. y - 1 : Under[u].node.k = "filter"
  BY Zenon DEF FilterLost
<1>1. y + 1 \in 2 .. Len(work) /\ y + 1 \in DOMAIN work /\ Under[y] = work[y + 1]
      /\ y \in Nat /\ DOMAIN Under = 1 .. Len(Under) /\ Len(Under) \in Nat /\ Top = work[1]
  BY Popped, TopIsFirst DEF Stacks
<1>2. PICK v \in 1 .. (y + 1) - 1 : work[v].node.k = "filter"
  BY <1>1, Zenon DEF Lost, FilterLost
<1>3. v # 1
  BY <1>1, <1>2
<1>4. v - 1 \in 1 .. y - 1 /\ v - 1 \in DOMAIN Under /\ (v - 1) + 1 = v
  BY <1>1, <1>3
<1>5. Under[v - 1] = work[v]
  BY <1>4, Popped
<1> QED
  BY <1>2, <1>4, <1>5

LEMMA MatrixLostPush ==
  ASSUME work \in Stacks, work # <<>>, Lost(work, filters, literal),
         NEW ts \in Seq(Tree), NEW g \in Frames, g.node = Top.node, NEW w \in Stacks, Comes(w, ts, g),
         NEW M, M.live => literal.live \/ Top.node.k = "matrix",
         MatrixPast(g) => ~M.live \/ \E j \in 1 .. Len(ts) : ts[j].k = "matrix",
         NEW y \in DOMAIN w
  PROVE  MatrixLost(w, M, y)
<1> DEFINE n == Len(ts)
           z == y - n
<1> SUFFICES ASSUME MatrixPast(w[y]), M.live
             PROVE  \E u \in 1 .. y - 1 : w[u].node.k = "matrix"
  BY Zenon DEF MatrixLost
<1>0. n \in Nat /\ y \in Nat
  BY DEF Stacks
<1>1. CASE w[y].op = "visit"
  BY <1>1 DEF MatrixPast, Joining
<1>2. CASE y = n + 1 /\ w[y] = g
  <2>1. PICK j \in 1 .. n : ts[j].k = "matrix"
    BY <1>2
  <2>2. j \in 1 .. y - 1 /\ w[j].node = ts[j]
    BY <1>0, <1>2, PushedIsThere
  <2> QED
    BY <2>1, <2>2
<1>3. CASE z \in 2 .. Len(work) /\ w[y] = work[z]
  <2>1. z \in DOMAIN work /\ 1 \in 1 .. z - 1 /\ Top = work[1]
    BY <1>3, TopIsFirst
  <2>2. ASSUME NEW v \in 1 .. z - 1, (IF v = 1 THEN g ELSE work[v]).node.k = "matrix"
        PROVE  \E u \in 1 .. y - 1 : w[u].node.k = "matrix"
    BY <1>3, <2>2, StillUnder
  <2>3. CASE Top.node.k = "matrix"
    BY <2>1, <2>2, <2>3
  <2>4. CASE Top.node.k # "matrix"
    <3>1. PICK v \in 1 .. z - 1 : work[v].node.k = "matrix"
      BY <1>3, <2>1, <2>4, Zenon DEF Lost, MatrixLost
    <3>2. v # 1
      BY <2>1, <2>4, <3>1
    <3> QED
      BY <2>2, <3>1, <3>2
  <2> QED
    BY <2>3, <2>4
<1> QED
  BY <1>1, <1>2, <1>3 DEF Comes

LEMMA MatrixLostPop ==
  ASSUME work \in Stacks, work # <<>>, Lost(work, filters, literal),
         NEW M, M.live => literal.live /\ Top.node.k # "matrix", NEW y \in DOMAIN Under
  PROVE  MatrixLost(Under, M, y)
<1> SUFFICES ASSUME MatrixPast(Under[y]), M.live
             PROVE  \E u \in 1 .. y - 1 : Under[u].node.k = "matrix"
  BY Zenon DEF MatrixLost
<1>1. y + 1 \in 2 .. Len(work) /\ y + 1 \in DOMAIN work /\ Under[y] = work[y + 1]
      /\ y \in Nat /\ DOMAIN Under = 1 .. Len(Under) /\ Len(Under) \in Nat /\ Top = work[1]
  BY Popped, TopIsFirst DEF Stacks
<1>2. PICK v \in 1 .. (y + 1) - 1 : work[v].node.k = "matrix"
  BY <1>1, Zenon DEF Lost, MatrixLost
<1>3. v # 1
  BY <1>1, <1>2
<1>4. v - 1 \in 1 .. y - 1 /\ v - 1 \in DOMAIN Under /\ (v - 1) + 1 = v
  BY <1>1, <1>3
<1>5. Under[v - 1] = work[v]
  BY <1>4, Popped
<1> QED
  BY <1>2, <1>4, <1>5

LEMMA LostPush ==
  ASSUME BInv, work # <<>>, Lost(work, filters, literal),
         NEW ts \in Seq(Tree), NEW g \in Frames, g.node = Top.node,
         work' = Visits(ts) \o <<g>> \o Under,
         filters'.live => filters.live \/ Top.node.k = "filter",
         literal'.live => literal.live \/ Top.node.k = "matrix",
         FilterPast(g) => ~filters'.live \/ \E j \in 1 .. Len(ts) : ts[j].k = "filter",
         MatrixPast(g) => ~literal'.live \/ \E j \in 1 .. Len(ts) : ts[j].k = "matrix"
  PROVE  Lost(work', filters', literal')
<1> DEFINE w == Visits(ts) \o <<g>> \o Under
<1>1. work \in Stacks
  BY BInvGives
<1>2. w \in Stacks /\ Comes(w, ts, g)
  BY <1>1, Pushed
<1>3. work' = w
  OBVIOUS
<1> HIDE DEF w
<1>4. PICK F, M : F = filters' /\ M = literal'
  OBVIOUS
<1>5. \A y \in DOMAIN w : FilterLost(w, F, y)
  BY <1>1, <1>2, <1>4, FilterLostPush
<1>6. \A y \in DOMAIN w : MatrixLost(w, M, y)
  BY <1>1, <1>2, <1>4, MatrixLostPush
<1>7. Lost(w, F, M)
  BY <1>5, <1>6 DEF Lost
<1> QED
  BY <1>3, <1>4, <1>7, Zenon

LEMMA LostGoes ==
  ASSUME BInv, work # <<>>, Lost(work, filters, literal),
         NEW g \in Frames, g.node = Top.node,
         work' = <<g>> \o Under,
         filters'.live => filters.live \/ Top.node.k = "filter",
         literal'.live => literal.live \/ Top.node.k = "matrix",
         FilterPast(g) => ~filters'.live, MatrixPast(g) => ~literal'.live
  PROVE  Lost(work', filters', literal')
<1>1. <<>> \in Seq(Tree) /\ Visits(<<>>) = <<>>
  BY DEF Visits
<1>2. Under \in Stacks
  BY BInvGives, Popped
<1>3. <<>> \o <<g>> \o Under = <<g>> \o Under
  BY <1>2 DEF Stacks
<1>4. work' = Visits(<<>>) \o <<g>> \o Under
  BY <1>1, <1>3
<1> QED
  BY <1>1, <1>4, LostPush

LEMMA LostPop ==
  ASSUME BInv, work # <<>>, Lost(work, filters, literal), work' = Under,
         filters'.live => filters.live /\ Top.node.k # "filter",
         literal'.live => literal.live /\ Top.node.k # "matrix"
  PROVE  Lost(work', filters', literal')
<1>1. work \in Stacks
  BY BInvGives
<1>2. PICK F, M : F = filters' /\ M = literal'
  OBVIOUS
<1>3. \A y \in DOMAIN Under : FilterLost(Under, F, y)
  BY <1>1, <1>2, FilterLostPop
<1>4. \A y \in DOMAIN Under : MatrixLost(Under, M, y)
  BY <1>1, <1>2, MatrixLostPop
<1>5. Lost(Under, F, M)
  BY <1>3, <1>4 DEF Lost
<1> QED
  BY <1>2, <1>5, Zenon

LEMMA TopLost ==
  ASSUME BInv, work # <<>>, Lost(work, filters, literal)
  PROVE  (FilterPast(Top) => ~filters.live) /\ (MatrixPast(Top) => ~literal.live)
<1>1. 1 \in DOMAIN work /\ Top = work[1]
  BY BInvGives, TopIsFirst
<1>2. FilterLost(work, filters, 1) /\ MatrixLost(work, literal, 1)
  BY <1>1, Zenon DEF Lost
<1>3. ~\E y \in 1 .. 1 - 1 : TRUE
  OBVIOUS
<1> QED
  BY <1>1, <1>2, <1>3 DEF FilterLost, MatrixLost

LEMMA LostNext ==
  ASSUME BInv, BInv', work # <<>>, Lost(work, filters, literal),
         NEW g, g.node = Top.node, work' = <<g>> \o Under,
         filters'.live => filters.live \/ Top.node.k = "filter",
         literal'.live => literal.live \/ Top.node.k = "matrix",
         FilterPast(g) => ~filters'.live, MatrixPast(g) => ~literal'.live
  PROVE  Lost(work', filters', literal')
<1>1. Under \in Stacks
  BY BInvGives, Popped
<1>2. (<<g>> \o Under)[1] = g /\ <<g>> \o Under # <<>>
  BY <1>1 DEF Stacks
<1>3. work' \in Stacks
  BY DEF BInv, Shapes
<1>4. g \in Frames
  BY <1>2, <1>3 DEF Stacks
<1> QED
  BY <1>4, LostGoes
-----------------------------------------------------------------------------
LEMMA CallsShape ==
  ASSUME NEW t \in Tree
  PROVE  /\ DOMAIN t.calls = 1 .. Len(t.calls) /\ Len(t.calls) \in Nat
         /\ t.k = "filter" => Len(t.calls) = Len(t.tests)
         /\ t.k = "matrix" => Len(t.calls) = Len(t.rows)
<1>1. t \in Filters \/ t \in Matrices
  BY TreeAssumption
<1>2. CASE t \in Filters
  <2>1. t.k = "filter"
    BY <1>2 DEF Filters
  <2> QED
    BY <2>1, FilterShape
<1>3. CASE t \in Matrices
  <2>1. t.k = "matrix"
    BY <1>3 DEF Matrices
  <2> QED
    BY <2>1, MatrixShape
<1> QED
  BY <1>1, <1>2, <1>3

(* A frame that is past no more calls than the top was.                    *)
LEMMA VisitLoses ==
  ASSUME BInv, BInv', Lost(work, filters, literal), visitFilter
  PROVE  Lost(work', filters', literal')
<1> DEFINE t == Top.node
           g == Frame("init", t, 1, 1)
<1>1. /\ work # <<>> /\ t.k = "filter" /\ filters' = filters /\ literal' = literal
      /\ work' = Visits(t.before) \o <<g>> \o Under
  BY DEF visitFilter, At
<1>2. t \in Tree
  BY <1>1, TopHas
<1>3. t.before \in Seq(Tree)
  BY <1>1, <1>2, FilterShape
<1>4. g \in Frames /\ g.node = t
  BY <1>1, <1>2 DEF Frame, Frames, FrameRecords, InLoop, FilterOps, MatrixOps
<1>5. ~FilterPast(g) /\ ~MatrixPast(g)
  BY DEF Frame, FilterPast, MatrixPast, Filtering, Joining
<1> HIDE DEF g
<1> QED
  BY <1>1, <1>3, <1>4, <1>5, LostPush

LEMMA InitExprLoses ==
  ASSUME BInv, BInv', Lost(work, filters, literal), rt_init_filter_expr
  PROVE  Lost(work', filters', literal')
<1> DEFINE t == Top.node
           g == Frame("header", t, 1, 1)
<1>1. work # <<>> /\ Top.op = "init" /\ literal' = literal /\ work' = <<g>> \o Under
  BY DEF rt_init_filter_expr, At, Goes
<1>2. t \in Tree /\ t.k = "filter"
  BY <1>1, TopHas DEF InLoop, FilterOps
<1>3. \A q \in DOMAIN t.calls : ~(q < 1)
  BY <1>2, CallsShape
<1>4. g.node = t /\ g.i = 1 /\ g.p = 1 /\ g.op = "header"
  BY DEF Frame
<1> HIDE DEF g
<1>5. ~FilterPast(g) /\ ~MatrixPast(g)
  BY <1>3, <1>4 DEF FilterPast, MatrixPast, Joining
<1> QED
  BY <1>1, <1>2, <1>4, <1>5, LostNext

LEMMA HeaderLoses ==
  ASSUME BInv, BInv', Lost(work, filters, literal), LoopHeader
  PROVE  Lost(work', filters', literal')
<1> DEFINE t == Top.node
           g == Frame(IF Top.i <= Len(t.domain) THEN "predicate" ELSE "complete", t, Top.i, 1)
<1>1. /\ work # <<>> /\ Top.op = "header" /\ work' = <<g>> \o Under
      /\ filters' = filters /\ literal' = literal
  BY DEF LoopHeader, At, Goes
<1>2. Top.p = 1
  BY <1>1, TopHas DEF InLoop, FilterOps
<1>3. g.node = t /\ g.i = Top.i /\ g.p = 1 /\ g.op \in {"predicate", "complete"}
  BY DEF Frame
<1> HIDE DEF g
<1>4. (FilterPast(g) => FilterPast(Top)) /\ ~MatrixPast(g)
  BY <1>1, <1>2, <1>3 DEF FilterPast, MatrixPast, Filtering, Joining
<1> QED
  BY <1>1, <1>3, <1>4, TopLost, LostNext

LEMMA PredicateLoses ==
  ASSUME BInv, BInv', Lost(work, filters, literal), Predicate
  PROVE  Lost(work', filters', literal')
<1> DEFINE t == Top.node
           ts == t.calls[Top.p]
           g == Frame("update", t, Top.i, Top.p)
<1>1. /\ work # <<>> /\ Top.op = "predicate" /\ work' = Visits(ts) \o <<g>> \o Under
      /\ filters' = filters /\ literal' = literal /\ Top.p <= Len(t.tests)
  BY DEF Predicate, At
<1>2. /\ t \in Tree /\ t.k = "filter" /\ Top.p >= 1 /\ Top.p \in Nat
      /\ Top.i <= Len(t.domain) /\ Top.i \in Nat /\ Top.i >= 1
  BY <1>1, TopHas DEF InLoop, FilterOps
<1>3. /\ Len(t.tests) \in Nat /\ t.calls \in Seq(Seq(Tree)) /\ Len(t.calls) = Len(t.tests)
  BY <1>2, FilterShape
<1>4. Top.p \in DOMAIN t.calls /\ ts \in Seq(Tree)
  BY <1>1, <1>2, <1>3
<1>5. DOMAIN ts = 1 .. Len(ts)
  BY <1>4
<1>6. g.node = t /\ g.i = Top.i /\ g.p = Top.p /\ g.op = "update"
  BY DEF Frame
<1>7. g \in FrameRecords
  BY <1>2 DEF Frame, FrameRecords, FilterOps, MatrixOps
<1>8. InLoop(g)
  BY <1>1, <1>2, <1>6 DEF InLoop, FilterOps, MatrixOps
<1>9. g \in Frames
  BY <1>7, <1>8 DEF Frames
<1> HIDE DEF g
<1>10. FilterPast(g) => FilterPast(Top) \/ Nests(t, Top.p)
  BY <1>1, <1>6 DEF FilterPast, Filtering
<1>11. Nests(t, Top.p) => \E j \in 1 .. Len(ts) : ts[j].k = "filter"
  BY <1>2, <1>5 DEF Nests
<1>12. ~MatrixPast(g)
  BY <1>6 DEF MatrixPast, Joining
<1>13. FilterPast(g) => ~filters'.live \/ \E j \in 1 .. Len(ts) : ts[j].k = "filter"
  BY <1>1, <1>10, <1>11, TopLost
<1> HIDE DEF ts
<1> QED
  BY <1>1, <1>4, <1>6, <1>9, <1>12, <1>13, LostPush

LEMMA UpdateLoses ==
  ASSUME BInv, BInv', Lost(work, filters, literal), rt_update_filter_at_pos
  PROVE  Lost(work', filters', literal')
<1> DEFINE t == Top.node
           g == Frame("predicate", t, Top.i, Top.p + 1)
<1>1. /\ work # <<>> /\ work' = <<g>> \o Under /\ literal' = literal
      /\ t \in Tree /\ Top.p \in 1 .. Len(t.tests) /\ filters \in FilterStates
      /\ Len(t.tests) \in Nat /\ Filtering(Top) /\ g.node = t /\ g.i = Top.i /\ g.p = Top.p + 1
  BY AfterUpdate
<1>2. filters'.live = filters.live
  BY <1>1 DEF rt_update_filter_at_pos, FilterStates
<1>3. Top.op = "update" /\ g.op = "predicate"
  BY DEF rt_update_filter_at_pos, At, Frame
<1> HIDE DEF g
<1>4. \A q \in DOMAIN t.calls : q < Top.p + 1 => q < Top.p \/ q = Top.p
  BY <1>1, CallsShape
<1>5. (FilterPast(g) => FilterPast(Top)) /\ ~MatrixPast(g)
  BY <1>1, <1>3, <1>4 DEF FilterPast, MatrixPast, Joining
<1> QED
  BY <1>1, <1>2, <1>5, TopLost, LostNext

LEMMA EndIterLoses ==
  ASSUME BInv, BInv', Lost(work, filters, literal), rt_filter_end_iter
  PROVE  Lost(work', filters', literal')
<1> DEFINE t == Top.node
           g == Frame("header", t, Top.i + 1, 1)
<1>1. /\ work # <<>> /\ work' = <<g>> \o Under /\ literal' = literal
      /\ t \in Tree /\ t.k = "filter" /\ filters \in FilterStates
      /\ Top.p = Len(t.tests) + 1 /\ Filtering(Top) /\ g.node = t
  BY AfterEnd
<1>2. filters'.live = filters.live
  BY <1>1 DEF rt_filter_end_iter, FilterStates
<1>3. g.op = "header"
  BY DEF Frame
<1> HIDE DEF g
<1>4. \A q \in DOMAIN t.calls : q < Top.p
  BY <1>1, CallsShape
<1>5. (FilterPast(g) => FilterPast(Top)) /\ ~MatrixPast(g)
  BY <1>1, <1>3, <1>4 DEF FilterPast, MatrixPast, Joining
<1> QED
  BY <1>1, <1>2, <1>5, TopLost, LostNext

(* A filter that is complete has asked its predicates, if it had values:   *)
(* it is past all of its calls.                                            *)
LEMMA CompleteLoses ==
  ASSUME BInv, Lost(work, filters, literal), ReenteredNeverBuilt, CompleteFilter
  PROVE  ReenteredNeverBuilt' /\ (BInv' => Lost(work', filters', literal'))
<1> DEFINE t == Top.node
           n == Len(t.tests) + 1
           ok == filters.live /\ n <= Len(filters.vecs)
           value == [q \in 1 .. n |-> filters.vecs[q].data]
<1>1. /\ work # <<>> /\ Top.op = "complete" /\ literal' = literal /\ undefined' = ~ok
      /\ (IF ok THEN work' = Under /\ built' = <<t, value>> ELSE built' = built)
      /\ filters' = [filters EXCEPT !.live = FALSE, !.num = 0, !.residual = FALSE]
  BY DEF CompleteFilter, At, Access
<1>2. t \in Tree /\ t.k = "filter" /\ filters \in FilterStates /\ Top.i = Len(t.domain) + 1
  BY <1>1, TopHas DEF InLoop, FilterOps
<1>3. ~filters'.live
  BY <1>1, <1>2 DEF FilterStates
<1>4. ok => ~Reenters(t)
  <2> SUFFICES ASSUME Reenters(t), filters.live PROVE FALSE
    OBVIOUS
  <2>1. t.domain # <<>> /\ t.domain \in Seq(Value)
    BY <1>2, FilterShape DEF Reenters
  <2>2. Top.i > 1
    BY <1>2, <2>1
  <2>3. PICK q \in DOMAIN t.calls : Nests(t, q)
    BY DEF Reenters, Called, Nests
  <2>4. FilterPast(Top)
    BY <1>1, <2>2, <2>3 DEF FilterPast, Filtering
  <2> QED
    BY <1>1, <2>4, TopLost
<1>5. ReenteredNeverBuilt'
  <2>1. CASE ok
    <3> HIDE DEF value
    <3>1. built'[1] = t
      BY <1>1, <2>1
    <3> QED
      BY <1>4, <2>1, <3>1 DEF ReenteredNeverBuilt, Reenters
  <2>2. CASE ~ok
    BY <1>1, <2>2 DEF ReenteredNeverBuilt, Reenters
  <2> QED
    BY <2>1, <2>2
<1>6. ASSUME BInv' PROVE Lost(work', filters', literal')
  <2>1. undefined' = FALSE
    BY <1>6 DEF BInv, Shapes
  <2>2. work' = Under
    BY <1>1, <2>1
  <2> QED
    BY <1>1, <1>2, <1>3, <2>2, LostPop
<1> QED
  BY <1>5, <1>6

LEMMA LiteralInitLoses ==
  ASSUME BInv, BInv', Lost(work, filters, literal), rt_init_matrix_literal
  PROVE  Lost(work', filters', literal')
<1> DEFINE t == Top.node
           g == Frame("row", t, 1, 1)
<1>1. work # <<>> /\ t.k = "matrix" /\ filters' = filters /\ work' = <<g>> \o Under
  BY DEF rt_init_matrix_literal, At, Goes
<1>2. t \in Tree
  BY <1>1, TopHas
<1>3. \A q \in DOMAIN t.calls : ~(q < 1)
  BY <1>2, CallsShape
<1>4. g.node = t /\ g.i = 1 /\ g.op = "row"
  BY DEF Frame
<1> HIDE DEF g
<1>5. ~FilterPast(g) /\ ~MatrixPast(g)
  BY <1>3, <1>4 DEF FilterPast, MatrixPast, Filtering
<1> QED
  BY <1>1, <1>4, <1>5, LostNext

LEMMA RowLoses ==
  ASSUME BInv, BInv', Lost(work, filters, literal), Row
  PROVE  Lost(work', filters', literal')
<1> DEFINE t == Top.node
           ts == t.calls[Top.i]
           g == Frame("add", t, Top.i, 1)
<1>1. /\ work # <<>> /\ Top.op = "row" /\ work' = Visits(ts) \o <<g>> \o Under
      /\ filters' = filters /\ literal' = literal /\ Top.i <= Len(t.rows)
  BY DEF Row, At
<1>2. t \in Tree /\ t.k = "matrix" /\ Top.i \in Nat /\ Top.i >= 1
  BY <1>1, TopHas DEF InLoop, MatrixOps
<1>3. /\ Len(t.rows) \in Nat /\ t.calls \in Seq(Seq(Tree)) /\ Len(t.calls) = Len(t.rows)
  BY <1>2, MatrixShape
<1>4. Top.i \in DOMAIN t.calls /\ ts \in Seq(Tree)
  BY <1>1, <1>2, <1>3
<1>5. DOMAIN ts = 1 .. Len(ts)
  BY <1>4
<1>6. g.node = t /\ g.i = Top.i /\ g.op = "add"
  BY DEF Frame
<1>7. g \in FrameRecords
  BY <1>2 DEF Frame, FrameRecords, FilterOps, MatrixOps
<1>8. InLoop(g)
  BY <1>1, <1>2, <1>6 DEF InLoop, FilterOps, MatrixOps
<1>9. g \in Frames
  BY <1>7, <1>8 DEF Frames
<1> HIDE DEF g
<1>10. MatrixPast(g) => MatrixPast(Top) \/ Nests(t, Top.i)
  BY <1>1, <1>6 DEF MatrixPast, Joining
<1>11. Nests(t, Top.i) => \E j \in 1 .. Len(ts) : ts[j].k = "matrix"
  BY <1>2, <1>5 DEF Nests
<1>12. ~FilterPast(g)
  BY <1>6 DEF FilterPast, Filtering
<1>13. MatrixPast(g) => ~literal'.live \/ \E j \in 1 .. Len(ts) : ts[j].k = "matrix"
  BY <1>1, <1>10, <1>11, TopLost
<1> HIDE DEF ts
<1> QED
  BY <1>1, <1>4, <1>6, <1>9, <1>12, <1>13, LostPush

LEMMA AddLoses ==
  ASSUME BInv, BInv', Lost(work, filters, literal), rt_add_vector_to_matrix_literal
  PROVE  Lost(work', filters', literal')
<1> DEFINE t == Top.node
           g == Frame("row", t, Top.i + 1, 1)
<1>1. work # <<>> /\ Top.op = "add" /\ work' = <<g>> \o Under /\ filters' = filters
  BY DEF rt_add_vector_to_matrix_literal, At, Goes
<1>2. t \in Tree /\ literal \in LiteralStates /\ Top.i \in Nat
  BY <1>1, TopHas
<1>3. literal'.live = literal.live
  BY <1>2 DEF rt_add_vector_to_matrix_literal, LiteralStates
<1>4. g.node = t /\ g.i = Top.i + 1 /\ g.op = "row"
  BY DEF Frame
<1> HIDE DEF g
<1>5. \A q \in DOMAIN t.calls : q < Top.i + 1 => q < Top.i \/ q = Top.i
  BY <1>2, CallsShape
<1>6. (MatrixPast(g) => MatrixPast(Top)) /\ ~FilterPast(g)
  BY <1>1, <1>4, <1>5 DEF FilterPast, MatrixPast, Filtering, Joining
<1> QED
  BY <1>1, <1>3, <1>4, <1>6, TopLost, LostNext

LEMMA AllAddedLoses ==
  ASSUME BInv, BInv', Lost(work, filters, literal), AllAdded
  PROVE  Lost(work', filters', literal')
<1> DEFINE t == Top.node
           g == Frame("widen", t, 1, 0)
<1>1. /\ work # <<>> /\ Top.op = "row" /\ work' = <<g>> \o Under
      /\ filters' = filters /\ literal' = literal /\ Top.i > Len(t.rows)
  BY DEF AllAdded, At, Goes
<1>2. t \in Tree /\ t.k = "matrix" /\ Top.i \in Nat
  BY <1>1, TopHas DEF InLoop, MatrixOps
<1>3. g.node = t /\ g.op = "widen"
  BY DEF Frame
<1> HIDE DEF g
<1>4. \A q \in DOMAIN t.calls : q < Top.i
  BY <1>1, <1>2, CallsShape
<1>5. (MatrixPast(g) => MatrixPast(Top)) /\ ~FilterPast(g)
  BY <1>1, <1>3, <1>4 DEF FilterPast, MatrixPast, Filtering, Joining
<1> QED
  BY <1>1, <1>3, <1>5, TopLost, LostNext

LEMMA MaxSizeLoses ==
  ASSUME BInv, BInv', Lost(work, filters, literal), MaxSize
  PROVE  Lost(work', filters', literal')
<1> DEFINE t == Top.node
           size == IF literal.live /\ Top.i \in DOMAIN literal.vecs THEN Len(literal.vecs[Top.i]) ELSE 0
           g == Frame("widen", t, Top.i + 1, IF Top.p < size THEN size ELSE Top.p)
<1>1. /\ work # <<>> /\ Top.op = "widen" /\ work' = <<g>> \o Under
      /\ filters' = filters /\ literal' = literal
  BY DEF MaxSize, At, Goes
<1>2. g.node = t /\ g.op = "widen"
  BY DEF Frame
<1> HIDE DEF g
<1>3. (MatrixPast(g) => MatrixPast(Top)) /\ ~FilterPast(g)
  BY <1>1, <1>2 DEF FilterPast, MatrixPast, Filtering, Joining
<1> QED
  BY <1>1, <1>2, <1>3, TopLost, LostNext

LEMMA GetBuiltLoses ==
  ASSUME BInv, Lost(work, filters, literal), ReenteredNeverBuilt, rt_get_built_matrix_literal
  PROVE  ReenteredNeverBuilt' /\ (BInv' => Lost(work', filters', literal'))
<1> DEFINE t == Top.node
           ok == literal.live /\ DOMAIN literal.vecs = 1 .. literal.size
           value == [q \in 1 .. literal.size |-> Filled(literal.vecs[q], Top.p)]
<1>1. /\ work # <<>> /\ Top.op = "widen" /\ filters' = filters /\ undefined' = ~ok
      /\ (IF ok THEN work' = Under /\ built' = <<t, value>> ELSE built' = built)
      /\ literal' = [literal EXCEPT !.live = FALSE]
  BY DEF rt_get_built_matrix_literal, At, Access
<1>2. t \in Tree /\ t.k = "matrix" /\ literal \in LiteralStates
  BY <1>1, TopHas DEF InLoop, MatrixOps
<1>3. ~literal'.live
  BY <1>1, <1>2 DEF LiteralStates
<1>4. ok => ~Reenters(t)
  <2> SUFFICES ASSUME Reenters(t), literal.live PROVE FALSE
    OBVIOUS
  <2>1. PICK q \in DOMAIN t.calls : Nests(t, q)
    BY DEF Reenters, Called, Nests
  <2>2. MatrixPast(Top)
    BY <1>1, <2>1 DEF MatrixPast, Joining
  <2> QED
    BY <1>1, <2>2, TopLost
<1>5. ReenteredNeverBuilt'
  <2>1. CASE ok
    <3> HIDE DEF value
    <3>1. built'[1] = t
      BY <1>1, <2>1
    <3> QED
      BY <1>4, <2>1, <3>1 DEF ReenteredNeverBuilt, Reenters
  <2>2. CASE ~ok
    BY <1>1, <2>2 DEF ReenteredNeverBuilt, Reenters
  <2> QED
    BY <2>1, <2>2
<1>6. ASSUME BInv' PROVE Lost(work', filters', literal')
  <2>1. undefined' = FALSE
    BY <1>6 DEF BInv, Shapes
  <2>2. work' = Under
    BY <1>1, <2>1
  <2> QED
    BY <1>1, <1>2, <1>3, <2>2, LostPop
<1> QED
  BY <1>5, <1>6

LEMMA SameBuilt ==
  ASSUME built' = built, ReenteredNeverBuilt
  PROVE  ReenteredNeverBuilt'
  BY DEF ReenteredNeverBuilt, Reenters

LEMMA LosesStep ==
  ASSUME BInv, Lost(work, filters, literal), ReenteredNeverBuilt, Next
  PROVE  ReenteredNeverBuilt' /\ (BInv' => Lost(work', filters', literal'))
<1>1. CASE visitFilter
  BY <1>1, VisitLoses, SameBuilt DEF visitFilter
<1>2. CASE rt_init_filter_expr
  BY <1>2, InitExprLoses, SameBuilt DEF rt_init_filter_expr
<1>3. CASE LoopHeader
  BY <1>3, HeaderLoses, SameBuilt DEF LoopHeader
<1>4. CASE Predicate
  BY <1>4, PredicateLoses, SameBuilt DEF Predicate
<1>5. CASE rt_update_filter_at_pos
  BY <1>5, UpdateLoses, SameBuilt DEF rt_update_filter_at_pos
<1>6. CASE rt_filter_end_iter
  BY <1>6, EndIterLoses, SameBuilt DEF rt_filter_end_iter
<1>7. CASE CompleteFilter
  BY <1>7, CompleteLoses
<1>8. CASE rt_init_matrix_literal
  BY <1>8, LiteralInitLoses, SameBuilt DEF rt_init_matrix_literal
<1>9. CASE Row
  BY <1>9, RowLoses, SameBuilt DEF Row
<1>10. CASE rt_add_vector_to_matrix_literal
  BY <1>10, AddLoses, SameBuilt DEF rt_add_vector_to_matrix_literal
<1>11. CASE AllAdded
  BY <1>11, AllAddedLoses, SameBuilt DEF AllAdded
<1>12. CASE MaxSize
  BY <1>12, MaxSizeLoses, SameBuilt DEF MaxSize
<1>13. CASE rt_get_built_matrix_literal
  BY <1>13, GetBuiltLoses
<1> QED
  BY <1>1, <1>2, <1>3, <1>4, <1>5, <1>6, <1>7, <1>8, <1>9, <1>10, <1>11, <1>12, <1>13 DEF Next

LEMMA LostInit == Init => LInv
<1> SUFFICES ASSUME Init PROVE LInv
  OBVIOUS
<1>1. PICK t \in Source : work = <<Visit(t)>>
  BY DEF Init
<1>2. ~FilterPast(Visit(t)) /\ ~MatrixPast(Visit(t))
  BY DEF Visit, Frame, FilterPast, MatrixPast, Filtering, Joining
<1>3. Lost(work, filters, literal)
  BY <1>1, <1>2 DEF Lost, FilterLost, MatrixLost
<1>4. ReenteredNeverBuilt
  BY DEF Init, ReenteredNeverBuilt
<1> QED
  BY <1>3, <1>4 DEF LInv

LEMMA LostKept == RInv /\ RInv' /\ LInv /\ [Next]_vars => LInv'
<1> SUFFICES ASSUME RInv, RInv', LInv, [Next]_vars PROVE LInv'
  OBVIOUS
<1>1. CASE UNCHANGED vars
  <2>1. work' = work /\ filters' = filters /\ literal' = literal /\ built' = built /\ undefined' = undefined
    BY <1>1 DEF vars
  <2>2. ReenteredNeverBuilt'
    BY <2>1, SameBuilt DEF LInv
  <2>3. undefined' = FALSE => Lost(work', filters', literal')
    BY <2>1, Zenon DEF LInv
  <2> QED
    BY <2>2, <2>3 DEF LInv, Lost, FilterLost, MatrixLost, FilterPast, MatrixPast, Filtering, Joining
<1>2. CASE Next
  <2>1. BInv
    BY <1>2, RuinedStops DEF RInv
  <2>2. undefined = FALSE
    BY <2>1 DEF BInv, Shapes
  <2>3. ReenteredNeverBuilt' /\ (BInv' => Lost(work', filters', literal'))
    BY <1>2, <2>1, <2>2, LosesStep DEF LInv
  <2>4. undefined' = FALSE => BInv'
    BY DEF RInv, Ruined
  <2> QED
    BY <2>3, <2>4 DEF LInv, Lost, FilterLost, MatrixLost, FilterPast, MatrixPast, Filtering, Joining
<1> QED
  BY <1>1, <1>2

(* No vector is overrun; a released builder is used by no expression but   *)
(* one whose own predicates or rows build another of its kind; and one     *)
(* that has another of its kind directly in them never becomes a value.    *)
THEOREM NoStaleBuilder == Spec => []NothingStale
<1>1. RInv => StaleOnlyNested
  BY DEF RInv, BInv, Shapes, Ruined, StaleOnlyNested
<1>2. LInv => ReenteredNeverBuilt
  BY DEF LInv
<1>3. RInv /\ LInv => NothingStale
  BY <1>1, <1>2 DEF NothingStale
<1> QED
  BY <1>3, BuildersInit, BuildersStayRight, LostInit, LostKept, PTL DEF Spec
=============================================================================
