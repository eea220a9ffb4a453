------------------------ MODULE ProgramChecks_proofs ------------------------
(***************************************************************************)
(* Scope resolution binds every name as the program's text says, and the   *)
(* compiler rejects exactly the programs the text says are illegal: proofs *)
(* of ResolvesLexically and VerdictIsRight, for every set of programs.     *)
(*                                                                         *)
(* N are the nodes of the program with their paths (Grown: they form a     *)
(* tree).  An event is the place of a name, and the items of the stack say *)
(* which events are still to come (Pends).  The invariant (Following) says *)
(* that when an item is reached the declarations it sees, and no others of *)
(* the scopes around it, are done (Ordered); that scopes are opened by     *)
(* different nodes and items are reached in the scope of the innermost     *)
(* node around them (Placing); that the tables have the declarations done, *)
(* the first of each routine, and bind the uses done as the text does      *)
(* (Tabled); and that a lookup has passed no scope that has the name       *)
(* (LookingUp).                                                            *)
(***************************************************************************)
EXTENDS ProgramChecks, ScopeResolution_proofs, WellFoundedInduction, NaturalsInduction

(* The nodes of a tree with their paths are a recursive function of it:    *)
(* it exists, because trees are finite.                                    *)
RootOf(t) == [t |-> t, at |-> <<>>]
Below(n, i) == [t |-> n.t, at |-> <<i>> \o n.at]
Collect(f, t) ==
  {RootOf(t)} \union UNION {{Below(n, i) : n \in f[t.kids[i]]} : i \in DOMAIN t.kids}

Collects(D, f) == f = [t \in D |-> Collect(f, t)]

Lower(n) == {t \in Tree : Height[t] < n}

LESS == {ss \in Nat \X Nat : ss[1] < ss[2]}

LEMMA LeastNat ==
  ASSUME NEW B, B \subseteq Nat, B # {}
  PROVE  \E i \in B : \A j \in B : i <= j
  <1>1. IsWellFoundedOn(LESS, Nat)
    BY NatLessThanWellFounded DEF OpToRel, LESS
  <1>2. PICK i \in B : \A j \in B : <<j, i>> \notin LESS
    BY <1>1, WFMin
  <1>3. ASSUME NEW j \in B, j < i PROVE FALSE
    BY <1>2, <1>3 DEF LESS
  <1> QED BY <1>3

LEMMA KidsLower ==
  ASSUME NEW t \in Tree, NEW i \in DOMAIN t.kids
  PROVE  /\ t.kids[i] \in Tree /\ Height[t] \in Nat /\ Height[t.kids[i]] \in Nat
         /\ Height[t.kids[i]] < Height[t]
  <1>1. t.kids \in Seq(Tree)
    BY NodeShape
  <1>2. t.kids[i] \in Tree
    BY <1>1
  <1> QED BY <1>2, HeightAssumption

LEMMA SameCollect ==
  ASSUME NEW f, NEW g, NEW t, \A i \in DOMAIN t.kids : f[t.kids[i]] = g[t.kids[i]]
  PROVE  Collect(f, t) = Collect(g, t)
  <1>1. \A i \in DOMAIN t.kids :
          {Below(n, i) : n \in f[t.kids[i]]} = {Below(n, i) : n \in g[t.kids[i]]}
    OBVIOUS
  <1>2. UNION {{Below(n, i) : n \in f[t.kids[i]]} : i \in DOMAIN t.kids}
          = UNION {{Below(n, i) : n \in g[t.kids[i]]} : i \in DOMAIN t.kids}
    BY <1>1
  <1> QED BY <1>2 DEF Collect

LEMMA CollectUnique ==
  ASSUME NEW n \in Nat, NEW m \in Nat, NEW f, NEW g,
         Collects(Lower(n), f), Collects(Lower(m), g),
         NEW t \in Lower(n) \intersect Lower(m)
  PROVE  f[t] = g[t]
  <1> DEFINE D == Lower(n) \intersect Lower(m)
             B == {Height[u] : u \in {v \in D : f[v] # g[v]}}
  <1>0. \A u \in D : Height[u] \in Nat /\ u \in Tree
    BY HeightAssumption DEF Lower
  <1>1. SUFFICES ASSUME B # {} PROVE FALSE
    BY <1>1
  <1>2. B \subseteq Nat
    BY <1>0
  <1>3. PICK h \in B : \A k \in B : h <= k
    BY <1>1, <1>2, LeastNat
  <1>4. PICK u \in D : f[u] # g[u] /\ h = Height[u]
    BY <1>3
  <1>5. ASSUME NEW i \in DOMAIN u.kids PROVE f[u.kids[i]] = g[u.kids[i]]
    <2>1. /\ u.kids[i] \in Tree /\ Height[u] \in Nat
          /\ Height[u.kids[i]] \in Nat /\ Height[u.kids[i]] < Height[u]
      BY <1>0, KidsLower
    <2>2. u.kids[i] \in D
      BY <2>1 DEF Lower
    <2>3. Height[u.kids[i]] \notin B
      BY <2>1, <1>3, <1>4
    <2> QED BY <2>2, <2>3
  <1>6. Collect(f, u) = Collect(g, u)
    BY <1>5, SameCollect
  <1>7. f[u] = Collect(f, u) /\ g[u] = Collect(g, u)
    BY <1>4 DEF Collects
  <1> QED BY <1>4, <1>6, <1>7

LEMMA CollectBelow ==
  ASSUME NEW n \in Nat
  PROVE  \E f : Collects(Lower(n), f)
  <1> DEFINE B == {k \in Nat : ~ \E f : Collects(Lower(k), f)}
  <1>1. SUFFICES ASSUME B # {} PROVE FALSE
    OBVIOUS
  <1>2. PICK k \in B : \A j \in B : k <= j
    BY <1>1, LeastNat
  <1>3. k # 0
    <2>0. \A t \in Tree : Height[t] \in Nat
      BY HeightAssumption
    <2>1. Lower(0) = {}
      BY <2>0 DEF Lower
    <2>2. PICK f : f = [t \in {} |-> 0]
      OBVIOUS
    <2>3. f = [t \in {} |-> Collect(f, t)]
      BY <2>2
    <2> QED BY <1>2, <2>1, <2>3 DEF Collects
  <1>4. k - 1 \in Nat /\ k - 1 \notin B
    BY <1>2, <1>3
  <1>5. PICK f : Collects(Lower(k - 1), f)
    BY <1>4
  <1>6. PICK g : g = [t \in Lower(k) |-> Collect(f, t)]
    OBVIOUS
  <1>7. ASSUME NEW t \in Lower(k) PROVE Collect(f, t) = Collect(g, t)
    <2>1. ASSUME NEW i \in DOMAIN t.kids PROVE f[t.kids[i]] = g[t.kids[i]]
      <3>1. t \in Tree /\ Height[t] < k
        BY DEF Lower
      <3>2. /\ t.kids[i] \in Tree /\ Height[t] \in Nat
            /\ Height[t.kids[i]] \in Nat /\ Height[t.kids[i]] < Height[t]
        BY <3>1, KidsLower
      <3>3. t.kids[i] \in Lower(k - 1) /\ t.kids[i] \in Lower(k)
        BY <3>1, <3>2, <1>4 DEF Lower
      <3>4. f[t.kids[i]] = Collect(f, t.kids[i])
        BY <3>3, <1>5 DEF Collects
      <3> QED BY <3>3, <3>4, <1>6
    <2> QED BY <2>1, SameCollect
  <1>8. g = [t \in Lower(k) |-> Collect(g, t)]
    BY <1>6, <1>7
  <1> QED BY <1>2, <1>8 DEF Collects

LEMMA CollectExists == \E f : Collects(Tree, f)
  <1> DEFINE Sol(t) == CHOOSE f : Collects(Lower(Height[t] + 1), f)
  <1>1. PICK F : F = [t \in Tree |-> Sol(t)[t]]
    OBVIOUS
  <1>2. ASSUME NEW t \in Tree
        PROVE  /\ Height[t] \in Nat
               /\ t \in Lower(Height[t] + 1)
               /\ Collects(Lower(Height[t] + 1), Sol(t))
    <2>1. Height[t] \in Nat
      BY HeightAssumption
    <2>2. Height[t] + 1 \in Nat
      BY <2>1
    <2>3. \E f : Collects(Lower(Height[t] + 1), f)
      BY <2>2, CollectBelow
    <2>4. Collects(Lower(Height[t] + 1), Sol(t))
      <3> HIDE DEF Collects, Lower
      <3> QED BY <2>3, Zenon
    <2>5. t \in Lower(Height[t] + 1)
      BY <2>1 DEF Lower
    <2> QED BY <2>1, <2>4, <2>5
  <1>3. ASSUME NEW t \in Tree
        PROVE  F[t] = Collect(F, t)
    <2>1. Sol(t)[t] = Collect(Sol(t), t)
      BY <1>2 DEF Collects
    <2>2. ASSUME NEW i \in DOMAIN t.kids PROVE Sol(t)[t.kids[i]] = F[t.kids[i]]
      <3> DEFINE u == t.kids[i]
      <3>1. u \in Tree /\ Height[t] \in Nat /\ Height[u] \in Nat /\ Height[u] < Height[t]
        BY KidsLower
      <3>2. u \in Lower(Height[u] + 1) \intersect Lower(Height[t] + 1)
        BY <3>1 DEF Lower
      <3>3. /\ Collects(Lower(Height[u] + 1), Sol(u))
            /\ Collects(Lower(Height[t] + 1), Sol(t))
        BY <3>1, <1>2
      <3>4. Height[u] + 1 \in Nat /\ Height[t] + 1 \in Nat
        BY <3>1
      <3> HIDE DEF u, Sol
      <3>5. Sol(t)[u] = Sol(u)[u]
        BY <3>2, <3>3, <3>4, CollectUnique
      <3>6. F[u] = Sol(u)[u]
        BY <3>1, <1>1
      <3> QED BY <3>5, <3>6 DEF u
    <2>3. Collect(Sol(t), t) = Collect(F, t)
      <3> HIDE DEF Sol
      <3> QED BY <2>2, SameCollect
    <2> HIDE DEF Sol
    <2> QED BY <1>1, <2>1, <2>3
  <1> HIDE DEF Sol
  <1>4. F = [t \in Tree |-> Collect(F, t)]
    BY <1>1, <1>3
  <1> QED BY <1>4 DEF Collects

(* The nodes of t are t itself and those below its children.               *)
LEMMA SubtreesIs ==
  ASSUME NEW t \in Tree
  PROVE  L!Subtrees[t] = Collect(L!Subtrees, t)
  <1>1. PICK f : Collects(Tree, f)
    BY CollectExists
  <1>2. f = [u \in Tree |-> Collect(f, u)]
    BY <1>1 DEF Collects
  <1>3. L!Subtrees = [u \in Tree |-> Collect(L!Subtrees, u)]
    BY <1>2 DEF L!Subtrees, Collect, RootOf, Below
  <1> QED BY <1>3
-----------------------------------------------------------------------------
(* What the nodes of a program are like: a path leads to one node, a node  *)
(* that is not the root is a child of another, and every child is there.   *)
Leads(a, e) == Len(a) <= Len(e) /\ \A k \in 1 .. Len(a) : e[k] = a[k]

Typed(N) ==
  \A n \in N : n \in [t : Tree, at : Seq(Int)] /\ \A k \in 1 .. Len(n.at) : n.at[k] > 0
HasKids(N) ==
  \A n \in N : \A i \in DOMAIN n.t.kids :
    [t |-> n.t.kids[i], at |-> Append(n.at, i)] \in N
OnePath(N) == \A n, m \in N : n.at = m.at => n = m
HasParents(N) ==
  \A n \in N : n.at # <<>> =>
    \E p \in N : \E i \in DOMAIN p.t.kids : n.t = p.t.kids[i] /\ n.at = Append(p.at, i)
OnTheWay(N) ==
  \A n, m \in N : Leads(n.at, m.at) /\ Len(n.at) < Len(m.at) =>
    m.at[Len(n.at) + 1] \in DOMAIN n.t.kids

Grown(N) == Typed(N) /\ HasKids(N) /\ OnePath(N) /\ HasParents(N) /\ OnTheWay(N)

LEMMA Shifted ==
  ASSUME NEW i \in Int, NEW a \in Seq(Int)
  PROVE  /\ <<i>> \o a \in Seq(Int) /\ Len(<<i>> \o a) = Len(a) + 1
         /\ (<<i>> \o a)[1] = i /\ <<i>> \o a # <<>>
         /\ \A k \in 1 .. Len(a) : (<<i>> \o a)[k + 1] = a[k]
  OBVIOUS

LEMMA ShiftedEqual ==
  ASSUME NEW i \in Int, NEW a \in Seq(Int), NEW j \in Int, NEW b \in Seq(Int),
         <<i>> \o a = <<j>> \o b
  PROVE  i = j /\ a = b
<1>1. /\ Len(a) + 1 = Len(b) + 1 /\ i = j
      /\ \A k \in 1 .. Len(a) : (<<i>> \o a)[k + 1] = a[k]
      /\ \A k \in 1 .. Len(b) : (<<j>> \o b)[k + 1] = b[k]
  BY Shifted
<1>2. Len(a) = Len(b) /\ Len(a) \in Nat
  BY <1>1
<1>3. \A k \in 1 .. Len(a) : a[k] = b[k]
  BY <1>1, <1>2
<1> QED
  BY <1>1, <1>2, <1>3, SeqEqual

LEMMA ShiftedAppend ==
  ASSUME NEW i \in Int, NEW a \in Seq(Int), NEW j \in Int
  PROVE  Append(<<i>> \o a, j) = <<i>> \o Append(a, j)
<1> DEFINE x == Append(<<i>> \o a, j)
           y == <<i>> \o Append(a, j)
<1>1. /\ Append(a, j) \in Seq(Int) /\ Len(Append(a, j)) = Len(a) + 1 /\ Len(a) \in Nat
      /\ Append(a, j)[Len(a) + 1] = j
      /\ \A k \in 1 .. Len(a) : Append(a, j)[k] = a[k]
  OBVIOUS
<1>2. /\ y \in Seq(Int) /\ Len(y) = Len(a) + 2 /\ y[1] = i
      /\ \A k \in 1 .. Len(a) + 1 : y[k + 1] = Append(a, j)[k]
  BY <1>1, Shifted
<1>3. /\ x \in Seq(Int) /\ Len(x) = Len(a) + 2 /\ x[Len(a) + 2] = j
      /\ \A k \in 1 .. Len(a) + 1 : x[k] = (<<i>> \o a)[k]
  BY <1>1, Shifted
<1>4. ASSUME NEW k \in 1 .. Len(a) + 2 PROVE x[k] = y[k]
  <2>1. CASE k = 1
    BY <1>1, <1>2, <1>3, <2>1, Shifted
  <2>2. CASE k \in 2 .. Len(a) + 1
    <3>1. k - 1 \in 1 .. Len(a) /\ (k - 1) + 1 = k /\ k \in 1 .. Len(a) + 1
      BY <1>1, <2>2
    <3>2. (<<i>> \o a)[k] = a[k - 1]
      BY <3>1, Shifted
    <3> QED
      BY <1>1, <1>2, <1>3, <3>1, <3>2
  <2>3. CASE k = Len(a) + 2
    BY <1>1, <1>2, <1>3, <2>3
  <2> QED
    BY <1>1, <2>1, <2>2, <2>3
<1> HIDE DEF x, y
<1>5. x = y
  BY <1>1, <1>2, <1>3, <1>4, SeqEqual
<1> QED
  BY <1>5 DEF x, y

LEMMA ShiftedLeads ==
  ASSUME NEW i \in Int, NEW a \in Seq(Int), NEW j \in Int, NEW b \in Seq(Int),
         Leads(<<i>> \o a, <<j>> \o b)
  PROVE  i = j /\ Leads(a, b)
<1> DEFINE x == <<i>> \o a
           y == <<j>> \o b
<1>1. /\ Len(x) = Len(a) + 1 /\ x[1] = i /\ Len(a) \in Nat /\ Len(b) \in Nat
      /\ \A k \in 1 .. Len(a) : x[k + 1] = a[k]
  BY Shifted
<1>2. /\ Len(y) = Len(b) + 1 /\ y[1] = j
      /\ \A k \in 1 .. Len(b) : y[k + 1] = b[k]
  BY Shifted
<1>3. Len(x) <= Len(y) /\ \A k \in 1 .. Len(x) : y[k] = x[k]
  BY DEF Leads
<1> HIDE DEF x, y
<1>4. Len(a) <= Len(b) /\ i = j
  BY <1>1, <1>2, <1>3
<1>5. ASSUME NEW k \in 1 .. Len(a) PROVE b[k] = a[k]
  <2>1. k + 1 \in 1 .. Len(x) /\ k \in 1 .. Len(b)
    BY <1>1, <1>4
  <2> QED
    BY <1>1, <1>2, <1>3, <2>1
<1> QED
  BY <1>4, <1>5 DEF Leads

(* A node of t is t or lies below one of its children.                     *)
LEMMA Collected ==
  ASSUME NEW f, NEW t, NEW n
  PROVE  n \in Collect(f, t) <=>
           n = RootOf(t) \/ \E i \in DOMAIN t.kids : \E m \in f[t.kids[i]] : n = Below(m, i)
  BY DEF Collect

LEMMA GrownCollect ==
  ASSUME NEW f, NEW t \in Tree,
         \A i \in DOMAIN t.kids : Grown(f[t.kids[i]]) /\ RootOf(t.kids[i]) \in f[t.kids[i]]
  PROVE  Grown(Collect(f, t)) /\ RootOf(t) \in Collect(f, t)
<1> DEFINE N == Collect(f, t)
           Sub(i) == f[t.kids[i]]
<1>1. t.kids \in Seq(Tree) /\ DOMAIN t.kids = 1 .. Len(t.kids) /\ Len(t.kids) \in Nat
  BY NodeShape
<1>2. RootOf(t) \in N /\ RootOf(t).at = <<>> /\ RootOf(t).t = t
  BY Collected DEF RootOf
<1>3. ASSUME NEW i \in DOMAIN t.kids, NEW m \in Sub(i)
      PROVE  /\ Below(m, i) \in N
             /\ Below(m, i).t = m.t /\ Below(m, i).at = <<i>> \o m.at
             /\ i \in Int /\ m.at \in Seq(Int) /\ m \in [t : Tree, at : Seq(Int)]
             /\ \A k \in 1 .. Len(m.at) : m.at[k] > 0
  <2>1. Typed(Sub(i))
    BY DEF Grown
  <2>2. Below(m, i) \in N
    BY Collected
  <2> QED
    BY <1>1, <2>1, <2>2 DEF Typed, Below
<1>4. ASSUME NEW n \in N, n # RootOf(t)
      PROVE  \E i \in DOMAIN t.kids : \E m \in Sub(i) : n = Below(m, i)
  BY <1>4, Collected
<1> HIDE DEF N
<1>5. Typed(N)
  <2> SUFFICES ASSUME NEW n \in N
               PROVE  n \in [t : Tree, at : Seq(Int)] /\ \A k \in 1 .. Len(n.at) : n.at[k] > 0
    BY DEF Typed
  <2>1. CASE n = RootOf(t)
    <3>1. <<>> \in Seq(Int) /\ Len(<<>>) = 0
      OBVIOUS
    <3> QED
      BY <2>1, <3>1 DEF RootOf
  <2>2. CASE n # RootOf(t)
    <3>1a. PICK i \in DOMAIN t.kids : \E m \in Sub(i) : n = Below(m, i)
      BY <1>4, <2>2
    <3>1. PICK m \in Sub(i) : n = Below(m, i)
      BY <3>1a
    <3>2. /\ n.at = <<i>> \o m.at /\ n.t = m.t /\ i \in Int /\ i > 0 /\ m.at \in Seq(Int)
          /\ m \in [t : Tree, at : Seq(Int)] /\ \A k \in 1 .. Len(m.at) : m.at[k] > 0
      <4>1. i \in Int /\ i > 0
        BY <1>1
      <4>2. n.at = <<i>> \o m.at /\ n.t = m.t
        BY <1>3, <3>1
      <4>3. /\ m.at \in Seq(Int) /\ m \in [t : Tree, at : Seq(Int)]
            /\ \A k \in 1 .. Len(m.at) : m.at[k] > 0
        BY <1>3
      <4> QED
        BY <4>1, <4>2, <4>3
    <3>3. n \in [t : Tree, at : Seq(Int)]
      <4>1. <<i>> \o m.at \in Seq(Int) /\ m.t \in Tree
        BY <3>2, Shifted
      <4> QED
        BY <3>1, <4>1 DEF Below
    <3>4. ASSUME NEW k \in 1 .. Len(n.at) PROVE n.at[k] > 0
      <4>1. /\ Len(n.at) = Len(m.at) + 1 /\ Len(m.at) \in Nat /\ n.at[1] = i
            /\ \A h \in 1 .. Len(m.at) : n.at[h + 1] = m.at[h]
        BY <3>2, Shifted
      <4>2. k = 1 \/ (k - 1 \in 1 .. Len(m.at) /\ (k - 1) + 1 = k)
        BY <4>1
      <4>3. CASE k = 1
        BY <3>2, <4>1, <4>3
      <4>4. CASE k - 1 \in 1 .. Len(m.at) /\ (k - 1) + 1 = k
        BY <3>2, <4>1, <4>4
      <4> QED
        BY <4>2, <4>3, <4>4
    <3> QED
      BY <3>3, <3>4
  <2> QED
    BY <2>1, <2>2
<1>6. HasKids(N)
  <2> SUFFICES ASSUME NEW n \in N, NEW j \in DOMAIN n.t.kids
               PROVE  [t |-> n.t.kids[j], at |-> Append(n.at, j)] \in N
    BY DEF HasKids
  <2>1. CASE n = RootOf(t)
    <3>1. j \in DOMAIN t.kids /\ RootOf(t.kids[j]) \in Sub(j)
      BY <1>2, <2>1
    <3>2. Below(RootOf(t.kids[j]), j) \in N
      BY <1>3, <3>1
    <3>3. <<j>> \o <<>> = Append(<<>>, j)
      OBVIOUS
    <3> QED
      BY <2>1, <3>2, <3>3 DEF Below, RootOf
  <2>2. CASE n # RootOf(t)
    <3>1a. PICK i \in DOMAIN t.kids : \E m \in Sub(i) : n = Below(m, i)
      BY <1>4, <2>2
    <3>1. PICK m \in Sub(i) : n = Below(m, i)
      BY <3>1a
    <3>2. n.at = <<i>> \o m.at /\ n.t = m.t /\ i \in Int /\ m.at \in Seq(Int) /\ m.t \in Tree
      BY <1>3, <3>1
    <3>3. [t |-> m.t.kids[j], at |-> Append(m.at, j)] \in Sub(i)
      BY <3>2 DEF Grown, HasKids
    <3>4. Below([t |-> m.t.kids[j], at |-> Append(m.at, j)], i) \in N
      BY <1>3, <3>3
    <3>5. j \in Int
      <4>1. m.t.kids \in Seq(Tree) /\ j \in DOMAIN m.t.kids
        BY <3>2, NodeShape
      <4> QED
        BY <4>1
    <3>6. Append(n.at, j) = <<i>> \o Append(m.at, j)
      BY <3>2, <3>5, ShiftedAppend
    <3> QED
      BY <3>2, <3>4, <3>6 DEF Below
  <2> QED
    BY <2>1, <2>2
<1>7. OnePath(N)
  <2> SUFFICES ASSUME NEW n \in N, NEW m \in N, n.at = m.at
               PROVE  n = m
    BY DEF OnePath
  <2>1. ASSUME NEW q \in N, q # RootOf(t) PROVE q.at # <<>>
    <3>1a. PICK i \in DOMAIN t.kids : \E r \in Sub(i) : q = Below(r, i)
      BY <1>4, <2>1
    <3>1. PICK r \in Sub(i) : q = Below(r, i)
      BY <3>1a
    <3>2. q.at = <<i>> \o r.at /\ i \in Int /\ r.at \in Seq(Int)
      BY <1>3, <3>1
    <3> QED
      BY <3>2, Shifted
  <2>2. CASE n = RootOf(t) \/ m = RootOf(t)
    BY <1>2, <2>1, <2>2
  <2>3. CASE n # RootOf(t) /\ m # RootOf(t)
    <3>1a. PICK i \in DOMAIN t.kids : \E r \in Sub(i) : n = Below(r, i)
      BY <1>4, <2>3
    <3>1. PICK r \in Sub(i) : n = Below(r, i)
      BY <3>1a
    <3>2a. PICK j \in DOMAIN t.kids : \E q \in Sub(j) : m = Below(q, j)
      BY <1>4, <2>3
    <3>2. PICK q \in Sub(j) : m = Below(q, j)
      BY <3>2a
    <3>5. /\ n.at = <<i>> \o r.at /\ i \in Int /\ r.at \in Seq(Int)
          /\ m.at = <<j>> \o q.at /\ j \in Int /\ q.at \in Seq(Int)
      BY <1>3, <3>1, <3>2
    <3>6. <<i>> \o r.at = <<j>> \o q.at
      BY <3>5
    <3>7. i \in Int /\ r.at \in Seq(Int) /\ j \in Int /\ q.at \in Seq(Int)
      BY <3>5
    <3>3. i = j /\ r.at = q.at
      BY ONLY <3>6, <3>7, ShiftedEqual
    <3>4. r = q
      BY <3>3 DEF Grown, OnePath
    <3> QED
      BY <3>1, <3>2, <3>3, <3>4
  <2> QED
    BY <2>2, <2>3
<1>8. HasParents(N)
  <2> SUFFICES ASSUME NEW n \in N, n.at # <<>>
               PROVE  \E p \in N : \E j \in DOMAIN p.t.kids :
                        n.t = p.t.kids[j] /\ n.at = Append(p.at, j)
    BY DEF HasParents
  <2>1a. PICK i \in DOMAIN t.kids : \E m \in Sub(i) : n = Below(m, i)
    BY <1>2, <1>4
  <2>1. PICK m \in Sub(i) : n = Below(m, i)
    BY <2>1a
  <2>2. n.at = <<i>> \o m.at /\ n.t = m.t /\ i \in Int /\ m.at \in Seq(Int)
    BY <1>3, <2>1
  <2>3. CASE m.at = <<>>
    <3>1. m = RootOf(t.kids[i])
      BY <2>3 DEF Grown, OnePath, RootOf
    <3>2. n.at = Append(<<>>, i) /\ n.t = t.kids[i]
      BY <2>2, <2>3, <3>1 DEF RootOf
    <3> QED
      BY <1>2, <3>2
  <2>4. CASE m.at # <<>>
    <3>1a. PICK q \in Sub(i) : \E j \in DOMAIN q.t.kids : m.t = q.t.kids[j] /\ m.at = Append(q.at, j)
      BY <2>4 DEF Grown, HasParents
    <3>1. PICK j \in DOMAIN q.t.kids : m.t = q.t.kids[j] /\ m.at = Append(q.at, j)
      BY <3>1a
    <3>2. Below(q, i) \in N /\ Below(q, i).t = q.t /\ Below(q, i).at = <<i>> \o q.at /\ q.at \in Seq(Int)
          /\ q.t \in Tree
      BY <1>3
    <3>3. j \in Int
      <4>1. q.t.kids \in Seq(Tree)
        BY <3>2, NodeShape
      <4> QED
        BY <4>1
    <3>4. n.at = Append(Below(q, i).at, j)
      BY <2>2, <3>1, <3>2, <3>3, ShiftedAppend
    <3> QED
      BY <2>2, <3>1, <3>2, <3>4
  <2> QED
    BY <2>3, <2>4
<1>9. OnTheWay(N)
  <2> SUFFICES ASSUME NEW n \in N, NEW m \in N, Leads(n.at, m.at), Len(n.at) < Len(m.at)
               PROVE  m.at[Len(n.at) + 1] \in DOMAIN n.t.kids
    BY DEF OnTheWay
  <2>0. n.at \in Seq(Int) /\ m.at \in Seq(Int)
    BY <1>5 DEF Typed
  <2>1. m # RootOf(t)
    BY <1>2, <2>0
  <2>2a. PICK i \in DOMAIN t.kids : \E q \in Sub(i) : m = Below(q, i)
    BY <1>4, <2>1
  <2>2. PICK q \in Sub(i) : m = Below(q, i)
    BY <2>2a
  <2>3. m.at = <<i>> \o q.at /\ i \in Int /\ q.at \in Seq(Int)
    BY <1>3, <2>2
  <2>4. CASE n = RootOf(t)
    <3>1. Len(n.at) + 1 = 1
      BY <1>2, <2>4
    <3> QED
      BY <1>2, <2>3, <2>4, <3>1, Shifted
  <2>5. CASE n # RootOf(t)
    <3>1a. PICK j \in DOMAIN t.kids : \E r \in Sub(j) : n = Below(r, j)
      BY <1>4, <2>5
    <3>1. PICK r \in Sub(j) : n = Below(r, j)
      BY <3>1a
    <3>2. n.at = <<j>> \o r.at /\ j \in Int /\ r.at \in Seq(Int) /\ n.t = r.t
      BY <1>3, <3>1
    <3>3. i = j /\ Leads(r.at, q.at)
      BY <2>3, <3>2, ShiftedLeads
    <3>4. Len(n.at) = Len(r.at) + 1 /\ Len(m.at) = Len(q.at) + 1
          /\ \A k \in 1 .. Len(q.at) : m.at[k + 1] = q.at[k]
      BY <2>3, <3>2, Shifted
    <3>5. Len(r.at) < Len(q.at) /\ Len(r.at) + 1 \in 1 .. Len(q.at)
      BY <2>3, <3>2, <3>4
    <3>6. q.at[Len(r.at) + 1] \in DOMAIN r.t.kids
      BY <3>3, <3>5 DEF Grown, OnTheWay
    <3>7. m.at[(Len(r.at) + 1) + 1] = q.at[Len(r.at) + 1]
      BY <3>4, <3>5
    <3> QED
      BY <3>2, <3>4, <3>6, <3>7
  <2> QED
    BY <2>4, <2>5
<1> QED
  BY <1>2, <1>5, <1>6, <1>7, <1>8, <1>9 DEF Grown, N

LEMMA SubtreesGrown ==
  ASSUME NEW t \in Tree
  PROVE  Grown(L!Subtrees[t]) /\ RootOf(t) \in L!Subtrees[t]
<1> DEFINE Good(u) == Grown(L!Subtrees[u]) /\ RootOf(u) \in L!Subtrees[u]
           B == {Height[u] : u \in {v \in Tree : ~Good(v)}}
<1>1. SUFFICES ASSUME B # {} PROVE FALSE
  BY <1>1
<1>2. B \subseteq Nat
  BY HeightAssumption
<1>3. PICK h \in B : \A k \in B : h <= k
  BY <1>1, <1>2, LeastNat
<1>4. PICK u \in Tree : ~Good(u) /\ h = Height[u]
  BY <1>3
<1>5. ASSUME NEW i \in DOMAIN u.kids PROVE Good(u.kids[i])
  <2>1. /\ u.kids[i] \in Tree /\ Height[u] \in Nat
        /\ Height[u.kids[i]] \in Nat /\ Height[u.kids[i]] < Height[u]
    BY KidsLower
  <2>2. Height[u.kids[i]] \notin B
    BY <2>1, <1>3, <1>4
  <2> QED BY <2>1, <2>2
<1>6. L!Subtrees[u] = Collect(L!Subtrees, u)
  BY SubtreesIs
<1>7. Good(u)
  BY <1>5, <1>6, GrownCollect
<1> QED
  BY <1>4, <1>7
-----------------------------------------------------------------------------
(* Paths, and the places of names at their ends.                           *)
LEMMA Appended ==
  ASSUME NEW a \in Seq(Int), NEW x \in Int
  PROVE  /\ Append(a, x) \in Seq(Int) /\ Len(Append(a, x)) = Len(a) + 1 /\ Len(a) \in Nat
         /\ Append(a, x)[Len(a) + 1] = x /\ Append(a, x) # <<>>
         /\ \A k \in 1 .. Len(a) : Append(a, x)[k] = a[k]
  OBVIOUS

LEMMA AppendedEqual ==
  ASSUME NEW a \in Seq(Int), NEW x \in Int, NEW b \in Seq(Int), NEW y \in Int,
         Append(a, x) = Append(b, y)
  PROVE  a = b /\ x = y
<1>1. /\ Len(Append(a, x)) = Len(a) + 1 /\ Len(a) \in Nat
      /\ Append(a, x)[Len(a) + 1] = x
      /\ \A k \in 1 .. Len(a) : Append(a, x)[k] = a[k]
  BY Appended
<1>2. /\ Len(Append(b, y)) = Len(b) + 1 /\ Len(b) \in Nat
      /\ Append(b, y)[Len(b) + 1] = y
      /\ \A k \in 1 .. Len(b) : Append(b, y)[k] = b[k]
  BY Appended
<1>3. Len(a) = Len(b) /\ x = y /\ \A k \in 1 .. Len(a) : a[k] = b[k]
  BY <1>1, <1>2
<1> QED
  BY <1>3, SeqEqual

LEMMA FrontLast ==
  ASSUME NEW a \in Seq(Int), NEW x \in Int
  PROVE  L!Front(Append(a, x)) = a /\ L!Last(Append(a, x)) = x
<1> DEFINE b == Append(a, x)
           c == SubSeq(b, 1, Len(a))
<1>1. /\ b \in Seq(Int) /\ Len(b) = Len(a) + 1 /\ Len(a) \in Nat /\ b[Len(a) + 1] = x
      /\ \A k \in 1 .. Len(a) : b[k] = a[k]
  BY Appended
<1> HIDE DEF b
<1>2. /\ c \in Seq(Int) /\ Len(c) = Len(a) /\ \A k \in 1 .. Len(a) : c[k] = b[k]
  BY <1>1
<1>3. \A k \in 1 .. Len(c) : c[k] = a[k]
  BY <1>1, <1>2
<1> HIDE DEF c
<1>4. c = a
  BY <1>2, <1>3, SeqEqual
<1> QED
  BY <1>1, <1>4 DEF L!Front, L!Last, b, c

LEMMA LeadsRefl ==
  ASSUME NEW a \in Seq(Int)
  PROVE  Leads(a, a)
  BY DEF Leads

LEMMA LeadsTrans ==
  ASSUME NEW a \in Seq(Int), NEW b \in Seq(Int), NEW c \in Seq(Int), Leads(a, b), Leads(b, c)
  PROVE  Leads(a, c)
  BY DEF Leads

LEMMA LeadsEqual ==
  ASSUME NEW a \in Seq(Int), NEW b \in Seq(Int), Leads(a, b), Len(b) <= Len(a)
  PROVE  a = b
<1>1. Len(a) = Len(b) /\ \A k \in 1 .. Len(a) : a[k] = b[k]
  BY DEF Leads
<1> QED
  BY <1>1, SeqEqual

LEMMA LeadsSame ==
  ASSUME NEW a \in Seq(Int), NEW b \in Seq(Int), NEW c \in Seq(Int),
         Leads(a, c), Leads(b, c), Len(a) <= Len(b)
  PROVE  Leads(a, b)
  BY DEF Leads

LEMMA LeadsAppend ==
  ASSUME NEW a \in Seq(Int), NEW x \in Int, NEW e \in Seq(Int)
  PROVE  /\ Leads(Append(a, x), e) <=> Leads(a, e) /\ Len(a) < Len(e) /\ e[Len(a) + 1] = x
         /\ Leads(a, Append(a, x))
         /\ Leads(e, Append(a, x)) <=> Leads(e, a) \/ e = Append(a, x)
<1> DEFINE b == Append(a, x)
<1>1. /\ b \in Seq(Int) /\ Len(b) = Len(a) + 1 /\ Len(a) \in Nat /\ b[Len(a) + 1] = x
      /\ \A k \in 1 .. Len(a) : b[k] = a[k]
  BY Appended
<1> HIDE DEF b
<1>0. Len(e) \in Nat
  OBVIOUS
<1>2. Leads(a, b)
  BY <1>1 DEF Leads
<1>3. Leads(b, e) => Leads(a, e) /\ Len(a) < Len(e) /\ e[Len(a) + 1] = x
  BY <1>0, <1>1, SMTT(30) DEF Leads
<1>4. ASSUME Leads(a, e), Len(a) < Len(e), e[Len(a) + 1] = x PROVE Leads(b, e)
  <2>1. ASSUME NEW k \in 1 .. Len(b) PROVE e[k] = b[k]
    <3>1. k \in 1 .. Len(a) \/ k = Len(a) + 1
      BY <1>1
    <3> QED
      BY <1>1, <1>4, <3>1 DEF Leads
  <2> QED
    BY <1>0, <1>1, <1>4, <2>1 DEF Leads
<1>5. Leads(e, a) => Leads(e, b)
  BY <1>1, <1>2, LeadsTrans
<1>6. e = b => Leads(e, b)
  BY <1>1, LeadsRefl
<1>7. ASSUME Leads(e, b), e # b PROVE Leads(e, a)
  <2>1. Len(e) <= Len(a)
    <3>1. Len(e) <= Len(b) /\ ~(Len(b) <= Len(e))
      BY <1>1, <1>7, LeadsEqual DEF Leads
    <3> QED
      BY <1>0, <1>1, <3>1
  <2> QED
    BY <1>0, <1>1, <1>7, <2>1 DEF Leads
<1> QED
  BY <1>2, <1>3, <1>4, <1>5, <1>6, <1>7 DEF b

LEMMA NamePlace ==
  ASSUME NEW a \in Seq(Int), NEW i \in Nat
  PROVE  /\ NameAt(a, i) \in Seq(Int) /\ Len(NameAt(a, i)) = Len(a) + 1 /\ Len(a) \in Nat
         /\ NameAt(a, i)[Len(a) + 1] = -i /\ NameAt(a, i) # <<>>
         /\ \A k \in 1 .. Len(a) : NameAt(a, i)[k] = a[k]
         /\ Leads(a, NameAt(a, i))
<1>1. -i \in Int
  OBVIOUS
<1> QED
  BY <1>1, Appended, LeadsAppend DEF NameAt

LEMMA NamePlaceEqual ==
  ASSUME NEW a \in Seq(Int), NEW i \in Nat, NEW b \in Seq(Int), NEW j \in Nat,
         NameAt(a, i) = NameAt(b, j)
  PROVE  a = b /\ i = j
<1>1. -i \in Int /\ -j \in Int
  OBVIOUS
<1>2. a = b /\ -i = -j
  BY <1>1, AppendedEqual DEF NameAt
<1> QED
  BY <1>2

(* A path of child numbers leads to the place of a name of node b only     *)
(* through b.                                                              *)
LEMMA LeadsToName ==
  ASSUME NEW a \in Seq(Int), NEW b \in Seq(Int), NEW i \in Nat,
         \A k \in 1 .. Len(a) : a[k] > 0
  PROVE  Leads(a, NameAt(b, i)) <=> Leads(a, b)
<1>1. -i \in Int
  OBVIOUS
<1>2. Leads(a, NameAt(b, i)) <=> Leads(a, b) \/ a = NameAt(b, i)
  BY <1>1, LeadsAppend DEF NameAt
<1>3. a # NameAt(b, i)
  <2> SUFFICES ASSUME a = NameAt(b, i) PROVE FALSE
    OBVIOUS
  <2>1. Len(a) = Len(b) + 1 /\ Len(b) \in Nat /\ a[Len(b) + 1] = -i
    BY NamePlace
  <2>2. a[Len(b) + 1] > 0
    BY <2>1
  <2> QED
    BY <2>1, <2>2
<1> QED
  BY <1>2, <1>3
-----------------------------------------------------------------------------
(* The nodes of a whole program.                                           *)
Whole(N) == Grown(N) /\ \E t \in Tree : t.k = "program" /\ RootOf(t) \in N

LEMMA NodeKind ==
  ASSUME NEW t \in Tree
  PROVE  /\ t.xs \in Seq(STRING) /\ t.kids \in Seq(Tree) /\ t.k \in STRING
         /\ t.k \in {"name", "declaration"} \union RoutineKind => Len(t.xs) >= 1
         /\ t.k = "declaration" => Len(t.xs) = 1
         /\ t.k \in {"name"} \union Forwards => Len(t.kids) = 0
         /\ t.k \in CallKind \union DomainKind => Len(t.kids) >= 1
         /\ t.k \in CallKind => t.kids[1].k = "name"
         /\ t.k \in Routines => Len(t.kids) = 1
         /\ \A i \in DOMAIN t.kids :
              /\ t.kids[i].k = "declaration" => t.k \in {"program", "block"}
              /\ t.kids[i].k \in RoutineKind => t.k = "program"
              /\ t.kids[i].k # "program"
<1>1. t \in Nodes
  BY TreeAssumption
<1>2. t.xs \in Seq(STRING) /\ t.kids \in Seq(Tree) /\ t.k \in STRING
  BY <1>1 DEF Nodes
<1>3. t.kids = <<>> => Len(t.kids) = 0
  OBVIOUS
<1>4. t.xs # <<>> => Len(t.xs) >= 1
  BY <1>2
<1>5. t.kids # <<>> => Len(t.kids) >= 1
  BY <1>2
<1> QED
  BY <1>2, <1>3, <1>4, <1>5, TreeAssumption

LEMMA NodeIs ==
  ASSUME NEW N, Grown(N), NEW n \in N
  PROVE  /\ n.t \in Tree /\ n.at \in Seq(Int) /\ \A k \in 1 .. Len(n.at) : n.at[k] > 0
         /\ n = [t |-> n.t, at |-> n.at]
  BY DEF Grown, Typed

LEMMA ParentOf ==
  ASSUME NEW N, Grown(N), NEW n \in N, n.at # <<>>
  PROVE  \E p \in N : \E i \in DOMAIN p.t.kids :
           /\ n.t = p.t.kids[i] /\ n.at = Append(p.at, i)
           /\ i \in Int /\ i > 0 /\ p.at \in Seq(Int) /\ p.t \in Tree
<1>1. PICK p \in N : \E i \in DOMAIN p.t.kids : n.t = p.t.kids[i] /\ n.at = Append(p.at, i)
  BY DEF Grown, HasParents
<1>2. PICK i \in DOMAIN p.t.kids : n.t = p.t.kids[i] /\ n.at = Append(p.at, i)
  BY <1>1
<1>3. p.t \in Tree /\ p.at \in Seq(Int)
  BY NodeIs
<1>4. p.t.kids \in Seq(Tree)
  BY <1>3, NodeKind
<1>5. i \in Int /\ i > 0
  BY <1>4
<1> QED
  BY <1>2, <1>3, <1>5

LEMMA RootKind ==
  ASSUME NEW N, Whole(N), NEW n \in N
  PROVE  n.t.k = "program" <=> n.at = <<>>
<1>1. ASSUME n.at = <<>> PROVE n.t.k = "program"
  BY <1>1 DEF Whole, Grown, OnePath, RootOf
<1>2. ASSUME n.at # <<>> PROVE n.t.k # "program"
  <2>1. PICK p \in N : \E i \in DOMAIN p.t.kids : n.t = p.t.kids[i] /\ p.t \in Tree
    BY <1>2, ParentOf DEF Whole
  <2> QED
    BY <2>1, NodeKind
<1> QED
  BY <1>1, <1>2
-----------------------------------------------------------------------------
(* The declaration sites of a program, one for each name a node declares.  *)
(* The name of a declaration and that of a routine belong to the node      *)
(* around it, other names to the node itself.                              *)
SitesIn(N) == UNION {L!SitesOf(n) : n \in N}

Openers == {"program", "block"} \union Routines \union DomainKind
Base(t) == IF t.k \in DomainKind THEN Len(t.kids) ELSE 1

Naming(t) ==
  IF t.k \in DomainKind \union Routines THEN 1 .. Len(t.xs)
  ELSE IF t.k \in {"declaration"} \union Forwards THEN {1} ELSE {}

Outer(t, i) == i = 1 /\ t.k \in {"declaration"} \union RoutineKind

SiteOf(n, i) ==
  L!Site(n.t.xs[i], NameAt(n.at, i),
         IF Outer(n.t, i) THEN L!Front(n.at) ELSE n.at,
         IF ~Outer(n.t, i) THEN Base(n.t)
         ELSE IF n.t.k = "declaration" THEN L!Last(n.at) + 1 ELSE L!Last(n.at),
         IF Outer(n.t, i) /\ n.t.k # "declaration" THEN L!TypeOf(n.t) ELSE L!Value)

LEMMA SitesOfNode ==
  ASSUME NEW N, Grown(N), NEW n \in N
  PROVE  L!SitesOf(n) = {SiteOf(n, i) : i \in Naming(n.t)}
<1> DEFINE t == n.t
           Here(i) == L!Site(t.xs[i], NameAt(n.at, i), n.at, Base(t), L!Value)
           There(from, ty) == L!Site(t.xs[1], NameAt(n.at, 1), L!Front(n.at), from, ty)
<1>1. t \in Tree
  BY NodeIs
<1>2. Len(t.xs) \in Nat /\ DOMAIN t.xs = 1 .. Len(t.xs)
  BY <1>1, NodeKind
<1>3. CASE t.k = "declaration"
  <2>1. L!SitesOf(n) = {There(L!Last(n.at) + 1, L!Value)}
    BY <1>3 DEF L!SitesOf, L!Site, L!NameAt, NameAt, L!Value, L!DomainKind, L!Routines, L!Forwards
  <2>2. Naming(t) = {1} /\ SiteOf(n, 1) = There(L!Last(n.at) + 1, L!Value)
    BY <1>3 DEF Naming, SiteOf, Outer, DomainKind, Routines
  <2> QED
    BY <2>1, <2>2
<1>4. CASE t.k \in DomainKind
  <2>1. L!SitesOf(n) = {Here(i) : i \in DOMAIN t.xs}
    BY <1>4 DEF L!SitesOf, L!Site, L!NameAt, NameAt, L!Value, DomainKind, L!DomainKind, Base,
                L!Routines, L!Forwards
  <2>2. Naming(t) = DOMAIN t.xs
    BY <1>2, <1>4 DEF Naming
  <2>3. \A i \in DOMAIN t.xs : SiteOf(n, i) = Here(i)
    BY <1>4 DEF SiteOf, Outer, DomainKind, RoutineKind, Routines, Forwards
  <2> QED
    BY <2>1, <2>2, <2>3
<1>5. CASE t.k \in Routines
  <2>1. L!SitesOf(n) = {There(L!Last(n.at), L!TypeOf(t))} \union {Here(i) : i \in 2 .. Len(t.xs)}
    BY <1>5 DEF L!SitesOf, L!Site, L!NameAt, NameAt, L!Value, DomainKind, L!DomainKind, Base,
                L!Routines, Routines, L!Forwards
  <2>2. Naming(t) = {1} \union 2 .. Len(t.xs)
    BY <1>1, <1>2, <1>5, NodeKind DEF Naming, RoutineKind
  <2>3. SiteOf(n, 1) = There(L!Last(n.at), L!TypeOf(t))
    BY <1>5 DEF SiteOf, Outer, Routines, RoutineKind
  <2>4. \A i \in 2 .. Len(t.xs) : SiteOf(n, i) = Here(i)
    BY <1>5 DEF SiteOf, Outer
  <2> HIDE DEF Here, There
  <2> QED
    BY <2>1, <2>2, <2>3, <2>4
<1>6. CASE t.k \in Forwards
  <2>1. L!SitesOf(n) = {There(L!Last(n.at), L!TypeOf(t))}
    BY <1>6 DEF L!SitesOf, L!Site, L!NameAt, NameAt, L!Value, DomainKind, L!DomainKind, Base,
                L!Routines, Routines, L!Forwards, Forwards
  <2>2. Naming(t) = {1}
    BY <1>6 DEF Naming, DomainKind, Routines, Forwards
  <2>3. SiteOf(n, 1) = There(L!Last(n.at), L!TypeOf(t))
    BY <1>6 DEF SiteOf, Outer, Forwards, RoutineKind
  <2> QED
    BY <2>1, <2>2, <2>3
<1>7. CASE t.k \notin {"declaration"} \union DomainKind \union RoutineKind
  <2>1. L!SitesOf(n) = {}
    BY <1>7 DEF L!SitesOf, DomainKind, L!DomainKind, L!Routines, Routines, L!Forwards, Forwards, RoutineKind
  <2>2. Naming(t) = {}
    BY <1>7 DEF Naming, RoutineKind
  <2> QED
    BY <2>1, <2>2
<1> QED
  BY <1>3, <1>4, <1>5, <1>6, <1>7 DEF RoutineKind

LEMMA SiteIs ==
  ASSUME NEW N, Grown(N), NEW s
  PROVE  s \in SitesIn(N) <=> \E n \in N : \E i \in Naming(n.t) : s = SiteOf(n, i)
<1>1. \A n \in N : L!SitesOf(n) = {SiteOf(n, i) : i \in Naming(n.t)}
  BY SitesOfNode
<1>2. s \in SitesIn(N) <=> \E n \in N : s \in L!SitesOf(n)
  BY DEF SitesIn
<1> QED
  BY <1>1, <1>2
-----------------------------------------------------------------------------
LEMMA SiteFields ==
  ASSUME NEW N, Grown(N), NEW n \in N, NEW i \in Naming(n.t)
  PROVE  /\ i \in Nat /\ i \in 1 .. Len(n.t.xs) /\ n.t.xs[i] \in STRING
         /\ SiteOf(n, i).place = NameAt(n.at, i) /\ SiteOf(n, i).name = n.t.xs[i]
         /\ ~Outer(n.t, i) =>
              /\ SiteOf(n, i).owner = n.at /\ SiteOf(n, i).from = Base(n.t)
              /\ SiteOf(n, i).type = L!Value
              /\ n.t.k \in DomainKind \union Routines
         /\ Outer(n.t, i) =>
              /\ SiteOf(n, i).owner = L!Front(n.at)
              /\ SiteOf(n, i).from = IF n.t.k = "declaration" THEN L!Last(n.at) + 1 ELSE L!Last(n.at)
              /\ SiteOf(n, i).type = IF n.t.k = "declaration" THEN L!Value ELSE L!TypeOf(n.t)
<1>1. n.t \in Tree
  BY NodeIs
<1>2. n.t.xs \in Seq(STRING) /\ Len(n.t.xs) \in Nat
  BY <1>1, NodeKind
<1>3. i \in 1 .. Len(n.t.xs)
  BY <1>1, <1>2, NodeKind DEF Naming, RoutineKind
<1>4. ~Outer(n.t, i) => n.t.k \in DomainKind \union Routines
  BY DEF Naming, Outer, RoutineKind
<1> QED
  BY <1>2, <1>3, <1>4 DEF SiteOf, L!Site

(* The site of a declaration or of a routine belongs to the block or the   *)
(* program it is an item of.                                               *)
LEMMA OuterSite ==
  ASSUME NEW N, Whole(N), NEW n \in N, NEW i \in Naming(n.t), Outer(n.t, i)
  PROVE  \E p \in N : \E j \in DOMAIN p.t.kids :
           /\ n.t = p.t.kids[j] /\ n.at = Append(p.at, j) /\ j \in Int /\ j > 0
           /\ SiteOf(n, i).owner = p.at
           /\ SiteOf(n, i).from = IF n.t.k = "declaration" THEN j + 1 ELSE j
           /\ p.t.k \in {"program", "block"}
           /\ n.t.k # "declaration" => p.at = <<>>
<1>0. Grown(N)
  BY DEF Whole
<1>1. n.t.k \in {"declaration"} \union RoutineKind /\ i = 1
  BY DEF Outer
<1>2. n.at # <<>>
  BY <1>1, RootKind DEF RoutineKind, Routines, Forwards
<1>3. PICK p \in N : \E j \in DOMAIN p.t.kids :
           /\ n.t = p.t.kids[j] /\ n.at = Append(p.at, j)
           /\ j \in Int /\ j > 0 /\ p.at \in Seq(Int) /\ p.t \in Tree
  BY <1>0, <1>2, ParentOf
<1>4. PICK j \in DOMAIN p.t.kids :
           /\ n.t = p.t.kids[j] /\ n.at = Append(p.at, j)
           /\ j \in Int /\ j > 0 /\ p.at \in Seq(Int) /\ p.t \in Tree
  BY <1>3
<1>5. L!Front(n.at) = p.at /\ L!Last(n.at) = j
  BY <1>4, FrontLast
<1>6. p.t.k \in {"program", "block"} /\ (n.t.k # "declaration" => p.t.k = "program")
  BY <1>1, <1>4, NodeKind
<1>7. n.t.k # "declaration" => p.at = <<>>
  BY <1>6, RootKind
<1>8. /\ SiteOf(n, i).owner = L!Front(n.at)
      /\ SiteOf(n, i).from = IF n.t.k = "declaration" THEN L!Last(n.at) + 1 ELSE L!Last(n.at)
  BY <1>0, SiteFields
<1> QED
  BY <1>4, <1>5, <1>6, <1>7, <1>8

LEMMA BaseIs ==
  ASSUME NEW t \in Tree
  PROVE  Base(t) \in Nat /\ Base(t) >= 1
<1>1. t.k \in DomainKind => Len(t.kids) >= 1 /\ Len(t.kids) \in Nat
  BY NodeKind
<1> QED
  BY <1>1 DEF Base

LEMMA SiteOwner ==
  ASSUME NEW N, Whole(N), NEW s \in SitesIn(N)
  PROVE  /\ s.owner \in Seq(Int) /\ s.from \in Int /\ s.place \in Seq(Int) /\ s.place # <<>>
         /\ s.name \in STRING
         /\ \E o \in N : o.at = s.owner /\ o.t.k \in Openers /\ s.from >= Base(o.t)
<1>0. Grown(N)
  BY DEF Whole
<1>1a. PICK n \in N : \E i \in Naming(n.t) : s = SiteOf(n, i)
  BY <1>0, SiteIs
<1>1. PICK i \in Naming(n.t) : s = SiteOf(n, i)
  BY <1>1a
<1>2. /\ s.place = NameAt(n.at, i) /\ s.name \in STRING /\ i \in Nat /\ n.at \in Seq(Int) /\ n.t \in Tree
  BY <1>0, <1>1, SiteFields, NodeIs
<1>3. s.place \in Seq(Int) /\ s.place # <<>>
  BY <1>2, NamePlace
<1>4. CASE Outer(n.t, i)
  <2>1. PICK p \in N : \E j \in DOMAIN p.t.kids :
           /\ j \in Int /\ j > 0 /\ s.owner = p.at
           /\ s.from = IF n.t.k = "declaration" THEN j + 1 ELSE j
           /\ p.t.k \in {"program", "block"}
    BY <1>1, <1>4, OuterSite
  <2>2. p.t.k \in Openers /\ Base(p.t) = 1 /\ p.at \in Seq(Int)
    BY <1>0, <2>1, NodeIs DEF Openers, Base, DomainKind
  <2>3. s.from \in Int /\ s.from >= 1
    BY <2>1
  <2> QED
    BY <1>2, <1>3, <2>1, <2>2, <2>3
<1>5. CASE ~Outer(n.t, i)
  <2>1. s.owner = n.at /\ s.from = Base(n.t) /\ n.t.k \in DomainKind \union Routines
    BY <1>0, <1>1, <1>5, SiteFields
  <2>2. Base(n.t) \in Nat
    BY <1>2, BaseIs
  <2> QED
    BY <1>2, <1>3, <2>1, <2>2 DEF Openers
<1> QED
  BY <1>4, <1>5

LEMMA SamePlace ==
  ASSUME NEW N, Grown(N), NEW n \in N, NEW i \in Naming(n.t), NEW m \in N, NEW j \in Naming(m.t),
         SiteOf(n, i).place = SiteOf(m, j).place
  PROVE  n = m /\ i = j
<1>1. NameAt(n.at, i) = NameAt(m.at, j) /\ i \in Nat /\ j \in Nat
  BY SiteFields
<1>2. n.at \in Seq(Int) /\ m.at \in Seq(Int)
  BY NodeIs
<1>3. n.at = m.at /\ i = j
  BY <1>1, <1>2, NamePlaceEqual
<1> QED
  BY <1>3 DEF Grown, OnePath

LEMMA SameSite ==
  ASSUME NEW N, Grown(N), NEW s \in SitesIn(N), NEW q \in SitesIn(N), s.place = q.place
  PROVE  s = q
<1>1a. PICK n \in N : \E i \in Naming(n.t) : s = SiteOf(n, i)
  BY SiteIs
<1>1. PICK i \in Naming(n.t) : s = SiteOf(n, i)
  BY <1>1a
<1>2a. PICK m \in N : \E j \in Naming(m.t) : q = SiteOf(m, j)
  BY SiteIs
<1>2. PICK j \in Naming(m.t) : q = SiteOf(m, j)
  BY <1>2a
<1>3. n = m /\ i = j
  BY <1>1, <1>2, SamePlace
<1> QED
  BY <1>1, <1>2, <1>3

(* The site at the i-th name of a node, if there is one.                   *)
LEMMA SiteAtPlace ==
  ASSUME NEW N, Grown(N), NEW n \in N, NEW i \in Nat, NEW s \in SitesIn(N),
         s.place = NameAt(n.at, i)
  PROVE  i \in Naming(n.t) /\ s = SiteOf(n, i)
<1>1a. PICK m \in N : \E j \in Naming(m.t) : s = SiteOf(m, j)
  BY SiteIs
<1>1. PICK j \in Naming(m.t) : s = SiteOf(m, j)
  BY <1>1a
<1>2. NameAt(n.at, i) = NameAt(m.at, j) /\ j \in Nat
  BY <1>1, SiteFields
<1>3. n.at \in Seq(Int) /\ m.at \in Seq(Int)
  BY NodeIs
<1>4. n.at = m.at /\ i = j
  BY <1>2, <1>3, NamePlaceEqual
<1>5. n = m
  BY <1>4 DEF Grown, OnePath
<1> QED
  BY <1>1, <1>4, <1>5
-----------------------------------------------------------------------------
(* Where a site is seen, and where a node's scope reaches.                 *)
Encloses(o, at) == Len(o) < Len(at) /\ Leads(o, at)

LEMMA SeesIs ==
  ASSUME NEW s, s.owner \in Seq(Int), NEW at \in Seq(Int)
  PROVE  L!Sees(at, s) <=> Encloses(s.owner, at) /\ at[Len(s.owner) + 1] >= s.from
<1> DEFINE o == s.owner
<1>1. Len(o) \in Nat /\ Len(at) \in Nat
  OBVIOUS
<1>2. ASSUME Len(o) < Len(at) PROVE SubSeq(at, 1, Len(o)) = o <=> Leads(o, at)
  <2> DEFINE c == SubSeq(at, 1, Len(o))
  <2>1. c \in Seq(Int) /\ Len(c) = Len(o) /\ \A k \in 1 .. Len(o) : c[k] = at[k]
    BY <1>1, <1>2
  <2>2. c = o => Leads(o, at)
    BY <1>2, <2>1 DEF Leads
  <2>3. ASSUME Leads(o, at) PROVE c = o
    <3>1. \A k \in 1 .. Len(c) : c[k] = o[k]
      BY <2>1, <2>3 DEF Leads
    <3> HIDE DEF c
    <3> QED
      BY <2>1, <3>1, SeqEqual
  <2> QED
    BY <2>2, <2>3
<1> QED
  BY <1>1, <1>2 DEF L!Sees, Encloses

LEMMA EnclosesKid ==
  ASSUME NEW o \in Seq(Int), NEW at \in Seq(Int), NEW x \in Int
  PROVE  /\ Encloses(o, Append(at, x)) <=> o = at \/ Encloses(o, at)
         /\ o = at => Append(at, x)[Len(o) + 1] = x
         /\ Encloses(o, at) => Append(at, x)[Len(o) + 1] = at[Len(o) + 1]
<1>1. /\ Append(at, x) \in Seq(Int) /\ Len(Append(at, x)) = Len(at) + 1 /\ Len(at) \in Nat
      /\ Append(at, x)[Len(at) + 1] = x
      /\ \A k \in 1 .. Len(at) : Append(at, x)[k] = at[k]
  BY Appended
<1>2. Leads(o, Append(at, x)) <=> Leads(o, at) \/ o = Append(at, x)
  BY LeadsAppend
<1>3. Len(o) \in Nat
  OBVIOUS
<1>4. Encloses(o, at) => Len(o) + 1 \in 1 .. Len(at)
  BY <1>1, <1>3 DEF Encloses
<1>5. ASSUME Encloses(o, Append(at, x)) PROVE o = at \/ Encloses(o, at)
  <2>1. Len(o) < Len(at) + 1 /\ Leads(o, at)
    BY <1>1, <1>2, <1>3, <1>5 DEF Encloses
  <2>2. CASE Len(o) < Len(at)
    BY <2>1, <2>2 DEF Encloses
  <2>3. CASE ~(Len(o) < Len(at))
    BY <1>1, <1>3, <2>1, <2>3, LeadsEqual
  <2> QED
    BY <2>2, <2>3
<1>6. ASSUME o = at \/ Encloses(o, at) PROVE Encloses(o, Append(at, x))
  <2>1. Leads(o, at)
    BY <1>6, LeadsRefl DEF Encloses
  <2> QED
    BY <1>1, <1>2, <1>3, <1>6, <2>1 DEF Encloses
<1> QED
  BY <1>1, <1>4, <1>5, <1>6

LEMMA SeesKid ==
  ASSUME NEW s, s.owner \in Seq(Int), NEW at \in Seq(Int), NEW x \in Int
  PROVE  /\ s.owner = at => (L!Sees(Append(at, x), s) <=> x >= s.from)
         /\ Encloses(s.owner, at) => (L!Sees(Append(at, x), s) <=> L!Sees(at, s))
<1> DEFINE b == Append(at, x)
           o == s.owner
<1>1. b \in Seq(Int)
  OBVIOUS
<1>2. /\ L!Sees(at, s) <=> Encloses(o, at) /\ at[Len(o) + 1] >= s.from
      /\ L!Sees(b, s) <=> Encloses(o, b) /\ b[Len(o) + 1] >= s.from
  BY <1>1, SeesIs
<1>3. /\ Encloses(o, b) <=> o = at \/ Encloses(o, at)
      /\ o = at => b[Len(o) + 1] = x
      /\ Encloses(o, at) => b[Len(o) + 1] = at[Len(o) + 1]
  BY EnclosesKid
<1> QED
  BY <1>2, <1>3

Inside(n, at) ==
  /\ n.t.k \in Openers
  /\ Encloses(n.at, at) /\ at[Len(n.at) + 1] >= Base(n.t)

(* The innermost node whose scope reaches a path.                          *)
Home(N, o, at) ==
  IF at = <<>> THEN o.at = <<>>
  ELSE Inside(o, at) /\ \A n \in N : Inside(n, at) => Len(n.at) <= Len(o.at)

LEMMA InsideKid ==
  ASSUME NEW N, Grown(N), NEW n \in N, NEW at \in Seq(Int), NEW x \in Int
  PROVE  Inside(n, Append(at, x)) <=>
           (n.at = at /\ n.t.k \in Openers /\ x >= Base(n.t)) \/ Inside(n, at)
<1>1. n.at \in Seq(Int)
  BY NodeIs
<1>2. n.at = at => ~Encloses(n.at, at)
  BY <1>1 DEF Encloses
<1> QED
  BY <1>1, <1>2, EnclosesKid, ZenonT(40) DEF Inside

(* Under a node that opens no scope for a child, the child is at home      *)
(* where the node is; under one that does, it is at home in the node.      *)
LEMMA HomeKid ==
  ASSUME NEW N, Grown(N), NEW m \in N, NEW o \in N, Home(N, o, m.at), m.at # <<>>,
         NEW x \in Int, m.t.k \in Openers => x < Base(m.t)
  PROVE  Home(N, o, Append(m.at, x))
<1>1. m.at \in Seq(Int) /\ Append(m.at, x) # <<>> /\ Base(m.t) \in Nat
  BY NodeIs, Appended, BaseIs
<1>2. \A n \in N : n.at = m.at => n = m
  BY DEF Grown, OnePath
<1>3. \A n \in N : Inside(n, Append(m.at, x)) <=> Inside(n, m.at)
  BY <1>1, <1>2, InsideKid
<1> QED
  BY <1>1, <1>3 DEF Home

LEMMA HomeOwn ==
  ASSUME NEW N, Grown(N), NEW m \in N, m.t.k \in Openers, NEW x \in Int, x >= Base(m.t)
  PROVE  Home(N, m, Append(m.at, x))
<1>1. m.at \in Seq(Int) /\ Append(m.at, x) # <<>>
  BY NodeIs, Appended
<1>2. Inside(m, Append(m.at, x))
  BY <1>1, InsideKid
<1>3. ASSUME NEW n \in N, Inside(n, Append(m.at, x)) PROVE Len(n.at) <= Len(m.at)
  <2>1. n.at \in Seq(Int)
    BY NodeIs
  <2>2. n.at = m.at \/ Encloses(n.at, m.at)
    BY <1>1, <1>3, InsideKid DEF Inside
  <2> QED
    BY <1>1, <2>1, <2>2 DEF Encloses
<1> QED
  BY <1>1, <1>2, <1>3 DEF Home

LEMMA SameHome ==
  ASSUME NEW N, Grown(N), NEW at \in Seq(Int), NEW o \in N, NEW p \in N,
         Home(N, o, at), Home(N, p, at)
  PROVE  o = p
<1>1. o.at \in Seq(Int) /\ p.at \in Seq(Int)
  BY NodeIs
<1>2. CASE at = <<>>
  BY <1>2 DEF Home, Grown, OnePath
<1>3. CASE at # <<>>
  <2>1. Inside(o, at) /\ Inside(p, at) /\ Len(o.at) <= Len(p.at) /\ Len(p.at) <= Len(o.at)
    BY <1>3 DEF Home
  <2>2. Leads(o.at, at) /\ Leads(p.at, at)
    BY <2>1 DEF Inside, Encloses
  <2>3. Leads(o.at, p.at)
    BY <1>1, <2>1, <2>2, LeadsSame
  <2>4. o.at = p.at
    BY <1>1, <2>1, <2>3, LeadsEqual
  <2> QED
    BY <2>4 DEF Grown, OnePath
<1> QED
  BY <1>2, <1>3

LEMMA SeenInside ==
  ASSUME NEW N, Whole(N), NEW s \in SitesIn(N), NEW o \in N, o.at = s.owner,
         NEW at \in Seq(Int), L!Sees(at, s)
  PROVE  Inside(o, at)
<1>0. Grown(N)
  BY DEF Whole
<1>1. /\ s.owner \in Seq(Int) /\ s.from \in Int
      /\ \E p \in N : p.at = s.owner /\ p.t.k \in Openers /\ s.from >= Base(p.t)
  BY SiteOwner
<1>2. o.t.k \in Openers /\ s.from >= Base(o.t) /\ o.t \in Tree
  BY <1>0, <1>1, NodeIs DEF Grown, OnePath
<1>3. Encloses(o.at, at) /\ at[Len(o.at) + 1] >= s.from
  BY <1>1, SeesIs
<1>4. at[Len(o.at) + 1] \in Int
  <2>1. Len(o.at) + 1 \in 1 .. Len(at)
    BY <1>1, <1>3 DEF Encloses
  <2> QED
    BY <2>1
<1>5. Base(o.t) \in Int
  BY <1>2, BaseIs
<1> QED
  BY <1>1, <1>2, <1>3, <1>4, <1>5 DEF Inside
-----------------------------------------------------------------------------
(* What is still to be done.  An event is the place of a name of a node:   *)
(* its declaration or its use, and at 0 the check or the scope of a node.  *)
(* Each item of the stack has events pending, and brings them about when   *)
(* it is reached.                                                          *)
Names(at, I) == {NameAt(at, i) : i \in I}
Events(N) == UNION {Names(n.at, Nat) : n \in N}

Pends(f, e) ==
  \/ f.op = "visit" /\ Leads(f.at, e)
  \/ f.op \in {"declare", "refer", "routine"} /\ e = NameAt(f.at, 1)
  \/ f.op = "arity" /\ e = NameAt(f.at, 0)
  \/ f.op = "enter" /\ (e \in Names(f.at, Nat) \/ Leads(Append(f.at, Len(f.node.kids)), e))
  \/ f.op = "body" /\ (e \in Names(f.at, Nat \ {1}) \/ Leads(Append(f.at, 1), e))

Pending(w, j, e) == \E i \in DOMAIN w : i >= j /\ Pends(w[i], e)

Placed(f) == f.op \notin {"close", "resolve"}
NodeOf(f) == [t |-> f.node, at |-> f.at]

Fits(f) ==
  /\ f.op = "declare" => f.node.k = "declaration"
  /\ f.op = "refer" => f.node.k = "name"
  /\ f.op = "enter" => f.node.k \in DomainKind
  /\ f.op = "arity" => f.node.k \in CallKind
  /\ f.op = "routine" => f.node.k \in RoutineKind
  /\ f.op = "body" => f.node.k \in Routines

Matched(w, N) == \A j \in DOMAIN w : Placed(w[j]) => NodeOf(w[j]) \in N /\ Fits(w[j])

(* No event is to be brought about twice.                                  *)
Disjoint(w, N) ==
  \A j, i \in DOMAIN w : \A e \in Events(N) : Pends(w[j], e) /\ Pends(w[i], e) => i = j

(* When an item is reached, of the declarations around it those it sees    *)
(* are done, and no others.                                                *)
OrderedAt(w, N, j) ==
  \A s \in SitesIn(N) : Encloses(s.owner, w[j].at) =>
    IF L!Sees(w[j].at, s) THEN ~Pending(w, j + 1, s.place) ELSE Pending(w, j, s.place)
Ordered(w, N) == \A j \in DOMAIN w : Placed(w[j]) => OrderedAt(w, N, j)

CalleeOf(f) == NameAt(Append(f.at, 1), 1)
NameFirst(w) == \A j \in DOMAIN w : w[j].op = "arity" => ~Pending(w, j + 1, CalleeOf(w[j]))

Walk(w, N) == Matched(w, N) /\ Disjoint(w, N) /\ Ordered(w, N) /\ NameFirst(w)

(* The same of an item and the items below it, and of items and the items  *)
(* below them.                                                             *)
Heads(f, q, N) ==
  /\ Placed(f) => NodeOf(f) \in N /\ Fits(f)
  /\ \A e \in Events(N) : Pends(f, e) => ~Pending(q, 1, e)
  /\ Placed(f) => \A s \in SitesIn(N) : Encloses(s.owner, f.at) =>
       IF L!Sees(f.at, s) THEN ~Pending(q, 1, s.place) ELSE Pends(f, s.place) \/ Pending(q, 1, s.place)
  /\ f.op = "arity" => ~Pending(q, 1, CalleeOf(f))

Piece(p, q, N) ==
  /\ Matched(p, N) /\ Disjoint(p, N)
  /\ \A a \in DOMAIN p : \A e \in Events(N) : Pends(p[a], e) => ~Pending(q, 1, e)
  /\ \A a \in DOMAIN p : Placed(p[a]) => \A s \in SitesIn(N) : Encloses(s.owner, p[a].at) =>
       IF L!Sees(p[a].at, s) THEN ~Pending(p, a + 1, s.place) /\ ~Pending(q, 1, s.place)
       ELSE Pending(p, a, s.place) \/ Pending(q, 1, s.place)
  /\ \A a \in DOMAIN p : p[a].op = "arity" =>
       ~Pending(p, a + 1, CalleeOf(p[a])) /\ ~Pending(q, 1, CalleeOf(p[a]))

LEMMA TailOf ==
  ASSUME NEW w \in Stacks, w # <<>>
  PROVE  /\ Tail(w) \in Stacks /\ Len(w) \in Nat /\ Len(w) >= 1
         /\ DOMAIN w = 1 .. Len(w) /\ DOMAIN Tail(w) = 1 .. Len(w) - 1
         /\ \A i \in 1 .. Len(w) - 1 : Tail(w)[i] = w[i + 1]
         /\ 1 \in DOMAIN w
  BY DEF Stacks

LEMMA PendingTail ==
  ASSUME NEW w \in Stacks, w # <<>>, NEW j \in Nat, j >= 1, NEW e
  PROVE  /\ Pending(Tail(w), j, e) <=> Pending(w, j + 1, e)
         /\ Pending(w, 1, e) <=> Pends(w[1], e) \/ Pending(Tail(w), 1, e)
<1> DEFINE q == Tail(w)
<1>1. /\ Len(w) \in Nat /\ DOMAIN w = 1 .. Len(w) /\ DOMAIN q = 1 .. Len(w) - 1 /\ 1 \in DOMAIN w
      /\ \A i \in 1 .. Len(w) - 1 : q[i] = w[i + 1]
  BY TailOf
<1> HIDE DEF q
<1>2. ASSUME NEW h \in Nat, h >= 1, Pending(q, h, e) PROVE Pending(w, h + 1, e)
  <2>1. PICK i \in DOMAIN q : i >= h /\ Pends(q[i], e)
    BY <1>2 DEF Pending
  <2>2. i + 1 \in DOMAIN w /\ i + 1 >= h + 1 /\ Pends(w[i + 1], e)
    BY <1>1, <2>1
  <2> QED
    BY <2>2 DEF Pending
<1>3. ASSUME NEW h \in Nat, h >= 1, Pending(w, h + 1, e) PROVE Pending(q, h, e)
  <2>1. PICK i \in DOMAIN w : i >= h + 1 /\ Pends(w[i], e)
    BY <1>3 DEF Pending
  <2>2. i - 1 \in DOMAIN q /\ i - 1 >= h /\ q[i - 1] = w[i]
    <3>1. i - 1 \in 1 .. Len(w) - 1 /\ (i - 1) + 1 = i
      BY <1>1, <1>3, <2>1
    <3> QED
      BY <1>1, <1>3, <2>1, <3>1
  <2> QED
    BY <2>1, <2>2 DEF Pending
<1>4. Pending(w, 1, e) => Pends(w[1], e) \/ Pending(q, 1, e)
  <2> SUFFICES ASSUME NEW i \in DOMAIN w, Pends(w[i], e), i # 1 PROVE Pending(q, 1, e)
    BY DEF Pending
  <2>1. i >= 1 + 1
    BY <1>1
  <2>2. Pending(w, 1 + 1, e)
    BY <2>1 DEF Pending
  <2> QED
    BY <1>3, <2>2
<1>5. Pends(w[1], e) \/ Pending(q, 1, e) => Pending(w, 1, e)
  <2>1. Pends(w[1], e) => Pending(w, 1, e)
    BY <1>1 DEF Pending
  <2>2. Pending(w, 1 + 1, e) => Pending(w, 1, e)
    BY <1>1 DEF Pending
  <2> QED
    BY <1>2, <2>1, <2>2
<1> QED
  BY <1>2, <1>3, <1>4, <1>5 DEF q

LEMMA PendingConcat ==
  ASSUME NEW p \in Stacks, NEW q \in Stacks, NEW e
  PROVE  /\ \A j \in 1 .. Len(p) + 1 :
              Pending(p \o q, j, e) <=> Pending(p, j, e) \/ Pending(q, 1, e)
         /\ \A j \in 1 .. Len(q) + 1 : Pending(p \o q, Len(p) + j, e) <=> Pending(q, j, e)
<1> DEFINE v == p \o q
           n == Len(p)
<1>1. /\ n \in Nat /\ Len(q) \in Nat /\ DOMAIN p = 1 .. n /\ DOMAIN q = 1 .. Len(q)
      /\ DOMAIN v = 1 .. n + Len(q)
      /\ \A i \in 1 .. n : v[i] = p[i]
      /\ \A i \in 1 .. Len(q) : v[n + i] = q[i]
  BY DEF Stacks
<1> HIDE DEF v, n
<1>2. ASSUME NEW i \in DOMAIN v
      PROVE  i \in DOMAIN p \/ (i - n \in DOMAIN q /\ v[i] = q[i - n] /\ i - n >= 1)
  <2>1. CASE i <= n
    BY <1>1, <2>1
  <2>2. CASE ~(i <= n)
    <3>1. i - n \in 1 .. Len(q) /\ n + (i - n) = i
      BY <1>1, <2>2
    <3> QED
      BY <1>1, <3>1
  <2> QED
    BY <2>1, <2>2
<1>3. ASSUME NEW j \in 1 .. n + 1
      PROVE  Pending(v, j, e) <=> Pending(p, j, e) \/ Pending(q, 1, e)
  <2>1. ASSUME NEW i \in DOMAIN v, i >= j, Pends(v[i], e)
        PROVE  Pending(p, j, e) \/ Pending(q, 1, e)
    BY <1>1, <1>2, <2>1 DEF Pending
  <2>2. ASSUME NEW i \in DOMAIN p, i >= j, Pends(p[i], e) PROVE Pending(v, j, e)
    <3>1. i \in DOMAIN v /\ v[i] = p[i]
      BY <1>1
    <3> QED
      BY <2>2, <3>1 DEF Pending
  <2>3. ASSUME NEW i \in DOMAIN q, Pends(q[i], e) PROVE Pending(v, j, e)
    <3>1. n + i \in DOMAIN v /\ v[n + i] = q[i] /\ n + i >= j
      BY <1>1
    <3> QED
      BY <2>3, <3>1 DEF Pending
  <2> QED
    BY <2>1, <2>2, <2>3 DEF Pending
<1>4. ASSUME NEW j \in 1 .. Len(q) + 1
      PROVE  Pending(v, n + j, e) <=> Pending(q, j, e)
  <2>1. ASSUME NEW i \in DOMAIN v, i >= n + j, Pends(v[i], e)
        PROVE  Pending(q, j, e)
    <3>1. i - n \in DOMAIN q /\ v[i] = q[i - n] /\ i - n >= j
      BY <1>1, <1>2, <2>1
    <3> QED
      BY <2>1, <3>1 DEF Pending
  <2>2. ASSUME NEW i \in DOMAIN q, i >= j, Pends(q[i], e) PROVE Pending(v, n + j, e)
    <3>1. n + i \in DOMAIN v /\ v[n + i] = q[i] /\ n + i >= n + j
      BY <1>1, <2>2
    <3> QED
      BY <2>2, <3>1 DEF Pending
  <2> QED
    BY <2>1, <2>2 DEF Pending
<1> QED
  BY <1>3, <1>4 DEF v, n

LEMMA WalkSplit ==
  ASSUME NEW w \in Stacks, w # <<>>, NEW N, Walk(w, N)
  PROVE  Walk(Tail(w), N) /\ Heads(w[1], Tail(w), N)
<1> DEFINE q == Tail(w)
<1>1. /\ q \in Stacks /\ Len(w) \in Nat /\ DOMAIN w = 1 .. Len(w) /\ DOMAIN q = 1 .. Len(w) - 1
      /\ 1 \in DOMAIN w
      /\ \A i \in 1 .. Len(w) - 1 : q[i] = w[i + 1]
  BY TailOf
<1>2. \A e : \A j \in Nat : j >= 1 => (Pending(q, j, e) <=> Pending(w, j + 1, e))
  BY PendingTail
<1>3. \A e : Pending(w, 1, e) <=> Pends(w[1], e) \/ Pending(q, 1, e)
  BY PendingTail
<1> HIDE DEF q
<1>4. \A i \in DOMAIN q : i + 1 \in DOMAIN w /\ q[i] = w[i + 1] /\ i \in Nat /\ i >= 1 /\ i + 1 \in Nat
  BY <1>1
<1>5. Matched(q, N)
  BY <1>4 DEF Walk, Matched
<1>6. Disjoint(q, N)
  <2> SUFFICES ASSUME NEW j \in DOMAIN q, NEW i \in DOMAIN q, NEW e \in Events(N),
                      Pends(q[j], e), Pends(q[i], e)
               PROVE  i = j
    BY DEF Disjoint
  <2>1. i + 1 = j + 1
    BY <1>4 DEF Walk, Disjoint
  <2> QED
    BY <1>4, <2>1
<1>7. Ordered(q, N)
  <2> SUFFICES ASSUME NEW j \in DOMAIN q, Placed(q[j]), NEW s \in SitesIn(N), Encloses(s.owner, q[j].at)
               PROVE  IF L!Sees(q[j].at, s) THEN ~Pending(q, j + 1, s.place)
                      ELSE Pending(q, j, s.place)
    BY DEF Ordered, OrderedAt
  <2>1. IF L!Sees(w[j + 1].at, s) THEN ~Pending(w, (j + 1) + 1, s.place)
        ELSE Pending(w, j + 1, s.place)
    BY <1>4 DEF Walk, Ordered, OrderedAt
  <2>2. /\ Pending(q, j, s.place) <=> Pending(w, j + 1, s.place)
        /\ Pending(q, j + 1, s.place) <=> Pending(w, (j + 1) + 1, s.place)
    BY <1>2, <1>4
  <2> QED
    BY <1>4, <2>1, <2>2
<1>8. NameFirst(q)
  <2> SUFFICES ASSUME NEW j \in DOMAIN q, q[j].op = "arity"
               PROVE  ~Pending(q, j + 1, CalleeOf(q[j]))
    BY DEF NameFirst
  <2>1. ~Pending(w, (j + 1) + 1, CalleeOf(w[j + 1]))
    BY <1>4 DEF Walk, NameFirst
  <2> QED
    BY <1>2, <1>4, <2>1
<1>9. Heads(w[1], q, N)
  <2>1. \A e : Pending(w, 1 + 1, e) <=> Pending(q, 1, e)
    BY <1>2
  <2>2. Placed(w[1]) => NodeOf(w[1]) \in N /\ Fits(w[1])
    BY <1>1 DEF Walk, Matched
  <2>3. ASSUME NEW e \in Events(N), Pends(w[1], e), Pending(q, 1, e) PROVE FALSE
    <3>1. PICK i \in DOMAIN w : i >= 2 /\ Pends(w[i], e)
      BY <2>1, <2>3 DEF Pending
    <3>2. i = 1
      BY <1>1, <2>3, <3>1 DEF Walk, Disjoint
    <3> QED
      BY <3>1, <3>2
  <2>4. ASSUME Placed(w[1]), NEW s \in SitesIn(N), Encloses(s.owner, w[1].at)
        PROVE  IF L!Sees(w[1].at, s) THEN ~Pending(q, 1, s.place)
               ELSE Pends(w[1], s.place) \/ Pending(q, 1, s.place)
    <3>1. IF L!Sees(w[1].at, s) THEN ~Pending(w, 1 + 1, s.place) ELSE Pending(w, 1, s.place)
      BY <1>1, <2>4 DEF Walk, Ordered, OrderedAt
    <3> QED
      BY <1>3, <2>1, <3>1
  <2>5. w[1].op = "arity" => ~Pending(q, 1, CalleeOf(w[1]))
    BY <1>1, <2>1 DEF Walk, NameFirst
  <2> QED
    BY <2>2, <2>3, <2>4, <2>5 DEF Heads
<1> QED
  BY <1>5, <1>6, <1>7, <1>8, <1>9 DEF Walk, q

LEMMA WalkJoin ==
  ASSUME NEW p \in Stacks, NEW q \in Stacks, NEW N, Walk(q, N), Piece(p, q, N)
  PROVE  Walk(p \o q, N)
<1> DEFINE v == p \o q
           n == Len(p)
<1>1. /\ n \in Nat /\ Len(q) \in Nat /\ DOMAIN p = 1 .. n /\ DOMAIN q = 1 .. Len(q)
      /\ DOMAIN v = 1 .. n + Len(q)
      /\ \A i \in 1 .. n : v[i] = p[i]
      /\ \A i \in 1 .. Len(q) : v[n + i] = q[i]
  BY DEF Stacks
<1>2. \A e : \A j \in 1 .. n + 1 : Pending(v, j, e) <=> Pending(p, j, e) \/ Pending(q, 1, e)
  BY PendingConcat
<1>3. \A e : \A j \in 1 .. Len(q) + 1 : Pending(v, n + j, e) <=> Pending(q, j, e)
  BY PendingConcat
<1> HIDE DEF v, n
<1>4. ASSUME NEW i \in DOMAIN v
      PROVE  \/ i \in DOMAIN p /\ v[i] = p[i] /\ i + 1 \in 1 .. n + 1
             \/ \E k \in DOMAIN q : i = n + k /\ v[i] = q[k] /\ i + 1 = n + (k + 1)
                                    /\ k + 1 \in 1 .. Len(q) + 1
  <2>1. CASE i <= n
    BY <1>1, <2>1
  <2>2. CASE ~(i <= n)
    <3>1. i - n \in 1 .. Len(q) /\ n + (i - n) = i /\ i + 1 = n + ((i - n) + 1)
      BY <1>1, <2>2
    <3>2. i - n \in DOMAIN q /\ v[i] = q[i - n] /\ (i - n) + 1 \in 1 .. Len(q) + 1
      BY <1>1, <3>1
    <3> QED
      BY <3>1, <3>2
  <2> QED
    BY <2>1, <2>2
<1>5. Matched(v, N)
  <2> SUFFICES ASSUME NEW i \in DOMAIN v, Placed(v[i]) PROVE NodeOf(v[i]) \in N /\ Fits(v[i])
    BY DEF Matched
  <2> QED
    BY <1>4 DEF Walk, Piece, Matched
<1>6. Disjoint(v, N)
  <2> SUFFICES ASSUME NEW j \in DOMAIN v, NEW i \in DOMAIN v, NEW e \in Events(N),
                      Pends(v[j], e), Pends(v[i], e)
               PROVE  i = j
    BY DEF Disjoint
  <2>0. \A a \in DOMAIN p, k \in DOMAIN q : ~(Pends(p[a], e) /\ Pends(q[k], e))
    <3> SUFFICES ASSUME NEW a \in DOMAIN p, NEW k \in DOMAIN q, Pends(p[a], e), Pends(q[k], e)
                 PROVE  FALSE
      OBVIOUS
    <3>1. Pending(q, 1, e)
      BY <1>1 DEF Pending
    <3> QED
      BY <3>1 DEF Piece
  <2>1. CASE i \in DOMAIN p /\ v[i] = p[i]
    <3>1. j \in DOMAIN p /\ v[j] = p[j]
      BY <1>4, <2>0, <2>1
    <3> QED
      BY <2>1, <3>1 DEF Piece, Disjoint
  <2>2. ASSUME NEW k \in DOMAIN q, i = n + k, v[i] = q[k] PROVE i = j
    <3>1. PICK h \in DOMAIN q : j = n + h /\ v[j] = q[h]
      BY <1>4, <2>0, <2>2
    <3>2. h = k
      BY <2>2, <3>1 DEF Walk, Disjoint
    <3> QED
      BY <2>2, <3>1, <3>2
  <2> QED
    BY <1>4, <2>1, <2>2
<1>7. Ordered(v, N)
  <2> SUFFICES ASSUME NEW i \in DOMAIN v, Placed(v[i]), NEW s \in SitesIn(N), Encloses(s.owner, v[i].at)
               PROVE  IF L!Sees(v[i].at, s) THEN ~Pending(v, i + 1, s.place)
                      ELSE Pending(v, i, s.place)
    BY DEF Ordered, OrderedAt
  <2>1. CASE i \in DOMAIN p /\ v[i] = p[i] /\ i + 1 \in 1 .. n + 1
    <3>1. /\ Pending(v, i, s.place) <=> Pending(p, i, s.place) \/ Pending(q, 1, s.place)
          /\ Pending(v, i + 1, s.place) <=> Pending(p, i + 1, s.place) \/ Pending(q, 1, s.place)
      BY <1>1, <1>2, <2>1
    <3> QED
      BY <2>1, <3>1 DEF Piece
  <2>2. ASSUME NEW k \in DOMAIN q, i = n + k, v[i] = q[k], i + 1 = n + (k + 1), k + 1 \in 1 .. Len(q) + 1
        PROVE  IF L!Sees(v[i].at, s) THEN ~Pending(v, i + 1, s.place)
               ELSE Pending(v, i, s.place)
    <3>1. /\ Pending(v, i, s.place) <=> Pending(q, k, s.place)
          /\ Pending(v, i + 1, s.place) <=> Pending(q, k + 1, s.place)
      BY <1>1, <1>3, <2>2
    <3>2. IF L!Sees(q[k].at, s) THEN ~Pending(q, k + 1, s.place) ELSE Pending(q, k, s.place)
      BY <2>2 DEF Walk, Ordered, OrderedAt
    <3> QED
      BY <2>2, <3>1, <3>2
  <2> QED
    BY <1>4, <2>1, <2>2
<1>8. NameFirst(v)
  <2> SUFFICES ASSUME NEW i \in DOMAIN v, v[i].op = "arity"
               PROVE  ~Pending(v, i + 1, CalleeOf(v[i]))
    BY DEF NameFirst
  <2>1. CASE i \in DOMAIN p /\ v[i] = p[i] /\ i + 1 \in 1 .. n + 1
    BY <1>2, <2>1 DEF Piece
  <2>2. ASSUME NEW k \in DOMAIN q, v[i] = q[k], i + 1 = n + (k + 1), k + 1 \in 1 .. Len(q) + 1
        PROVE  ~Pending(v, i + 1, CalleeOf(v[i]))
    <3>1. ~Pending(q, k + 1, CalleeOf(q[k]))
      BY <2>2 DEF Walk, NameFirst
    <3> QED
      BY <1>3, <2>2, <3>1
  <2> QED
    BY <1>4, <2>1, <2>2
<1> QED
  BY <1>5, <1>6, <1>7, <1>8 DEF Walk, v
-----------------------------------------------------------------------------
(* The events below a node are those of its own names and those below its  *)
(* children, and so an item of the node has the events of some branches.   *)
LEMMA EventIs ==
  ASSUME NEW N, Grown(N), NEW e \in Events(N)
  PROVE  /\ e \in Seq(Int)
         /\ \E m \in N : \E i \in Nat : e = NameAt(m.at, i) /\ m.at \in Seq(Int)
<1>1. PICK m \in N : e \in Names(m.at, Nat)
  BY DEF Events
<1>2. PICK i \in Nat : e = NameAt(m.at, i)
  BY <1>1 DEF Names
<1>3. m.at \in Seq(Int)
  BY NodeIs
<1> QED
  BY <1>2, <1>3, NamePlace

LEMMA OwnEvent ==
  ASSUME NEW N, Grown(N), NEW n \in N, NEW i \in Nat
  PROVE  /\ NameAt(n.at, i) \in Events(N)
         /\ Encloses(n.at, NameAt(n.at, i)) /\ NameAt(n.at, i)[Len(n.at) + 1] = -i
<1>1. n.at \in Seq(Int)
  BY NodeIs
<1>2. NameAt(n.at, i) \in Events(N)
  <2>1. NameAt(n.at, i) \in Names(n.at, Nat)
    BY DEF Names
  <2> QED
    BY <2>1 DEF Events
<1>3. /\ NameAt(n.at, i)[Len(n.at) + 1] = -i /\ Len(NameAt(n.at, i)) = Len(n.at) + 1
      /\ Len(n.at) \in Nat /\ Leads(n.at, NameAt(n.at, i))
  BY <1>1, NamePlace
<1>4. Encloses(n.at, NameAt(n.at, i))
  BY <1>3 DEF Encloses
<1> QED
  BY <1>2, <1>3, <1>4

LEMMA OwnBranch ==
  ASSUME NEW N, Grown(N), NEW n \in N, NEW e \in Events(N), NEW i \in Nat
  PROVE  e = NameAt(n.at, i) <=> Encloses(n.at, e) /\ e[Len(n.at) + 1] = -i
<1>1. ASSUME e = NameAt(n.at, i) PROVE Encloses(n.at, e) /\ e[Len(n.at) + 1] = -i
  BY <1>1, OwnEvent
<1>2. ASSUME Encloses(n.at, e), e[Len(n.at) + 1] = -i PROVE e = NameAt(n.at, i)
  <2>1a. PICK m \in N : \E j \in Nat : e = NameAt(m.at, j) /\ m.at \in Seq(Int)
    BY EventIs
  <2>1. PICK j \in Nat : e = NameAt(m.at, j) /\ m.at \in Seq(Int)
    BY <2>1a
  <2>2. n.at \in Seq(Int) /\ \A k \in 1 .. Len(n.at) : n.at[k] > 0
    BY NodeIs
  <2>3. \A k \in 1 .. Len(m.at) : m.at[k] > 0
    BY NodeIs
  <2>4. Leads(n.at, m.at)
    BY <1>2, <2>1, <2>2, LeadsToName DEF Encloses
  <2>5. Len(n.at) = Len(m.at)
    <3>1. Len(n.at) <= Len(m.at) /\ Len(n.at) \in Nat /\ Len(m.at) \in Nat
      BY <2>1, <2>2, <2>4 DEF Leads
    <3>2. ASSUME Len(n.at) < Len(m.at) PROVE FALSE
      <4>1. Len(n.at) + 1 \in 1 .. Len(m.at)
        BY <3>1, <3>2
      <4>2. e[Len(n.at) + 1] = m.at[Len(n.at) + 1]
        BY <2>1, <4>1, NamePlace
      <4> QED
        BY <1>2, <2>3, <4>1, <4>2
    <3> QED
      BY <3>1, <3>2
  <2>6. n.at = m.at
    BY <2>1, <2>2, <2>4, <2>5, LeadsEqual
  <2>7. e[Len(m.at) + 1] = -j
    BY <2>1, NamePlace
  <2>8. i = j
    BY <1>2, <2>5, <2>7
  <2> QED
    BY <2>1, <2>6, <2>8
<1> QED
  BY <1>1, <1>2

LEMMA BranchOf ==
  ASSUME NEW N, Grown(N), NEW n \in N, NEW e \in Events(N), Encloses(n.at, e)
  PROVE  LET b == e[Len(n.at) + 1]
         IN b \in Int /\ (b > 0 => b \in DOMAIN n.t.kids)
<1> DEFINE b == e[Len(n.at) + 1]
<1>1a. PICK m \in N : \E j \in Nat : e = NameAt(m.at, j) /\ m.at \in Seq(Int)
  BY EventIs
<1>1. PICK j \in Nat : e = NameAt(m.at, j) /\ m.at \in Seq(Int)
  BY <1>1a
<1>2. /\ n.at \in Seq(Int) /\ \A k \in 1 .. Len(n.at) : n.at[k] > 0
      /\ e \in Seq(Int) /\ Len(e) = Len(m.at) + 1 /\ e[Len(m.at) + 1] = -j
      /\ \A k \in 1 .. Len(m.at) : e[k] = m.at[k]
  BY <1>1, NodeIs, NamePlace
<1>3. Leads(n.at, m.at)
  BY <1>1, <1>2, LeadsToName DEF Encloses
<1>4. Len(n.at) <= Len(m.at) /\ Len(n.at) \in Nat /\ Len(m.at) \in Nat
  BY <1>1, <1>2, <1>3 DEF Leads
<1>5. CASE Len(n.at) < Len(m.at)
  <2>1. Len(n.at) + 1 \in 1 .. Len(m.at)
    BY <1>4, <1>5
  <2>2. b = m.at[Len(n.at) + 1]
    BY <1>2, <2>1
  <2>3. m.at[Len(n.at) + 1] \in DOMAIN n.t.kids
    BY <1>3, <1>5 DEF Grown, OnTheWay
  <2>4. b \in Int
    BY <1>1, <2>1, <2>2
  <2> QED
    BY <2>2, <2>3, <2>4
<1>6. CASE Len(n.at) = Len(m.at)
  <2>1. b = -j
    BY <1>2, <1>6
  <2> QED
    BY <2>1
<1> QED
  BY <1>4, <1>5, <1>6

Branches(op, t) ==
  IF op = "visit" THEN Int
  ELSE IF op \in {"declare", "refer", "routine"} THEN {-1}
  ELSE IF op = "arity" THEN {0}
  ELSE IF op = "enter" THEN {i \in Int : i <= 0} \union {Len(t.kids)}
  ELSE IF op = "body" THEN {i \in Int : i <= 0 /\ i # -1} \union {1}
  ELSE {}

(* Item f has the events below node n in the branches B.                   *)
Deals(N, f, n, B) ==
  \A e \in Events(N) : Pends(f, e) <=> Encloses(n.at, e) /\ e[Len(n.at) + 1] \in B

LEMMA KidDeals ==
  ASSUME NEW N, Grown(N), NEW n \in N, NEW k \in DOMAIN n.t.kids
  PROVE  Deals(N, Kid(n.t, n.at, k), n, {k})
<1>1. n.at \in Seq(Int) /\ n.t \in Tree
  BY NodeIs
<1>2. k \in Int
  <2>1. n.t.kids \in Seq(Tree)
    BY <1>1, NodeKind
  <2> QED
    BY <2>1
<1>3. Kid(n.t, n.at, k).op = "visit" /\ Kid(n.t, n.at, k).at = Append(n.at, k)
  BY DEF Kid, Visit, Item
<1> SUFFICES ASSUME NEW e \in Events(N)
             PROVE  Leads(Append(n.at, k), e) <=> Encloses(n.at, e) /\ e[Len(n.at) + 1] \in {k}
  BY <1>3 DEF Deals, Pends
<1>4. e \in Seq(Int)
  BY EventIs
<1> QED
  BY <1>1, <1>2, <1>4, LeadsAppend DEF Encloses

LEMMA FrameDeals ==
  ASSUME NEW N, Grown(N), NEW n \in N, NEW f, f.node = n.t, f.at = n.at, f.op \in Ops,
         f.op = "enter" => n.t.kids # <<>>
  PROVE  Deals(N, f, n, Branches(f.op, n.t))
<1>1. n.at \in Seq(Int) /\ n.t \in Tree /\ \A k \in 1 .. Len(n.at) : n.at[k] > 0
  BY NodeIs
<1> SUFFICES ASSUME NEW e \in Events(N)
             PROVE  Pends(f, e) <=> Encloses(n.at, e) /\ e[Len(n.at) + 1] \in Branches(f.op, n.t)
  BY DEF Deals
<1>2. e \in Seq(Int)
  BY EventIs
<1>3. \A i \in Nat : e = NameAt(n.at, i) <=> Encloses(n.at, e) /\ e[Len(n.at) + 1] = -i
  BY OwnBranch
<1>4. Encloses(n.at, e) => e[Len(n.at) + 1] \in Int
  BY BranchOf
<1>5. Leads(n.at, e) => Encloses(n.at, e)
  <2>1. PICK m \in N : \E i \in Nat : e = NameAt(m.at, i) /\ m.at \in Seq(Int)
    BY EventIs
  <2>2. PICK i \in Nat : e = NameAt(m.at, i) /\ m.at \in Seq(Int)
    BY <2>1
  <2>3. ASSUME Leads(n.at, e) PROVE Leads(n.at, m.at) /\ Len(e) = Len(m.at) + 1 /\ Len(m.at) \in Nat
    BY <1>1, <2>2, <2>3, LeadsToName, NamePlace
  <2> QED
    BY <1>1, <2>3 DEF Leads, Encloses
<1>6. \A k \in Int : Leads(Append(n.at, k), e) <=> Encloses(n.at, e) /\ e[Len(n.at) + 1] = k
  BY <1>1, <1>2, LeadsAppend DEF Encloses
<1>7. CASE f.op = "visit"
  BY <1>4, <1>5, <1>7 DEF Pends, Branches, Encloses
<1>8. CASE f.op \in {"declare", "refer", "routine"}
  <2>1. e = NameAt(n.at, 1) <=> Encloses(n.at, e) /\ e[Len(n.at) + 1] = -1
    BY <1>3
  <2> QED
    BY <1>8, <2>1 DEF Pends, Branches
<1>9. CASE f.op = "arity"
  <2>1. e = NameAt(n.at, 0) <=> Encloses(n.at, e) /\ e[Len(n.at) + 1] = 0
    BY <1>3
  <2> QED
    BY <1>9, <2>1 DEF Pends, Branches
<1> DEFINE b == e[Len(n.at) + 1]
<1>10. \A I \in SUBSET Nat : e \in Names(n.at, I) <=> Encloses(n.at, e) /\ -b \in I
  <2> SUFFICES ASSUME NEW I \in SUBSET Nat
               PROVE  e \in Names(n.at, I) <=> Encloses(n.at, e) /\ -b \in I
    OBVIOUS
  <2>1. ASSUME e \in Names(n.at, I) PROVE Encloses(n.at, e) /\ -b \in I
    <3>1. PICK i \in I : e = NameAt(n.at, i)
      BY <2>1 DEF Names
    <3>2. Encloses(n.at, e) /\ b = -i /\ i \in Nat
      BY <1>3, <3>1
    <3>3. -b = i
      BY <3>2
    <3> QED
      BY <3>1, <3>2, <3>3
  <2>2. ASSUME Encloses(n.at, e), -b \in I PROVE e \in Names(n.at, I)
    <3>1. -b \in Nat /\ b = -(-b)
      BY <1>4, <2>2
    <3>2. e = NameAt(n.at, -b)
      BY <1>3, <2>2, <3>1
    <3> QED
      BY <2>2, <3>2 DEF Names
  <2> QED
    BY <2>1, <2>2
<1>11. CASE f.op = "enter"
  <2>1. Len(n.t.kids) \in Int
    <3>1. n.t.kids \in Seq(Tree)
      BY <1>1, NodeKind
    <3> QED
      BY <3>1
  <2>2. e \in Names(n.at, Nat) <=> Encloses(n.at, e) /\ -b \in Nat
    BY <1>10
  <2>3. Encloses(n.at, e) => (-b \in Nat <=> b \in {i \in Int : i <= 0})
    BY <1>4
  <2>4. Leads(Append(n.at, Len(n.t.kids)), e) <=> Encloses(n.at, e) /\ b = Len(n.t.kids)
    BY <1>6, <2>1
  <2>5. Pends(f, e) <=> e \in Names(n.at, Nat) \/ Leads(Append(n.at, Len(n.t.kids)), e)
    BY <1>11 DEF Pends
  <2>6. Branches(f.op, n.t) = {i \in Int : i <= 0} \union {Len(n.t.kids)}
    BY <1>11 DEF Branches
  <2> QED
    BY <2>2, <2>3, <2>4, <2>5, <2>6
<1>12. CASE f.op = "body"
  <2>2. e \in Names(n.at, Nat \ {1}) <=> Encloses(n.at, e) /\ -b \in Nat \ {1}
    BY <1>10
  <2>3. Encloses(n.at, e) => (-b \in Nat \ {1} <=> b \in {i \in Int : i <= 0 /\ i # -1})
    BY <1>4
  <2>4. Leads(Append(n.at, 1), e) <=> Encloses(n.at, e) /\ b = 1
    BY <1>6
  <2>5. Pends(f, e) <=> e \in Names(n.at, Nat \ {1}) \/ Leads(Append(n.at, 1), e)
    BY <1>12 DEF Pends
  <2>6. Branches(f.op, n.t) = {i \in Int : i <= 0 /\ i # -1} \union {1}
    BY <1>12 DEF Branches
  <2> QED
    BY <2>2, <2>3, <2>4, <2>5, <2>6
<1>13. CASE f.op \in {"close", "resolve"}
  BY <1>13 DEF Pends, Branches
<1> QED
  BY <1>7, <1>8, <1>9, <1>11, <1>12, <1>13 DEF Ops

LEMMA NothingDeals ==
  ASSUME NEW N, NEW f, ~Placed(f), NEW n
  PROVE  Deals(N, f, n, {})
  BY DEF Deals, Placed, Pends

(* The sites of a node's scope: its own names, or those of its items.      *)
LEMMA SitesOfScope ==
  ASSUME NEW N, Whole(N), NEW n \in N, NEW s \in SitesIn(N), s.owner = n.at
  PROVE  LET b == s.place[Len(n.at) + 1] IN
         /\ s.place \in Events(N) /\ Encloses(n.at, s.place) /\ b \in Int
         /\ \/ /\ n.t.k \in DomainKind \union Routines /\ s.from = Base(n.t)
               /\ b < 0 /\ (n.t.k \in Routines => b # -1)
            \/ /\ n.t.k \in {"program", "block"} /\ b \in DOMAIN n.t.kids
               /\ s.from \in {b, b + 1}
<1>0. Grown(N)
  BY DEF Whole
<1>1a. PICK m \in N : \E i \in Naming(m.t) : s = SiteOf(m, i)
  BY <1>0, SiteIs
<1>1. PICK i \in Naming(m.t) : s = SiteOf(m, i)
  BY <1>1a
<1>2. s.place = NameAt(m.at, i) /\ i \in Nat /\ i \in 1 .. Len(m.t.xs)
  BY <1>0, <1>1, SiteFields
<1>3. m.at \in Seq(Int) /\ n.at \in Seq(Int)
  BY <1>0, NodeIs
<1>4. s.place \in Events(N)
  BY <1>0, <1>2, OwnEvent
<1>5. CASE ~Outer(m.t, i)
  <2>1. s.owner = m.at /\ s.from = Base(m.t) /\ m.t.k \in DomainKind \union Routines
    BY <1>0, <1>1, <1>5, SiteFields
  <2>2. m = n
    BY <1>0, <2>1 DEF Grown, OnePath
  <2>3. Encloses(n.at, s.place) /\ s.place[Len(n.at) + 1] = -i
    BY <1>0, <1>2, <2>2, OwnEvent
  <2>4. m.t.k \in Routines => i # 1
    BY <1>5 DEF Outer, RoutineKind
  <2>5. -i \in Int /\ -i < 0 /\ (i # 1 => -i # -1)
    BY <1>2
  <2> QED
    BY <1>4, <2>1, <2>2, <2>3, <2>4, <2>5
<1>6. CASE Outer(m.t, i)
  <2>1a. PICK p \in N : \E j \in DOMAIN p.t.kids :
           /\ m.at = Append(p.at, j) /\ j \in Int
           /\ s.owner = p.at
           /\ s.from = IF m.t.k = "declaration" THEN j + 1 ELSE j
           /\ p.t.k \in {"program", "block"}
    BY <1>1, <1>6, OuterSite
  <2>1. PICK j \in DOMAIN p.t.kids :
           /\ m.at = Append(p.at, j) /\ j \in Int
           /\ s.owner = p.at
           /\ s.from = IF m.t.k = "declaration" THEN j + 1 ELSE j
           /\ p.t.k \in {"program", "block"}
    BY <2>1a
  <2>2. p = n
    BY <1>0, <2>1 DEF Grown, OnePath
  <2>3. Leads(m.at, s.place) /\ s.place \in Seq(Int)
    BY <1>2, <1>3, NamePlace
  <2>4. Leads(n.at, s.place) /\ Len(n.at) < Len(s.place) /\ s.place[Len(n.at) + 1] = j
    BY <1>3, <2>1, <2>2, <2>3, LeadsAppend
  <2> QED
    BY <1>4, <2>1, <2>2, <2>4 DEF Encloses
<1> QED
  BY <1>5, <1>6

(* The sites pending in an item of node n that lie around n: at most its   *)
(* own name's.                                                             *)
LEMMA SiteAround ==
  ASSUME NEW N, Whole(N), NEW n \in N, NEW s \in SitesIn(N),
         Encloses(s.owner, n.at), Encloses(n.at, s.place)
  PROVE  /\ s = SiteOf(n, 1) /\ n.t.k \in {"declaration"} \union RoutineKind
         /\ s.place = NameAt(n.at, 1)
         /\ L!Sees(n.at, s) <=> n.t.k # "declaration"
<1>0. Grown(N)
  BY DEF Whole
<1>1a. PICK m \in N : \E i \in Naming(m.t) : s = SiteOf(m, i)
  BY <1>0, SiteIs
<1>1. PICK i \in Naming(m.t) : s = SiteOf(m, i)
  BY <1>1a
<1>2. s.place = NameAt(m.at, i) /\ i \in Nat /\ i \in 1 .. Len(m.t.xs)
  BY <1>0, <1>1, SiteFields
<1>3. /\ m.at \in Seq(Int) /\ n.at \in Seq(Int) /\ \A k \in 1 .. Len(n.at) : n.at[k] > 0
      /\ Len(m.at) \in Nat /\ Len(n.at) \in Nat
  BY <1>0, NodeIs
<1>4. Leads(n.at, m.at) /\ Len(n.at) <= Len(m.at)
  <2>1. Leads(n.at, NameAt(m.at, i))
    BY <1>2 DEF Encloses
  <2>2. Leads(n.at, m.at)
    BY <1>2, <1>3, <2>1, LeadsToName
  <2> QED
    BY <2>2 DEF Leads
<1>5. Len(s.owner) < Len(n.at)
  BY DEF Encloses
<1>6. Outer(m.t, i)
  <2> SUFFICES ASSUME ~Outer(m.t, i) PROVE FALSE
    OBVIOUS
  <2>1. s.owner = m.at
    BY <1>0, <1>1, SiteFields
  <2> QED
    BY <1>3, <1>4, <1>5, <2>1
<1>7a. PICK p \in N : \E j \in DOMAIN p.t.kids :
         /\ m.at = Append(p.at, j) /\ j \in Int
         /\ s.owner = p.at
         /\ s.from = IF m.t.k = "declaration" THEN j + 1 ELSE j
  BY <1>1, <1>6, OuterSite
<1>7. PICK j \in DOMAIN p.t.kids :
         /\ m.at = Append(p.at, j) /\ j \in Int
         /\ s.owner = p.at
         /\ s.from = IF m.t.k = "declaration" THEN j + 1 ELSE j
  BY <1>7a
<1>8. p.at \in Seq(Int) /\ Len(m.at) = Len(p.at) + 1 /\ Len(p.at) \in Nat /\ m.at[Len(p.at) + 1] = j
  BY <1>0, <1>7, NodeIs, Appended
<1>9. n.at = m.at
  <2>1. Len(m.at) <= Len(n.at)
    BY <1>3, <1>5, <1>7, <1>8
  <2> QED
    BY <1>3, <1>4, <2>1, LeadsEqual
<1>10. n = m /\ i = 1 /\ m.t.k \in {"declaration"} \union RoutineKind
  BY <1>0, <1>6, <1>9 DEF Grown, OnePath, Outer
<1>11. L!Sees(n.at, s) <=> j >= s.from
  <2>1. L!Sees(n.at, s) <=> Encloses(s.owner, n.at) /\ n.at[Len(s.owner) + 1] >= s.from
    BY <1>3, <1>7, <1>8, SeesIs
  <2> QED
    BY <1>7, <1>8, <1>9, <2>1
<1>12. j >= s.from <=> m.t.k # "declaration"
  BY <1>7
<1> QED
  BY <1>1, <1>2, <1>10, <1>11, <1>12
-----------------------------------------------------------------------------
(* A visitor replaces its item f at node n by the items p, which share     *)
(* among them branches of f's: p[a] gets R[a].  The order of the items is  *)
(* right if each child comes after the declarations it sees and before     *)
(* those it does not.                                                      *)
BranchAt(n, e) == e[Len(n.at) + 1]

KidOrder(N, f, n, p, R, a, k) ==
  \A s \in SitesIn(N) : s.owner = n.at =>
    /\ BranchAt(n, s.place) \in Branches(f.op, n.t)
    /\ IF k >= s.from THEN \A c \in DOMAIN p : c > a => BranchAt(n, s.place) \notin R[c]
       ELSE \E c \in DOMAIN p : c >= a /\ BranchAt(n, s.place) \in R[c]

IsKid(g, n, k) == g.node = n.t.kids[k] /\ g.at = Append(n.at, k)

Shares(N, f, n, p, R) ==
  /\ \A a \in DOMAIN p : Deals(N, p[a], n, R[a]) /\ R[a] \subseteq Branches(f.op, n.t)
  /\ \A a, c \in DOMAIN p : a # c => R[a] \intersect R[c] = {}
  /\ \A a \in DOMAIN p : Placed(p[a]) =>
       /\ Fits(p[a])
       /\ \/ NodeOf(p[a]) = n
          \/ \E k \in DOMAIN n.t.kids : IsKid(p[a], n, k) /\ KidOrder(N, f, n, p, R, a, k)
       /\ n.t.k = "declaration" /\ -1 \in Branches(f.op, n.t) =>
            \E c \in DOMAIN p : c >= a /\ -1 \in R[c]
       /\ n.t.k \in RoutineKind => \A c \in DOMAIN p : c > a => -1 \notin R[c]
       /\ p[a].op = "arity" =>
            /\ f.op = "visit" /\ NodeOf(p[a]) = n
            /\ \A c \in DOMAIN p : c > a => 1 \notin R[c]

LEMMA OrderedShare ==
  ASSUME NEW N, Whole(N), NEW q, NEW f, NEW n \in N, NodeOf(f) = n, f.op \in Ops,
         f.op = "enter" => n.t.kids # <<>>,
         Placed(f), Heads(f, q, N), NEW p \in Stacks, NEW R, Shares(N, f, n, p, R),
         NEW a \in DOMAIN p, Placed(p[a]), NEW s \in SitesIn(N), Encloses(s.owner, p[a].at)
  PROVE  IF L!Sees(p[a].at, s) THEN ~Pending(p, a + 1, s.place) /\ ~Pending(q, 1, s.place)
         ELSE Pending(p, a, s.place) \/ Pending(q, 1, s.place)
<1>0. Grown(N) /\ f.node = n.t /\ f.at = n.at /\ a \in Nat /\ \A c \in DOMAIN p : c \in Nat
  BY DEF Whole, NodeOf, Stacks
<1>1. /\ s.owner \in Seq(Int) /\ s.from \in Int
      /\ n.at \in Seq(Int) /\ s.place \in Events(N)
  <2>1. \E m \in N : \E i \in Naming(m.t) : s = SiteOf(m, i)
    BY <1>0, SiteIs
  <2>2. \E m \in N : \E i \in Nat : s.place = NameAt(m.at, i)
    BY <1>0, <2>1, SiteFields
  <2>3. s.place \in Events(N)
    BY <1>0, <2>2, OwnEvent
  <2> QED
    BY <1>0, <2>3, SiteOwner, NodeIs
<1>2. /\ \A c \in DOMAIN p : Pends(p[c], s.place) <=> Encloses(n.at, s.place) /\ BranchAt(n, s.place) \in R[c]
      /\ Pends(f, s.place) <=> Encloses(n.at, s.place) /\ BranchAt(n, s.place) \in Branches(f.op, n.t)
      /\ \A c \in DOMAIN p : R[c] \subseteq Branches(f.op, n.t)
  <2>1. Deals(N, f, n, Branches(f.op, n.t))
    BY <1>0, FrameDeals
  <2> QED
    BY <1>1, <2>1 DEF Shares, Deals, BranchAt
<1>3. Pends(f, s.place) => ~Pending(q, 1, s.place)
  BY <1>1 DEF Heads
<1>4. CASE Encloses(s.owner, n.at)
  <2>1. IF L!Sees(n.at, s) THEN ~Pending(q, 1, s.place) ELSE Pends(f, s.place) \/ Pending(q, 1, s.place)
    BY <1>0, <1>4 DEF Heads
  <2>2. L!Sees(p[a].at, s) <=> L!Sees(n.at, s)
    <3>1. CASE NodeOf(p[a]) = n
      BY <3>1 DEF NodeOf
    <3>2. CASE \E k \in DOMAIN n.t.kids : IsKid(p[a], n, k)
      <4>1. PICK k \in DOMAIN n.t.kids : p[a].at = Append(n.at, k)
        BY <3>2 DEF IsKid
      <4>2. k \in Int
        <5>1. n.t.kids \in Seq(Tree)
          BY <1>0, NodeIs, NodeKind
        <5> QED
          BY <5>1
      <4> QED
        BY <1>1, <1>4, <4>1, <4>2, SeesKid
    <3> QED
      BY <3>1, <3>2 DEF Shares
  <2>3. ASSUME L!Sees(n.at, s), NEW c \in DOMAIN p, c >= a + 1, Pends(p[c], s.place) PROVE FALSE
    <3>1. Encloses(n.at, s.place) /\ BranchAt(n, s.place) \in R[c]
      BY <1>2, <2>3
    <3>2. n.t.k \in RoutineKind /\ s.place = NameAt(n.at, 1)
      BY <1>4, <2>3, <3>1, SiteAround
    <3>3. BranchAt(n, s.place) = -1
      BY <1>0, <3>2, OwnEvent DEF BranchAt
    <3>4. c > a
      BY <1>0, <2>3
    <3> QED
      BY <3>1, <3>2, <3>3, <3>4 DEF Shares
  <2>4. ASSUME ~L!Sees(n.at, s), Pends(f, s.place) PROVE Pending(p, a, s.place)
    <3>1. Encloses(n.at, s.place) /\ BranchAt(n, s.place) \in Branches(f.op, n.t)
      BY <1>2, <2>4
    <3>2. n.t.k = "declaration" /\ s.place = NameAt(n.at, 1)
      BY <1>4, <2>4, <3>1, SiteAround
    <3>3. BranchAt(n, s.place) = -1
      BY <1>0, <3>2, OwnEvent DEF BranchAt
    <3>4. PICK c \in DOMAIN p : c >= a /\ -1 \in R[c]
      BY <3>1, <3>2, <3>3 DEF Shares
    <3>5. Pends(p[c], s.place)
      BY <1>2, <3>1, <3>3, <3>4
    <3> QED
      BY <3>4, <3>5 DEF Pending
  <2> QED
    BY <2>1, <2>2, <2>3, <2>4 DEF Pending
<1>5. CASE ~Encloses(s.owner, n.at)
  <2>1. PICK k \in DOMAIN n.t.kids : IsKid(p[a], n, k) /\ KidOrder(N, f, n, p, R, a, k)
    <3>1. NodeOf(p[a]) # n
      BY <1>5 DEF NodeOf
    <3> QED
      BY <3>1 DEF Shares
  <2>2. k \in Int
    <3>1. n.t.kids \in Seq(Tree)
      BY <1>0, NodeIs, NodeKind
    <3> QED
      BY <3>1
  <2>3. p[a].at = Append(n.at, k)
    BY <2>1 DEF IsKid
  <2>4. s.owner = n.at
    BY <1>1, <1>5, <2>2, <2>3, EnclosesKid
  <2>5. L!Sees(p[a].at, s) <=> k >= s.from
    BY <1>1, <2>2, <2>3, <2>4, SeesKid
  <2>6. Encloses(n.at, s.place)
    BY <2>4, SitesOfScope
  <2>7. /\ BranchAt(n, s.place) \in Branches(f.op, n.t)
        /\ IF k >= s.from THEN \A c \in DOMAIN p : c > a => BranchAt(n, s.place) \notin R[c]
           ELSE \E c \in DOMAIN p : c >= a /\ BranchAt(n, s.place) \in R[c]
    BY <2>1, <2>4 DEF KidOrder
  <2>8. ~Pending(q, 1, s.place)
    BY <1>2, <1>3, <2>6, <2>7
  <2>9. CASE k >= s.from
    <3>1. \A c \in DOMAIN p : c >= a + 1 => ~Pends(p[c], s.place)
      BY <1>0, <1>2, <2>7, <2>9
    <3> QED
      BY <2>5, <2>8, <2>9, <3>1 DEF Pending
  <2>10. CASE ~(k >= s.from)
    <3>1. \E c \in DOMAIN p : c >= a /\ Pends(p[c], s.place)
      BY <1>2, <2>6, <2>7, <2>10
    <3> QED
      BY <2>5, <2>10, <3>1 DEF Pending
  <2> QED
    BY <2>9, <2>10
<1> QED
  BY <1>4, <1>5

LEMMA Deal ==
  ASSUME NEW N, Whole(N), NEW q \in Stacks, Walk(q, N),
         NEW f, NEW n \in N, NodeOf(f) = n, f.op \in Ops,
         f.op = "enter" => n.t.kids # <<>>,
         Placed(f), Heads(f, q, N), NEW p \in Stacks, NEW R, Shares(N, f, n, p, R)
  PROVE  Walk(p \o q, N)
<1>0. Grown(N) /\ f.node = n.t /\ f.at = n.at
  BY DEF Whole, NodeOf
<1>1. /\ \A c \in DOMAIN p : \A e \in Events(N) :
           Pends(p[c], e) <=> Encloses(n.at, e) /\ BranchAt(n, e) \in R[c]
      /\ \A e \in Events(N) :
           Pends(f, e) <=> Encloses(n.at, e) /\ BranchAt(n, e) \in Branches(f.op, n.t)
      /\ \A c \in DOMAIN p : R[c] \subseteq Branches(f.op, n.t)
  <2>1. Deals(N, f, n, Branches(f.op, n.t))
    BY <1>0, FrameDeals
  <2> QED
    BY <2>1 DEF Shares, Deals, BranchAt
<1>2. Matched(p, N)
  <2> SUFFICES ASSUME NEW a \in DOMAIN p, Placed(p[a]) PROVE NodeOf(p[a]) \in N /\ Fits(p[a])
    BY DEF Matched
  <2>1. ASSUME NEW k \in DOMAIN n.t.kids, IsKid(p[a], n, k) PROVE NodeOf(p[a]) \in N
    BY <1>0, <2>1 DEF IsKid, NodeOf, Grown, HasKids
  <2> QED
    BY <2>1 DEF Shares
<1>3. Disjoint(p, N)
  BY <1>1 DEF Disjoint, Shares
<1>4. \A a \in DOMAIN p : \A e \in Events(N) : Pends(p[a], e) => ~Pending(q, 1, e)
  BY <1>1 DEF Heads
<1>5. ASSUME NEW a \in DOMAIN p, p[a].op = "arity"
      PROVE  ~Pending(p, a + 1, CalleeOf(p[a])) /\ ~Pending(q, 1, CalleeOf(p[a]))
  <2>1. /\ f.op = "visit" /\ NodeOf(p[a]) = n /\ Fits(p[a])
        /\ \A c \in DOMAIN p : c > a => 1 \notin R[c]
    BY <1>5 DEF Shares, Placed
  <2>2. n.t.k \in CallKind /\ p[a].at = n.at /\ n.t \in Tree
    BY <1>0, <1>5, <2>1, NodeIs DEF Fits, NodeOf
  <2>3. 1 \in DOMAIN n.t.kids
    BY <2>2, NodeKind
  <2> DEFINE m == [t |-> n.t.kids[1], at |-> Append(n.at, 1)]
             e == NameAt(m.at, 1)
  <2>4. m \in N
    BY <1>0, <2>3 DEF Grown, HasKids
  <2>5. e \in Events(N) /\ e = CalleeOf(p[a])
    BY <1>0, <2>2, <2>4, OwnEvent DEF CalleeOf
  <2>6. Encloses(n.at, e) /\ BranchAt(n, e) = 1
    <3>1. n.at \in Seq(Int)
      BY <1>0, NodeIs
    <3>2. Len(m.at) = Len(n.at) + 1 /\ m.at[Len(n.at) + 1] = 1 /\ Leads(n.at, m.at) /\ m.at \in Seq(Int)
      BY <3>1, Appended, LeadsAppend
    <3> HIDE DEF m
    <3>3. Len(e) = Len(m.at) + 1 /\ Leads(m.at, e) /\ e \in Seq(Int) /\ \A k \in 1 .. Len(m.at) : e[k] = m.at[k]
      BY <3>2, NamePlace
    <3>4. Leads(n.at, e)
      BY <3>1, <3>2, <3>3, LeadsTrans
    <3> HIDE DEF e
    <3>5. Len(n.at) + 1 \in 1 .. Len(m.at) /\ Len(n.at) < Len(e)
      BY <3>1, <3>2, <3>3
    <3> QED
      BY <3>2, <3>3, <3>4, <3>5 DEF Encloses, BranchAt
  <2> HIDE DEF e, m
  <2>7. ~Pending(q, 1, e)
    <3>1. 1 \in Branches(f.op, n.t)
      BY <2>1 DEF Branches
    <3> QED
      BY <1>1, <2>5, <2>6, <3>1 DEF Heads
  <2>8. a \in Nat /\ \A c \in DOMAIN p : c \in Nat
    BY DEF Stacks
  <2>9. ~Pending(p, a + 1, e)
    <3>1. \A c \in DOMAIN p : c >= a + 1 => ~Pends(p[c], e)
      BY <1>1, <2>1, <2>5, <2>6, <2>8
    <3> QED
      BY <3>1 DEF Pending
  <2> QED
    BY <2>5, <2>7, <2>9
<1>6. Piece(p, q, N)
  BY <1>2, <1>3, <1>4, <1>5, OrderedShare DEF Piece
<1> QED
  BY <1>6, WalkJoin
-----------------------------------------------------------------------------
(* A step brings about the events at the places I of node n.               *)
Advances(w, v, N, n, I) ==
  \A e \in Events(N) : Pending(v, 1, e) <=> Pending(w, 1, e) /\ e \notin Names(n.at, I)

LEMMA WalkTop ==
  ASSUME IInv, work # <<>>, NEW N, Whole(N), Walk(work, N)
  PROVE  /\ Under \in Stacks /\ Walk(Under, N) /\ Heads(Top, Under, N)
         /\ Top.op \in Ops /\ Grown(N)
         /\ \A e : Pending(work, 1, e) <=> Pends(Top, e) \/ Pending(Under, 1, e)
         /\ Placed(Top) => /\ NodeOf(Top) \in N /\ NodeOf(Top).t = Top.node /\ NodeOf(Top).at = Top.at
                           /\ Fits(Top) /\ Top.node \in Tree /\ Top.at \in Seq(Int)
                           /\ (Top.op = "enter" => NodeOf(Top).t.kids # <<>>)
<1>1. work \in Stacks /\ Top \in Frames
  BY TopShape DEF IInv, Shapes
<1>2. Under \in Stacks /\ Walk(Under, N) /\ Heads(Top, Under, N)
  BY <1>1, TailOf, WalkSplit DEF Under, Top
<1>3. \A e : Pending(work, 1, e) <=> Pends(Top, e) \/ Pending(Under, 1, e)
  BY <1>1, PendingTail DEF Under, Top
<1>4. /\ Top.op \in Ops /\ Top.node \in Tree /\ Top.at \in Seq(Int)
      /\ Top.op = "enter" => Top.node.kids # <<>>
  BY <1>1 DEF Frames
<1>5. Placed(Top) => NodeOf(Top) \in N /\ Fits(Top)
  BY <1>2 DEF Heads
<1> QED
  BY <1>2, <1>3, <1>4, <1>5 DEF NodeOf, Whole

LEMMA Replaces ==
  ASSUME IInv, work # <<>>, NEW N, Whole(N), Walk(work, N), Placed(Top),
         NEW p \in Stacks, NEW R, Shares(N, Top, NodeOf(Top), p, R),
         work' = p \o Under,
         NEW I, I = {i \in Nat : /\ -i \in Branches(Top.op, Top.node)
                                 /\ \A a \in DOMAIN p : -i \notin R[a]},
         \A k \in DOMAIN Top.node.kids :
           k \in Branches(Top.op, Top.node) => \E a \in DOMAIN p : k \in R[a]
  PROVE  Walk(work', N) /\ Advances(work, work', N, NodeOf(Top), I)
<1> DEFINE n == NodeOf(Top)
<1>1. /\ Under \in Stacks /\ Walk(Under, N) /\ Heads(Top, Under, N)
      /\ Top.op \in Ops /\ Grown(N)
      /\ \A e : Pending(work, 1, e) <=> Pends(Top, e) \/ Pending(Under, 1, e)
      /\ n \in N /\ n.t = Top.node /\ n.at = Top.at
      /\ (Top.op = "enter" => n.t.kids # <<>>)
  BY WalkTop
<1> HIDE DEF n
<1>2. Walk(work', N)
  BY <1>1, Deal DEF n
<1>3. \A e : Pending(work', 1, e) <=> Pending(p, 1, e) \/ Pending(Under, 1, e)
  <2>1. 1 \in 1 .. Len(p) + 1
    BY DEF Stacks
  <2> QED
    BY <1>1, <2>1, PendingConcat
<1>4. /\ \A c \in DOMAIN p : \A e \in Events(N) :
           Pends(p[c], e) <=> Encloses(n.at, e) /\ BranchAt(n, e) \in R[c]
      /\ \A e \in Events(N) :
           Pends(Top, e) <=> Encloses(n.at, e) /\ BranchAt(n, e) \in Branches(Top.op, n.t)
      /\ \A c \in DOMAIN p : R[c] \subseteq Branches(Top.op, n.t)
  <2>1. Deals(N, Top, n, Branches(Top.op, n.t))
    BY <1>1, FrameDeals
  <2> QED
    BY <2>1 DEF Shares, Deals, BranchAt, n
<1>5. ASSUME NEW e \in Events(N) PROVE Pending(work', 1, e) <=> Pending(work, 1, e) /\ e \notin Names(n.at, I)
  <2>1. Pending(p, 1, e) <=> Encloses(n.at, e) /\ \E a \in DOMAIN p : BranchAt(n, e) \in R[a]
    <3>1. Pending(p, 1, e) <=> \E a \in DOMAIN p : Pends(p[a], e)
      BY DEF Pending, Stacks
    <3> QED
      BY <1>4, <3>1
  <2>2. e \in Names(n.at, I) => Encloses(n.at, e) /\ -BranchAt(n, e) \in I /\ BranchAt(n, e) \in Int
    <3> SUFFICES ASSUME e \in Names(n.at, I)
                 PROVE  Encloses(n.at, e) /\ -BranchAt(n, e) \in I /\ BranchAt(n, e) \in Int
      OBVIOUS
    <3>1. PICK i \in I : e = NameAt(n.at, i)
      BY DEF Names
    <3>2. i \in Nat
      OBVIOUS
    <3>3. Encloses(n.at, e) /\ BranchAt(n, e) = -i
      <4>1. Encloses(n.at, NameAt(n.at, i)) /\ NameAt(n.at, i)[Len(n.at) + 1] = -i
        BY ONLY <1>1, <3>2, OwnEvent
      <4> QED
        BY ONLY <3>1, <4>1 DEF BranchAt
    <3>4. -BranchAt(n, e) = i
      BY <3>2, <3>3
    <3> QED
      BY <3>2, <3>3, <3>4
  <2>3. ASSUME e \in Names(n.at, I) PROVE ~Pending(work', 1, e)
    <3>1. /\ Encloses(n.at, e) /\ BranchAt(n, e) \in Branches(Top.op, n.t)
          /\ \A a \in DOMAIN p : BranchAt(n, e) \notin R[a]
      <4> DEFINE i == -BranchAt(n, e)
      <4>1. i \in I /\ -i = BranchAt(n, e) /\ Encloses(n.at, e)
        BY <2>2, <2>3
      <4> HIDE DEF i
      <4> QED
        BY <1>1, <4>1
    <3>2. Pends(Top, e)
      BY <1>4, <3>1
    <3>3. ~Pending(Under, 1, e)
      BY <1>1, <3>2 DEF Heads
    <3> QED
      BY <1>3, <2>1, <3>1, <3>3
  <2>4. Pending(work', 1, e) => Pending(work, 1, e)
    BY <1>1, <1>3, <1>4, <2>1
  <2>5. ASSUME Pending(work, 1, e), ~Pending(work', 1, e) PROVE e \in Names(n.at, I)
    <3>1. Encloses(n.at, e) /\ BranchAt(n, e) \in Branches(Top.op, n.t)
      BY <1>1, <1>3, <1>4, <2>5
    <3>2. \A a \in DOMAIN p : BranchAt(n, e) \notin R[a]
      BY <1>3, <2>1, <2>5, <3>1
    <3>3. BranchAt(n, e) \in Int /\ (BranchAt(n, e) > 0 => BranchAt(n, e) \in DOMAIN n.t.kids)
      BY <1>1, <3>1, BranchOf DEF BranchAt
    <3>4. ~(BranchAt(n, e) > 0)
      BY <1>1, <3>1, <3>2, <3>3
    <3> DEFINE i == -BranchAt(n, e)
    <3>5. i \in Nat /\ -i = BranchAt(n, e)
      BY <3>3, <3>4
    <3> HIDE DEF i
    <3>6. i \in I
      BY <1>1, <3>1, <3>2, <3>5
    <3>7. e = NameAt(n.at, i)
      BY <1>1, <3>1, <3>5, OwnBranch DEF BranchAt
    <3> QED
      BY <3>6, <3>7 DEF Names
  <2> QED
    BY <2>3, <2>4, <2>5
<1> QED
  BY <1>2, <1>5 DEF Advances, n

LEMMA Pops ==
  ASSUME IInv, work # <<>>, NEW N, Whole(N), Walk(work, N), work' = Under,
         Top.op \in {"declare", "refer", "routine", "arity"}
  PROVE  /\ Walk(work', N)
         /\ Advances(work, work', N, NodeOf(Top), IF Top.op = "arity" THEN {0} ELSE {1})
<1> DEFINE n == NodeOf(Top)
           I == IF Top.op = "arity" THEN {0} ELSE {1}
<1>1. Under \in Stacks /\ Placed(Top)
  BY WalkTop DEF Placed
<1>2. <<>> \in Stacks /\ work' = <<>> \o Under /\ DOMAIN <<>> = {}
  BY <1>1 DEF Stacks
<1>3. Shares(N, Top, n, <<>>, <<>>)
  BY <1>2 DEF Shares
<1>4. I = {i \in Nat : /\ -i \in Branches(Top.op, Top.node) /\ \A a \in DOMAIN <<>> : -i \notin (<<>>)[a]}
  <2>1. {i \in Nat : -i \in Branches(Top.op, Top.node)} = I
    <3>1. CASE Top.op = "arity"
      BY <3>1 DEF Branches
    <3>2. CASE Top.op # "arity"
      BY <3>2 DEF Branches
    <3> QED
      BY <3>1, <3>2
  <2> QED
    BY <1>2, <2>1
<1>5. \A k \in DOMAIN Top.node.kids : k \notin Branches(Top.op, Top.node)
  <2>1. Top.node.kids \in Seq(Tree)
    BY <1>1, WalkTop, NodeKind
  <2>2. \A k \in DOMAIN Top.node.kids : k > 0 /\ k \in Int
    BY <2>1
  <2> QED
    BY <2>2 DEF Branches
<1> HIDE DEF n, I
<1> QED
  BY <1>1, <1>2, <1>3, <1>4, <1>5, Replaces DEF n, I
-----------------------------------------------------------------------------
(* The visitors keep the order of the walk.                                *)
LEMMA NoScopeOrder ==
  ASSUME NEW N, Whole(N), NEW n \in N, NEW f, NEW p, NEW R, NEW a, NEW k,
         n.t.k \notin DomainKind \union Routines \union {"program", "block"}
  PROVE  KidOrder(N, f, n, p, R, a, k)
  BY SitesOfScope DEF KidOrder

LEMMA KidItem ==
  ASSUME NEW N, Whole(N), NEW n \in N, NEW k \in DOMAIN n.t.kids
  PROVE  LET g == Kid(n.t, n.at, k) IN
         /\ IsKid(g, n, k) /\ g.op = "visit" /\ Placed(g) /\ Fits(g) /\ Deals(N, g, n, {k})
         /\ NodeOf(g) \in N /\ k \in Int /\ k > 0
<1> DEFINE g == Kid(n.t, n.at, k)
<1>1. Grown(N)
  BY DEF Whole
<1>2. n.t.kids \in Seq(Tree)
  BY <1>1, NodeIs, NodeKind
<1>3. k \in Int /\ k > 0
  BY <1>2
<1>4. IsKid(g, n, k) /\ g.op = "visit" /\ g.node = n.t.kids[k] /\ g.at = Append(n.at, k)
  BY DEF Kid, Visit, Item, IsKid
<1>5. NodeOf(g) \in N
  BY <1>1, <1>4 DEF NodeOf, Grown, HasKids
<1> QED
  BY <1>1, <1>3, <1>4, <1>5, KidDeals DEF Placed, Fits

LEMMA OwnItem ==
  ASSUME NEW N, Whole(N), NEW n \in N, NEW op \in Ops,
         op = "enter" => n.t.kids # <<>>
  PROVE  LET g == Item(op, n.t, n.at) IN
         NodeOf(g) = n /\ g.op = op /\ g.node = n.t /\ g.at = n.at /\ Deals(N, g, n, Branches(op, n.t))
<1> DEFINE g == Item(op, n.t, n.at)
<1>1. Grown(N)
  BY DEF Whole
<1>2. g.op = op /\ g.node = n.t /\ g.at = n.at
  BY DEF Item
<1>3. NodeOf(g) = n
  BY <1>1, <1>2, NodeIs DEF NodeOf
<1> QED
  BY <1>1, <1>2, <1>3, FrameDeals

(* The children of a node, and after them perhaps an item of its own.      *)
LEMMA KidsWalk ==
  ASSUME IInv, work # <<>>, NEW N, Whole(N), Walk(work, N), Top.op = "visit",
         Top.node.k \in {"program", "block"} \/
           Top.node.k \notin {"name"} \union RoutineKind \union CallKind \union DomainKind,
         NEW last \in Stacks, DOMAIN last \subseteq {1},
         \A i \in DOMAIN last : ~Placed(last[i]) \/ last[i] = Item("declare", Top.node, Top.at),
         Top.node.k = "declaration" <=> last = <<Item("declare", Top.node, Top.at)>>,
         work' = (Kids(Top.node, Top.at) \o last) \o Under
  PROVE  /\ Walk(work', N)
         /\ Advances(work, work', N, NodeOf(Top),
              IF Top.node.k = "declaration" THEN Nat \ {1} ELSE Nat)
<1> DEFINE n == NodeOf(Top)
           d == Item("declare", Top.node, Top.at)
           p == Kids(Top.node, Top.at) \o last
           len == Len(Top.node.kids)
           decl == Top.node.k = "declaration"
           R == [a \in DOMAIN p |-> IF a \in 1 .. len THEN {a} ELSE IF decl THEN {-1} ELSE {}]
<1>0. Placed(Top)
  BY DEF Placed
<1>1. /\ Grown(N) /\ n \in N /\ n.t = Top.node /\ n.at = Top.at /\ Top.op \in Ops
      /\ Top.node \in Tree /\ Top.at \in Seq(Int) /\ Fits(Top)
  BY <1>0, WalkTop
<1>2. /\ Kids(Top.node, Top.at) \in Stacks /\ len \in Nat /\ Len(Kids(Top.node, Top.at)) = len
      /\ DOMAIN Top.node.kids = 1 .. len
      /\ \A i \in 1 .. len : Kids(Top.node, Top.at)[i] = Kid(n.t, n.at, i)
  BY <1>1, KidsShape, NodeKind
<1>3. /\ p \in Stacks /\ DOMAIN p = 1 .. len + Len(last)
      /\ \A i \in 1 .. len : p[i] = Kid(n.t, n.at, i)
      /\ \A i \in 1 .. Len(last) : p[len + i] = last[i]
      /\ Len(last) \in Nat /\ DOMAIN last = 1 .. Len(last)
  <2> DEFINE k == Kids(Top.node, Top.at)
  <2>0. /\ k \in Stacks /\ Len(k) = len /\ len \in Nat /\ p = k \o last
        /\ \A i \in 1 .. len : k[i] = Kid(n.t, n.at, i)
    BY <1>2
  <2>1. Len(last) \in Nat /\ DOMAIN last = 1 .. Len(last)
    BY DEF Stacks
  <2> HIDE DEF k, len, p, n
  <2>1a. last \in Stacks
    OBVIOUS
  <2>2. /\ p \in Stacks /\ Len(p) = len + Len(last)
        /\ \A i \in 1 .. len : p[i] = k[i]
        /\ \A i \in 1 .. Len(last) : p[len + i] = last[i]
    BY ONLY <2>0, <2>1a, Concat
  <2>3. DOMAIN p = 1 .. len + Len(last)
    BY <2>2 DEF Stacks
  <2> QED
    BY <2>0, <2>1, <2>2, <2>3
<1>3a. Len(last) \in {0, 1}
  <2> SUFFICES ASSUME Len(last) > 1 PROVE FALSE
    BY <1>3
  <2>1. 2 \in DOMAIN last
    BY <1>3
  <2> QED
    BY <2>1
<1>4. /\ decl => Len(last) = 1 /\ last[1] = d
      /\ ~decl => \A i \in DOMAIN last : ~Placed(last[i])
  <2>1. ASSUME decl PROVE Len(last) = 1 /\ last[1] = d
    <3>1. last = <<d>>
      BY <2>1
    <3> QED
      BY <3>1
  <2>2. ASSUME ~decl, NEW i \in DOMAIN last, Placed(last[i]) PROVE FALSE
    <3>1. last[i] = d /\ i = 1
      BY <2>2
    <3>2. Len(last) = 1 /\ last \in Seq(Frames)
      BY <1>3, <1>3a, <2>2 DEF Stacks
    <3>3. last = <<d>>
      BY <3>1, <3>2
    <3> QED
      BY <2>2, <3>3
  <2> QED
    BY <2>1, <2>2
<1>5. \A a \in DOMAIN p : a \in 1 .. len \/ (a = len + 1 /\ p[a] = last[1] /\ 1 \in DOMAIN last)
  BY <1>2, <1>3, <1>3a
<1>6. \A a \in 1 .. len : /\ IsKid(p[a], n, a) /\ p[a].op = "visit" /\ Placed(p[a]) /\ Fits(p[a])
                          /\ Deals(N, p[a], n, {a}) /\ a \in Int /\ a > 0 /\ a \in DOMAIN p
  <2> HIDE DEF n, p, len
  <2> TAKE a \in 1 .. len
  <2>1. a \in DOMAIN n.t.kids /\ p[a] = Kid(n.t, n.at, a) /\ a \in DOMAIN p
    BY <1>1, <1>2, <1>3
  <2>2. ASSUME NEW m \in N, NEW k \in DOMAIN m.t.kids PROVE LET g == Kid(m.t, m.at, k) IN
         /\ IsKid(g, m, k) /\ g.op = "visit" /\ Placed(g) /\ Fits(g) /\ Deals(N, g, m, {k})
         /\ NodeOf(g) \in N /\ k \in Int /\ k > 0
    BY ONLY Whole(N), KidItem
  <2> QED
    BY ONLY <1>1, <2>1, <2>2
<1>7. decl => /\ d.op = "declare" /\ NodeOf(d) = n /\ Fits(d) /\ Deals(N, d, n, {-1})
  <2>1. "declare" \in Ops
    BY DEF Ops
  <2>2. Branches("declare", n.t) = {-1} /\ d = Item("declare", n.t, n.at)
    BY <1>1 DEF Branches
  <2> HIDE DEF n, d
  <2>3. NodeOf(d) = n /\ d.op = "declare" /\ d.node = n.t /\ Deals(N, d, n, {-1})
    <3>1. ASSUME NEW m \in N PROVE LET g == Item("declare", m.t, m.at) IN
         NodeOf(g) = m /\ g.op = "declare" /\ g.node = m.t /\ g.at = m.at /\ Deals(N, g, m, Branches("declare", m.t))
      BY ONLY <2>1, Whole(N), OwnItem
    <3> QED
      BY ONLY <1>1, <2>2, <3>1
  <2> QED
    BY <1>1, <2>3 DEF Fits
<1> HIDE DEF n, p, len, d
<1>8. Shares(N, Top, n, p, R)
  <2>1. ASSUME NEW a \in DOMAIN p
        PROVE  Deals(N, p[a], n, R[a]) /\ R[a] \subseteq Branches(Top.op, n.t)
    <3>1. R[a] \subseteq Int
      BY <1>2
    <3>2. Branches(Top.op, n.t) = Int
      BY DEF Branches
    <3>3. CASE a \in 1 .. len
      BY <1>6, <3>1, <3>2, <3>3
    <3>4. CASE a \notin 1 .. len
      BY <1>4, <1>5, <1>7, <3>1, <3>2, <3>4, NothingDeals
    <3> QED
      BY <3>3, <3>4
  <2>2. \A a, c \in DOMAIN p : a # c => R[a] \intersect R[c] = {}
    BY <1>2, <1>5
  <2>3. ASSUME NEW a \in DOMAIN p, Placed(p[a])
        PROVE  /\ Fits(p[a])
               /\ \/ NodeOf(p[a]) = n
                  \/ \E k \in DOMAIN n.t.kids : IsKid(p[a], n, k) /\ KidOrder(N, Top, n, p, R, a, k)
               /\ n.t.k = "declaration" /\ -1 \in Branches(Top.op, n.t) =>
                    \E c \in DOMAIN p : c >= a /\ -1 \in R[c]
               /\ n.t.k \in RoutineKind => \A c \in DOMAIN p : c > a => -1 \notin R[c]
               /\ p[a].op # "arity"
    <3>1. n.t.k \notin RoutineKind
      BY <1>1 DEF RoutineKind, Routines, Forwards
    <3>2. ASSUME a \notin 1 .. len PROVE p[a] = d /\ decl /\ a = len + 1
      BY <1>4, <1>5, <2>3, <3>2
    <3>3. Fits(p[a]) /\ p[a].op # "arity"
      BY <1>6, <1>7, <3>2
    <3>4. ASSUME decl PROVE \E c \in DOMAIN p : c >= a /\ -1 \in R[c]
      <4>1. len + 1 \in DOMAIN p /\ len + 1 \notin 1 .. len
        BY <1>2, <1>3, <1>4, <3>4
      <4>2. R[len + 1] = {-1}
        BY <3>4, <4>1
      <4>3. len + 1 >= a
        <5>1. a \in 1 .. len \/ a = len + 1
          BY ONLY <1>5, a \in DOMAIN p
        <5> QED
          BY ONLY <1>2, <5>1
      <4> QED
        BY <4>1, <4>2, <4>3
    <3>5. ASSUME a \in 1 .. len PROVE KidOrder(N, Top, n, p, R, a, a)
      <4>1. CASE n.t.k \in {"program", "block"}
        <5> SUFFICES ASSUME NEW s \in SitesIn(N), s.owner = n.at
                     PROVE  LET b == BranchAt(n, s.place) IN
                            /\ b \in Branches(Top.op, n.t)
                            /\ IF a >= s.from THEN \A c \in DOMAIN p : c > a => b \notin R[c]
                               ELSE \E c \in DOMAIN p : c >= a /\ b \in R[c]
          BY DEF KidOrder
        <5> DEFINE b == BranchAt(n, s.place)
        <5>1. b \in Int /\ b \in DOMAIN n.t.kids /\ s.from \in {b, b + 1}
          BY <1>1, <4>1, SitesOfScope DEF BranchAt, DomainKind, Routines
        <5>2. b \in 1 .. len /\ b \in DOMAIN p /\ R[b] = {b}
          BY <1>1, <1>2, <1>6, <5>1
        <5>3. b \in Branches(Top.op, n.t)
          BY <5>1 DEF Branches
        <5>4. \A c \in DOMAIN p : c # b => b \notin R[c]
          BY <2>2, <5>2
        <5> HIDE DEF b
        <5>5. a \in Int /\ \A c \in DOMAIN p : c \in Int
          BY <1>3
        <5>6. a >= s.from => b <= a
          BY <5>1, <5>5
        <5>7. ~(a >= s.from) => b >= a
          BY <5>1, <5>5
        <5>8. a >= s.from => \A c \in DOMAIN p : c > a => b \notin R[c]
          BY <5>1, <5>4, <5>5, <5>6
        <5> QED
          BY <5>2, <5>3, <5>7, <5>8 DEF b
      <4>2. CASE n.t.k \notin {"program", "block"}
        BY <1>1, <4>2, NoScopeOrder DEF RoutineKind
      <4> QED
        BY <4>1, <4>2
    <3>6. CASE a \in 1 .. len
      BY <1>1, <1>2, <1>6, <3>1, <3>3, <3>4, <3>5, <3>6
    <3>7. CASE a \notin 1 .. len
      BY <1>1, <1>7, <3>1, <3>2, <3>3, <3>4, <3>7
    <3> QED
      BY <3>6, <3>7
  <2> HIDE DEF R, decl
  <2> QED
    BY <2>1, <2>2, <2>3 DEF Shares
<1> DEFINE I == IF decl THEN Nat \ {1} ELSE Nat
<1>9. I = {i \in Nat : -i \in Branches(Top.op, Top.node) /\ \A a \in DOMAIN p : -i \notin R[a]}
  <2>1. \A i \in Nat : -i \in Branches(Top.op, Top.node)
    BY DEF Branches
  <2>2. \A i \in Nat : \A a \in 1 .. len : -i \notin {a}
    BY <1>2
  <2>3. \A a \in DOMAIN p : a \notin 1 .. len => R[a] = IF decl THEN {-1} ELSE {}
    OBVIOUS
  <2>4. decl => \E a \in DOMAIN p : a \notin 1 .. len
    <3> SUFFICES ASSUME decl PROVE len + 1 \in DOMAIN p /\ len + 1 \notin 1 .. len
      OBVIOUS
    <3> QED
      BY <1>2, <1>3, <1>4
  <2>5. \A i \in Nat : -i = -1 <=> i = 1
    OBVIOUS
  <2>6. \A i \in Nat : (\A a \in DOMAIN p : -i \notin R[a]) <=> i \in I
    BY <2>2, <2>3, <2>4, <2>5
  <2> QED
    BY <2>1, <2>6
<1>10. \A k \in DOMAIN Top.node.kids : \E a \in DOMAIN p : k \in R[a]
  BY <1>2, <1>6
<1> HIDE DEF R, I
<1>11. work' = p \o Under
  BY DEF p
<1> QED
  BY <1>0, <1>3, <1>8, <1>9, <1>10, <1>11, Replaces DEF I, n

LEMMA IdentifierWalk ==
  ASSUME IInv, NEW N, Whole(N), Walk(work, N), visitIdentifier
  PROVE  Walk(work', N) /\ Advances(work, work', N, NodeOf(Top), Nat \ {1})
<1> DEFINE n == NodeOf(Top)
           r == Lookup(Top.node, current)
           g == Item("refer", Top.node, Top.at)
           p == <<r, g>>
           R == [a \in {1, 2} |-> IF a = 1 THEN {} ELSE {-1}]
<1>0. /\ Top.op = "visit" /\ Placed(Top) /\ work # <<>> /\ Top.node.k = "name" /\ work' = p \o Under
  BY DEF Placed, visitIdentifier, Visiting
<1>1. /\ Grown(N) /\ n \in N /\ n.t = Top.node /\ n.at = Top.at /\ Top.op \in Ops
      /\ Top.node \in Tree /\ Top.at \in Seq(Int) /\ Fits(Top)
  BY <1>0, WalkTop
<1>2. Top.node.xs # <<>> /\ current \in Nat
  BY <1>0, <1>1, NodeShape DEF IInv, Shapes, Trees
<1>3. r \in Frames /\ g \in Frames /\ r.op = "resolve"
  BY <1>1, <1>2, ItemShape DEF Ops, Lookup
<1>4. p \in Stacks /\ DOMAIN p = {1, 2} /\ p[1] = r /\ p[2] = g
  BY <1>3 DEF Stacks
<1>5. g.op = "refer" /\ NodeOf(g) = n /\ g.node = n.t /\ Deals(N, g, n, {-1})
  <2>1. "refer" \in Ops
    BY DEF Ops
  <2>2. Branches("refer", n.t) = {-1} /\ g = Item("refer", n.t, n.at)
    BY <1>1 DEF Branches
  <2> HIDE DEF n, g
  <2> QED
    BY <1>1, <2>1, <2>2, OwnItem
<1>6. Fits(g)
  BY <1>0, <1>1, <1>5 DEF Fits
<1>7. ~Placed(r) /\ Deals(N, r, n, {})
  BY <1>3, NothingDeals DEF Placed
<1> HIDE DEF n, p, r, g
<1>8. Shares(N, Top, n, p, R)
  <2>1. Branches(Top.op, n.t) = Int
    BY <1>0 DEF Branches
  <2>2. n.t.k = "name" /\ n.t.k \notin RoutineKind \union {"declaration"}
    BY <1>0, <1>1 DEF RoutineKind, Routines, Forwards
  <2>3. \A a \in DOMAIN p : Deals(N, p[a], n, R[a]) /\ R[a] \subseteq Int
    BY <1>4, <1>5, <1>7
  <2>4. \A a, c \in DOMAIN p : a # c => R[a] \intersect R[c] = {}
    BY <1>4
  <2>5. \A a \in DOMAIN p : Placed(p[a]) => Fits(p[a]) /\ NodeOf(p[a]) = n /\ p[a].op # "arity"
    BY <1>4, <1>5, <1>6, <1>7
  <2> HIDE DEF R
  <2> QED
    BY <2>1, <2>2, <2>3, <2>4, <2>5 DEF Shares
<1>9. Nat \ {1} = {i \in Nat : -i \in Branches(Top.op, Top.node) /\ \A a \in DOMAIN p : -i \notin R[a]}
  <2>1. \A i \in Nat : -i \in Branches(Top.op, Top.node)
    BY <1>0 DEF Branches
  <2>2. \A i \in Nat : (\A a \in DOMAIN p : -i \notin R[a]) <=> i # 1
    BY <1>4
  <2> QED
    BY <2>1, <2>2
<1>10. DOMAIN Top.node.kids = {}
  BY <1>0, <1>1, NodeKind
<1> HIDE DEF R
<1>11. PICK I : I = Nat \ {1}
  OBVIOUS
<1>12. I = {i \in Nat : -i \in Branches(Top.op, Top.node) /\ \A a \in DOMAIN p : -i \notin R[a]}
  BY <1>9, <1>11
<1>13. \A k \in DOMAIN Top.node.kids :
         k \in Branches(Top.op, Top.node) => \E a \in DOMAIN p : k \in R[a]
  BY <1>10
<1>14. Shares(N, Top, NodeOf(Top), p, R)
  BY <1>8 DEF n
<1>15. IInv /\ Whole(N) /\ Walk(work, N) /\ p \in Stacks
  BY <1>4
<1>16. Walk(work', N) /\ Advances(work, work', N, NodeOf(Top), I)
  BY ONLY <1>0, <1>12, <1>13, <1>14, <1>15, Replaces
<1> QED
  BY <1>11, <1>16
-----------------------------------------------------------------------------
LEMMA TailKids ==
  ASSUME NEW k \in Stacks, Len(k) >= 1
  PROVE  /\ Tail(k) \in Stacks /\ Len(Tail(k)) = Len(k) - 1 /\ Len(k) \in Nat
         /\ \A a \in 1 .. Len(k) - 1 : Tail(k)[a] = k[a + 1]
<1>1. k # <<>> /\ Len(k) \in Nat
  BY DEF Stacks
<1> QED
  BY <1>1, TailOf DEF Stacks

LEMMA Joined ==
  ASSUME NEW p \in Stacks, NEW q \in Stacks
  PROVE  /\ p \o q \in Stacks /\ Len(p) \in Nat /\ Len(q) \in Nat
         /\ Len(p \o q) = Len(p) + Len(q) /\ DOMAIN (p \o q) = 1 .. Len(p) + Len(q)
         /\ \A i \in 1 .. Len(p) : (p \o q)[i] = p[i]
         /\ \A i \in 1 .. Len(q) : (p \o q)[Len(p) + i] = q[i]
<1>1. Len(p) \in Nat /\ Len(q) \in Nat
  BY DEF Stacks
<1>2. /\ p \o q \in Stacks /\ Len(p \o q) = Len(p) + Len(q)
      /\ \A i \in 1 .. Len(p) : (p \o q)[i] = p[i]
      /\ \A i \in 1 .. Len(q) : (p \o q)[Len(p) + i] = q[i]
  BY Concat
<1>3. DOMAIN (p \o q) = 1 .. Len(p) + Len(q)
  BY <1>1, <1>2 DEF Stacks
<1> QED
  BY <1>1, <1>2, <1>3

LEMMA CallItems ==
  ASSUME NEW N, Whole(N), NEW n \in N, n.t.k \in CallKind
  PROVE  LET p == Tail(Kids(n.t, n.at)) \o <<Kid(n.t, n.at, 1), Item("arity", n.t, n.at)>>
             len == Len(n.t.kids)
         IN /\ p \in Stacks /\ len \in Nat /\ len >= 1 /\ DOMAIN p = 1 .. len + 1
            /\ DOMAIN n.t.kids = 1 .. len
            /\ \A a \in 1 .. len - 1 : p[a] = Kid(n.t, n.at, a + 1)
            /\ p[len] = Kid(n.t, n.at, 1) /\ p[len + 1] = Item("arity", n.t, n.at)
<1> DEFINE k == Kids(n.t, n.at)
           r == <<Kid(n.t, n.at, 1), Item("arity", n.t, n.at)>>
           p == Tail(k) \o r
           len == Len(n.t.kids)
<1>1. n.t \in Tree /\ n.at \in Seq(Int)
  BY NodeIs DEF Whole
<1>2. /\ k \in Stacks /\ Len(k) = len /\ len \in Nat /\ len >= 1 /\ DOMAIN n.t.kids = 1 .. len
      /\ \A i \in 1 .. len : k[i] = Kid(n.t, n.at, i) /\ k[i] \in Frames
  BY <1>1, KidsShape, NodeKind
<1>3. /\ Tail(k) \in Stacks /\ Len(Tail(k)) = len - 1
      /\ \A a \in 1 .. len - 1 : Tail(k)[a] = k[a + 1]
  BY <1>2, TailKids
<1>4. Item("arity", n.t, n.at) \in Frames
  <2>1. n.t.kids # <<>> /\ "arity" \in Ops /\ 0 \in Nat
    BY <1>1, NodeShape DEF Ops
  <2> QED
    BY <1>1, <2>1, ItemShape
<1>5. Kid(n.t, n.at, 1) \in Frames
  BY <1>2
<1>6. r \in Stacks /\ Len(r) = 2 /\ r[1] = Kid(n.t, n.at, 1) /\ r[2] = Item("arity", n.t, n.at)
  BY <1>4, <1>5 DEF Stacks
<1> HIDE DEF r, k, len, p
<1>6a. p = Tail(k) \o r
  BY DEF p
<1>7. /\ p \in Stacks /\ Len(p) = (len - 1) + 2
      /\ \A i \in 1 .. len - 1 : p[i] = Tail(k)[i]
      /\ \A i \in 1 .. 2 : p[(len - 1) + i] = r[i]
  <2> DEFINE u == Tail(k)
  <2>1. u \in Stacks /\ Len(u) = len - 1 /\ p = u \o r
    BY <1>3, <1>6a
  <2> HIDE DEF u
  <2>2. /\ p \in Stacks /\ Len(p) = (len - 1) + 2
        /\ \A i \in 1 .. len - 1 : p[i] = u[i]
        /\ \A i \in 1 .. 2 : p[(len - 1) + i] = r[i]
    <3>1. /\ u \o r \in Stacks /\ Len(u \o r) = Len(u) + Len(r)
          /\ \A i \in 1 .. Len(u) : (u \o r)[i] = u[i]
          /\ \A i \in 1 .. Len(r) : (u \o r)[Len(u) + i] = r[i]
      BY ONLY <1>6, <2>1, Joined
    <3> QED
      BY ONLY <1>6, <2>1, <3>1
  <2> QED
    BY <2>2 DEF u
<1>8. DOMAIN p = 1 .. len + 1
  BY <1>2, <1>7 DEF Stacks
<1>9. (len - 1) + 1 = len /\ (len - 1) + 2 = len + 1
  BY <1>2
<1>10. p[len] = r[1] /\ p[len + 1] = r[2]
  <2>0. 1 \in 1 .. 2 /\ 2 \in 1 .. 2
    OBVIOUS
  <2>1. p[(len - 1) + 1] = r[1] /\ p[(len - 1) + 2] = r[2]
    BY <1>7, <2>0
  <2> QED
    BY <1>9, <2>1
<1>11. \A a \in 1 .. len - 1 : p[a] = Kid(n.t, n.at, a + 1)
  <2> TAKE a \in 1 .. len - 1
  <2>1. p[a] = k[a + 1] /\ a + 1 \in 1 .. len
    BY <1>2, <1>3, <1>7
  <2> QED
    BY <1>2, <2>1
<1> QED
  BY <1>2, <1>6, <1>6a, <1>7, <1>8, <1>10, <1>11 DEF r, k, len

LEMMA CallWalk ==
  ASSUME IInv, NEW N, Whole(N), Walk(work, N), visitCall
  PROVE  Walk(work', N) /\ Advances(work, work', N, NodeOf(Top), Nat \ {0})
<1> DEFINE n == NodeOf(Top)
           g == Item("arity", n.t, n.at)
           p == Tail(Kids(n.t, n.at)) \o <<Kid(n.t, n.at, 1), g>>
           len == Len(n.t.kids)
           R == [a \in 1 .. len + 1 |-> IF a < len THEN {a + 1} ELSE IF a = len THEN {1} ELSE {0}]
<1>0. /\ Top.op = "visit" /\ Placed(Top) /\ work # <<>> /\ Top.node.k \in CallKind
      /\ work' = Tail(Kids(Top.node, Top.at))
                   \o <<Kid(Top.node, Top.at, 1), Item("arity", Top.node, Top.at)>> \o Under
  BY DEF Placed, visitCall, Visiting
<1>1. /\ Grown(N) /\ n \in N /\ n.t = Top.node /\ n.at = Top.at /\ Top.op \in Ops
  BY <1>0, WalkTop
<1>1a. work' = p \o Under /\ n.t.k \in CallKind
  BY <1>0, <1>1
<1> HIDE DEF n
<1>2. /\ p \in Stacks /\ len \in Nat /\ len >= 1 /\ DOMAIN p = 1 .. len + 1
      /\ DOMAIN n.t.kids = 1 .. len
      /\ \A a \in 1 .. len - 1 : p[a] = Kid(n.t, n.at, a + 1)
      /\ p[len] = Kid(n.t, n.at, 1) /\ p[len + 1] = g
  BY <1>1, <1>1a, CallItems
<1>3. g.op = "arity" /\ NodeOf(g) = n /\ g.node = n.t /\ Deals(N, g, n, {0})
  <2>1. "arity" \in Ops
    BY DEF Ops
  <2>2. Branches("arity", n.t) = {0}
    BY DEF Branches
  <2> HIDE DEF g
  <2> QED
    BY <1>1, <2>1, <2>2, OwnItem DEF g
<1>4. Fits(g)
  BY <1>1a, <1>3 DEF Fits
<1>5. \A k \in 1 .. len : /\ IsKid(Kid(n.t, n.at, k), n, k) /\ Kid(n.t, n.at, k).op = "visit"
                          /\ Fits(Kid(n.t, n.at, k)) /\ Deals(N, Kid(n.t, n.at, k), n, {k})
  BY ONLY <1>1, <1>2, KidItem, Whole(N)
<1> HIDE DEF p, len, g
<1>6. ASSUME NEW a \in DOMAIN p
      PROVE  \/ a = len + 1 /\ p[a] = g /\ R[a] = {0}
             \/ \E k \in 1 .. len : p[a] = Kid(n.t, n.at, k) /\ R[a] = {k}
  <2>1. CASE a = len + 1
    BY <1>2, <2>1
  <2>2. CASE a = len
    <3>1. 1 \in 1 .. len /\ p[a] = Kid(n.t, n.at, 1) /\ R[a] = {1}
      BY <1>2, <2>2
    <3> QED
      BY <3>1
  <2>3. CASE a < len
    <3>1. a \in 1 .. len - 1 /\ a + 1 \in 1 .. len
      BY <1>2, <2>3
    <3>2. p[a] = Kid(n.t, n.at, a + 1) /\ R[a] = {a + 1}
      BY <1>2, <2>3, <3>1
    <3> QED
      BY <3>1, <3>2
  <2> QED
    BY <1>2, <2>1, <2>2, <2>3
<1>7. \A a, c \in DOMAIN p : a # c => R[a] \intersect R[c] = {}
  <2> SUFFICES ASSUME NEW a \in DOMAIN p, NEW c \in DOMAIN p, a # c PROVE R[a] \intersect R[c] = {}
    OBVIOUS
  <2>1. a \in 1 .. len + 1 /\ c \in 1 .. len + 1
    BY <1>2
  <2> QED
    BY <1>2, <2>1
<1>8. \A c \in DOMAIN p : -1 \notin R[c]
  BY <1>2
<1>9. /\ \A k \in 1 .. len : \E a \in DOMAIN p : k \in R[a]
      /\ 0 \in R[len + 1] /\ len + 1 \in DOMAIN p
      /\ \A i \in Nat : i # 0 => \A a \in DOMAIN p : -i \notin R[a]
  <2>1. ASSUME NEW k \in 1 .. len PROVE \E a \in DOMAIN p : k \in R[a]
    <3>1. CASE k = 1
      <4>1. len \in DOMAIN p /\ R[len] = {1}
        BY <1>2
      <4> QED
        BY <3>1, <4>1
    <3>2. CASE k # 1
      <4>1. k - 1 \in 1 .. len + 1 /\ k - 1 < len /\ (k - 1) + 1 = k
        BY <1>2, <3>2
      <4>2. R[k - 1] = {(k - 1) + 1}
        BY <4>1
      <4> HIDE DEF R
      <4> QED
        BY <1>2, <4>1, <4>2
    <3> QED
      BY <3>1, <3>2
  <2> QED
    BY <1>2, <2>1
<1>10. R[len + 1] = {0}
  BY <1>2
<1> HIDE DEF R
<1>11. Branches(Top.op, n.t) = Int
  BY <1>0 DEF Branches
<1>12. n.t.k \notin {"name", "declaration", "program", "block"} \union RoutineKind \union DomainKind
  BY <1>1a DEF CallKind, RoutineKind, Routines, Forwards, DomainKind
<1>13. Shares(N, Top, n, p, R)
  <2>1. ASSUME NEW a \in DOMAIN p
        PROVE  Deals(N, p[a], n, R[a]) /\ R[a] \subseteq Int
    <3>1. CASE a = len + 1 /\ p[a] = g /\ R[a] = {0}
      BY <1>3, <3>1
    <3>2. ASSUME NEW k \in 1 .. len, p[a] = Kid(n.t, n.at, k), R[a] = {k}
          PROVE  Deals(N, p[a], n, R[a]) /\ R[a] \subseteq Int
      BY <1>2, <1>5, <3>2
    <3> QED
      BY <1>6, <3>1, <3>2
  <2>2. ASSUME NEW a \in DOMAIN p
        PROVE  /\ Fits(p[a])
               /\ \/ NodeOf(p[a]) = n
                  \/ \E k \in DOMAIN n.t.kids : IsKid(p[a], n, k) /\ KidOrder(N, Top, n, p, R, a, k)
               /\ p[a].op = "arity" => NodeOf(p[a]) = n /\ a = len + 1
    <3>1. CASE a = len + 1 /\ p[a] = g
      BY <1>3, <1>4, <3>1
    <3>2. ASSUME NEW k \in 1 .. len, p[a] = Kid(n.t, n.at, k)
          PROVE  Fits(p[a]) /\ p[a].op = "visit" /\ IsKid(p[a], n, k) /\ KidOrder(N, Top, n, p, R, a, k)
      BY <1>1, <1>5, <1>12, <3>2, NoScopeOrder DEF RoutineKind
    <3> QED
      BY <1>2, <1>6, <3>1, <3>2
  <2>3. \A c \in DOMAIN p : ~(c > len + 1)
    BY <1>2
  <2> QED
    BY <1>0, <1>7, <1>8, <1>11, <1>12, <2>1, <2>2, <2>3 DEF Shares
<1>14. Nat \ {0} = {i \in Nat : -i \in Branches(Top.op, Top.node) /\ \A a \in DOMAIN p : -i \notin R[a]}
  <2>1. \A i \in Nat : -i \in Branches(Top.op, Top.node)
    BY <1>1, <1>11
  <2>2. \A i \in Nat : (\A a \in DOMAIN p : -i \notin R[a]) <=> i # 0
    <3>1. \A i \in Nat : -i = 0 <=> i = 0
      OBVIOUS
    <3> QED
      BY <1>9, <3>1
  <2> QED
    BY <2>1, <2>2
<1>15. \A k \in DOMAIN Top.node.kids : \E a \in DOMAIN p : k \in R[a]
  BY <1>1, <1>2, <1>9
<1> QED
  BY <1>0, <1>1a, <1>2, <1>13, <1>14, <1>15, Replaces DEF n

LEMMA RoutineItems ==
  ASSUME NEW N, Whole(N), NEW n \in N, n.t.k \in RoutineKind, NEW s \in Nat
  PROVE  LET p == <<Lookup(n.t, s), Item("routine", n.t, n.at)>>
                    \o [i \in DOMAIN n.t.kids |-> Item("body", n.t, n.at)]
             len == Len(n.t.kids)
         IN /\ p \in Stacks /\ len \in {0, 1} /\ DOMAIN p = 1 .. len + 2
            /\ DOMAIN n.t.kids = 1 .. len /\ (len = 1 <=> n.t.k \in Routines)
            /\ p[1] = Lookup(n.t, s) /\ p[2] = Item("routine", n.t, n.at)
            /\ len = 1 => p[3] = Item("body", n.t, n.at)
<1> DEFINE b == [i \in DOMAIN n.t.kids |-> Item("body", n.t, n.at)]
           r == <<Lookup(n.t, s), Item("routine", n.t, n.at)>>
           p == r \o b
           len == Len(n.t.kids)
<1>1. n.t \in Tree /\ n.at \in Seq(Int)
  BY NodeIs DEF Whole
<1>2. /\ len \in {0, 1} /\ DOMAIN n.t.kids = 1 .. len /\ n.t.xs # <<>>
      /\ (len = 1 <=> n.t.k \in Routines) /\ (len = 1 => n.t.kids # <<>>)
  <2>1. n.t.kids \in Seq(Tree) /\ (n.t.k \in Forwards => Len(n.t.kids) = 0)
        /\ (n.t.k \in Routines => Len(n.t.kids) = 1)
    BY <1>1, NodeKind
  <2>2. n.t.xs # <<>>
    BY <1>1, NodeShape DEF RoutineKind
  <2>3. n.t.k \in Routines \/ n.t.k \in Forwards
    BY DEF RoutineKind
  <2>4. n.t.k \in Forwards => n.t.k \notin Routines
    BY DEF Routines, Forwards
  <2>5. len \in {0, 1} /\ (len = 1 <=> n.t.k \in Routines)
    BY <2>1, <2>3, <2>4
  <2>6. DOMAIN n.t.kids = 1 .. len
    BY <2>1
  <2>7. len = 1 => n.t.kids # <<>>
    <3>1. n.t.kids = <<>> => Len(n.t.kids) = 0
      OBVIOUS
    <3> QED
      BY ONLY <3>1
  <2> QED
    BY <2>2, <2>5, <2>6, <2>7
<1>3. Lookup(n.t, s) \in Frames /\ Item("routine", n.t, n.at) \in Frames
  <2>1. "routine" \in Ops /\ "resolve" \in Ops
    BY DEF Ops
  <2> QED
    BY <1>1, <1>2, <2>1, ItemShape DEF Lookup
<1>4. len = 1 => Item("body", n.t, n.at) \in Frames
  <2>1. "body" \in Ops /\ 0 \in Nat
    BY DEF Ops
  <2> QED
    BY <1>1, <1>2, <2>1, ItemShape
<1>5. r \in Stacks /\ Len(r) = 2 /\ r[1] = Lookup(n.t, s) /\ r[2] = Item("routine", n.t, n.at)
  BY <1>3 DEF Stacks
<1>6. b \in Stacks /\ Len(b) = len /\ (len = 1 => b[1] = Item("body", n.t, n.at))
  BY <1>2, <1>4 DEF Stacks
<1> HIDE DEF r, b, len, p
<1>6a. p = r \o b
  BY DEF p
<1>7. /\ p \in Stacks /\ Len(p) = 2 + len
      /\ \A i \in 1 .. 2 : p[i] = r[i]
      /\ \A i \in 1 .. len : p[2 + i] = b[i]
  <2>1. /\ r \o b \in Stacks /\ Len(r \o b) = Len(r) + Len(b)
        /\ \A i \in 1 .. Len(r) : (r \o b)[i] = r[i]
        /\ \A i \in 1 .. Len(b) : (r \o b)[Len(r) + i] = b[i]
    BY ONLY <1>5, <1>6, Joined
  <2> QED
    BY ONLY <1>5, <1>6, <1>6a, <2>1
<1>8. DOMAIN p = 1 .. len + 2
  BY <1>2, <1>7 DEF Stacks
<1>9. p[1] = r[1] /\ p[2] = r[2] /\ (len = 1 => p[3] = b[1])
  <2>0. 1 \in 1 .. 2 /\ 2 \in 1 .. 2 /\ 2 + 1 = 3 /\ (len = 1 => 1 \in 1 .. len)
    OBVIOUS
  <2>1. len = 1 => p[2 + 1] = b[1]
    BY <1>7, <2>0
  <2> QED
    BY <1>7, <2>0, <2>1
<1> QED
  BY <1>2, <1>5, <1>6, <1>6a, <1>7, <1>8, <1>9 DEF r, b, len

LEMMA RoutineWalk ==
  ASSUME IInv, NEW N, Whole(N), Walk(work, N), visitRoutine
  PROVE  /\ Walk(work', N)
         /\ \E I \in SUBSET Nat : /\ Advances(work, work', N, NodeOf(Top), I) /\ 1 \notin I
                                  /\ Top.node.k \in Routines => I = {}
<1> DEFINE n == NodeOf(Top)
           r == Lookup(n.t, current)
           g == Item("routine", n.t, n.at)
           b == Item("body", n.t, n.at)
           p == <<r, g>> \o [i \in DOMAIN n.t.kids |-> b]
           len == Len(n.t.kids)
           B == Branches("body", n.t)
           R == [a \in 1 .. len + 2 |-> IF a = 1 THEN {} ELSE IF a = 2 THEN {-1} ELSE B]
           I == {i \in Nat : -i \in Branches(Top.op, Top.node) /\ \A a \in DOMAIN p : -i \notin R[a]}
<1>0. /\ Top.op = "visit" /\ Placed(Top) /\ work # <<>> /\ Top.node.k \in RoutineKind
      /\ work' = <<Lookup(Top.node, current), Item("routine", Top.node, Top.at)>>
               \o [i \in DOMAIN Top.node.kids |-> Item("body", Top.node, Top.at)] \o Under
  BY DEF Placed, visitRoutine, Visiting, RoutineKind
<1>1. /\ Grown(N) /\ n \in N /\ n.t = Top.node /\ n.at = Top.at /\ Top.op \in Ops
  BY <1>0, WalkTop
<1>1a. work' = p \o Under /\ n.t.k \in RoutineKind
  BY <1>0, <1>1
<1>1b. current \in Nat
  BY DEF IInv, Shapes, Trees
<1> HIDE DEF n
<1>2. /\ p \in Stacks /\ len \in {0, 1} /\ DOMAIN p = 1 .. len + 2
      /\ DOMAIN n.t.kids = 1 .. len /\ (len = 1 <=> n.t.k \in Routines)
      /\ p[1] = r /\ p[2] = g
      /\ len = 1 => p[3] = b
  BY <1>1, <1>1a, <1>1b, RoutineItems
<1>3. g.op = "routine" /\ NodeOf(g) = n /\ g.node = n.t /\ Deals(N, g, n, {-1})
  <2>1. "routine" \in Ops
    BY DEF Ops
  <2>2. Branches("routine", n.t) = {-1}
    BY DEF Branches
  <2> HIDE DEF g
  <2> QED
    BY ONLY <1>1, <2>1, <2>2, OwnItem, Whole(N) DEF g
<1>4. b.op = "body" /\ NodeOf(b) = n /\ b.node = n.t /\ Deals(N, b, n, B)
  <2>1. "body" \in Ops
    BY DEF Ops
  <2> HIDE DEF b
  <2> QED
    BY ONLY <1>1, <2>1, OwnItem, Whole(N) DEF b
<1>5. B = {i \in Int : i <= 0 /\ i # -1} \union {1}
  BY DEF Branches
<1>6. ~Placed(r) /\ Deals(N, r, n, {})
  <2>1. r.op = "resolve"
    BY DEF Lookup, Within
  <2> QED
    BY <2>1, NothingDeals DEF Placed
<1> HIDE DEF p, len, g, r, b, B
<1>7. Fits(g) /\ (len = 1 => Fits(b))
  BY <1>1a, <1>2, <1>3, <1>4 DEF Fits
<1>8. \A a \in DOMAIN p : \/ a = 1 /\ p[a] = r /\ R[a] = {}
                          \/ a = 2 /\ p[a] = g /\ R[a] = {-1}
                          \/ a = 3 /\ p[a] = b /\ R[a] = B /\ len = 1
  BY <1>2
<1>9. /\ 2 \in DOMAIN p /\ R[2] = {-1} /\ (len = 1 => 3 \in DOMAIN p /\ R[3] = B)
  BY <1>2
<1>10. {-1} \intersect B = {} /\ B \subseteq Int /\ -1 \in Int
  BY <1>5
<1> HIDE DEF R
<1>11. Branches(Top.op, n.t) = Int
  BY <1>0 DEF Branches
<1>12. n.t.k # "declaration"
  BY <1>1a DEF RoutineKind, Routines, Forwards
<1>13. Shares(N, Top, n, p, R)
  <2>1. \A a \in DOMAIN p : Deals(N, p[a], n, R[a]) /\ R[a] \subseteq Int
    BY <1>3, <1>4, <1>6, <1>8, <1>10
  <2>2. \A a, c \in DOMAIN p : a # c => R[a] \intersect R[c] = {}
    BY <1>8, <1>10
  <2>3. \A a \in DOMAIN p : Placed(p[a]) =>
          /\ Fits(p[a]) /\ NodeOf(p[a]) = n /\ p[a].op # "arity"
          /\ \A c \in DOMAIN p : c > a => -1 \notin R[c]
    <3> SUFFICES ASSUME NEW a \in DOMAIN p, Placed(p[a])
                 PROVE  /\ Fits(p[a]) /\ NodeOf(p[a]) = n /\ p[a].op # "arity"
                        /\ \A c \in DOMAIN p : c > a => -1 \notin R[c]
      OBVIOUS
    <3>1. a = 2 \/ a = 3
      BY <1>6, <1>8
    <3>2. Fits(p[a]) /\ NodeOf(p[a]) = n /\ p[a].op # "arity"
      BY <1>3, <1>4, <1>7, <1>8, <3>1
    <3>3. \A c \in DOMAIN p : c > a => c = 3 /\ R[c] = B
      BY <1>8, <3>1
    <3> QED
      BY <1>10, <3>2, <3>3
  <2> QED
    BY <1>11, <1>12, <2>1, <2>2, <2>3 DEF Shares
<1>14. 1 \notin I /\ (Top.node.k \in Routines => I = {})
  <2>1. 1 \notin I
    BY <1>9
  <2>2. ASSUME Top.node.k \in Routines, NEW i \in I PROVE FALSE
    <3>1. len = 1
      BY <1>1, <1>2, <2>2
    <3>2. i \in Nat /\ -i # -1 /\ -i \notin B
      BY <1>9, <2>2, <3>1
    <3> QED
      BY <1>5, <3>2
  <2> QED
    BY <2>1, <2>2
<1>15. \A k \in DOMAIN Top.node.kids : \E a \in DOMAIN p : k \in R[a]
  <2> SUFFICES ASSUME NEW k \in 1 .. len PROVE \E a \in DOMAIN p : k \in R[a]
    BY <1>1, <1>2
  <2>1. k = 1 /\ len = 1
    BY <1>2
  <2> QED
    BY <1>5, <1>9, <2>1
<1>16. Walk(work', N) /\ Advances(work, work', N, n, I)
  <2>1. PICK J : J = I
    OBVIOUS
  <2>2. J = {i \in Nat : -i \in Branches(Top.op, Top.node) /\ \A a \in DOMAIN p : -i \notin R[a]}
    BY <2>1
  <2> HIDE DEF I
  <2> QED
    BY <1>0, <1>1a, <1>2, <1>13, <1>15, <2>1, <2>2, Replaces DEF n
<1> QED
  BY <1>14, <1>16 DEF n
-----------------------------------------------------------------------------
LEMMA DomainItems ==
  ASSUME NEW N, Whole(N), NEW n \in N, n.t.k \in DomainKind
  PROVE  LET p == Domains(n.t, n.at) \o <<Item("enter", n.t, n.at)>>
             len == Len(n.t.kids)
         IN /\ p \in Stacks /\ len \in Nat /\ len >= 1 /\ DOMAIN p = 1 .. len
            /\ DOMAIN n.t.kids = 1 .. len
            /\ \A a \in 1 .. len - 1 : p[a] = Kid(n.t, n.at, a)
            /\ p[len] = Item("enter", n.t, n.at)
<1> DEFINE k == Kids(n.t, n.at)
           u == Domains(n.t, n.at)
           r == <<Item("enter", n.t, n.at)>>
           p == u \o r
           len == Len(n.t.kids)
<1>1. n.t \in Tree /\ n.at \in Seq(Int)
  BY NodeIs DEF Whole
<1>2. /\ k \in Stacks /\ Len(k) = len /\ len \in Nat /\ len >= 1 /\ DOMAIN n.t.kids = 1 .. len
      /\ \A i \in 1 .. len : k[i] = Kid(n.t, n.at, i) /\ k[i] \in Frames
  BY <1>1, KidsShape, NodeKind, SMTT(30)
<1>3. Item("enter", n.t, n.at) \in Frames
  <2>1. n.t.kids # <<>> /\ "enter" \in Ops /\ 0 \in Nat
    BY <1>1, NodeShape DEF Ops
  <2> QED
    BY <1>1, <2>1, ItemShape
<1>4. r \in Stacks /\ Len(r) = 1 /\ r[1] = Item("enter", n.t, n.at)
  BY <1>3 DEF Stacks
<1>5. u \in Stacks /\ Len(u) = len - 1 /\ \A a \in 1 .. len - 1 : u[a] = k[a]
  <2>1. u = SubSeq(k, 1, len - 1)
    BY DEF Domains
  <2> HIDE DEF u, k, len
  <2> QED
    BY <1>2, <2>1 DEF Stacks
<1> HIDE DEF r, k, len, u
<1>6. /\ u \o r \in Stacks /\ Len(u) \in Nat /\ Len(r) \in Nat /\ DOMAIN (u \o r) = 1 .. Len(u) + Len(r)
      /\ \A i \in 1 .. Len(u) : (u \o r)[i] = u[i]
      /\ \A i \in 1 .. Len(r) : (u \o r)[Len(u) + i] = r[i]
  BY ONLY <1>4, <1>5, Joined
<1>7. (len - 1) + 1 = len /\ 1 \in 1 .. 1
  BY <1>2
<1>8. /\ DOMAIN p = 1 .. len /\ p[len] = r[1]
      /\ \A i \in 1 .. len - 1 : p[i] = u[i]
  BY <1>4, <1>5, <1>6, <1>7, ZenonT(40)
<1>9. \A a \in 1 .. len - 1 : p[a] = Kid(n.t, n.at, a)
  BY <1>2, <1>5, <1>8
<1> QED
  BY <1>2, <1>4, <1>6, <1>8, <1>9 DEF r, k, len, u

LEMMA DomainWalk ==
  ASSUME IInv, NEW N, Whole(N), Walk(work, N), visitDomain
  PROVE  Walk(work', N) /\ Advances(work, work', N, NodeOf(Top), {})
<1> DEFINE n == NodeOf(Top)
           g == Item("enter", n.t, n.at)
           p == Domains(n.t, n.at) \o <<g>>
           len == Len(n.t.kids)
           B == Branches("enter", n.t)
           R == [a \in 1 .. len |-> IF a < len THEN {a} ELSE B]
<1>0. /\ Top.op = "visit" /\ Placed(Top) /\ work # <<>> /\ Top.node.k \in DomainKind
      /\ work' = Domains(Top.node, Top.at) \o <<Item("enter", Top.node, Top.at)>> \o Under
  BY DEF Placed, visitDomain, Visiting
<1>1. /\ Grown(N) /\ n \in N /\ n.t = Top.node /\ n.at = Top.at /\ Top.op \in Ops /\ n.t \in Tree
  BY <1>0, WalkTop
<1>1a. work' = p \o Under /\ n.t.k \in DomainKind
  BY <1>0, <1>1
<1> HIDE DEF n
<1>2. /\ p \in Stacks /\ len \in Nat /\ len >= 1 /\ DOMAIN p = 1 .. len
      /\ DOMAIN n.t.kids = 1 .. len
      /\ \A a \in 1 .. len - 1 : p[a] = Kid(n.t, n.at, a)
      /\ p[len] = g
  BY <1>1, <1>1a, DomainItems
<1>3. g.op = "enter" /\ NodeOf(g) = n /\ g.node = n.t /\ Deals(N, g, n, B)
  <2>1. "enter" \in Ops /\ n.t.kids # <<>>
    BY <1>1, <1>1a, NodeShape DEF Ops
  <2> HIDE DEF g
  <2> QED
    BY ONLY <1>1, <2>1, OwnItem, Whole(N) DEF g
<1>4. Fits(g)
  BY <1>1a, <1>3 DEF Fits
<1>5. \A k \in 1 .. len : /\ IsKid(Kid(n.t, n.at, k), n, k) /\ Kid(n.t, n.at, k).op = "visit"
                          /\ Fits(Kid(n.t, n.at, k)) /\ Deals(N, Kid(n.t, n.at, k), n, {k})
  BY ONLY <1>1, <1>2, KidItem, Whole(N)
<1>6. B = {i \in Int : i <= 0} \union {len}
  BY DEF Branches
<1> HIDE DEF p, len, g, B
<1>7. ASSUME NEW a \in DOMAIN p
      PROVE  \/ a = len /\ p[a] = g /\ R[a] = B
             \/ a \in 1 .. len - 1 /\ p[a] = Kid(n.t, n.at, a) /\ R[a] = {a}
  <2>1. CASE a = len
    BY <1>2, <2>1
  <2>2. CASE a # len
    <3>1. a \in 1 .. len - 1 /\ a < len
      BY <1>2, <2>2
    <3> QED
      BY <1>2, <3>1
  <2> QED
    BY <2>1, <2>2
<1>8. len \in DOMAIN p /\ R[len] = B
  BY <1>2
<1>8a. \A a \in 1 .. len - 1 : a \in DOMAIN p /\ R[a] = {a} /\ a \in 1 .. len
  BY <1>2
<1>9. \A a \in 1 .. len - 1 : {a} \intersect B = {} /\ a \in Int /\ a <= len
  BY <1>2, <1>6
<1> HIDE DEF R
<1>10. \A a, c \in DOMAIN p : a # c => R[a] \intersect R[c] = {}
  BY <1>7, <1>9
<1>11. Branches(Top.op, n.t) = Int
  BY <1>0 DEF Branches
<1>12. n.t.k \notin {"declaration"} \union RoutineKind
  BY <1>1a DEF RoutineKind, Routines, Forwards, DomainKind
<1>13. Shares(N, Top, n, p, R)
  <2>1. ASSUME NEW a \in DOMAIN p PROVE Deals(N, p[a], n, R[a]) /\ R[a] \subseteq Int
    <3>1. B \subseteq Int
      BY <1>2, <1>6
    <3> QED
      BY <1>3, <1>5, <1>7, <1>8a, <1>9, <3>1
  <2>2. ASSUME NEW a \in 1 .. len - 1 PROVE KidOrder(N, Top, n, p, R, a, a)
    <3> SUFFICES ASSUME NEW s \in SitesIn(N), s.owner = n.at
                 PROVE  LET b == BranchAt(n, s.place) IN
                        /\ b \in Branches(Top.op, n.t)
                        /\ IF a >= s.from THEN \A c \in DOMAIN p : c > a => b \notin R[c]
                           ELSE \E c \in DOMAIN p : c >= a /\ b \in R[c]
      BY DEF KidOrder
    <3> DEFINE b == BranchAt(n, s.place)
    <3>1. b \in Int /\ b < 0 /\ s.from = len
      <4>1. n.t.k \notin {"program", "block"}
        BY <1>1a DEF DomainKind
      <4> QED
        BY <1>1, <1>1a, <4>1, SitesOfScope DEF BranchAt, Base, len
    <3> HIDE DEF b
    <3>2. ~(a >= s.from) /\ len >= a
      BY <1>2, <3>1
    <3>3. b \in B
      BY <1>6, <3>1
    <3> QED
      BY <1>8, <1>11, <3>1, <3>2, <3>3 DEF b
  <2>3. ASSUME NEW a \in DOMAIN p
        PROVE  /\ Fits(p[a]) /\ p[a].op # "arity"
               /\ \/ NodeOf(p[a]) = n
                  \/ \E k \in DOMAIN n.t.kids : IsKid(p[a], n, k) /\ KidOrder(N, Top, n, p, R, a, k)
    <3>1. CASE a = len /\ p[a] = g
      BY <1>3, <1>4, <3>1
    <3>2. CASE a \in 1 .. len - 1 /\ p[a] = Kid(n.t, n.at, a)
      BY <1>2, <1>5, <1>8a, <2>2, <3>2
    <3> QED
      BY <1>7, <3>1, <3>2
  <2> QED
    BY <1>10, <1>11, <1>12, <2>1, <2>3 DEF Shares
<1>14. {} = {i \in Nat : -i \in Branches(Top.op, Top.node) /\ \A a \in DOMAIN p : -i \notin R[a]}
  <2>1. \A i \in Nat : -i \in B
    BY <1>6
  <2> QED
    BY <1>8, <2>1
<1>15. \A k \in DOMAIN Top.node.kids : \E a \in DOMAIN p : k \in R[a]
  <2> SUFFICES ASSUME NEW k \in 1 .. len PROVE \E a \in DOMAIN p : k \in R[a]
    BY <1>1, <1>2
  <2>1. k = len \/ k \in 1 .. len - 1
    BY <1>2
  <2>2. len \in B
    BY <1>6
  <2> QED
    BY <1>8, <1>8a, <2>1, <2>2
<1> QED
  BY <1>0, <1>1a, <1>2, <1>13, <1>14, <1>15, Replaces DEF n

(* A new scope, and in it one child.                                       *)
LEMMA EnterWalk ==
  ASSUME IInv, work # <<>>, NEW N, Whole(N), Walk(work, N), Top.op \in {"enter", "body"},
         NEW k, k = IF Top.op = "enter" THEN Len(Top.node.kids) ELSE 1,
         NEW s \in Nat,
         work' = <<Kid(Top.node, Top.at, k), CloseScope(Top.node, s)>> \o Under
  PROVE  /\ Walk(work', N)
         /\ Advances(work, work', N, NodeOf(Top), IF Top.op = "enter" THEN Nat ELSE Nat \ {1})
<1> DEFINE n == NodeOf(Top)
           g == Kid(n.t, n.at, k)
           c == CloseScope(n.t, s)
           p == <<g, c>>
           R == [a \in {1, 2} |-> IF a = 1 THEN {k} ELSE {}]
           I == IF Top.op = "enter" THEN Nat ELSE Nat \ {1}
<1>0. Placed(Top)
  BY DEF Placed
<1>1. /\ Grown(N) /\ n \in N /\ n.t = Top.node /\ n.at = Top.at /\ Top.op \in Ops /\ Fits(Top)
      /\ n.t \in Tree /\ n.at \in Seq(Int)
  BY <1>0, WalkTop
<1>1a. /\ work' = p \o Under
       /\ Top.op = "enter" => n.t.k \in DomainKind
       /\ Top.op = "body" => n.t.k \in Routines
  BY <1>1 DEF Fits
<1> HIDE DEF n
<1>2. k \in DOMAIN n.t.kids /\ k = Base(n.t) /\ k \in Int /\ k > 0 /\ k = IF Top.op = "enter" THEN Len(n.t.kids) ELSE 1
  <2>1. /\ n.t.kids \in Seq(Tree) /\ (n.t.k \in DomainKind => Len(n.t.kids) >= 1)
        /\ (n.t.k \in Routines => Len(n.t.kids) = 1)
    BY <1>1, NodeKind
  <2>2. n.t.k \in Routines => n.t.k \notin DomainKind
    BY DEF Routines, DomainKind
  <2> QED
    BY <1>1, <1>1a, <2>1, <2>2 DEF Base
<1>3. IsKid(g, n, k) /\ g.op = "visit" /\ Fits(g) /\ Deals(N, g, n, {k})
  BY ONLY <1>1, <1>2, KidItem, Whole(N)
<1>4. g \in Frames /\ c \in Frames /\ ~Placed(c)
  <2>1. g \in Frames
    <3>1. k \in 1 .. Len(n.t.kids) /\ n.t \in Tree /\ n.at \in Seq(Int)
      BY <1>1, <1>2, NodeKind
    <3> QED
      BY ONLY <3>1, KidsShape
  <2>2. c \in Frames /\ c.op = "close"
    <3>1. n.t \in Tree /\ s \in Nat
      BY <1>1
    <3> QED
      BY ONLY <3>1, CloseFrame DEF CloseScope, Within
  <2> QED
    BY <2>1, <2>2 DEF Placed
<1>5. p \in Stacks /\ DOMAIN p = {1, 2} /\ p[1] = g /\ p[2] = c
  BY <1>4 DEF Stacks
<1>6. Deals(N, c, n, {})
  BY <1>4, NothingDeals
<1> HIDE DEF p, g, c
<1>7. /\ Branches(Top.op, n.t) = {i \in Int : i <= 0 /\ (Top.op = "body" => i # -1)} \union {k}
  BY <1>2 DEF Branches
<1>8. n.t.k # "declaration" /\ R[1] = {k} /\ R[2] = {}
  BY <1>1a DEF Routines, DomainKind
<1>9. KidOrder(N, Top, n, p, R, 1, k)
  <2> SUFFICES ASSUME NEW z \in SitesIn(N), z.owner = n.at
               PROVE  LET b == BranchAt(n, z.place) IN
                      /\ b \in Branches(Top.op, n.t)
                      /\ IF k >= z.from THEN \A d \in DOMAIN p : d > 1 => b \notin R[d]
                         ELSE \E d \in DOMAIN p : d >= 1 /\ b \in R[d]
    BY DEF KidOrder
  <2> DEFINE b == BranchAt(n, z.place)
  <2>1. b \in Int /\ b < 0 /\ z.from = k /\ (n.t.k \in Routines => b # -1)
    <3>1. n.t.k \notin {"program", "block"}
      BY <1>1a DEF DomainKind, Routines
    <3> QED
      BY <1>1, <1>2, <3>1, SitesOfScope DEF BranchAt
  <2> HIDE DEF b
  <2>2. b \in Branches(Top.op, n.t)
    BY <1>1a, <1>7, <2>1
  <2>3. k >= z.from /\ \A d \in DOMAIN p : d > 1 => b \notin R[d]
    BY <1>2, <1>5, <1>8, <2>1
  <2> QED
    BY <2>2, <2>3 DEF b
<1>10. Shares(N, Top, n, p, R)
  <2>1. \A a \in DOMAIN p : Deals(N, p[a], n, R[a]) /\ R[a] \subseteq Branches(Top.op, n.t)
    BY <1>3, <1>5, <1>6, <1>7, <1>8
  <2>2. \A a, d \in DOMAIN p : a # d => R[a] \intersect R[d] = {}
    BY <1>5, <1>8
  <2>3. \A a \in DOMAIN p : Placed(p[a]) => a = 1 /\ p[a] = g
    BY <1>4, <1>5
  <2>4. \A d \in DOMAIN p : d > 1 => -1 \notin R[d]
    BY <1>5, <1>8
  <2> HIDE DEF R
  <2> QED
    BY <1>2, <1>3, <1>8, <1>9, <2>1, <2>2, <2>3, <2>4 DEF Shares
<1>11. I = {i \in Nat : -i \in Branches(Top.op, Top.node) /\ \A a \in DOMAIN p : -i \notin R[a]}
  <2>1. \A i \in Nat : -i # k /\ \A a \in DOMAIN p : -i \notin R[a]
    BY <1>2, <1>5, <1>8
  <2>2. \A i \in Nat : -i \in Branches(Top.op, Top.node) <=> (Top.op = "body" => i # 1)
    BY <1>1, <1>2, <1>7
  <2> QED
    BY <2>1, <2>2
<1>12. \A h \in DOMAIN Top.node.kids : h \in Branches(Top.op, Top.node) => \E a \in DOMAIN p : h \in R[a]
  <2>1. Top.node.kids \in Seq(Tree)
    BY <1>1, NodeKind
  <2> QED
    BY <1>1, <1>5, <1>7, <1>8, <2>1
<1> HIDE DEF R, I
<1> QED
  BY <1>0, <1>1a, <1>5, <1>10, <1>11, <1>12, Replaces DEF n, I
-----------------------------------------------------------------------------
LEMMA ChildrenWalk ==
  ASSUME IInv, NEW N, Whole(N), Walk(work, N), visitChildren
  PROVE  Walk(work', N) /\ Advances(work, work', N, NodeOf(Top), Nat)
<1>0. /\ Top.op = "visit" /\ work # <<>> /\ work' = Kids(Top.node, Top.at) \o Under
      /\ Top.node.k \in {"program", "assignment", "destruct", "output", "return", "tuple",
                         "member", "literal"}
  BY DEF visitChildren, Visiting
<1>1. /\ Top.node.k = "program" \/
           Top.node.k \notin {"name"} \union RoutineKind \union CallKind \union DomainKind
      /\ Top.node.k # "declaration"
  BY <1>0 DEF RoutineKind, Routines, Forwards, CallKind, DomainKind
<1>2. <<>> \in Stacks /\ DOMAIN <<>> = {} /\ <<>> # <<Item("declare", Top.node, Top.at)>>
  BY DEF Stacks
<1>3. Kids(Top.node, Top.at) \in Stacks
  BY <1>0, TopShape, KidsShape
<1>4. work' = (Kids(Top.node, Top.at) \o <<>>) \o Under
  <2> DEFINE k == Kids(Top.node, Top.at)
  <2>1. k \o <<>> = k
    BY <1>3 DEF Stacks
  <2> QED
    BY <1>0, <2>1
<1> QED
  BY <1>0, <1>1, <1>2, <1>4, KidsWalk

LEMMA DeclarationWalk ==
  ASSUME IInv, NEW N, Whole(N), Walk(work, N), visitDeclaration
  PROVE  Walk(work', N) /\ Advances(work, work', N, NodeOf(Top), Nat \ {1})
<1> DEFINE last == <<Item("declare", Top.node, Top.at)>>
<1>0. /\ Top.op = "visit" /\ work # <<>> /\ Top.node.k = "declaration"
      /\ work' = (Kids(Top.node, Top.at) \o last) \o Under
  BY DEF visitDeclaration, Visiting
<1>1. Top.node.k \notin {"name"} \union RoutineKind \union CallKind \union DomainKind
  BY <1>0 DEF RoutineKind, Routines, Forwards, CallKind, DomainKind
<1>2. last \in Stacks /\ DOMAIN last = {1} /\ last[1] = Item("declare", Top.node, Top.at)
  <2>1. Item("declare", Top.node, Top.at) \in Frames
    <3>1. Top.node \in Tree /\ Top.at \in Seq(Int) /\ Top.node.xs # <<>> /\ "declare" \in Ops /\ 0 \in Nat
      BY <1>0, TopShape, NodeShape DEF Ops
    <3> QED
      BY <3>1, ItemShape
  <2> QED
    BY <2>1 DEF Stacks
<1>3. \A i \in DOMAIN last : last[i] = Item("declare", Top.node, Top.at)
  BY <1>2
<1> QED
  BY <1>0, <1>1, <1>2, <1>3, KidsWalk

LEMMA BlockWalk ==
  ASSUME IInv, NEW N, Whole(N), Walk(work, N), visitBlock
  PROVE  Walk(work', N) /\ Advances(work, work', N, NodeOf(Top), Nat)
<1> DEFINE c == CloseScope(Top.node, Len(scopes) + 1)
           last == <<c>>
<1>0. /\ Top.op = "visit" /\ work # <<>> /\ Top.node.k = "block"
      /\ work' = (Kids(Top.node, Top.at) \o last) \o Under
  BY DEF visitBlock, Visiting
<1>1. c \in Frames /\ c.op = "close"
  BY <1>0, TopShape, CloseFrame DEF IInv, Shapes, Trees
<1>2. last \in Stacks /\ DOMAIN last = {1} /\ last[1] = c
  BY <1>1 DEF Stacks
<1>3. \A i \in DOMAIN last : ~Placed(last[i])
  BY <1>1, <1>2 DEF Placed
<1>4. last # <<Item("declare", Top.node, Top.at)>>
  <2>1. Item("declare", Top.node, Top.at).op = "declare"
    BY DEF Item
  <2>2. Item("declare", Top.node, Top.at) # c
    BY <1>1, <2>1
  <2> QED
    BY <2>2
<1> HIDE DEF last
<1> QED
  BY <1>0, <1>2, <1>3, <1>4, KidsWalk

LEMMA EnterDomainWalk ==
  ASSUME IInv, NEW N, Whole(N), Walk(work, N), EnterDomain, verdict' = "running"
  PROVE  Walk(work', N) /\ Advances(work, work', N, NodeOf(Top), Nat)
<1>1. /\ Top.op = "enter" /\ work # <<>>
      /\ work' = <<Kid(Top.node, Top.at, Len(Top.node.kids)), CloseScope(Top.node, Len(scopes) + 1)>>
                   \o Under
  BY DEF EnterDomain, Resuming, Throw
<1>2. Len(scopes) + 1 \in Nat
  BY DEF IInv, Shapes, Trees
<1> QED
  BY <1>1, <1>2, EnterWalk

LEMMA EnterRoutineWalk ==
  ASSUME IInv, NEW N, Whole(N), Walk(work, N), EnterRoutine, verdict' = "running"
  PROVE  Walk(work', N) /\ Advances(work, work', N, NodeOf(Top), Nat \ {1})
<1>1. /\ Top.op = "body" /\ work # <<>>
      /\ work' = <<Kid(Top.node, Top.at, 1), CloseScope(Top.node, Len(scopes) + 1)>> \o Under
  BY DEF EnterRoutine, Resuming, Throw
<1>2. Len(scopes) + 1 \in Nat
  BY DEF IInv, Shapes, Trees
<1> QED
  BY <1>1, <1>2, EnterWalk

(* A lookup and the end of a scope bring about nothing.                    *)
LEMMA SilentWalk ==
  ASSUME IInv, NEW N, Whole(N), Walk(work, N), Resolve \/ Close
  PROVE  Walk(work', N) /\ \A e : Pending(work', 1, e) <=> Pending(work, 1, e)
<1>0. work # <<>> /\ Top.op \in {"resolve", "close"}
  BY DEF Resolve, Close, Resuming
<1>1. /\ Under \in Stacks /\ Walk(Under, N)
      /\ \A e : Pending(work, 1, e) <=> Pends(Top, e) \/ Pending(Under, 1, e)
  BY <1>0, WalkTop
<1>2. \A e : ~Pends(Top, e)
  BY <1>0 DEF Pends
<1>3. CASE work' = Under
  BY <1>1, <1>2, <1>3
<1>4. ASSUME Top.op = "resolve", work' = <<[Top EXCEPT !.scope = Climb[1]]>> \o Under, Climb[2]
      PROVE  Walk(work', N) /\ \A e : Pending(work', 1, e) <=> Pending(work, 1, e)
  <2> DEFINE g == [Top EXCEPT !.scope = Climb[1]]
             p == <<g>>
  <2>1. Top \in Frames /\ Climb[1] \in Nat
    BY <1>0, <1>4, TopShape, ClimbShape DEF IInv, Shapes, Trees
  <2>2. g \in Frames /\ g.op = "resolve"
    BY <1>4, <2>1 DEF Frames
  <2> HIDE DEF g
  <2>3. p \in Stacks /\ DOMAIN p = {1} /\ p[1] = g /\ Len(p) = 1
    BY <2>2 DEF Stacks
  <2>4. \A a \in DOMAIN p : ~Placed(p[a]) /\ (\A e : ~Pends(p[a], e)) /\ p[a].op # "arity"
    BY <2>2, <2>3 DEF Placed, Pends
  <2>5. Piece(p, Under, N)
    BY <2>3, <2>4 DEF Piece, Matched, Disjoint
  <2>6. Walk(p \o Under, N)
    BY <1>1, <2>3, <2>5, WalkJoin
  <2>7. \A e : Pending(p \o Under, 1, e) <=> Pending(p, 1, e) \/ Pending(Under, 1, e)
    <3>1. 1 \in 1 .. Len(p) + 1
      BY <2>3
    <3> QED
      BY <1>1, <2>3, <3>1, PendingConcat
  <2>8. \A e : ~Pending(p, 1, e)
    BY <2>4 DEF Pending
  <2> QED
    BY <1>1, <1>2, <1>4, <2>6, <2>7, <2>8 DEF g
<1> QED
  BY <1>0, <1>3, <1>4 DEF Resolve, Close, Resuming
-----------------------------------------------------------------------------
(* O[r] is the node that opened scope r.  The scopes in which the items of *)
(* the stack will be reached, from the current one on, are the homes of    *)
(* their nodes.                                                            *)
Lies(w, C, tree, O, N) ==
  /\ DOMAIN C = 1 .. Len(w) + 1
  /\ \A j \in DOMAIN C : C[j] \in DOMAIN tree
  /\ \A j \in DOMAIN w : C[j + 1] = IF Closes(w, j) THEN tree[C[j]].parent ELSE C[j]
  /\ \A j \in DOMAIN w : Placed(w[j]) => Home(N, O[C[j]], w[j].at)

Laid(w, cur, tree, O, N) == \E C : Lies(w, C, tree, O, N) /\ C[1] = cur

Keeps(new, P, tree, O) ==
  \A r \in DOMAIN tree : r \in DOMAIN new /\ new[r].parent = tree[r].parent /\ P[r] = O[r]

LEMMA LaidTail ==
  ASSUME NEW w \in Stacks, w # <<>>, NEW cur, NEW tree, NEW O, NEW N, Laid(w, cur, tree, O, N)
  PROVE  LET next == IF Closes(w, 1) THEN tree[cur].parent ELSE cur IN
         /\ next \in DOMAIN tree /\ cur \in DOMAIN tree
         /\ Laid(Tail(w), next, tree, O, N)
         /\ Placed(w[1]) => Home(N, O[cur], w[1].at)
<1> DEFINE next == IF Closes(w, 1) THEN tree[cur].parent ELSE cur
<1>1. /\ Tail(w) \in Stacks /\ Len(w) \in Nat /\ Len(w) >= 1 /\ DOMAIN w = 1 .. Len(w)
      /\ DOMAIN Tail(w) = 1 .. Len(w) - 1 /\ Len(Tail(w)) = Len(w) - 1
      /\ \A i \in 1 .. Len(w) - 1 : Tail(w)[i] = w[i + 1]
  BY TailOf DEF Stacks
<1>2. PICK C : Lies(w, C, tree, O, N) /\ C[1] = cur
  BY DEF Laid
<1> DEFINE B == [j \in 1 .. Len(w) |-> C[j + 1]]
<1>3. /\ \A j \in 1 .. Len(w) + 1 : C[j] \in DOMAIN tree
      /\ \A j \in 1 .. Len(w) : C[j + 1] = IF Closes(w, j) THEN tree[C[j]].parent ELSE C[j]
      /\ \A j \in 1 .. Len(w) : Placed(w[j]) => Home(N, O[C[j]], w[j].at)
  BY <1>1, <1>2 DEF Lies
<1>4. C[2] = next /\ next \in DOMAIN tree /\ cur \in DOMAIN tree
  BY <1>1, <1>2, <1>3
<1>5. \A j \in 1 .. Len(w) - 1 : Closes(Tail(w), j) <=> Closes(w, j + 1)
  BY <1>1 DEF Closes
<1>6. \A j \in 1 .. Len(w) - 1 :
        B[j + 1] = IF Closes(Tail(w), j) THEN tree[B[j]].parent ELSE B[j]
  <2> TAKE j \in 1 .. Len(w) - 1
  <2>1. j \in 1 .. Len(w) /\ j + 1 \in 1 .. Len(w) /\ B[j] = C[j + 1] /\ B[j + 1] = C[(j + 1) + 1]
    BY <1>1
  <2> QED BY <2>1, <1>3, <1>5
<1>7. \A j \in 1 .. Len(w) - 1 : Placed(Tail(w)[j]) => Home(N, O[B[j]], Tail(w)[j].at)
  <2> TAKE j \in 1 .. Len(w) - 1
  <2>1. j \in 1 .. Len(w) /\ j + 1 \in 1 .. Len(w) /\ B[j] = C[j + 1] /\ Tail(w)[j] = w[j + 1]
    BY <1>1
  <2> QED BY <2>1, <1>3
<1>8. /\ DOMAIN B = 1 .. Len(Tail(w)) + 1 /\ \A j \in DOMAIN B : B[j] \in DOMAIN tree
      /\ B[1] = next
  BY <1>1, <1>3, <1>4
<1>9. Lies(Tail(w), B, tree, O, N)
  BY <1>1, <1>6, <1>7, <1>8 DEF Lies
<1> QED BY <1>1, <1>2, <1>3, <1>4, <1>8, <1>9 DEF Laid

LEMMA LaidKeeps ==
  ASSUME NEW w, NEW cur, NEW tree, NEW O, NEW N, Laid(w, cur, tree, O, N),
         NEW new, NEW P, Keeps(new, P, tree, O), Len(w) \in Nat, DOMAIN w = 1 .. Len(w)
  PROVE  Laid(w, cur, new, P, N)
<1>1. PICK C : Lies(w, C, tree, O, N) /\ C[1] = cur
  BY DEF Laid
<1>2. \A j \in DOMAIN w : j \in DOMAIN C
  BY <1>1 DEF Lies
<1>3. Lies(w, C, new, P, N)
  BY <1>1, <1>2 DEF Lies, Keeps
<1> QED BY <1>1, <1>3 DEF Laid

(* Items of scope c in front of a stack laid from scope r: only the last   *)
(* of them may close c.                                                    *)
LEMMA LaidJoin ==
  ASSUME NEW p \in Stacks, NEW q \in Stacks, NEW tree, NEW O, NEW N,
         NEW c \in DOMAIN tree, NEW r, Laid(q, r, tree, O, N),
         \A a \in DOMAIN p : Closes(p, a) => a = Len(p),
         r = IF p # <<>> /\ Closes(p, Len(p)) THEN tree[c].parent ELSE c,
         \A a \in DOMAIN p : Placed(p[a]) => Home(N, O[c], p[a].at)
  PROVE  Laid(p \o q, c, tree, O, N)
<1>1. PICK B : Lies(q, B, tree, O, N) /\ B[1] = r
  BY DEF Laid
<1>2. /\ p \o q \in Stacks /\ Len(p) \in Nat /\ Len(q) \in Nat
      /\ Len(p \o q) = Len(p) + Len(q) /\ DOMAIN (p \o q) = 1 .. Len(p) + Len(q)
      /\ DOMAIN p = 1 .. Len(p) /\ DOMAIN q = 1 .. Len(q)
      /\ \A i \in 1 .. Len(p) : (p \o q)[i] = p[i]
      /\ \A i \in 1 .. Len(q) : (p \o q)[Len(p) + i] = q[i]
      /\ p # <<>> <=> Len(p) > 0
  BY Joined DEF Stacks
<1> DEFINE w == p \o q
           m == Len(p)
           C == [j \in 1 .. Len(w) + 1 |-> IF j <= m THEN c ELSE B[j - m]]
<1>3. /\ \A j \in 1 .. Len(q) + 1 : B[j] \in DOMAIN tree
      /\ \A j \in 1 .. Len(q) : B[j + 1] = IF Closes(q, j) THEN tree[B[j]].parent ELSE B[j]
      /\ \A j \in 1 .. Len(q) : Placed(q[j]) => Home(N, O[B[j]], q[j].at)
  BY <1>1, <1>2 DEF Lies
<1>4. ASSUME NEW j \in 1 .. m
      PROVE  /\ C[j] = c /\ C[j] \in DOMAIN tree
             /\ C[j + 1] = IF Closes(w, j) THEN tree[C[j]].parent ELSE C[j]
             /\ Placed(w[j]) => Home(N, O[C[j]], w[j].at)
  <2>0. j \in Int /\ 1 <= j /\ j <= m /\ m \in Nat /\ Len(q) \in Nat /\ Len(w) = m + Len(q)
    BY <1>2
  <2>1. C[j] = c /\ w[j] = p[j] /\ j \in DOMAIN p /\ (Closes(w, j) <=> Closes(p, j)) /\ p # <<>>
    BY <1>2 DEF Closes
  <2>2. CASE j < m
    <3>1. j + 1 <= m /\ j + 1 \in 1 .. Len(w) + 1 /\ j # m
      BY <2>2, <2>0
    <3>2. C[j + 1] = c
      BY <3>1
    <3> QED BY <2>1, <3>1, <3>2, <1>2
  <2>3. CASE j = m
    <3>1. C[j + 1] = B[1]
      BY <2>3, <1>2
    <3> QED BY <2>1, <3>1, <2>3, <1>1
  <2>4. j < m \/ j = m
    BY ONLY <2>0
  <2> QED BY <2>2, <2>3, <2>4
<1>5. ASSUME NEW i \in 1 .. Len(q)
      PROVE  /\ C[m + i] = B[i] /\ C[(m + i) + 1] = B[i + 1] /\ C[m + i] \in DOMAIN tree
             /\ C[(m + i) + 1] = IF Closes(w, m + i) THEN tree[C[m + i]].parent ELSE C[m + i]
             /\ Placed(w[m + i]) => Home(N, O[C[m + i]], w[m + i].at)
  <2>1. /\ m + i \in 1 .. Len(w) + 1 /\ ~(m + i <= m) /\ (m + i) - m = i
        /\ (m + i) + 1 \in 1 .. Len(w) + 1 /\ ~((m + i) + 1 <= m) /\ ((m + i) + 1) - m = i + 1
        /\ i \in 1 .. Len(q) + 1
    BY <1>2
  <2>2. C[m + i] = B[i] /\ C[(m + i) + 1] = B[i + 1]
    BY <2>1
  <2>3. w[m + i] = q[i] /\ (Closes(w, m + i) <=> Closes(q, i))
    BY <1>2 DEF Closes
  <2> QED BY <2>1, <2>2, <2>3, <1>3
<1>6. C[1] = c
  <2>1. CASE m > 0
    BY <2>1, <1>2
  <2>2. CASE m = 0
    <3>1. C[1] = B[1]
      BY <2>2, <1>2
    <3> QED BY <3>1, <2>2, <1>1, <1>2
  <2> QED BY <2>1, <2>2, <1>2
<1>7. C[Len(w) + 1] \in DOMAIN tree
  <2>1. C[Len(w) + 1] = B[Len(q) + 1]
    <3>1. ~(Len(w) + 1 <= m) /\ (Len(w) + 1) - m = Len(q) + 1 /\ Len(w) + 1 \in 1 .. Len(w) + 1
      BY <1>2
    <3> QED BY <3>1
  <2>2. Len(q) + 1 \in 1 .. Len(q) + 1
    BY <1>2
  <2> QED BY <2>1, <2>2, <1>3
<1>8. \A j \in 1 .. Len(w) : j \in 1 .. m \/ \E i \in 1 .. Len(q) : j = m + i
  <2> TAKE j \in 1 .. Len(w)
  <2>1. CASE j <= m
    BY <2>1, <1>2
  <2>2. CASE j > m
    <3>1. j - m \in 1 .. Len(q) /\ j = m + (j - m)
      BY <2>2, <1>2
    <3> QED BY <3>1
  <2> QED BY <2>1, <2>2, <1>2
<1> HIDE DEF C
<1>9. \A j \in 1 .. Len(w) :
        /\ C[j] \in DOMAIN tree
        /\ C[j + 1] = IF Closes(w, j) THEN tree[C[j]].parent ELSE C[j]
        /\ Placed(w[j]) => Home(N, O[C[j]], w[j].at)
  <2> HIDE DEF w, m
  <2> TAKE j \in 1 .. Len(w)
  <2>1. CASE j \in 1 .. m
    BY <2>1, <1>4
  <2>2. CASE \E i \in 1 .. Len(q) : j = m + i
    BY <2>2, <1>5
  <2> QED BY <2>1, <2>2, <1>8
<1>10. DOMAIN C = 1 .. Len(w) + 1
  BY DEF C
<1>11. \A j \in 1 .. Len(w) + 1 : j \in 1 .. Len(w) \/ j = Len(w) + 1
  BY <1>2
<1>12. Lies(w, C, tree, O, N)
  BY <1>2, <1>7, <1>9, <1>10, <1>11 DEF Lies
<1> QED BY <1>6, <1>12 DEF Laid
-----------------------------------------------------------------------------
(* Scopes are opened by different nodes, once each, and the parent of a    *)
(* scope is the home of the node that opened it.                           *)
Owned(N, O, tree, w) ==
  /\ DOMAIN O = DOMAIN tree
  /\ \A r \in DOMAIN O : O[r] \in N /\ O[r].t.k \in Openers
  /\ \A r, q \in DOMAIN O : O[r].at = O[q].at => r = q
  /\ 1 \in DOMAIN O /\ O[1].at = <<>>
  /\ \A r \in DOMAIN O : r # 1 =>
       /\ ~Pending(w, 1, NameAt(O[r].at, 0))
       /\ tree[r].parent \in DOMAIN O /\ Home(N, O[tree[r].parent], O[r].at)

LEMMA OwnedKeeps ==
  ASSUME NEW N, Grown(N), NEW O, NEW tree, NEW w, Owned(N, O, tree, w),
         NEW v, \A e \in Events(N) : Pending(v, 1, e) => Pending(w, 1, e),
         NEW new, DOMAIN new = DOMAIN tree, \A r \in DOMAIN tree : new[r].parent = tree[r].parent
  PROVE  Owned(N, O, new, v)
<1>1. \A r \in DOMAIN O : NameAt(O[r].at, 0) \in Events(N)
  BY OwnEvent DEF Owned
<1> QED BY <1>1 DEF Owned

LEMMA OwnedOpen ==
  ASSUME NEW N, Whole(N), NEW O, NEW tree, NEW w, Owned(N, O, tree, w),
         NEW v, \A e \in Events(N) : Pending(v, 1, e) => Pending(w, 1, e),
         NEW cur \in DOMAIN tree, NEW n \in N, n.t.k \in Openers, n.t.k # "program",
         Home(N, O[cur], n.at), Pending(w, 1, NameAt(n.at, 0)), ~Pending(v, 1, NameAt(n.at, 0)),
         NEW new, NEW k, k \notin DOMAIN tree, k # 1, DOMAIN new = DOMAIN tree \union {k},
         \A r \in DOMAIN tree : new[r].parent = tree[r].parent, new[k].parent = cur,
         NEW P, P = [r \in DOMAIN new |-> IF r = k THEN n ELSE O[r]]
  PROVE  Owned(N, P, new, v) /\ Keeps(new, P, tree, O)
<1>1. Grown(N) /\ n.at # <<>> /\ n.at \in Seq(Int)
  BY RootKind, NodeIs DEF Whole
<1>2. DOMAIN P = DOMAIN new /\ P[k] = n /\ \A r \in DOMAIN tree : P[r] = O[r] /\ r # k
  OBVIOUS
<1>3. \A r \in DOMAIN tree : O[r] \in N /\ NameAt(O[r].at, 0) \in Events(N) /\ O[r].at \in Seq(Int)
  BY <1>1, OwnEvent, NodeIs DEF Owned
<1>4. NameAt(n.at, 0) \in Events(N)
  BY <1>1, OwnEvent
<1>5. \A r \in DOMAIN tree : O[r].at # n.at
  <2> SUFFICES ASSUME NEW r \in DOMAIN tree, O[r].at = n.at PROVE FALSE
    OBVIOUS
  <2> QED BY <1>1, <1>3 DEF Owned
<1>6. \A r, q \in DOMAIN P : P[r].at = P[q].at => r = q
  BY <1>2, <1>5 DEF Owned
<1>7. \A r \in DOMAIN P : P[r] \in N /\ P[r].t.k \in Openers
  BY <1>2 DEF Owned
<1>8. ASSUME NEW r \in DOMAIN P, r # 1
      PROVE  /\ ~Pending(v, 1, NameAt(P[r].at, 0))
             /\ new[r].parent \in DOMAIN P /\ Home(N, P[new[r].parent], P[r].at)
  <2>1. CASE r = k
    BY <2>1, <1>2
  <2>2. CASE r \in DOMAIN tree
    <3>1. tree[r].parent \in DOMAIN tree /\ new[r].parent = tree[r].parent
      BY <2>2, <1>8 DEF Owned
    <3> QED BY <2>2, <1>2, <1>3, <1>8, <3>1 DEF Owned
  <2> QED BY <2>1, <2>2, <1>2
<1>9. 1 \in DOMAIN P /\ P[1].at = <<>>
  BY <1>2 DEF Owned
<1> QED BY <1>2, <1>6, <1>7, <1>8, <1>9 DEF Owned, Keeps
-----------------------------------------------------------------------------
(* The scopes of a program being walked.                                   *)
Placing(N, O) == Owned(N, O, scopes, work) /\ Laid(work, current, scopes, O, N)

LEMMA TopHome ==
  ASSUME IInv, work # <<>>, NEW N, Whole(N), NEW O, Placing(N, O)
  PROVE  /\ current \in DOMAIN scopes /\ O[current] \in N
         /\ Under \in Stacks /\ Len(Under) \in Nat /\ DOMAIN Under = 1 .. Len(Under)
         /\ Laid(Under, IF Top.op = "close" THEN scopes[current].parent ELSE current, scopes, O, N)
         /\ Placed(Top) => Home(N, O[current], Top.at)
<1>1. work \in Stacks /\ scopes \in Trees
  BY DEF IInv, Shapes
<1>2. Under \in Stacks /\ Len(Under) \in Nat /\ DOMAIN Under = 1 .. Len(Under)
  BY <1>1, TailOf DEF Under, Stacks
<1>3. Laid(work, current, scopes, O, N) /\ Owned(N, O, scopes, work)
  BY DEF Placing
<1>4. /\ current \in DOMAIN scopes
      /\ Laid(Under, IF Closes(work, 1) THEN scopes[current].parent ELSE current, scopes, O, N)
      /\ Placed(work[1]) => Home(N, O[current], work[1].at)
  BY <1>1, <1>3, LaidTail DEF Under
<1> QED BY <1>2, <1>3, <1>4 DEF Owned, Closes, Top

LEMMA PopStep ==
  ASSUME IInv, work # <<>>, NEW N, Whole(N), NEW O, Placing(N, O), Placed(Top),
         work' = Under, current' = current,
         DOMAIN scopes' = DOMAIN scopes,
         \A r \in DOMAIN scopes : scopes'[r].parent = scopes[r].parent,
         \A e \in Events(N) : Pending(work', 1, e) => Pending(work, 1, e)
  PROVE  Placing(N, O)'
<1>1. Top.op # "close"
  BY DEF Placed
<1>2. /\ Laid(Under, current, scopes, O, N)
      /\ Len(Under) \in Nat /\ DOMAIN Under = 1 .. Len(Under)
  BY <1>1, TopHome
<1>3. Keeps(scopes', O, scopes, O)
  BY DEF Keeps
<1>4. Laid(work', current', scopes', O, N)
  BY <1>2, <1>3, LaidKeeps
<1>5. Owned(N, O, scopes', work')
  BY OwnedKeeps DEF Placing, Whole
<1> QED BY <1>4, <1>5 DEF Placing

(* Items of a node and of its children that lie in no scope of its own.    *)
LEMMA PlainStep ==
  ASSUME IInv, work # <<>>, NEW N, Whole(N), Walk(work, N), NEW O, Placing(N, O), Placed(Top),
         NEW p \in Stacks, work' = p \o Under, NoCloses(p),
         \A a \in DOMAIN p : Placed(p[a]) =>
           \/ p[a].at = Top.at
           \/ \E k \in DOMAIN Top.node.kids :
                /\ p[a].at = Append(Top.at, k)
                /\ Top.node.k \in Openers => k < Base(Top.node) \/ Top.node.k = "program",
         UNCHANGED <<current, scopes>>,
         \A e \in Events(N) : Pending(work', 1, e) => Pending(work, 1, e)
  PROVE  Placing(N, O)'
<1>1. Top.op # "close"
  BY DEF Placed
<1>2. /\ Laid(Under, current, scopes, O, N) /\ Under \in Stacks
      /\ current \in DOMAIN scopes /\ O[current] \in N /\ Home(N, O[current], Top.at)
  BY <1>1, TopHome
<1>3. /\ NodeOf(Top) \in N /\ NodeOf(Top).t = Top.node /\ NodeOf(Top).at = Top.at
      /\ Grown(N) /\ Top.at \in Seq(Int) /\ Top.node \in Tree
  BY WalkTop
<1>4. \A a \in DOMAIN p : Placed(p[a]) => Home(N, O[current], p[a].at)
  <2> SUFFICES ASSUME NEW a \in DOMAIN p, Placed(p[a])
               PROVE  Home(N, O[current], p[a].at)
    OBVIOUS
  <2>1. CASE p[a].at = Top.at
    BY <2>1, <1>2
  <2>2. ASSUME NEW k \in DOMAIN Top.node.kids, p[a].at = Append(Top.at, k),
               Top.node.k \in Openers => k < Base(Top.node) \/ Top.node.k = "program"
        PROVE  Home(N, O[current], p[a].at)
    <3>1. k \in Int /\ k >= 1
      BY <1>3, NodeKind
    <3>2. CASE Top.node.k = "program"
      <4>1. Top.at = <<>>
        BY <1>3, <3>2, RootKind
      <4>2. O[current].at = <<>>
        BY <1>2, <4>1 DEF Home
      <4>3. O[current] = NodeOf(Top)
        BY <1>2, <1>3, <4>1, <4>2 DEF Grown, OnePath
      <4>4. Top.node.k \in Openers /\ k >= Base(Top.node)
        BY <3>1, <3>2 DEF Openers, Base, DomainKind
      <4> QED BY <4>3, <4>4, <3>1, <1>3, <2>2, HomeOwn
    <3>3. CASE Top.node.k # "program"
      <4>1. Top.at # <<>>
        BY <1>3, <3>3, RootKind
      <4>2. Top.node.k \in Openers => k < Base(Top.node)
        BY <3>3, <2>2
      <4> QED BY <4>1, <4>2, <3>1, <1>2, <1>3, <2>2, HomeKid
    <3> QED BY <3>2, <3>3
  <2> QED BY <2>1, <2>2
<1>5. Laid(p \o Under, current, scopes, O, N)
  <2>1. \A a \in DOMAIN p : ~Closes(p, a)
    BY DEF NoCloses
  <2>2. p # <<>> => Len(p) \in DOMAIN p
    BY DEF Stacks
  <2> QED BY ONLY <2>1, <2>2, <1>2, <1>4, p \in Stacks, LaidJoin
<1>6. Owned(N, O, scopes', work')
  BY OwnedKeeps DEF Placing, Whole
<1> QED BY <1>5, <1>6 DEF Placing

(* A new scope for children of a node.                                     *)
LEMMA OpenStep ==
  ASSUME IInv, work # <<>>, NEW N, Whole(N), Walk(work, N), NEW O, Placing(N, O), Placed(Top),
         NEW p \in Stacks, NoCloses(p), NEW c \in Frames, c.op = "close",
         work' = (p \o <<c>>) \o Under,
         Top.node.k \in Openers, Top.node.k # "program",
         \A a \in DOMAIN p : Placed(p[a]) =>
           \E k \in DOMAIN Top.node.kids : p[a].at = Append(Top.at, k) /\ k >= Base(Top.node),
         current' = Len(scopes) + 1,
         DOMAIN scopes' = DOMAIN scopes \union {Len(scopes) + 1},
         \A r \in DOMAIN scopes : scopes'[r].parent = scopes[r].parent,
         scopes'[Len(scopes) + 1].parent = current,
         \A e \in Events(N) : Pending(work', 1, e) => Pending(work, 1, e),
         ~Pending(work', 1, NameAt(Top.at, 0)), Pends(Top, NameAt(Top.at, 0))
  PROVE  \E P : Placing(N, P)' /\ Keeps(scopes', P, scopes, O) /\ P[Len(scopes) + 1] = NodeOf(Top)
<1> DEFINE k == Len(scopes) + 1
           P == [r \in DOMAIN scopes' |-> IF r = k THEN NodeOf(Top) ELSE O[r]]
<1>1. Top.op # "close"
  BY DEF Placed
<1>2. /\ Laid(Under, current, scopes, O, N) /\ Under \in Stacks
      /\ Len(Under) \in Nat /\ DOMAIN Under = 1 .. Len(Under)
      /\ current \in DOMAIN scopes /\ O[current] \in N /\ Home(N, O[current], Top.at)
  BY <1>1, TopHome
<1>3. /\ NodeOf(Top) \in N /\ NodeOf(Top).t = Top.node /\ NodeOf(Top).at = Top.at
      /\ Grown(N) /\ Top.at \in Seq(Int) /\ Top.node \in Tree
      /\ \A e : Pending(work, 1, e) <=> Pends(Top, e) \/ Pending(Under, 1, e)
  BY WalkTop
<1>4. k \notin DOMAIN scopes /\ k # 1
  BY <1>2 DEF IInv, Shapes, Trees
<1>5. Owned(N, P, scopes', work') /\ Keeps(scopes', P, scopes, O)
  <2>1. Pending(work, 1, NameAt(Top.at, 0))
    BY <1>3
  <2>2. Owned(N, O, scopes, work)
    BY DEF Placing
  <2> HIDE DEF k
  <2>3. /\ DOMAIN scopes' = DOMAIN scopes \union {k} /\ scopes'[k].parent = current
    BY DEF k
  <2>4. \A n \in N : n.t.k \in Openers /\ n.t.k # "program"
           /\ Home(N, O[current], n.at) /\ Pending(work, 1, NameAt(n.at, 0)) /\ ~Pending(work', 1, NameAt(n.at, 0))
          => LET Q == [r \in DOMAIN scopes' |-> IF r = k THEN n ELSE O[r]]
             IN Owned(N, Q, scopes', work') /\ Keeps(scopes', Q, scopes, O)
    BY ONLY <2>2, <2>3, <1>2, <1>4, Whole(N), OwnedOpen,
       \A r \in DOMAIN scopes : scopes'[r].parent = scopes[r].parent,
       \A e \in Events(N) : Pending(work', 1, e) => Pending(work, 1, e)
  <2> QED BY <2>1, <2>4, <1>2, <1>3
<1>6. P[k] = NodeOf(Top) /\ k \in DOMAIN scopes'
  OBVIOUS
<1>7. Laid(Under, current, scopes', P, N)
  BY <1>2, <1>5, LaidKeeps
<1>8. \A a \in DOMAIN p : Placed(p[a]) => Home(N, P[k], p[a].at)
  <2> SUFFICES ASSUME NEW a \in DOMAIN p, Placed(p[a])
               PROVE  Home(N, NodeOf(Top), p[a].at)
    BY <1>6
  <2>1. PICK j \in DOMAIN Top.node.kids : p[a].at = Append(Top.at, j) /\ j >= Base(Top.node)
    OBVIOUS
  <2>2. j \in Int
    BY <1>3, NodeKind
  <2> QED BY <2>1, <2>2, <1>3, HomeOwn
<1>9. /\ <<c>> \in Stacks /\ p \o <<c>> \in Stacks /\ Len(p) \in Nat
      /\ Len(p \o <<c>>) = Len(p) + 1 /\ DOMAIN (p \o <<c>>) = 1 .. Len(p) + 1
      /\ \A i \in 1 .. Len(p) : (p \o <<c>>)[i] = p[i]
      /\ (p \o <<c>>)[Len(p) + 1] = c
  <2>1. <<c>> \in Stacks /\ Len(<<c>>) = 1 /\ <<c>>[1] = c
    BY DEF Stacks
  <2>2. /\ p \o <<c>> \in Stacks /\ Len(p) \in Nat
        /\ Len(p \o <<c>>) = Len(p) + Len(<<c>>)
        /\ DOMAIN (p \o <<c>>) = 1 .. Len(p) + Len(<<c>>)
        /\ \A i \in 1 .. Len(p) : (p \o <<c>>)[i] = p[i]
        /\ \A i \in 1 .. Len(<<c>>) : (p \o <<c>>)[Len(p) + i] = <<c>>[i]
    BY ONLY <2>1, p \in Stacks, Joined
  <2>3. (p \o <<c>>)[Len(p) + 1] = c
    BY <2>1, <2>2
  <2> QED BY <2>1, <2>2, <2>3
<1> DEFINE q == p \o <<c>>
<1> HIDE DEF P, k
<1>10. Laid(q \o Under, k, scopes', P, N)
  <2>1. \A a \in DOMAIN q : a = Len(q) \/ a \in DOMAIN p
    BY <1>9 DEF Stacks
  <2>2. \A a \in DOMAIN p : q[a] = p[a] /\ ~Closes(p, a)
    BY <1>9 DEF NoCloses, Stacks
  <2>3. q[Len(q)] = c /\ Closes(q, Len(q)) /\ ~Placed(c) /\ q # <<>>
    BY <1>9 DEF Closes, Placed
  <2>4. \A a \in DOMAIN q : Placed(q[a]) => Home(N, P[k], q[a].at)
    BY <2>1, <2>2, <2>3, <1>8
  <2>5. \A a \in DOMAIN q : Closes(q, a) => a = Len(q)
    BY <2>1, <2>2 DEF Closes
  <2>6. current = scopes'[k].parent /\ q \in Stacks
    BY <1>9 DEF k
  <2> HIDE DEF q
  <2>7. current = IF q # <<>> /\ Closes(q, Len(q)) THEN scopes'[k].parent ELSE k
    BY <2>3, <2>6
  <2> QED BY ONLY <2>4, <2>5, <2>6, <2>7, <1>2, <1>6, <1>7, LaidJoin
<1>11. Owned(N, P, scopes', work') /\ Laid(work', current', scopes', P, N)
  BY <1>5, <1>10 DEF k
<1>12. Keeps(scopes', P, scopes, O) /\ P[Len(scopes) + 1] = NodeOf(Top)
  BY <1>5, <1>6 DEF k
<1>13. \E S : /\ Owned(N, S, scopes', work') /\ Laid(work', current', scopes', S, N)
               /\ Keeps(scopes', S, scopes, O) /\ S[Len(scopes) + 1] = NodeOf(Top)
  BY <1>11, <1>12
<1> QED BY <1>13 DEF Placing

LEMMA CloseStep ==
  ASSUME IInv, NEW N, Whole(N), Walk(work, N), NEW O, Placing(N, O), Close
  PROVE  Placing(N, O)'
<1>1. /\ work # <<>> /\ Top.op = "close" /\ work' = Under /\ scopes' = scopes
      /\ current' = scopes[current].parent
  BY DEF Close, Resuming
<1>2. Laid(Under, scopes[current].parent, scopes, O, N)
  BY <1>1, TopHome
<1>3. \A e : Pending(work', 1, e) <=> Pending(work, 1, e)
  BY SilentWalk
<1>4. Owned(N, O, scopes', work')
  BY <1>1, <1>3, OwnedKeeps DEF Placing, Whole
<1> QED BY <1>1, <1>2, <1>4 DEF Placing

LEMMA ResolveStep ==
  ASSUME IInv, NEW N, Whole(N), Walk(work, N), NEW O, Placing(N, O), Resolve
  PROVE  Placing(N, O)'
<1>1. /\ work # <<>> /\ Top.op = "resolve" /\ scopes' = scopes /\ current' = current
      /\ work' = <<[Top EXCEPT !.scope = Climb[1]]>> \o Under \/ work' = Under
      /\ Climb[2] => work' = <<[Top EXCEPT !.scope = Climb[1]]>> \o Under
      /\ ~Climb[2] => work' = Under
  BY DEF Resolve, KeepScopes
<1>2. /\ Laid(Under, current, scopes, O, N) /\ Under \in Stacks /\ current \in DOMAIN scopes
  BY <1>1, TopHome
<1>3. \A e : Pending(work', 1, e) <=> Pending(work, 1, e)
  BY SilentWalk
<1>4. Owned(N, O, scopes', work')
  BY <1>1, <1>3, OwnedKeeps DEF Placing, Whole
<1>5. Laid(work', current, scopes, O, N)
  <2>1. CASE Climb[2]
    <3> DEFINE f == [Top EXCEPT !.scope = Climb[1]]
    <3>1. f \in Frames /\ f.op = "resolve"
      <4>1. Top \in Frames
        BY <1>1, TopShape
      <4>2. Climb[1] \in Nat
        BY <1>1, <2>1, ClimbShape DEF IInv, Shapes, Trees
      <4> HIDE DEF Climb
      <4> QED BY <4>1, <4>2, <1>1 DEF Frames
    <3> HIDE DEF f
    <3>2. <<f>> \in Stacks /\ DOMAIN <<f>> = {1} /\ <<f>>[1] = f /\ Len(<<f>>) = 1
      BY <3>1 DEF Stacks
    <3>3. \A a \in DOMAIN <<f>> : ~Closes(<<f>>, a) /\ ~Placed(<<f>>[a])
      BY <3>1, <3>2 DEF Closes, Placed
    <3>4. Laid(<<f>> \o Under, current, scopes, O, N)
      <4>1. <<f>> # <<>> /\ ~Closes(<<f>>, Len(<<f>>))
        BY <3>2, <3>3
      <4> QED BY ONLY <4>1, <3>2, <3>3, <1>2, LaidJoin
    <3> QED BY <3>4, <1>1, <2>1 DEF f
  <2>2. CASE ~Climb[2]
    BY <2>2, <1>1, <1>2
  <2> QED BY <2>1, <2>2
<1> QED BY <1>1, <1>4, <1>5 DEF Placing
-----------------------------------------------------------------------------
(* What is done when the stack is w: declarations, uses and calls.         *)
DoneSites(N, w) == {s \in SitesIn(N) : ~Pending(w, 1, s.place)}
DoneUses(N, w)  == {u \in L!Uses(N) : ~Pending(w, 1, NameAt(u.at, 1))}
DoneCalls(N, w) == {n \in N : n.t.k \in CallKind /\ ~Pending(w, 1, NameAt(n.at, 0))}

LEMMA News ==
  ASSUME NEW N, Grown(N), NEW n \in N, NEW I \in SUBSET Nat, NEW w, NEW v, Advances(w, v, N, n, I)
  PROVE  /\ DoneSites(N, v) = DoneSites(N, w) \union {SiteOf(n, i) : i \in I \intersect Naming(n.t)}
         /\ DoneUses(N, v) = DoneUses(N, w) \union {u \in {n} : n.t.k = "name" /\ 1 \in I}
         /\ DoneCalls(N, v) = DoneCalls(N, w) \union {u \in {n} : n.t.k \in CallKind /\ 0 \in I}
<1>1. \A m \in N : \A j \in Nat :
        ~Pending(v, 1, NameAt(m.at, j)) <=> ~Pending(w, 1, NameAt(m.at, j)) \/ (m = n /\ j \in I)
  <2> TAKE m \in N
  <2> TAKE j \in Nat
  <2>1. NameAt(m.at, j) \in Events(N)
    BY OwnEvent
  <2>2. NameAt(m.at, j) \in Names(n.at, I) <=> m = n /\ j \in I
    <3>1. ASSUME NEW i \in I, NameAt(m.at, j) = NameAt(n.at, i) PROVE m = n /\ j \in I
      <4>1. i \in Nat /\ m.at \in Seq(Int) /\ n.at \in Seq(Int)
        BY NodeIs
      <4>2. m.at = n.at /\ j = i
        BY <3>1, <4>1, NamePlaceEqual
      <4> QED BY <4>2 DEF Grown, OnePath
    <3> QED BY <3>1 DEF Names
  <2> QED BY <2>1, <2>2 DEF Advances
<1>2. DoneSites(N, v) = DoneSites(N, w) \union {SiteOf(n, i) : i \in I \intersect Naming(n.t)}
  <2>1. \A m \in N : \A j \in Naming(m.t) :
          /\ SiteOf(m, j).place = NameAt(m.at, j) /\ j \in Nat /\ SiteOf(m, j) \in SitesIn(N)
    BY SiteFields, SiteIs
  <2>2. \A s \in DoneSites(N, v) :
          s \in DoneSites(N, w) \union {SiteOf(n, i) : i \in I \intersect Naming(n.t)}
    <3> TAKE s \in DoneSites(N, v)
    <3>1. s \in SitesIn(N) /\ ~Pending(v, 1, s.place)
      BY DEF DoneSites
    <3>2. PICK m \in N : \E j \in Naming(m.t) : s = SiteOf(m, j)
      BY <3>1, SiteIs
    <3>3. PICK j \in Naming(m.t) : s = SiteOf(m, j)
      BY <3>2
    <3>4. ~Pending(w, 1, NameAt(m.at, j)) \/ (m = n /\ j \in I)
      BY <2>1, <3>1, <3>3, <1>1
    <3>5. CASE ~Pending(w, 1, NameAt(m.at, j))
      BY <3>5, <3>1, <3>3, <2>1 DEF DoneSites
    <3>6. CASE m = n /\ j \in I
      BY <3>6, <3>3
    <3> QED BY <3>4, <3>5, <3>6
  <2>3. \A s \in DoneSites(N, w) : s \in DoneSites(N, v)
    <3> TAKE s \in DoneSites(N, w)
    <3>1. s \in SitesIn(N) /\ ~Pending(w, 1, s.place)
      BY DEF DoneSites
    <3>2. PICK m \in N : \E j \in Naming(m.t) : s = SiteOf(m, j)
      BY <3>1, SiteIs
    <3>3. PICK j \in Naming(m.t) : s = SiteOf(m, j)
      BY <3>2
    <3>4. ~Pending(v, 1, s.place)
      BY <2>1, <3>1, <3>3, <1>1
    <3> QED BY <3>1, <3>4 DEF DoneSites
  <2>4. \A i \in I \intersect Naming(n.t) : SiteOf(n, i) \in DoneSites(N, v)
    BY <2>1, <1>1 DEF DoneSites
  <2> QED BY <2>2, <2>3, <2>4
<1>3. DoneUses(N, v) = DoneUses(N, w) \union {u \in {n} : n.t.k = "name" /\ 1 \in I}
  BY <1>1 DEF DoneUses, L!Uses
<1>4. DoneCalls(N, v) = DoneCalls(N, w) \union {u \in {n} : n.t.k \in CallKind /\ 0 \in I}
  BY <1>1 DEF DoneCalls
<1> QED BY <1>2, <1>3, <1>4

(* The step brings about no declaration, no use and no check of a call.    *)
Barren(t, I) ==
  /\ \A i \in I : i \notin Naming(t)
  /\ t.k = "name" => 1 \notin I
  /\ t.k \in CallKind => 0 \notin I

LEMMA NoNews ==
  ASSUME NEW N, Grown(N), NEW n \in N, NEW I \in SUBSET Nat, NEW w, NEW v, Advances(w, v, N, n, I),
         Barren(n.t, I)
  PROVE  /\ DoneSites(N, v) = DoneSites(N, w) /\ DoneUses(N, v) = DoneUses(N, w)
         /\ DoneCalls(N, v) = DoneCalls(N, w)
<1>1. /\ {SiteOf(n, i) : i \in I \intersect Naming(n.t)} = {}
      /\ {u \in {n} : n.t.k = "name" /\ 1 \in I} = {}
      /\ {u \in {n} : n.t.k \in CallKind /\ 0 \in I} = {}
  BY DEF Barren
<1>2. /\ DoneSites(N, v) = DoneSites(N, w) \union {SiteOf(n, i) : i \in I \intersect Naming(n.t)}
      /\ DoneUses(N, v) = DoneUses(N, w) \union {u \in {n} : n.t.k = "name" /\ 1 \in I}
      /\ DoneCalls(N, v) = DoneCalls(N, w) \union {u \in {n} : n.t.k \in CallKind /\ 0 \in I}
  BY News
<1> QED BY <1>1, <1>2

(* A use is not at the place of a name.                                    *)
LEMMA UsePlace ==
  ASSUME NEW N, Grown(N), NEW u \in N, NEW a \in Seq(Int), NEW i \in Nat
  PROVE  u.at # NameAt(a, i)
<1>1. u.at \in Seq(Int) /\ \A k \in 1 .. Len(u.at) : u.at[k] > 0
  BY NodeIs
<1>2. /\ Len(NameAt(a, i)) = Len(a) + 1 /\ NameAt(a, i)[Len(a) + 1] = -i /\ Len(a) \in Nat
  BY NamePlace
<1> QED BY <1>1, <1>2
-----------------------------------------------------------------------------
(* A symbol's type tells what its declaration tells.                       *)
TypeFits(ty, sty) ==
  /\ ty.routine = "" <=> sty = L!Value
  /\ sty # L!Value => ty.routine = sty[1] /\ ty.arity = sty[2]

(* Of the declarations D, s is the first of its name in its scope, and     *)
(* others declare the same routine.                                        *)
First(D, s) ==
  \A q \in D : q.owner = s.owner /\ q.name = s.name =>
    s.from <= q.from /\ s.type = q.type /\ (s.type = L!Value => s = q)

Keeper(D, s, own, x, sym, ids, objs) ==
  /\ s.owner = own /\ s.name = x /\ First(D, s)
  /\ s.place \in DOMAIN ids /\ ids[s.place].referred = sym
  /\ TypeFits(objs[sym].type, s.type)

(* The scopes keep the symbols of the declarations done, and no others.    *)
Kept(D, O, tree, ids, objs) ==
  \A r \in DOMAIN tree : \A x \in DOMAIN tree[r].symbols :
    \E s \in D : Keeper(D, s, O[r].at, x, tree[r].symbols[x], ids, objs)

Known(D, O, tree) ==
  \A s \in D : \E r \in DOMAIN tree : O[r].at = s.owner /\ s.name \in DOMAIN tree[r].symbols

BinderOf(N, u) == L!Binder(SitesIn(N), u.t.xs[1], u.at)

BoundOne(N, D, u, ids, objs) ==
  LET b == BinderOf(N, u) IN
  /\ b \in D /\ u.at \in DOMAIN ids /\ b.place \in DOMAIN ids
  /\ ids[u.at].referred = ids[b.place].referred
  /\ TypeFits(objs[ids[u.at].referred].type, b.type)

(* The uses U refer to the symbols of the declarations they are bound to.  *)
Bound(N, D, U, ids, objs) == \A u \in U : BoundOne(N, D, u, ids, objs)

RightCall(N, n) == LET ty == L!Callee(SitesIn(N), n).type IN ty # L!Value /\ ty[2] = Len(n.t.kids) - 1

Called(N, K) == \A n \in K : RightCall(N, n)

(* Entries of the tables that stay.                                        *)
Grow(D, ids, objs, ids2, objs2) ==
  /\ \A s \in D : s.place \in DOMAIN ids => s.place \in DOMAIN ids2 /\ ids2[s.place] = ids[s.place]
  /\ \A k \in DOMAIN objs : objs2[k] = objs[k]

LEMMA KeptGrow ==
  ASSUME NEW D, NEW O, NEW tree, NEW ids, NEW objs, Kept(D, O, tree, ids, objs),
         NEW ids2, NEW objs2, Grow(D, ids, objs, ids2, objs2),
         \A r \in DOMAIN tree : \A x \in DOMAIN tree[r].symbols : tree[r].symbols[x] \in DOMAIN objs
  PROVE  Kept(D, O, tree, ids2, objs2)
<1> SUFFICES ASSUME NEW r \in DOMAIN tree, NEW x \in DOMAIN tree[r].symbols
             PROVE  \E s \in D : Keeper(D, s, O[r].at, x, tree[r].symbols[x], ids2, objs2)
  BY DEF Kept
<1>1. PICK s \in D : Keeper(D, s, O[r].at, x, tree[r].symbols[x], ids, objs)
  BY DEF Kept
<1>2. Keeper(D, s, O[r].at, x, tree[r].symbols[x], ids2, objs2)
  BY <1>1 DEF Keeper, Grow
<1> QED BY <1>2

LEMMA BoundGrow ==
  ASSUME NEW N, NEW D, NEW U, NEW ids, NEW objs, Bound(N, D, U, ids, objs), Referring(ids, objs),
         NEW E, D \subseteq E, NEW ids2, NEW objs2, Grow(D, ids, objs, ids2, objs2),
         \A u \in U : u.at \in DOMAIN ids => u.at \in DOMAIN ids2 /\ ids2[u.at] = ids[u.at]
  PROVE  Bound(N, E, U, ids2, objs2)
<1> SUFFICES ASSUME NEW u \in U PROVE BoundOne(N, E, u, ids2, objs2)
  BY DEF Bound
<1>1. BoundOne(N, D, u, ids, objs)
  BY DEF Bound
<1> QED BY <1>1 DEF BoundOne, Grow, Referring
-----------------------------------------------------------------------------
(* What a declaration of different names changes.                          *)
LEMMA DistinctFirst ==
  ASSUME NEW keys, Distinct(keys), NEW i \in DOMAIN keys
  PROVE  FirstOf(keys, keys[i]) = i
BY DEF Distinct, FirstOf

LEMMA DeclaredValues ==
  ASSUME objects \in ObjectTables, NEW tree \in Trees, NEW s \in DOMAIN tree, NEW xs \in Seq(STRING),
         NEW ty, NEW places, DOMAIN places = DOMAIN xs,
         Distinct(xs), Distinct(places), DeclareIn(tree, s, xs, ty, places)
  PROVE  /\ DOMAIN scopes' = DOMAIN tree
         /\ \A r \in DOMAIN tree : /\ scopes'[r].parent = tree[r].parent
                                   /\ r # s => scopes'[r].symbols = tree[r].symbols
         /\ DOMAIN scopes'[s].symbols = DOMAIN tree[s].symbols \union {xs[i] : i \in DOMAIN xs}
         /\ \A i \in DOMAIN xs : scopes'[s].symbols[xs[i]] = Len(objects) + i
         /\ \A x \in DOMAIN tree[s].symbols \ {xs[i] : i \in DOMAIN xs} :
              scopes'[s].symbols[x] = tree[s].symbols[x]
         /\ DOMAIN idents' = DOMAIN idents \union {places[i] : i \in DOMAIN xs}
         /\ \A i \in DOMAIN xs : idents'[places[i]].referred = Len(objects) + i
         /\ \A p \in DOMAIN idents \ {places[i] : i \in DOMAIN xs} : idents'[p] = idents[p]
         /\ \A k \in DOMAIN objects : objects'[k] = objects[k]
         /\ \A i \in DOMAIN xs : objects'[Len(objects) + i].type = ty
<1> DEFINE table == Extended(tree[s].symbols, xs, Fresh(xs))
           vals == [i \in DOMAIN xs |-> [name |-> xs[i], referred |-> Fresh(xs)[i]]]
           news == [i \in DOMAIN xs |-> [name |-> xs[i], type |-> ty]]
<1>1. /\ scopes' = [tree EXCEPT ![s].symbols = table]
      /\ objects' = objects \o news /\ idents' = Extended(idents, places, vals)
  BY DEF DeclareIn
<1>2. \A i \in DOMAIN xs : Fresh(xs)[i] = Len(objects) + i
  BY DEF Fresh
<1>3. \A i \in DOMAIN xs : vals[i].referred = Len(objects) + i
  BY <1>2
<1>4. \A i \in DOMAIN xs : FirstOf(xs, xs[i]) = i /\ FirstOf(places, places[i]) = i
  BY DistinctFirst
<1> HIDE DEF table, vals
<1>5. ExtendsBy(table, tree[s].symbols, xs, Fresh(xs))
  BY ExtendedValue DEF table
<1>6. ExtendsBy(idents', idents, places, vals)
  BY <1>1, ExtendedValue
<1>7. Updates(scopes', tree, s, table)
  BY <1>1, TreeExcept
<1>8. /\ DOMAIN table = DOMAIN tree[s].symbols \union {xs[i] : i \in DOMAIN xs}
      /\ \A i \in DOMAIN xs : table[xs[i]] = Len(objects) + i
      /\ \A x \in DOMAIN tree[s].symbols \ {xs[i] : i \in DOMAIN xs} : table[x] = tree[s].symbols[x]
  BY <1>2, <1>4, <1>5 DEF ExtendsBy
<1>9. /\ DOMAIN idents' = DOMAIN idents \union {places[i] : i \in DOMAIN xs}
      /\ \A i \in DOMAIN xs : idents'[places[i]].referred = Len(objects) + i
      /\ \A p \in DOMAIN idents \ {places[i] : i \in DOMAIN xs} : idents'[p] = idents[p]
  BY <1>3, <1>4, <1>6 DEF ExtendsBy
<1>10. /\ \A k \in DOMAIN objects : objects'[k] = objects[k]
       /\ \A i \in DOMAIN xs : objects'[Len(objects) + i].type = ty
  <2>1. Len(xs) \in Nat /\ DOMAIN xs = 1 .. Len(xs)
    OBVIOUS
  <2>2. /\ \A i \in 1 .. Len(xs) : news[i].type = ty
        /\ news \in Seq([name : STRING, type : {ty}]) /\ Len(news) = Len(xs)
    BY <2>1
  <2> HIDE DEF news
  <2>3. /\ \A k \in 1 .. Len(objects) : (objects \o news)[k] = objects[k]
        /\ \A i \in 1 .. Len(news) : (objects \o news)[Len(objects) + i] = news[i]
        /\ DOMAIN objects = 1 .. Len(objects)
    BY <2>2 DEF ObjectTables
  <2> QED BY <1>1, <2>1, <2>2, <2>3
<1>11. /\ DOMAIN scopes' = DOMAIN tree
       /\ \A r \in DOMAIN tree : /\ scopes'[r].parent = tree[r].parent
                                 /\ r # s => scopes'[r].symbols = tree[r].symbols
       /\ scopes'[s].symbols = table
  BY <1>7 DEF Updates
<1> QED BY <1>8, <1>9, <1>10, <1>11
-----------------------------------------------------------------------------
Tabled(N, D, U, O, tree, ids, objs) ==
  Kept(D, O, tree, ids, objs) /\ Known(D, O, tree) /\ Bound(N, D, U, ids, objs)

DifferentOwners(O, tree) == \A r, q \in DOMAIN tree : O[r].at = O[q].at => r = q

(* Sites of scope s, one for each of the names, none of them done before.  *)
NewSites(N, D, o, xs, places, ty, f) ==
  \A i \in DOMAIN xs :
    /\ f[i] \in SitesIn(N) \ D /\ f[i].owner = o /\ f[i].name = xs[i] /\ f[i].place = places[i]
    /\ TypeFits(ty, f[i].type)

DeclaresSites(N, O, D, U, tree, s, xs, ty, places, f, E) ==
  /\ objects \in ObjectTables /\ Referring(idents, objects) /\ Whole(N)
  /\ tree \in Trees /\ Sound(tree, objects) /\ DifferentOwners(O, tree)
  /\ D \in SUBSET SitesIn(N) /\ U \in SUBSET N /\ Tabled(N, D, U, O, tree, idents, objects)
  /\ s \in DOMAIN tree /\ xs \in Seq(STRING) /\ Distinct(xs)
  /\ \A i \in DOMAIN xs : xs[i] \notin DOMAIN tree[s].symbols
  /\ DOMAIN places = DOMAIN xs
  /\ \A u \in N : \A i \in DOMAIN xs : u.at # places[i]
  /\ NewSites(N, D, O[s].at, xs, places, ty, f)
  /\ DeclareIn(tree, s, xs, ty, places)
  /\ \A e : e \in E <=> e \in D \/ \E i \in DOMAIN xs : e = f[i]

LEMMA DeclareTables ==
  ASSUME NEW N, NEW O, NEW D, NEW U, NEW tree, NEW s, NEW xs, NEW ty, NEW places, NEW f, NEW E,
         DeclaresSites(N, O, D, U, tree, s, xs, ty, places, f, E)
  PROVE  Tabled(N, E, U, O, scopes', idents', objects')
<1> USE DEF DeclaresSites
<1>0. Grown(N)
  BY DEF Whole
<1>1. Distinct(places)
  <2> SUFFICES ASSUME NEW i \in DOMAIN xs, NEW j \in DOMAIN xs, i # j, places[i] = places[j]
               PROVE  FALSE
    BY DEF Distinct
  <2>1. f[i] = f[j]
    BY <1>0, SameSite DEF NewSites
  <2>2. xs[i] = xs[j]
    BY <2>1 DEF NewSites
  <2> QED BY <2>2 DEF Distinct
<1>2. /\ DOMAIN scopes' = DOMAIN tree
      /\ \A r \in DOMAIN tree : /\ scopes'[r].parent = tree[r].parent
                                /\ r # s => scopes'[r].symbols = tree[r].symbols
      /\ DOMAIN scopes'[s].symbols = DOMAIN tree[s].symbols \union {xs[i] : i \in DOMAIN xs}
      /\ \A i \in DOMAIN xs : scopes'[s].symbols[xs[i]] = Len(objects) + i
      /\ \A x \in DOMAIN tree[s].symbols \ {xs[i] : i \in DOMAIN xs} :
           scopes'[s].symbols[x] = tree[s].symbols[x]
      /\ DOMAIN idents' = DOMAIN idents \union {places[i] : i \in DOMAIN xs}
      /\ \A i \in DOMAIN xs : idents'[places[i]].referred = Len(objects) + i
      /\ \A p \in DOMAIN idents \ {places[i] : i \in DOMAIN xs} : idents'[p] = idents[p]
      /\ \A k \in DOMAIN objects : objects'[k] = objects[k]
      /\ \A i \in DOMAIN xs : objects'[Len(objects) + i].type = ty
  BY <1>1, DeclaredValues
<1>3. Kept(D, O, tree, idents, objects) /\ Known(D, O, tree) /\ Bound(N, D, U, idents, objects)
  BY DEF Tabled
<1>4. Grow(D, idents, objects, idents', objects')
  <2>1. ASSUME NEW q \in D, NEW i \in DOMAIN xs PROVE q.place # places[i]
    <3>1. q \in SitesIn(N) /\ f[i] \in SitesIn(N) /\ q # f[i] /\ f[i].place = places[i]
      BY <2>1 DEF NewSites
    <3> QED BY <1>0, <3>1, SameSite
  <2> QED BY <1>2, <2>1 DEF Grow
<1>5. ASSUME NEW q \in D, NEW i \in DOMAIN xs, q.owner = O[s].at PROVE q.name # xs[i]
  <2>1. PICK r \in DOMAIN tree : O[r].at = q.owner /\ q.name \in DOMAIN tree[r].symbols
    BY <1>3, <1>5 DEF Known
  <2>2. r = s
    BY <2>1, <1>5 DEF DifferentOwners
  <2> QED BY <2>1, <2>2
<1>6. Kept(D, O, tree, idents', objects')
  <2>1. \A r \in DOMAIN tree : \A x \in DOMAIN tree[r].symbols : tree[r].symbols[x] \in DOMAIN objects
    BY DEF Sound, Rooted, ObjectTables
  <2> QED BY <1>3, <1>4, <2>1, KeptGrow
<1>7. \A r \in DOMAIN tree : O[r].at = O[s].at => r = s
  BY DEF DifferentOwners
<1>8. \A q \in D : First(D, q) => First(E, q)
  <2> SUFFICES ASSUME NEW q \in D, First(D, q), NEW e \in E, e.owner = q.owner, e.name = q.name
               PROVE  q.from <= e.from /\ q.type = e.type /\ (q.type = L!Value => q = e)
    BY DEF First
  <2>1. CASE e \in D
    BY <2>1 DEF First
  <2>2. ASSUME NEW i \in DOMAIN xs, e = f[i] PROVE FALSE
    BY <2>2, <1>5 DEF NewSites
  <2> QED BY <2>1, <2>2
<1>9. \A i \in DOMAIN xs : First(E, f[i])
  <2> SUFFICES ASSUME NEW i \in DOMAIN xs, NEW e \in E, e.owner = f[i].owner, e.name = f[i].name
               PROVE  f[i].from <= e.from /\ f[i].type = e.type /\ (f[i].type = L!Value => f[i] = e)
    BY DEF First
  <2>1. CASE e \in D
    BY <2>1, <1>5 DEF NewSites
  <2>2. ASSUME NEW j \in DOMAIN xs, e = f[j] PROVE e = f[i]
    BY <2>2 DEF NewSites, Distinct
  <2>3. f[i].from \in Int
    BY SiteOwner DEF NewSites
  <2> QED BY <2>1, <2>2, <2>3
<1>10. Kept(E, O, scopes', idents', objects')
  <2> SUFFICES ASSUME NEW r \in DOMAIN scopes', NEW x \in DOMAIN scopes'[r].symbols
               PROVE  \E q \in E : Keeper(E, q, O[r].at, x, scopes'[r].symbols[x], idents', objects')
    BY DEF Kept
  <2>1. ASSUME r \in DOMAIN tree, x \in DOMAIN tree[r].symbols, scopes'[r].symbols[x] = tree[r].symbols[x]
        PROVE  \E q \in E : Keeper(E, q, O[r].at, x, scopes'[r].symbols[x], idents', objects')
    <3>1. PICK q \in D : Keeper(D, q, O[r].at, x, tree[r].symbols[x], idents', objects')
      BY <1>6, <2>1 DEF Kept
    <3>2. Keeper(E, q, O[r].at, x, scopes'[r].symbols[x], idents', objects')
      BY <2>1, <3>1, <1>8 DEF Keeper
    <3> QED BY <3>2
  <2>2. ASSUME NEW i \in DOMAIN xs, r = s, x = xs[i]
        PROVE  \E q \in E : Keeper(E, q, O[r].at, x, scopes'[r].symbols[x], idents', objects')
    <3>1. /\ f[i] \in E /\ f[i].owner = O[r].at /\ f[i].name = x /\ f[i].place = places[i]
          /\ TypeFits(ty, f[i].type)
      BY <2>2 DEF NewSites
    <3>2. /\ f[i].place \in DOMAIN idents' /\ idents'[f[i].place].referred = scopes'[r].symbols[x]
          /\ objects'[scopes'[r].symbols[x]].type = ty
      BY <2>2, <3>1, <1>2
    <3>3. Keeper(E, f[i], O[r].at, x, scopes'[r].symbols[x], idents', objects')
      BY <3>1, <3>2, <1>9 DEF Keeper
    <3> QED BY <3>1, <3>3
  <2>3. CASE r # s
    BY <2>1, <2>3, <1>2
  <2>4. CASE r = s /\ x \in {xs[i] : i \in DOMAIN xs}
    BY <2>2, <2>4
  <2>5. CASE r = s /\ x \notin {xs[i] : i \in DOMAIN xs}
    BY <2>1, <2>5, <1>2
  <2> QED BY <2>3, <2>4, <2>5
<1>11. Known(E, O, scopes')
  <2> SUFFICES ASSUME NEW q \in E
               PROVE  \E r \in DOMAIN scopes' : O[r].at = q.owner /\ q.name \in DOMAIN scopes'[r].symbols
    BY DEF Known
  <2>1. CASE q \in D
    <3>1. PICK r \in DOMAIN tree : O[r].at = q.owner /\ q.name \in DOMAIN tree[r].symbols
      BY <1>3, <2>1 DEF Known
    <3>2. q.name \in DOMAIN scopes'[r].symbols
      BY <3>1, <1>2
    <3> QED BY <3>1, <3>2, <1>2
  <2>2. ASSUME NEW i \in DOMAIN xs, q = f[i]
        PROVE  O[s].at = q.owner /\ q.name \in DOMAIN scopes'[s].symbols
    BY <2>2, <1>2 DEF NewSites
  <2> QED BY <2>1, <2>2, <1>2
<1>12. Bound(N, E, U, idents', objects')
  <2>1. \A u \in U : u.at \in DOMAIN idents => u.at \in DOMAIN idents' /\ idents'[u.at] = idents[u.at]
    BY <1>2
  <2>2. D \subseteq E
    OBVIOUS
  <2> QED BY <1>3, <1>4, <2>1, <2>2, BoundGrow
<1> QED BY <1>10, <1>11, <1>12 DEF Tabled

(* A new scope without names.                                              *)
LEMMA EmptyScope ==
  ASSUME NEW N, NEW D, NEW U, NEW O, NEW tree, NEW ids, NEW objs, Tabled(N, D, U, O, tree, ids, objs),
         NEW new, NEW P, NEW k, k \notin DOMAIN tree, DOMAIN new = DOMAIN tree \union {k},
         \A r \in DOMAIN tree : new[r].symbols = tree[r].symbols /\ P[r] = O[r],
         new[k].symbols = <<>>
  PROVE  Tabled(N, D, U, P, new, ids, objs)
<1>1. DOMAIN new[k].symbols = {}
  OBVIOUS
<1>2. Kept(D, P, new, ids, objs)
  <2> SUFFICES ASSUME NEW r \in DOMAIN new, NEW x \in DOMAIN new[r].symbols
               PROVE  \E s \in D : Keeper(D, s, P[r].at, x, new[r].symbols[x], ids, objs)
    BY DEF Kept
  <2>1. r \in DOMAIN tree
    BY <1>1
  <2> QED BY <2>1 DEF Tabled, Kept
<1>3. Known(D, P, new)
  BY DEF Tabled, Known
<1> QED BY <1>2, <1>3 DEF Tabled
-----------------------------------------------------------------------------
(* Lookups.  A scope in which x is found from path at, and what is known   *)
(* when the search has come to scope s and when it has ended with sym.     *)
Candidate(O, tree, r, at, x) == Inside(O[r], at) /\ x \in DOMAIN tree[r].symbols

Seeking(O, tree, s, at, x) ==
  /\ s # Nullptr => Inside(O[s], at)
  /\ \A r \in DOMAIN tree : Candidate(O, tree, r, at, x) =>
       s # Nullptr /\ Len(O[r].at) <= Len(O[s].at)

Answer(O, tree, sym, at, x) ==
  IF sym = Nullptr THEN \A r \in DOMAIN tree : ~Candidate(O, tree, r, at, x)
  ELSE \E r \in DOMAIN tree :
         /\ Candidate(O, tree, r, at, x) /\ sym = tree[r].symbols[x]
         /\ \A q \in DOMAIN tree : Candidate(O, tree, q, at, x) => Len(O[q].at) <= Len(O[r].at)

LookingUp(O, tree, w, res) ==
  /\ w # <<>> /\ w[1].op = "resolve" =>
       Len(w) > 1 /\ w[2].op \in Waits /\ Seeking(O, tree, w[1].scope, w[2].at, w[2].node.xs[1])
  /\ w # <<>> /\ w[1].op \in Waits => Answer(O, tree, res, w[1].at, w[1].node.xs[1])

LEMMA SeekStart ==
  ASSUME NEW N, Grown(N), NEW O, NEW tree, NEW w, Owned(N, O, tree, w), NEW s \in DOMAIN tree, s # Nullptr,
         NEW at \in Seq(Int), at # <<>>, Home(N, O[s], at), NEW x
  PROVE  Seeking(O, tree, s, at, x)
BY DEF Home, Seeking, Candidate, Owned

LEMMA SeekClimb ==
  ASSUME NEW N, Grown(N), NEW O, NEW tree, NEW w, Owned(N, O, tree, w), NEW s \in DOMAIN tree, s # Nullptr,
         NEW at \in Seq(Int), NEW x, Seeking(O, tree, s, at, x), x \notin DOMAIN tree[s].symbols,
         s = 1 => tree[s].parent = Nullptr, s # 1 => tree[s].parent # Nullptr
  PROVE  Seeking(O, tree, tree[s].parent, at, x)
<1>1. \A r \in DOMAIN tree : O[r] \in N /\ O[r].at \in Seq(Int) /\ Len(O[r].at) \in Nat
  BY NodeIs DEF Owned
<1>2. \A r \in DOMAIN tree : Candidate(O, tree, r, at, x) => Len(O[r].at) < Len(O[s].at) /\ Leads(O[r].at, O[s].at)
  <2> SUFFICES ASSUME NEW r \in DOMAIN tree, Candidate(O, tree, r, at, x)
               PROVE  Len(O[r].at) < Len(O[s].at) /\ Leads(O[r].at, O[s].at)
    OBVIOUS
  <2>1. Len(O[r].at) <= Len(O[s].at) /\ Leads(O[r].at, at) /\ Leads(O[s].at, at)
    BY DEF Seeking, Candidate, Inside, Encloses
  <2>2. Leads(O[r].at, O[s].at)
    BY <1>1, <2>1, LeadsSame
  <2>3. r # s
    BY DEF Candidate
  <2>4. O[r].at # O[s].at
    BY <2>3 DEF Owned
  <2>5. ~(Len(O[s].at) <= Len(O[r].at))
    BY <1>1, <2>2, <2>4, LeadsEqual
  <2> QED BY <1>1, <2>2, <2>5
<1>3. CASE s = 1
  <2>1. O[s].at = <<>>
    BY <1>3 DEF Owned
  <2>2. \A r \in DOMAIN tree : ~Candidate(O, tree, r, at, x)
    BY <1>1, <1>2, <2>1
  <2> QED BY <1>3, <2>2 DEF Seeking
<1>4. CASE s # 1
  <2> DEFINE q == tree[s].parent
  <2>1. q \in DOMAIN tree /\ Home(N, O[q], O[s].at) /\ q # Nullptr
    BY <1>4 DEF Owned
  <2>2. O[s].at # <<>>
    BY <1>4 DEF Owned
  <2>3. Inside(O[q], O[s].at) /\ \A n \in N : Inside(n, O[s].at) => Len(n.at) <= Len(O[q].at)
    BY <2>1, <2>2 DEF Home
  <2>4. Inside(O[s], at)
    BY DEF Seeking
  <2> HIDE DEF q
  <2>5. Inside(O[q], at)
    <3>1. Leads(O[s].at, at) /\ Leads(O[q].at, O[s].at) /\ Len(O[q].at) < Len(O[s].at) /\ Len(O[s].at) < Len(at)
      BY <2>3, <2>4 DEF Inside, Encloses
    <3>2. Leads(O[q].at, at) /\ Len(O[q].at) < Len(at)
      BY <1>1, <2>1, <3>1, LeadsTrans
    <3>3. Len(O[q].at) + 1 \in 1 .. Len(O[s].at)
      <4>1. Len(O[q].at) \in Nat /\ Len(O[s].at) \in Nat
        BY <1>1, <2>1
      <4> QED BY <4>1, <3>1
    <3>4. at[Len(O[q].at) + 1] = O[s].at[Len(O[q].at) + 1]
      BY <3>1, <3>3 DEF Leads
    <3> QED BY <2>3, <3>2, <3>4 DEF Inside, Encloses
  <2>6. \A r \in DOMAIN tree : Candidate(O, tree, r, at, x) => Len(O[r].at) <= Len(O[q].at)
    <3> SUFFICES ASSUME NEW r \in DOMAIN tree, Candidate(O, tree, r, at, x)
                 PROVE  Len(O[r].at) <= Len(O[q].at)
      OBVIOUS
    <3>1. Len(O[r].at) < Len(O[s].at) /\ Leads(O[r].at, O[s].at) /\ Leads(O[s].at, at)
      BY <1>2, <2>4 DEF Inside, Encloses
    <3>2. Len(O[r].at) + 1 \in 1 .. Len(O[s].at)
      <4>1. Len(O[r].at) \in Nat /\ Len(O[s].at) \in Nat
        BY <1>1
      <4> QED BY <4>1, <3>1
    <3>3. at[Len(O[r].at) + 1] = O[s].at[Len(O[r].at) + 1]
      BY <3>1, <3>2 DEF Leads
    <3>4. Inside(O[r], O[s].at)
      BY <3>1, <3>3 DEF Candidate, Inside, Encloses
    <3> QED BY <1>1, <2>3, <3>4
  <2>7. Seeking(O, tree, q, at, x)
    BY <2>1, <2>5, <2>6 DEF Seeking
  <2> QED BY <2>7 DEF q
<1> QED BY <1>3, <1>4

LEMMA SeekFound ==
  ASSUME NEW O, NEW tree, NEW s \in DOMAIN tree, s # Nullptr, NEW at, NEW x,
         Seeking(O, tree, s, at, x), x \in DOMAIN tree[s].symbols, tree[s].symbols[x] # Nullptr
  PROVE  Answer(O, tree, tree[s].symbols[x], at, x)
BY DEF Seeking, Answer, Candidate

LEMMA SeekFailed ==
  ASSUME NEW O, NEW tree, NEW at, NEW x, Seeking(O, tree, Nullptr, at, x)
  PROVE  Answer(O, tree, Nullptr, at, x)
BY DEF Seeking, Answer

(* After a visitor that asks for nothing, no lookup is under way.          *)
Asks(p) == \E i \in DOMAIN p : p[i].op \in {"resolve"} \union Waits

LEMMA NotLooking ==
  ASSUME work \in Stacks, work # <<>>, LookupInv, Top.op # "resolve",
         NEW p \in Stacks, ~Asks(p), NEW v, v = p \o Under \/ v = Under, NEW O, NEW tree, NEW res
  PROVE  LookingUp(O, tree, v, res)
<1>1. /\ Under \in Stacks /\ DOMAIN Under = 1 .. Len(Under) /\ Len(Under) \in Nat
      /\ \A i \in DOMAIN Under : Under[i].op \notin {"resolve"} \union Waits
  BY UnderQuiet DEF Stacks
<1>2. v # <<>> => v[1].op \notin {"resolve"} \union Waits
  <2>1. CASE v = Under
    BY <1>1, <2>1
  <2>2. CASE v = p \o Under
    <3>1. /\ Len(p) \in Nat /\ DOMAIN v = 1 .. Len(p) + Len(Under) /\ v \in Stacks
          /\ \A i \in 1 .. Len(p) : v[i] = p[i]
          /\ \A i \in 1 .. Len(Under) : v[Len(p) + i] = Under[i]
      BY <1>1, <2>2, Joined
    <3>2. SUFFICES ASSUME v # <<>> PROVE v[1].op \notin {"resolve"} \union Waits
      OBVIOUS
    <3>3. Len(p) + Len(Under) >= 1
      BY <1>1, <3>1, <3>2 DEF Stacks
    <3>4. CASE Len(p) >= 1
      BY <3>1, <3>4 DEF Asks, Stacks
    <3>5. CASE Len(p) = 0
      <4>1. v[1] = Under[1] /\ 1 \in DOMAIN Under
        BY <1>1, <3>1, <3>3, <3>5
      <4> QED BY <4>1, <1>1
    <3>6. Len(p) >= 1 \/ Len(p) = 0
      BY ONLY <3>1
    <3> QED BY ONLY <3>4, <3>5, <3>6
  <2> QED BY <2>1, <2>2
<1> QED BY <1>2 DEF LookingUp
-----------------------------------------------------------------------------
(* The declaration a use is bound to.                                      *)
LEMMA BinderIs ==
  ASSUME NEW N, Whole(N), NEW at \in Seq(Int), NEW x, NEW s \in SitesIn(N), s.name = x, L!Sees(at, s),
         \A q \in SitesIn(N) : q.name = x /\ L!Sees(at, q) =>
           /\ Len(q.owner) <= Len(s.owner)
           /\ q.owner = s.owner => s.from <= q.from /\ (q.from = s.from => q = s)
  PROVE  L!Binder(SitesIn(N), x, at) = s
<1> DEFINE seen == {q \in SitesIn(N) : q.name = x /\ L!Sees(at, q)}
           inner == {q \in seen : \A r \in seen : Len(r.owner) <= Len(q.owner)}
           first == {q \in inner : \A r \in inner : q.from <= r.from}
<1>1. \A q \in SitesIn(N) : q.owner \in Seq(Int) /\ Len(q.owner) \in Nat /\ q.from \in Int
  BY SiteOwner
<1>2. s \in seen /\ s \in inner
  OBVIOUS
<1>3. \A q \in inner : q \in SitesIn(N) /\ q.name = x /\ L!Sees(at, q) /\ q.owner = s.owner
  <2> TAKE q \in inner
  <2>1. q \in SitesIn(N) /\ q.name = x /\ L!Sees(at, q) /\ Len(s.owner) <= Len(q.owner)
    BY <1>2
  <2>2. Len(q.owner) = Len(s.owner)
    BY <1>1, <2>1
  <2>3. Leads(q.owner, at) /\ Leads(s.owner, at)
    BY <1>1, <2>1, SeesIs DEF Encloses
  <2>4. Leads(q.owner, s.owner)
    BY <1>1, <2>1, <2>2, <2>3, LeadsSame
  <2>5. q.owner = s.owner
    BY <1>1, <2>1, <2>2, <2>4, LeadsEqual
  <2> QED BY <2>1, <2>5
<1>4. s \in first
  BY <1>2, <1>3
<1>5. \A q \in first : q = s
  <2> TAKE q \in first
  <2>1. q \in inner /\ q.from <= s.from
    BY <1>2
  <2>2. s.from <= q.from /\ (q.from = s.from => q = s)
    BY <1>3, <2>1
  <2> QED BY <1>1, <1>3, <2>1, <2>2
<1>6. first = {s}
  BY <1>4, <1>5
<1>7. L!Binder(SitesIn(N), x, at) = IF first = {} THEN L!Unbound ELSE CHOOSE q \in first : TRUE
  BY DEF L!Binder
<1> HIDE DEF first
<1> QED BY <1>6, <1>7

LEMMA NoBinder ==
  ASSUME NEW N, NEW at, NEW x, \A q \in SitesIn(N) : q.name = x => ~L!Sees(at, q)
  PROVE  L!Binder(SitesIn(N), x, at) = L!Unbound
BY DEF L!Binder

(* Two declarations of a routine are at different items of the program.    *)
LEMMA RoutineSite ==
  ASSUME NEW N, Whole(N), NEW s \in SitesIn(N), s.type # L!Value
  PROVE  /\ \E m \in N : /\ m.t.k \in RoutineKind /\ s = SiteOf(m, 1) /\ 1 \in Naming(m.t)
                         /\ m.at = Append(s.owner, s.from)
         /\ s.owner = <<>> /\ s.from \in Int /\ s.type[1] \in {"procedure", "function"}
<1>1. Grown(N)
  BY DEF Whole
<1>2. PICK m \in N : \E i \in Naming(m.t) : s = SiteOf(m, i)
  BY <1>1, SiteIs
<1>3. PICK i \in Naming(m.t) : s = SiteOf(m, i)
  BY <1>2
<1>4. Outer(m.t, i) /\ m.t.k # "declaration" /\ s.type = L!TypeOf(m.t)
  BY <1>1, <1>3, SiteFields
<1>5. i = 1 /\ m.t.k \in RoutineKind
  BY <1>4 DEF Outer
<1>6. PICK p \in N : \E j \in DOMAIN p.t.kids :
        /\ m.at = Append(p.at, j) /\ j \in Int /\ s.owner = p.at
        /\ s.from = j /\ p.at = <<>>
  BY <1>3, <1>4, OuterSite
<1>7. s.type[1] \in {"procedure", "function"}
  <2> DEFINE kind == IF m.t.k \in {"procedure", "procedure declaration"} THEN "procedure" ELSE "function"
             arity == Len(m.t.xs) - 1
  <2>1. kind \in {"procedure", "function"}
    OBVIOUS
  <2>2. s.type = <<kind, arity>>
    BY <1>4 DEF L!TypeOf
  <2> HIDE DEF kind, arity
  <2> QED BY <2>1, <2>2
<1> QED BY <1>3, <1>5, <1>6, <1>7

LEMMA FirstApart ==
  ASSUME NEW N, Whole(N), NEW D \in SUBSET SitesIn(N), NEW s \in D, First(D, s),
         NEW q \in D, q.owner = s.owner, q.name = s.name, q.from = s.from
  PROVE  q = s
<1>1. CASE s.type = L!Value
  BY <1>1 DEF First
<1>2. CASE s.type # L!Value
  <2>1. q.type # L!Value
    BY <1>2 DEF First
  <2>2. PICK m \in N : s = SiteOf(m, 1) /\ m.at = Append(s.owner, s.from)
    BY <1>2, RoutineSite
  <2>3. PICK n \in N : q = SiteOf(n, 1) /\ n.at = Append(q.owner, q.from)
    BY <2>1, RoutineSite
  <2>4. m = n
    BY <2>2, <2>3 DEF Whole, Grown, OnePath
  <2> QED BY <2>2, <2>3, <2>4
<1> QED BY <1>1, <1>2

(* When the declarations that are done are those that are seen, a lookup   *)
(* finds the symbol of the declaration the use is bound to.                *)
LEMMA AnswerBinds ==
  ASSUME NEW N, Whole(N), NEW O, NEW tree, NEW D \in SUBSET SitesIn(N), NEW ids, NEW objs,
         Kept(D, O, tree, ids, objs), Known(D, O, tree), \A r \in DOMAIN tree : O[r] \in N,
         NEW at \in Seq(Int), NEW x,
         \A q \in SitesIn(N) : Encloses(q.owner, at) => (q \in D <=> L!Sees(at, q)),
         NEW sym, sym # Nullptr, Answer(O, tree, sym, at, x)
  PROVE  \E s \in D : /\ L!Binder(SitesIn(N), x, at) = s /\ First(D, s) /\ s.name = x
                      /\ s.place \in DOMAIN ids /\ ids[s.place].referred = sym
                      /\ TypeFits(objs[sym].type, s.type) /\ L!Sees(at, s)
<1>1. PICK r \in DOMAIN tree :
        /\ Candidate(O, tree, r, at, x) /\ sym = tree[r].symbols[x]
        /\ \A q \in DOMAIN tree : Candidate(O, tree, q, at, x) => Len(O[q].at) <= Len(O[r].at)
  BY DEF Answer
<1>2. PICK s \in D : Keeper(D, s, O[r].at, x, sym, ids, objs)
  BY <1>1 DEF Kept, Candidate
<1>3. s \in SitesIn(N) /\ s.owner = O[r].at /\ s.name = x /\ First(D, s)
  BY <1>2 DEF Keeper
<1>4. L!Sees(at, s)
  BY <1>1, <1>3 DEF Candidate, Inside
<1>5. ASSUME NEW q \in SitesIn(N), q.name = x, L!Sees(at, q)
      PROVE  /\ Len(q.owner) <= Len(s.owner)
             /\ q.owner = s.owner => s.from <= q.from /\ (q.from = s.from => q = s)
  <2>1. Encloses(q.owner, at)
    BY <1>5, SiteOwner, SeesIs
  <2>2. q \in D
    BY <1>5, <2>1
  <2>3. PICK p \in DOMAIN tree : O[p].at = q.owner /\ x \in DOMAIN tree[p].symbols
    BY <1>5, <2>2 DEF Known
  <2>4. Inside(O[p], at)
    BY <1>5, <2>3, SeenInside
  <2>5. Len(q.owner) <= Len(s.owner)
    BY <1>1, <1>3, <2>3, <2>4 DEF Candidate
  <2>6. q.owner = s.owner => s.from <= q.from
    BY <1>3, <1>5, <2>2 DEF First
  <2>7. q.owner = s.owner /\ q.from = s.from => q = s
    BY <1>3, <1>5, <2>2, FirstApart
  <2> QED BY <2>5, <2>6, <2>7
<1>6. L!Binder(SitesIn(N), x, at) = s
  BY <1>3, <1>4, <1>5, BinderIs
<1> QED BY <1>2, <1>3, <1>4, <1>6 DEF Keeper

LEMMA NothingBinds ==
  ASSUME NEW N, Whole(N), NEW O, NEW tree, NEW D \in SUBSET SitesIn(N),
         Known(D, O, tree), \A r \in DOMAIN tree : O[r] \in N,
         NEW at \in Seq(Int), NEW x,
         \A q \in SitesIn(N) : Encloses(q.owner, at) => (q \in D <=> L!Sees(at, q)),
         Answer(O, tree, Nullptr, at, x)
  PROVE  L!Binder(SitesIn(N), x, at) = L!Unbound
<1>1. SUFFICES ASSUME NEW q \in SitesIn(N), q.name = x, L!Sees(at, q) PROVE FALSE
  BY NoBinder
<1>2. Encloses(q.owner, at)
  BY <1>1, SiteOwner, SeesIs
<1>3. q \in D
  BY <1>1, <1>2
<1>4. PICK p \in DOMAIN tree : O[p].at = q.owner /\ x \in DOMAIN tree[p].symbols
  BY <1>1, <1>3 DEF Known
<1>5. Inside(O[p], at)
  BY <1>1, <1>4, SeenInside
<1> QED BY <1>4, <1>5 DEF Answer, Candidate
-----------------------------------------------------------------------------
(* The pass follows the text: what it has walked, the scopes it has        *)
(* opened, what it has entered in the tables and what it looks up.         *)
Following(N, O) ==
  /\ Walk(work, N) /\ Placing(N, O)
  /\ Tabled(N, DoneSites(N, work), DoneUses(N, work), O, scopes, idents, objects)
  /\ Called(N, DoneCalls(N, work))
  /\ LookingUp(O, scopes, work, resolved)

LEMMA SameTables ==
  ASSUME NEW N, Whole(N), NEW O, Following(N, O), Walk(work', N), Placing(N, O)',
         DoneSites(N, work') = DoneSites(N, work), DoneUses(N, work') = DoneUses(N, work),
         DoneCalls(N, work') = DoneCalls(N, work),
         UNCHANGED <<scopes, objects, idents>>, LookingUp(O, scopes, work', resolved')
  PROVE  Following(N, O)'
<1>1. Tabled(N, DoneSites(N, work'), DoneUses(N, work'), O, scopes', idents', objects')
  BY DEF Following
<1>2. Called(N, DoneCalls(N, work')) /\ LookingUp(O, scopes', work', resolved')
  BY DEF Following
<1> QED BY <1>1, <1>2 DEF Following

LEMMA PlainFollow ==
  ASSUME IInv, work # <<>>, NEW N, Whole(N), NEW O, Following(N, O), Placed(Top),
         NEW p \in Stacks, work' = p \o Under, NoCloses(p),
         \A a \in DOMAIN p : Placed(p[a]) =>
           \/ p[a].at = Top.at
           \/ \E k \in DOMAIN Top.node.kids :
                /\ p[a].at = Append(Top.at, k)
                /\ Top.node.k \in Openers => k < Base(Top.node) \/ Top.node.k = "program",
         UNCHANGED <<current, scopes, objects, idents>>,
         NEW I \in SUBSET Nat, Walk(work', N), Advances(work, work', N, NodeOf(Top), I),
         Barren(Top.node, I), LookingUp(O, scopes, work', resolved')
  PROVE  Following(N, O)'
<1>1. Walk(work, N) /\ Placing(N, O)
  BY DEF Following
<1>2. NodeOf(Top) \in N /\ NodeOf(Top).t = Top.node /\ Grown(N)
  BY <1>1, WalkTop
<1>3. \A e \in Events(N) : Pending(work', 1, e) => Pending(work, 1, e)
  BY DEF Advances
<1>4. Placing(N, O)'
  BY <1>1, <1>3, PlainStep
<1>5. /\ DoneSites(N, work') = DoneSites(N, work) /\ DoneUses(N, work') = DoneUses(N, work)
      /\ DoneCalls(N, work') = DoneCalls(N, work)
  BY <1>2, NoNews
<1> QED BY <1>4, <1>5, SameTables

LEMMA KidItems ==
  ASSUME NEW t \in Tree, NEW at \in Seq(Int)
  PROVE  LET p == Kids(t, at) IN
         /\ p \in Stacks /\ DOMAIN p = DOMAIN t.kids /\ DOMAIN p = 1 .. Len(t.kids) /\ Len(t.kids) \in Nat
         /\ \A a \in DOMAIN p : p[a].op = "visit" /\ p[a].at = Append(at, a) /\ Placed(p[a])
         /\ NoCloses(p) /\ ~Asks(p)
<1> DEFINE p == Kids(t, at)
<1>1. /\ p \in Stacks /\ Len(p) = Len(t.kids)
      /\ \A i \in 1 .. Len(t.kids) : p[i].op = "visit" /\ Kid(t, at, i) = p[i]
  BY KidsShape
<1>2. t.kids \in Seq(Tree)
  BY NodeKind
<1>3. DOMAIN p = 1 .. Len(t.kids) /\ DOMAIN t.kids = 1 .. Len(t.kids) /\ Len(t.kids) \in Nat
  BY <1>1, <1>2 DEF Stacks
<1>4. \A i : Kid(t, at, i).at = Append(at, i)
  BY DEF Kid, Visit, Item
<1> HIDE DEF p
<1>5. \A a \in DOMAIN p : p[a].op = "visit" /\ p[a].at = Append(at, a)
  BY <1>1, <1>3, <1>4
<1>6. NoCloses(p) /\ ~Asks(p) /\ \A a \in DOMAIN p : Placed(p[a])
  BY <1>5 DEF NoCloses, Closes, Asks, Waits, Placed
<1> QED BY <1>1, <1>3, <1>5, <1>6 DEF p

LEMMA ChildrenFollow ==
  ASSUME IInv, NEW N, Whole(N), NEW O, Following(N, O), visitChildren
  PROVE  Following(N, O)'
<1> DEFINE p == Kids(Top.node, Top.at)
<1>0. /\ Top.op = "visit" /\ work # <<>> /\ work' = p \o Under
      /\ Top.node.k \in {"program", "assignment", "destruct", "output", "return", "tuple",
                         "member", "literal"}
      /\ UNCHANGED <<current, scopes, objects, idents>> /\ resolved' = resolved
  BY DEF visitChildren, Visiting, KeepScopes, KeepTable
<1>1. Walk(work, N) /\ Walk(work', N) /\ Advances(work, work', N, NodeOf(Top), Nat)
  BY ChildrenWalk DEF Following
<1>2. Top.node \in Tree /\ Top.at \in Seq(Int) /\ Placed(Top)
  BY <1>0, TopShape DEF Placed
<1>3. Top.node.k \notin Openers \/ Top.node.k = "program"
  BY <1>0 DEF Openers, Routines, DomainKind
<1>4. Barren(Top.node, Nat)
  <2>1. Top.node.k \notin {"name", "declaration"} \union Routines \union Forwards \union DomainKind \union CallKind
    BY <1>0 DEF Routines, Forwards, DomainKind, CallKind
  <2> QED BY <2>1 DEF Barren, Naming
<1>5. /\ p \in Stacks /\ DOMAIN p = DOMAIN Top.node.kids /\ NoCloses(p) /\ ~Asks(p)
      /\ \A a \in DOMAIN p : p[a].at = Append(Top.at, a)
  BY <1>2, KidItems
<1> HIDE DEF p
<1>6. LookingUp(O, scopes, work', resolved')
  BY <1>0, <1>5, NotLooking DEF IInv, Shapes
<1>7. \A a \in DOMAIN p : Placed(p[a]) =>
        \E k \in DOMAIN Top.node.kids :
          /\ p[a].at = Append(Top.at, k)
          /\ Top.node.k \in Openers => k < Base(Top.node) \/ Top.node.k = "program"
  BY <1>3, <1>5
<1> QED BY <1>0, <1>1, <1>2, <1>4, <1>5, <1>6, <1>7, PlainFollow

LEMMA DeclarationFollow ==
  ASSUME IInv, NEW N, Whole(N), NEW O, Following(N, O), visitDeclaration
  PROVE  Following(N, O)'
<1> DEFINE k == Kids(Top.node, Top.at)
           d == Item("declare", Top.node, Top.at)
           p == k \o <<d>>
<1>0. /\ Top.op = "visit" /\ work # <<>> /\ work' = p \o Under
      /\ Top.node.k = "declaration"
      /\ UNCHANGED <<current, scopes, objects, idents>> /\ resolved' = resolved
  BY DEF visitDeclaration, Visiting, KeepScopes, KeepTable
<1>1. Walk(work, N) /\ Walk(work', N) /\ Advances(work, work', N, NodeOf(Top), Nat \ {1})
  BY DeclarationWalk DEF Following
<1>2. Top.node \in Tree /\ Top.at \in Seq(Int) /\ Placed(Top)
  BY <1>0, TopShape DEF Placed
<1>3. Top.node.k \notin Openers
  BY <1>0 DEF Openers, Routines, DomainKind
<1>4. Barren(Top.node, Nat \ {1})
  <2>1. Top.node.k \notin {"name"} \union Routines \union DomainKind \union CallKind
    BY <1>0 DEF Routines, DomainKind, CallKind
  <2> QED BY <1>0, <2>1 DEF Barren, Naming
<1>5. /\ k \in Stacks /\ DOMAIN k = DOMAIN Top.node.kids /\ DOMAIN k = 1 .. Len(k)
      /\ \A a \in DOMAIN k : k[a].op = "visit" /\ k[a].at = Append(Top.at, a)
  BY <1>2, KidItems DEF Stacks
<1>6. d.op = "declare" /\ d.at = Top.at /\ d \in Frames
  <2>1. "declare" \in Ops /\ Top.node.xs # <<>> /\ 0 \in Nat
    BY <1>0, <1>2, NodeShape DEF Ops
  <2> QED BY <1>2, <2>1, ItemShape DEF Item
<1> HIDE DEF k, d
<1>7. /\ p \in Stacks
      /\ \A a \in DOMAIN p : (a \in DOMAIN k /\ p[a] = k[a]) \/ p[a] = d
  <2>1. <<d>> \in Stacks /\ Len(<<d>>) = 1 /\ <<d>>[1] = d
    BY <1>6 DEF Stacks
  <2>2. /\ p \in Stacks /\ Len(k) \in Nat
        /\ Len(p) = Len(k) + Len(<<d>>) /\ DOMAIN p = 1 .. Len(k) + Len(<<d>>)
        /\ \A i \in 1 .. Len(k) : p[i] = k[i]
        /\ \A i \in 1 .. Len(<<d>>) : p[Len(k) + i] = <<d>>[i]
    BY ONLY <2>1, <1>5, Joined
  <2> HIDE DEF p
  <2>3. p[Len(k) + 1] = d /\ DOMAIN p = 1 .. Len(k) + 1
    BY <2>1, <2>2
  <2> QED BY <1>5, <2>2, <2>3
<1> HIDE DEF p
<1>8. NoCloses(p) /\ ~Asks(p)
  BY <1>5, <1>6, <1>7 DEF NoCloses, Closes, Asks, Waits
<1>9. LookingUp(O, scopes, work', resolved')
  BY <1>0, <1>7, <1>8, NotLooking DEF IInv, Shapes
<1>10. \A a \in DOMAIN p : Placed(p[a]) =>
         \/ p[a].at = Top.at
         \/ \E i \in DOMAIN Top.node.kids :
              /\ p[a].at = Append(Top.at, i)
              /\ Top.node.k \in Openers => i < Base(Top.node) \/ Top.node.k = "program"
  BY <1>3, <1>5, <1>6, <1>7
<1>11. Nat \ {1} \in SUBSET Nat
  OBVIOUS
<1> QED BY <1>0, <1>1, <1>2, <1>4, <1>7, <1>8, <1>9, <1>10, <1>11, PlainFollow
-----------------------------------------------------------------------------
(* A lookup starts at the current scope.                                   *)
LEMMA LookupStarts ==
  ASSUME IInv, work # <<>>, NEW N, Whole(N), NEW O, Following(N, O), Placed(Top),
         Top.node.k # "program", NEW v, v \in Stacks, v # <<>>, Len(v) > 1,
         v[1] = Lookup(Top.node, current), v[2].op \in Waits,
         v[2].node = Top.node, v[2].at = Top.at, NEW res
  PROVE  LookingUp(O, scopes, v, res)
<1>1. Walk(work, N) /\ Placing(N, O)
  BY DEF Following
<1>2. /\ NodeOf(Top) \in N /\ NodeOf(Top).t = Top.node /\ NodeOf(Top).at = Top.at /\ Grown(N)
      /\ Top.at \in Seq(Int)
  BY <1>1, WalkTop
<1>3. Top.at # <<>>
  BY <1>2, RootKind
<1>4. Top.op # "close"
  BY DEF Placed
<1>5. current \in DOMAIN scopes /\ Home(N, O[current], Top.at)
  BY <1>1, <1>4, TopHome
<1>6. current # Nullptr
  BY <1>5 DEF IInv, Shapes, Trees, Nullptr
<1>7. Owned(N, O, scopes, work)
  BY <1>1 DEF Placing
<1>8. Seeking(O, scopes, current, Top.at, Top.node.xs[1])
  BY <1>2, <1>3, <1>5, <1>6, <1>7, SeekStart
<1>9. v[1].op = "resolve" /\ v[1].scope = current
  BY DEF Lookup, Within
<1>10. "resolve" \notin Waits
  BY DEF Waits
<1> QED BY <1>8, <1>9, <1>10 DEF LookingUp

LEMMA IdentifierFollow ==
  ASSUME IInv, NEW N, Whole(N), NEW O, Following(N, O), visitIdentifier
  PROVE  Following(N, O)'
<1> DEFINE r == Lookup(Top.node, current)
           d == Item("refer", Top.node, Top.at)
           p == <<r, d>>
<1>0. /\ Top.op = "visit" /\ work # <<>> /\ work' = p \o Under
      /\ Top.node.k = "name"
      /\ UNCHANGED <<current, scopes, objects, idents>> /\ resolved' = resolved
  BY DEF visitIdentifier, Visiting, KeepScopes, KeepTable
<1>1. Walk(work, N) /\ Walk(work', N) /\ Advances(work, work', N, NodeOf(Top), Nat \ {1})
  BY IdentifierWalk DEF Following
<1>2. Top.node \in Tree /\ Top.at \in Seq(Int) /\ Placed(Top)
  BY <1>0, TopShape DEF Placed
<1>4. Barren(Top.node, Nat \ {1})
  <2>1. Top.node.k \notin {"declaration"} \union Routines \union Forwards \union DomainKind \union CallKind
    BY <1>0 DEF Routines, Forwards, DomainKind, CallKind
  <2> QED BY <1>0, <2>1 DEF Barren, Naming
<1>5. /\ d.op = "refer" /\ d.at = Top.at /\ d.node = Top.node /\ d \in Frames
      /\ r.op = "resolve" /\ r \in Frames
  <2>1. "refer" \in Ops /\ "resolve" \in Ops /\ Top.node.xs # <<>> /\ 0 \in Nat /\ current \in Nat
    BY <1>0, <1>2, NodeShape DEF Ops, IInv, Shapes, Trees
  <2>2. d \in Frames /\ r \in Frames /\ r.op = "resolve"
    BY ONLY <1>2, <2>1, ItemShape DEF Lookup, Ops
  <2>3. d.op = "refer" /\ d.at = Top.at /\ d.node = Top.node
    BY DEF Item
  <2> QED BY <2>2, <2>3
<1> HIDE DEF r, d
<1>6. p \in Stacks /\ DOMAIN p = {1, 2} /\ p[1] = r /\ p[2] = d /\ Len(p) = 2
  BY <1>5 DEF Stacks
<1> HIDE DEF p
<1>7. NoCloses(p)
  BY <1>5, <1>6 DEF NoCloses, Closes
<1>8. \A a \in DOMAIN p : Placed(p[a]) => p[a].at = Top.at
  BY <1>5, <1>6 DEF Placed
<1>9. Under \in Stacks
  BY <1>0, TailOf DEF IInv, Shapes, Under
<1>10. work' \in Stacks /\ Len(work') > 1 /\ work' # <<>> /\ work'[1] = r /\ work'[2] = d
  <2>1. /\ work' \in Stacks /\ Len(work') = Len(p) + Len(Under) /\ Len(Under) \in Nat
        /\ \A i \in 1 .. Len(p) : work'[i] = p[i]
    BY <1>0, <1>6, <1>9, Joined
  <2> QED BY <1>6, <2>1
<1>11. Top.node.k # "program"
  BY <1>0
<1>12. LookingUp(O, scopes, work', resolved')
  BY <1>0, <1>2, <1>5, <1>10, <1>11, LookupStarts DEF r, Waits
<1>13. Nat \ {1} \in SUBSET Nat
  OBVIOUS
<1> QED BY <1>0, <1>1, <1>2, <1>4, <1>6, <1>7, <1>8, <1>12, <1>13, PlainFollow

LEMMA RoutineFollow ==
  ASSUME IInv, NEW N, Whole(N), NEW O, Following(N, O), visitRoutine
  PROVE  Following(N, O)'
<1> DEFINE r == Lookup(Top.node, current)
           d == Item("routine", Top.node, Top.at)
           b == Item("body", Top.node, Top.at)
           p == <<r, d>> \o [i \in DOMAIN Top.node.kids |-> b]
<1>0. /\ Top.op = "visit" /\ work # <<>> /\ work' = p \o Under
      /\ Top.node.k \in RoutineKind
      /\ UNCHANGED <<current, scopes, objects, idents>> /\ resolved' = resolved
  BY DEF visitRoutine, Visiting, KeepScopes, KeepTable, RoutineKind
<1>1. Walk(work, N) /\ Walk(work', N)
  BY RoutineWalk DEF Following
<1>1a. PICK I \in SUBSET Nat : /\ Advances(work, work', N, NodeOf(Top), I) /\ 1 \notin I
                               /\ Top.node.k \in Routines => I = {}
  BY <1>1, RoutineWalk
<1>2. Top.node \in Tree /\ Top.at \in Seq(Int) /\ Placed(Top)
  BY <1>0, TopShape DEF Placed
<1>4. Barren(Top.node, I)
  <2>1. Top.node.k \notin {"declaration", "name"} \union DomainKind \union CallKind
    BY <1>0 DEF RoutineKind, Routines, Forwards, DomainKind, CallKind
  <2>2. Top.node.k \in Forwards \/ Top.node.k \in Routines
    BY <1>0 DEF RoutineKind
  <2>3. CASE Top.node.k \in Routines
    BY <1>1a, <2>1, <2>3 DEF Barren
  <2>4. CASE Top.node.k \notin Routines
    <3>1. Naming(Top.node) = {1}
      BY <2>1, <2>2, <2>4 DEF Naming
    <3> QED BY <1>1a, <2>1, <3>1 DEF Barren
  <2> QED BY <2>3, <2>4
<1>5. /\ NodeOf(Top) \in N /\ NodeOf(Top).t = Top.node /\ NodeOf(Top).at = Top.at
      /\ current \in Nat
  BY <1>1, <1>2, <1>0, WalkTop DEF IInv, Shapes, Trees
<1>6. /\ p \in Stacks /\ Len(Top.node.kids) \in {0, 1} /\ DOMAIN p = 1 .. Len(Top.node.kids) + 2
      /\ p[1] = r /\ p[2] = d /\ (Len(Top.node.kids) = 1 => p[3] = b)
  <2> DEFINE n == NodeOf(Top)
  <2>1. n \in N /\ n.t = Top.node /\ n.at = Top.at
    BY <1>5
  <2> HIDE DEF n
  <2>2. LET q == <<Lookup(n.t, current), Item("routine", n.t, n.at)>>
                    \o [i \in DOMAIN n.t.kids |-> Item("body", n.t, n.at)]
            len == Len(n.t.kids)
        IN /\ q \in Stacks /\ len \in {0, 1} /\ DOMAIN q = 1 .. len + 2
           /\ q[1] = Lookup(n.t, current) /\ q[2] = Item("routine", n.t, n.at)
           /\ len = 1 => q[3] = Item("body", n.t, n.at)
    BY <1>0, <1>5, <2>1, RoutineItems
  <2> QED BY <2>1, <2>2
<1>7. d.op = "routine" /\ d.at = Top.at /\ d.node = Top.node /\ b.op = "body" /\ b.at = Top.at /\ r.op = "resolve"
  BY DEF Item, Lookup, Within
<1> HIDE DEF p
<1>8. \A a \in DOMAIN p : p[a] = r \/ p[a] = d \/ p[a] = b
  <2> DEFINE len == Len(Top.node.kids)
  <2>0. len \in {0, 1} /\ DOMAIN p = 1 .. len + 2
    BY <1>6
  <2> HIDE DEF len
  <2>1. \A a \in DOMAIN p : a = 1 \/ a = 2 \/ (a = 3 /\ len = 1)
    BY <2>0
  <2> USE DEF len
  <2> QED BY <1>6, <2>1
<1> HIDE DEF r, d, b
<1>9. NoCloses(p) /\ \A a \in DOMAIN p : Placed(p[a]) => p[a].at = Top.at
  BY <1>7, <1>8 DEF NoCloses, Closes, Placed
<1>10. Under \in Stacks
  BY <1>0, TailOf DEF IInv, Shapes, Under
<1>11. work' \in Stacks /\ Len(work') > 1 /\ work' # <<>> /\ work'[1] = r /\ work'[2] = d
  <2>1. /\ work' \in Stacks /\ Len(work') = Len(p) + Len(Under) /\ Len(Under) \in Nat /\ Len(p) \in Nat
        /\ \A i \in 1 .. Len(p) : work'[i] = p[i]
    BY <1>0, <1>6, <1>10, Joined
  <2>2. Len(p) >= 2
    BY <1>6, <2>1 DEF Stacks
  <2> QED BY <1>6, <2>1, <2>2
<1>12. Top.node.k # "program"
  BY <1>0 DEF RoutineKind, Routines, Forwards
<1>13. LookingUp(O, scopes, work', resolved')
  BY <1>0, <1>2, <1>7, <1>11, <1>12, LookupStarts DEF r, Waits
<1> QED BY <1>0, <1>1, <1>1a, <1>2, <1>4, <1>6, <1>9, <1>13, PlainFollow

LEMMA CallFollow ==
  ASSUME IInv, NEW N, Whole(N), NEW O, Following(N, O), visitCall
  PROVE  Following(N, O)'
<1> DEFINE len == Len(Top.node.kids)
           d == Item("arity", Top.node, Top.at)
           p == Tail(Kids(Top.node, Top.at)) \o <<Kid(Top.node, Top.at, 1), d>>
<1>0. /\ Top.op = "visit" /\ work # <<>> /\ work' = p \o Under
      /\ Top.node.k \in CallKind
      /\ UNCHANGED <<current, scopes, objects, idents>> /\ resolved' = resolved
  BY DEF visitCall, Visiting, KeepScopes, KeepTable
<1>1. Walk(work, N) /\ Walk(work', N) /\ Advances(work, work', N, NodeOf(Top), Nat \ {0})
  BY CallWalk DEF Following
<1>2. Top.node \in Tree /\ Top.at \in Seq(Int) /\ Placed(Top)
  BY <1>0, TopShape DEF Placed
<1>3. Top.node.k \notin {"name", "declaration"} \union Routines \union Forwards \union DomainKind \union Openers
  BY <1>0 DEF Routines, Forwards, DomainKind, CallKind, Openers
<1>4. Barren(Top.node, Nat \ {0})
  BY <1>3 DEF Barren, Naming
<1>5. NodeOf(Top) \in N /\ NodeOf(Top).t = Top.node /\ NodeOf(Top).at = Top.at
  BY <1>1, <1>2, <1>0, WalkTop
<1>6. /\ p \in Stacks /\ len \in Nat /\ len >= 1 /\ DOMAIN p = 1 .. len + 1
      /\ DOMAIN Top.node.kids = 1 .. len
      /\ \A a \in 1 .. len - 1 : p[a] = Kid(Top.node, Top.at, a + 1)
      /\ p[len] = Kid(Top.node, Top.at, 1) /\ p[len + 1] = d
  <2> DEFINE n == NodeOf(Top)
  <2>1. n \in N /\ n.t = Top.node /\ n.at = Top.at
    BY <1>5
  <2> HIDE DEF n
  <2>2. LET q == Tail(Kids(n.t, n.at)) \o <<Kid(n.t, n.at, 1), Item("arity", n.t, n.at)>>
            l == Len(n.t.kids)
        IN /\ q \in Stacks /\ l \in Nat /\ l >= 1 /\ DOMAIN q = 1 .. l + 1
           /\ DOMAIN n.t.kids = 1 .. l
           /\ \A a \in 1 .. l - 1 : q[a] = Kid(n.t, n.at, a + 1)
           /\ q[l] = Kid(n.t, n.at, 1) /\ q[l + 1] = Item("arity", n.t, n.at)
    BY <1>0, <2>1, CallItems
  <2> QED BY <2>1, <2>2
<1>7. d.op = "arity" /\ d.at = Top.at
  BY DEF Item
<1>8. \A k : Kid(Top.node, Top.at, k).op = "visit" /\ Kid(Top.node, Top.at, k).at = Append(Top.at, k)
  BY DEF Kid, Visit, Item
<1> HIDE DEF p
<1>9. \A a \in DOMAIN p : p[a] = d \/ \E k \in DOMAIN Top.node.kids : p[a] = Kid(Top.node, Top.at, k)
  <2> TAKE a \in DOMAIN p
  <2>1. a \in 1 .. len - 1 \/ a = len \/ a = len + 1
    BY <1>6
  <2>2. CASE a \in 1 .. len - 1
    <3>1. a + 1 \in 1 .. len
      BY <1>6, <2>2
    <3> QED BY <1>6, <2>2, <3>1
  <2>3. CASE a = len
    <3>1. 1 \in 1 .. len
      BY <1>6
    <3> QED BY <1>6, <2>3, <3>1
  <2> QED BY <1>6, <2>1, <2>2, <2>3
<1> HIDE DEF d, len
<1>10. NoCloses(p) /\ ~Asks(p)
  BY <1>7, <1>8, <1>9 DEF NoCloses, Closes, Asks, Waits
<1>11. LookingUp(O, scopes, work', resolved')
  BY <1>0, <1>6, <1>10, NotLooking DEF IInv, Shapes
<1>12. \A a \in DOMAIN p : Placed(p[a]) =>
         \/ p[a].at = Top.at
         \/ \E i \in DOMAIN Top.node.kids :
              /\ p[a].at = Append(Top.at, i)
              /\ Top.node.k \in Openers => i < Base(Top.node) \/ Top.node.k = "program"
  BY <1>3, <1>7, <1>8, <1>9
<1>13. Nat \ {0} \in SUBSET Nat
  OBVIOUS
<1> QED BY <1>0, <1>1, <1>2, <1>4, <1>6, <1>10, <1>11, <1>12, <1>13, PlainFollow

LEMMA DomainFollow ==
  ASSUME IInv, NEW N, Whole(N), NEW O, Following(N, O), visitDomain
  PROVE  Following(N, O)'
<1> DEFINE len == Len(Top.node.kids)
           d == Item("enter", Top.node, Top.at)
           p == Domains(Top.node, Top.at) \o <<d>>
<1>0. /\ Top.op = "visit" /\ work # <<>> /\ work' = p \o Under
      /\ Top.node.k \in DomainKind
      /\ UNCHANGED <<current, scopes, objects, idents>> /\ resolved' = resolved
  BY DEF visitDomain, Visiting, KeepScopes, KeepTable
<1>1. Walk(work, N) /\ Walk(work', N) /\ Advances(work, work', N, NodeOf(Top), {})
  BY DomainWalk DEF Following
<1>2. Top.node \in Tree /\ Top.at \in Seq(Int) /\ Placed(Top)
  BY <1>0, TopShape DEF Placed
<1>4. Barren(Top.node, {})
  BY DEF Barren
<1>5. NodeOf(Top) \in N /\ NodeOf(Top).t = Top.node /\ NodeOf(Top).at = Top.at
  BY <1>1, <1>2, <1>0, WalkTop
<1>6. /\ p \in Stacks /\ len \in Nat /\ len >= 1 /\ DOMAIN p = 1 .. len
      /\ DOMAIN Top.node.kids = 1 .. len
      /\ \A a \in 1 .. len - 1 : p[a] = Kid(Top.node, Top.at, a)
      /\ p[len] = d
  <2> DEFINE n == NodeOf(Top)
  <2>1. n \in N /\ n.t = Top.node /\ n.at = Top.at
    BY <1>5
  <2> HIDE DEF n
  <2>2. LET q == Domains(n.t, n.at) \o <<Item("enter", n.t, n.at)>>
            l == Len(n.t.kids)
        IN /\ q \in Stacks /\ l \in Nat /\ l >= 1 /\ DOMAIN q = 1 .. l
           /\ DOMAIN n.t.kids = 1 .. l
           /\ \A a \in 1 .. l - 1 : q[a] = Kid(n.t, n.at, a)
           /\ q[l] = Item("enter", n.t, n.at)
    BY <1>0, <2>1, DomainItems
  <2> QED BY <2>1, <2>2
<1>7. d.op = "enter" /\ d.at = Top.at
  BY DEF Item
<1>8. \A k : Kid(Top.node, Top.at, k).op = "visit" /\ Kid(Top.node, Top.at, k).at = Append(Top.at, k)
  BY DEF Kid, Visit, Item
<1> HIDE DEF p
<1>9. \A a \in DOMAIN p : p[a] = d \/ (a \in DOMAIN Top.node.kids /\ a < len /\ p[a] = Kid(Top.node, Top.at, a))
  BY <1>6
<1>9a. Base(Top.node) = len
  BY <1>0 DEF Base
<1> HIDE DEF d, len
<1>10. NoCloses(p) /\ ~Asks(p)
  BY <1>7, <1>8, <1>9 DEF NoCloses, Closes, Asks, Waits
<1>11. LookingUp(O, scopes, work', resolved')
  BY <1>0, <1>6, <1>10, NotLooking DEF IInv, Shapes
<1>12. \A a \in DOMAIN p : Placed(p[a]) =>
         \/ p[a].at = Top.at
         \/ \E i \in DOMAIN Top.node.kids :
              /\ p[a].at = Append(Top.at, i)
              /\ Top.node.k \in Openers => i < Base(Top.node) \/ Top.node.k = "program"
  BY <1>7, <1>8, <1>9, <1>9a
<1>13. {} \in SUBSET Nat
  OBVIOUS
<1> QED BY <1>0, <1>1, <1>2, <1>4, <1>6, <1>10, <1>11, <1>12, <1>13, PlainFollow
-----------------------------------------------------------------------------
(* A step of a lookup.                                                     *)
LEMMA ClimbIs ==
  LET s == Top.scope
      x == Top.node.xs[1]
  IN /\ s = Nullptr => ~Climb[2] /\ Climb[1] = Nullptr
     /\ s # Nullptr /\ x \in DOMAIN scopes[s].symbols => ~Climb[2] /\ Climb[1] = scopes[s].symbols[x]
     /\ s # Nullptr /\ x \notin DOMAIN scopes[s].symbols => Climb[2] /\ Climb[1] = scopes[s].parent
BY DEF Climb

LEMMA ResolveFollow ==
  ASSUME IInv, NEW N, Whole(N), NEW O, Following(N, O), Resolve
  PROVE  Following(N, O)'
<1> DEFINE s == Top.scope
           at == work[2].at
           x == Top.node.xs[1]
<1>0. /\ Top.op = "resolve" /\ work # <<>>
      /\ UNCHANGED <<current, scopes, objects, idents>>
      /\ Climb[2] => work' = <<[Top EXCEPT !.scope = Climb[1]]>> \o Under /\ resolved' = resolved
      /\ ~Climb[2] => work' = Under /\ resolved' = Climb[1]
  BY DEF Resolve, KeepScopes, KeepTable
<1>1. Walk(work, N) /\ Placing(N, O) /\ Owned(N, O, scopes, work)
  BY DEF Following, Placing
<1>2. Walk(work', N) /\ \A e : Pending(work', 1, e) <=> Pending(work, 1, e)
  BY <1>1, SilentWalk
<1>3. Placing(N, O)'
  BY <1>1, ResolveStep
<1>4. /\ DoneSites(N, work') = DoneSites(N, work) /\ DoneUses(N, work') = DoneUses(N, work)
      /\ DoneCalls(N, work') = DoneCalls(N, work)
  BY <1>2 DEF DoneSites, DoneUses, DoneCalls
<1>5. /\ Len(work) > 1 /\ work[2].op \in Waits /\ Seeking(O, scopes, s, at, work[2].node.xs[1])
  BY <1>0 DEF Following, LookingUp, Top
<1>6. work \in Stacks /\ LookupInv /\ scopes \in Trees /\ Rooted(scopes, Len(objects)) /\ objects \in ObjectTables
  BY DEF IInv, Shapes, Tables2
<1>7. 2 \in DOMAIN work /\ work[2] \in Frames /\ Under \in Stacks /\ Under[1] = work[2] /\ Under # <<>>
      /\ Len(Under) \in Nat /\ Len(Under) >= 1
  <2>1. Len(work) \in Nat /\ DOMAIN work = 1 .. Len(work)
    BY <1>6 DEF Stacks
  <2>2. /\ Under \in Stacks /\ DOMAIN Under = 1 .. Len(work) - 1
        /\ \A i \in 1 .. Len(work) - 1 : Under[i] = work[i + 1]
    BY <1>0, <1>6, TailOf DEF Under
  <2>3. 1 \in 1 .. Len(work) - 1 /\ 2 \in DOMAIN work
    BY <1>5, <2>1
  <2>4. Under[1] = work[2] /\ Under # <<>>
    BY <2>2, <2>3
  <2>5. Len(Under) \in Nat /\ Len(Under) >= 1
    BY <2>2, <2>4 DEF Stacks
  <2> QED BY <1>6, <2>2, <2>3, <2>4, <2>5 DEF Stacks
<1>8. work[1].node = work[2].node /\ s \in 0 .. Len(scopes)
  BY <1>0, <1>5, <1>6, <1>7 DEF LookupInv, Top
<1>9. /\ Seeking(O, scopes, s, at, x) /\ at \in Seq(Int) /\ DOMAIN scopes = 1 .. Len(scopes) /\ Len(scopes) \in Nat
      /\ work[2].node.xs[1] = x
  BY <1>5, <1>6, <1>7, <1>8 DEF Top, Frames, Trees
<1>10. s # Nullptr => /\ s \in DOMAIN scopes
                      /\ s = 1 => scopes[s].parent = Nullptr
                      /\ s # 1 => scopes[s].parent # Nullptr
                      /\ x \in DOMAIN scopes[s].symbols => scopes[s].symbols[x] # Nullptr
  BY <1>6, <1>8, <1>9, SMTT(30) DEF Rooted, Global, Nullptr
<1>11. work[2].op # "resolve" /\ "resolve" \notin Waits
  BY <1>5 DEF Waits
<1>12. LookingUp(O, scopes, work', resolved')
  <2>1. CASE s = Nullptr
    <3>1. work' = Under /\ resolved' = Nullptr
      BY <1>0, <2>1, ClimbIs
    <3>2. Answer(O, scopes, Nullptr, at, x)
      BY <1>9, <2>1, SeekFailed
    <3> QED BY <1>7, <1>9, <1>11, <3>1, <3>2 DEF LookingUp
  <2>2. CASE s # Nullptr /\ x \in DOMAIN scopes[s].symbols
    <3>1. work' = Under /\ resolved' = scopes[s].symbols[x]
      BY <1>0, <2>2, ClimbIs
    <3>2. Answer(O, scopes, scopes[s].symbols[x], at, x)
      <4>1. s \in DOMAIN scopes /\ scopes[s].symbols[x] # Nullptr
        BY <1>10, <2>2
      <4> HIDE DEF s, at, x
      <4> QED
        BY ONLY <1>9, <2>2, <4>1, SeekFound
    <3> QED BY <1>7, <1>9, <1>11, <3>1, <3>2 DEF LookingUp
  <2>3. CASE s # Nullptr /\ x \notin DOMAIN scopes[s].symbols
    <3> DEFINE f == [Top EXCEPT !.scope = Climb[1]]
    <3>1. work' = <<f>> \o Under /\ Climb[1] = scopes[s].parent /\ Climb[2]
      BY <1>0, <2>3, ClimbIs
    <3>2. Seeking(O, scopes, Climb[1], at, x)
      <4>1. Seeking(O, scopes, scopes[s].parent, at, x)
        <5>1. Grown(N)
          BY DEF Whole
        <5> QED BY <1>1, <1>9, <1>10, <2>3, <5>1, SeekClimb
      <4> QED BY <3>1, <4>1
    <3>3. Climb[1] \in Nat /\ Top \in Frames
      BY <1>0, <3>1, TopShape, ClimbShape DEF IInv, Shapes, Trees
    <3> HIDE DEF Climb
    <3>4. f \in Frames /\ f.op = "resolve" /\ f.scope = Climb[1]
      BY <1>0, <3>3 DEF Frames
    <3> HIDE DEF f
    <3>5. <<f>> \in Stacks /\ Len(<<f>>) = 1 /\ <<f>>[1] = f
      BY <3>4 DEF Stacks
    <3>6. /\ work' \in Stacks /\ Len(work') = Len(<<f>>) + Len(Under)
          /\ \A i \in 1 .. Len(<<f>>) : work'[i] = <<f>>[i]
          /\ \A i \in 1 .. Len(Under) : work'[Len(<<f>>) + i] = Under[i]
      <4>1. Under \in Stacks
        BY <1>7
      <4>2. /\ <<f>> \o Under \in Stacks /\ Len(<<f>> \o Under) = Len(<<f>>) + Len(Under)
            /\ \A i \in 1 .. Len(<<f>>) : (<<f>> \o Under)[i] = <<f>>[i]
            /\ \A i \in 1 .. Len(Under) : (<<f>> \o Under)[Len(<<f>>) + i] = Under[i]
        BY ONLY <4>1, <3>5, Joined
      <4> QED BY <3>1, <4>2
    <3>7. Len(work') > 1 /\ work'[1] = f /\ work'[2] = work[2]
      BY <1>7, <3>5, <3>6
    <3> QED BY <1>5, <1>9, <1>11, <3>2, <3>4, <3>7 DEF LookingUp
  <2> QED BY <2>1, <2>2, <2>3
<1> QED BY <1>0, <1>2, <1>3, <1>4, <1>12, SameTables

LEMMA PopsQuiet ==
  ASSUME IInv, work # <<>>, Top.op # "resolve", NEW O, NEW tree, NEW res
  PROVE  LookingUp(O, tree, Under, res)
<1>1. <<>> \in Stacks /\ ~Asks(<<>>)
  BY DEF Stacks, Asks
<1> QED BY <1>1, NotLooking DEF IInv, Shapes

LEMMA CloseFollow ==
  ASSUME IInv, NEW N, Whole(N), NEW O, Following(N, O), Close
  PROVE  Following(N, O)'
<1>0. /\ Top.op = "close" /\ work # <<>> /\ work' = Under
      /\ UNCHANGED <<scopes, objects, idents>> /\ resolved' = resolved
  BY DEF Close, Resuming, KeepTable
<1>1. Walk(work, N) /\ Placing(N, O)
  BY DEF Following
<1>2. Walk(work', N) /\ \A e : Pending(work', 1, e) <=> Pending(work, 1, e)
  BY <1>1, SilentWalk
<1>3. Placing(N, O)'
  BY <1>1, CloseStep
<1>4. /\ DoneSites(N, work') = DoneSites(N, work) /\ DoneUses(N, work') = DoneUses(N, work)
      /\ DoneCalls(N, work') = DoneCalls(N, work)
  BY <1>2 DEF DoneSites, DoneUses, DoneCalls
<1>5. LookingUp(O, scopes, work', resolved')
  BY <1>0, PopsQuiet
<1> QED BY <1>0, <1>2, <1>3, <1>4, <1>5, SameTables
-----------------------------------------------------------------------------
WellFormed(N) ==
  /\ \A u \in L!Uses(N) : BinderOf(N, u) # L!Unbound
  /\ \A s, r \in SitesIn(N) : ~L!Clash(s, r)
  /\ \A n \in N : n.t.k \in CallKind => RightCall(N, n)

LEMMA UseNews ==
  ASSUME NEW N, Grown(N), NEW n \in N, NEW w, NEW v, Advances(w, v, N, n, {1}), n.t.k = "name"
  PROVE  /\ DoneSites(N, v) = DoneSites(N, w) /\ DoneUses(N, v) = DoneUses(N, w) \union {n}
         /\ DoneCalls(N, v) = DoneCalls(N, w)
<1>1. Naming(n.t) = {} /\ n.t.k \notin CallKind
  BY DEF Naming, CallKind, DomainKind, Routines, Forwards
<1>2. PICK I \in SUBSET Nat : I = {1}
  OBVIOUS
<1>3. /\ DoneSites(N, v) = DoneSites(N, w) \union {SiteOf(n, i) : i \in I \intersect Naming(n.t)}
      /\ DoneUses(N, v) = DoneUses(N, w) \union {u \in {n} : n.t.k = "name" /\ 1 \in I}
      /\ DoneCalls(N, v) = DoneCalls(N, w) \union {u \in {n} : n.t.k \in CallKind /\ 0 \in I}
  BY <1>2, News
<1>4. /\ {SiteOf(n, i) : i \in I \intersect Naming(n.t)} = {}
      /\ {u \in {n} : n.t.k = "name" /\ 1 \in I} = {n}
      /\ {u \in {n} : n.t.k \in CallKind /\ 0 \in I} = {}
  BY <1>1, <1>2
<1> QED BY <1>3, <1>4

LEMMA CallNews ==
  ASSUME NEW N, Grown(N), NEW n \in N, NEW w, NEW v, Advances(w, v, N, n, {0}), n.t.k \in CallKind
  PROVE  /\ DoneSites(N, v) = DoneSites(N, w) /\ DoneUses(N, v) = DoneUses(N, w)
         /\ DoneCalls(N, v) = DoneCalls(N, w) \union {n}
<1>1. Naming(n.t) = {} /\ n.t.k # "name"
  BY DEF Naming, CallKind, DomainKind, Routines, Forwards
<1>2. PICK I \in SUBSET Nat : I = {0}
  OBVIOUS
<1>3. /\ DoneSites(N, v) = DoneSites(N, w) \union {SiteOf(n, i) : i \in I \intersect Naming(n.t)}
      /\ DoneUses(N, v) = DoneUses(N, w) \union {u \in {n} : n.t.k = "name" /\ 1 \in I}
      /\ DoneCalls(N, v) = DoneCalls(N, w) \union {u \in {n} : n.t.k \in CallKind /\ 0 \in I}
  BY <1>2, News
<1>4. /\ {SiteOf(n, i) : i \in I \intersect Naming(n.t)} = {}
      /\ {u \in {n} : n.t.k = "name" /\ 1 \in I} = {}
      /\ {u \in {n} : n.t.k \in CallKind /\ 0 \in I} = {n}
  BY <1>1, <1>2
<1> QED BY <1>3, <1>4

OneMore(new, m, k, v) ==
  /\ DOMAIN new = DOMAIN m \union {k}
  /\ new[k] = v
  /\ \A j \in DOMAIN m : j # k => new[j] = m[j]

LEMMA ExtendedOne ==
  ASSUME NEW m, NEW k, NEW v
  PROVE  OneMore(Extended(m, <<k>>, <<v>>), m, k, v)
<1>1. DOMAIN <<k>> = {1} /\ <<k>>[1] = k /\ <<v>>[1] = v
  OBVIOUS
<1>2. {<<k>>[i] : i \in DOMAIN <<k>>} = {k}
  BY <1>1
<1>3. ExtendsBy(Extended(m, <<k>>, <<v>>), m, <<k>>, <<v>>)
  BY ExtendedValue
<1>4. FirstOf(<<k>>, k) = 1
  BY <1>1 DEF FirstOf
<1> QED BY <1>1, <1>2, <1>3, <1>4 DEF ExtendsBy, OneMore

(* At a use, the declarations around it that are done are those it sees.   *)
LEMMA SeenDone ==
  ASSUME IInv, work # <<>>, NEW N, Whole(N), Walk(work, N), Top.op = "refer"
  PROVE  \A q \in SitesIn(N) : Encloses(q.owner, Top.at) => (q \in DoneSites(N, work) <=> L!Sees(Top.at, q))
<1> SUFFICES ASSUME NEW q \in SitesIn(N), Encloses(q.owner, Top.at)
             PROVE  q \in DoneSites(N, work) <=> L!Sees(Top.at, q)
  OBVIOUS
<1>0. Placed(Top)
  BY DEF Placed
<1>1. /\ Heads(Top, Under, N) /\ Grown(N) /\ NodeOf(Top) \in N /\ NodeOf(Top).t = Top.node
      /\ NodeOf(Top).at = Top.at /\ Fits(Top)
      /\ \A e : Pending(work, 1, e) <=> Pends(Top, e) \/ Pending(Under, 1, e)
  BY <1>0, WalkTop
<1>2. IF L!Sees(Top.at, q) THEN ~Pending(Under, 1, q.place)
      ELSE Pends(Top, q.place) \/ Pending(Under, 1, q.place)
  BY <1>0, <1>1 DEF Heads
<1>3. ~Pends(Top, q.place)
  <2> SUFFICES ASSUME Pends(Top, q.place) PROVE FALSE
    OBVIOUS
  <2>1. q.place = NameAt(NodeOf(Top).at, 1)
    BY <1>1 DEF Pends
  <2>2. 1 \in Naming(NodeOf(Top).t)
    BY <1>1, <2>1, SiteAtPlace
  <2> QED BY <1>1, <2>2 DEF Naming, Fits, DomainKind, Routines, Forwards
<1> QED BY <1>1, <1>2, <1>3 DEF DoneSites

LEMMA ReferFollow ==
  ASSUME IInv, NEW N, Whole(N), NEW O, Following(N, O), Refer, resolved # Nullptr
  PROVE  Following(N, O)'
<1> DEFINE n == NodeOf(Top)
           x == Top.node.xs[1]
           D == DoneSites(N, work)
           U == DoneUses(N, work)
<1>0. /\ Top.op = "refer" /\ work # <<>> /\ work' = Under /\ resolved' = resolved
      /\ UNCHANGED <<current, scopes, objects>> /\ Placed(Top)
      /\ idents' = Extended(idents, <<Top.at>>, <<[name |-> x, referred |-> resolved]>>)
  BY DEF Refer, Resuming, KeepScopes, Placed
<1>1. /\ Walk(work, N) /\ Placing(N, O) /\ Owned(N, O, scopes, work)
      /\ Tabled(N, D, U, O, scopes, idents, objects)
  BY DEF Following, Placing
<1>2. /\ Grown(N) /\ n \in N /\ n.t = Top.node /\ n.at = Top.at /\ Fits(Top) /\ Top.at \in Seq(Int)
      /\ \A e : Pending(work, 1, e) <=> Pends(Top, e) \/ Pending(Under, 1, e)
  BY <1>0, <1>1, WalkTop
<1>3. n.t.k = "name"
  BY <1>0, <1>2 DEF Fits
<1>4. Walk(work', N) /\ Advances(work, work', N, n, {1})
  BY <1>0, <1>1, Pops
<1> HIDE DEF n
<1>5. /\ DoneSites(N, work') = D /\ DoneUses(N, work') = U \union {n}
      /\ DoneCalls(N, work') = DoneCalls(N, work)
  BY <1>2, <1>3, <1>4, UseNews
<1>6. Placing(N, O)'
  <2>1. \A e \in Events(N) : Pending(work', 1, e) => Pending(work, 1, e)
    BY <1>4 DEF Advances
  <2> QED BY <1>0, <1>1, <2>1, PopStep
<1>7. LookingUp(O, scopes, work', resolved')
  BY <1>0, PopsQuiet
<1>8. Called(N, DoneCalls(N, work'))
  BY <1>5 DEF Following
<1>9. /\ DOMAIN idents' = DOMAIN idents \union {Top.at} /\ idents'[Top.at].referred = resolved
      /\ \A j \in DOMAIN idents : j # Top.at => idents'[j] = idents[j]
  <2> DEFINE v == [name |-> x, referred |-> resolved]
  <2>1. v.referred = resolved /\ idents' = Extended(idents, <<Top.at>>, <<v>>)
    BY <1>0
  <2> HIDE DEF v
  <2>2. OneMore(idents', idents, Top.at, v)
    BY <2>1, ExtendedOne
  <2> QED BY <2>1, <2>2 DEF OneMore
<1>10. Grow(D, idents, objects, idents', objects')
  <2>1. \A s \in D : s.place # n.at
    <3> TAKE s \in D
    <3>1. s \in SitesIn(N)
      BY DEF DoneSites
    <3>2. PICK m \in N : \E i \in Naming(m.t) : s = SiteOf(m, i)
      BY <1>2, <3>1, SiteIs
    <3>3. PICK i \in Naming(m.t) : s = SiteOf(m, i)
      BY <3>2
    <3>4. s.place = NameAt(m.at, i) /\ i \in Nat /\ m.at \in Seq(Int)
      BY <1>2, <3>3, SiteFields, NodeIs
    <3> QED BY <1>2, <3>4, UsePlace
  <2> QED BY <1>0, <1>2, <1>9, <2>1 DEF Grow
<1>11. n \notin U
  BY <1>0, <1>2 DEF DoneUses, Pends
<1>12. D \subseteq SitesIn(N) /\ U \subseteq N
  BY DEF DoneSites, DoneUses, L!Uses
<1>13. Kept(D, O, scopes, idents', objects') /\ Known(D, O, scopes)
  <2>1. \A r \in DOMAIN scopes : \A y \in DOMAIN scopes[r].symbols : scopes[r].symbols[y] \in DOMAIN objects
    BY DEF IInv, Shapes, Tables2, Rooted, ObjectTables
  <2> QED BY <1>1, <1>10, <2>1, KeptGrow DEF Tabled
<1>14. Bound(N, D, U, idents', objects')
  <2>1. \A u \in U : u.at \in DOMAIN idents => u.at \in DOMAIN idents' /\ idents'[u.at] = idents[u.at]
    BY <1>2, <1>9, <1>11, <1>12 DEF Grown, OnePath
  <2>2. Referring(idents, objects) /\ Bound(N, D, U, idents, objects) /\ D \subseteq D
    BY <1>1 DEF IInv, Tables2, Tabled
  <2> HIDE DEF D, U
  <2> QED BY <1>10, <2>1, <2>2, BoundGrow
<1>15. BoundOne(N, D, n, idents', objects')
  <2>1. Answer(O, scopes, resolved, Top.at, x)
    BY <1>0 DEF Following, LookingUp, Waits, Top
  <2>2. \A q \in SitesIn(N) : Encloses(q.owner, Top.at) => (q \in D <=> L!Sees(Top.at, q))
    BY <1>0, <1>1, SeenDone
  <2>3. \A r \in DOMAIN scopes : O[r] \in N
    BY <1>1 DEF Owned
  <2>4. Kept(D, O, scopes, idents, objects) /\ Known(D, O, scopes)
    BY <1>1 DEF Tabled
  <2>5. PICK s \in D : /\ L!Binder(SitesIn(N), x, Top.at) = s
                       /\ s.place \in DOMAIN idents /\ idents[s.place].referred = resolved
                       /\ TypeFits(objects[resolved].type, s.type)
    <3> HIDE DEF D, x
    <3> QED BY <1>2, <1>12, <2>1, <2>2, <2>3, <2>4, AnswerBinds
  <2>6. BinderOf(N, n) = s
    BY <1>2, <2>5 DEF BinderOf
  <2>7. s.place \in DOMAIN idents' /\ idents'[s.place].referred = resolved
    BY <1>10, <2>5 DEF Grow
  <2> QED BY <1>0, <1>2, <1>9, <2>5, <2>6, <2>7 DEF BoundOne
<1>16. Bound(N, D, U \union {n}, idents', objects')
  BY <1>14, <1>15 DEF Bound
<1>17. Tabled(N, D, U \union {n}, O, scopes', idents', objects')
  BY <1>0, <1>13, <1>16 DEF Tabled
<1> QED BY <1>0, <1>4, <1>5, <1>6, <1>7, <1>8, <1>17 DEF Following

LEMMA ReferRejects ==
  ASSUME IInv, NEW N, Whole(N), NEW O, Following(N, O), Refer, resolved = Nullptr
  PROVE  ~WellFormed(N)
<1> DEFINE n == NodeOf(Top)
           x == Top.node.xs[1]
           D == DoneSites(N, work)
<1>0. Top.op = "refer" /\ work # <<>> /\ Placed(Top)
  BY DEF Refer, Resuming, Placed
<1>1. /\ Walk(work, N) /\ Owned(N, O, scopes, work) /\ Known(D, O, scopes)
  BY DEF Following, Placing, Tabled
<1>2. n \in N /\ n.t = Top.node /\ n.at = Top.at /\ Fits(Top) /\ Top.at \in Seq(Int)
  BY <1>0, <1>1, WalkTop
<1>3. n \in L!Uses(N)
  BY <1>0, <1>2 DEF Fits, L!Uses
<1>4. Answer(O, scopes, Nullptr, Top.at, x)
  BY <1>0 DEF Following, LookingUp, Waits, Top
<1>5. \A q \in SitesIn(N) : Encloses(q.owner, Top.at) => (q \in D <=> L!Sees(Top.at, q))
  BY <1>0, <1>1, SeenDone
<1>6. D \in SUBSET SitesIn(N) /\ \A r \in DOMAIN scopes : O[r] \in N
  BY <1>1 DEF DoneSites, Owned
<1> HIDE DEF D, x, n
<1>7. L!Binder(SitesIn(N), x, Top.at) = L!Unbound
  BY <1>1, <1>2, <1>4, <1>5, <1>6, NothingBinds
<1> QED BY <1>2, <1>3, <1>7 DEF WellFormed, BinderOf, x
-----------------------------------------------------------------------------
Chosen(seen) ==
  LET inner == {s \in seen : \A r \in seen : Len(r.owner) <= Len(s.owner)}
      first == {s \in inner : \A r \in inner : s.from <= r.from}
  IN IF first = {} THEN L!Unbound ELSE CHOOSE s \in first : TRUE

LEMMA BinderChosen ==
  ASSUME NEW sites, NEW x, NEW at
  PROVE  L!Binder(sites, x, at) = Chosen({s \in sites : s.name = x /\ L!Sees(at, s)})
  BY DEF L!Binder, Chosen

(* The name of a call is bound like a use that stands before the call: no  *)
(* declaration lies in the call itself.                                    *)
LEMMA CalleeBinder ==
  ASSUME NEW N, Whole(N), NEW n \in N, n.t.k \in CallKind
  PROVE  /\ [t |-> n.t.kids[1], at |-> Append(n.at, 1)] \in L!Uses(N)
         /\ BinderOf(N, [t |-> n.t.kids[1], at |-> Append(n.at, 1)]) = L!Callee(SitesIn(N), n)
<1> DEFINE u == [t |-> n.t.kids[1], at |-> Append(n.at, 1)]
           x == n.t.kids[1].xs[1]
<1>1. Grown(N) /\ n.t \in Tree /\ n.at \in Seq(Int)
  BY NodeIs DEF Whole
<1>2. 1 \in DOMAIN n.t.kids /\ n.t.kids[1].k = "name"
  <2>1. Len(n.t.kids) >= 1 /\ n.t.kids \in Seq(Tree) /\ n.t.kids[1].k = "name"
    BY <1>1, NodeKind
  <2> QED BY <2>1
<1>3. u \in N
  BY <1>1, <1>2 DEF Grown, HasKids
<1>4. u \in L!Uses(N)
  BY <1>2, <1>3 DEF L!Uses
<1>5. \A s \in SitesIn(N) : L!Sees(Append(n.at, 1), s) <=> L!Sees(n.at, s)
  <2> TAKE s \in SitesIn(N)
  <2>1. s.owner \in Seq(Int) /\ \E o \in N : o.at = s.owner /\ o.t.k \in Openers
    BY SiteOwner
  <2>2. s.owner # n.at
    BY <1>1, <2>1 DEF Grown, OnePath, Openers, CallKind, DomainKind, Routines
  <2>3. 1 \in Int /\ Append(n.at, 1) \in Seq(Int)
    BY <1>1
  <2>4. CASE Encloses(s.owner, n.at)
    BY <1>1, <2>1, <2>3, <2>4, SeesKid
  <2>5. CASE ~Encloses(s.owner, n.at)
    <3>1. ~Encloses(s.owner, Append(n.at, 1))
      BY <1>1, <2>1, <2>2, <2>3, <2>5, EnclosesKid
    <3> QED BY <1>1, <2>1, <2>3, <2>5, <3>1, SeesIs
  <2> QED BY <2>4, <2>5
<1>6. {s \in SitesIn(N) : s.name = x /\ L!Sees(Append(n.at, 1), s)}
        = {s \in SitesIn(N) : s.name = x /\ L!Sees(n.at, s)}
  BY <1>5
<1>7. L!Binder(SitesIn(N), x, Append(n.at, 1)) = L!Binder(SitesIn(N), x, n.at)
  BY <1>6, BinderChosen
<1>8. u.t = n.t.kids[1] /\ u.at = Append(n.at, 1)
  OBVIOUS
<1> QED BY <1>4, <1>7, <1>8 DEF BinderOf, L!Callee

(* The check of a call finds what its name is bound to.                    *)
LEMMA CalleeFound ==
  ASSUME IInv, work # <<>>, NEW N, Whole(N), NEW O, Following(N, O), Top.op = "arity"
  PROVE  LET ty == objects[idents[Append(Top.at, 1)].referred].type
         IN ty.routine = "" \/ ty.arity # Len(Top.node.kids) - 1 <=> ~RightCall(N, NodeOf(Top))
<1> DEFINE n == NodeOf(Top)
           u == [t |-> n.t.kids[1], at |-> Append(n.at, 1)]
           ty == objects[idents[Append(Top.at, 1)].referred].type
<1>1. Walk(work, N) /\ Bound(N, DoneSites(N, work), DoneUses(N, work), idents, objects)
  BY DEF Following, Tabled
<1>2. Placed(Top)
  BY DEF Placed
<1>3. /\ Heads(Top, Under, N) /\ Grown(N) /\ n \in N /\ n.t = Top.node /\ n.at = Top.at
      /\ Fits(Top) /\ Top.at \in Seq(Int) /\ Top.node \in Tree
      /\ \A e : Pending(work, 1, e) <=> Pends(Top, e) \/ Pending(Under, 1, e)
  BY <1>1, <1>2, WalkTop
<1>4. n.t.k \in CallKind
  BY <1>3 DEF Fits
<1>5. u \in L!Uses(N) /\ BinderOf(N, u) = L!Callee(SitesIn(N), n) /\ u.at = Append(Top.at, 1)
  BY <1>3, <1>4, CalleeBinder
<1>6. u \in DoneUses(N, work)
  <2>1. ~Pending(Under, 1, NameAt(u.at, 1))
    BY <1>3, <1>5 DEF Heads, CalleeOf
  <2>2. NameAt(u.at, 1) # NameAt(Top.at, 0)
    <3> DEFINE b == Append(Top.at, 1)
    <3>1. b \in Seq(Int) /\ 1 \in Nat /\ 0 \in Nat /\ 1 # 0
      BY <1>3
    <3>2. u.at = b
      BY <1>5
    <3> HIDE DEF b, u
    <3>3. NameAt(b, 1) = NameAt(Top.at, 0) => 1 = 0
      BY <1>3, <3>1, NamePlaceEqual
    <3> QED BY <3>1, <3>2, <3>3
  <2>3. ~Pends(Top, NameAt(u.at, 1))
    BY <2>2 DEF Pends
  <2> QED BY <1>3, <1>5, <2>1, <2>3 DEF DoneUses
<1> HIDE DEF u, n
<1>7. TypeFits(ty, L!Callee(SitesIn(N), n).type)
  BY <1>1, <1>5, <1>6 DEF Bound, BoundOne
<1> QED BY <1>3, <1>7 DEF TypeFits, RightCall, n

LEMMA ArityFollow ==
  ASSUME IInv, NEW N, Whole(N), NEW O, Following(N, O), CheckArity, verdict' = "running"
  PROVE  Following(N, O)'
<1> DEFINE n == NodeOf(Top)
<1>0. /\ Top.op = "arity" /\ work # <<>> /\ work' = Under /\ resolved' = resolved
      /\ UNCHANGED <<current, scopes, objects, idents>> /\ Placed(Top)
      /\ LET ty == objects[idents[Append(Top.at, 1)].referred].type
         IN ~(ty.routine = "" \/ ty.arity # Len(Top.node.kids) - 1)
  BY DEF CheckArity, Resuming, Throw, KeepScopes, KeepTable, Placed
<1>1. /\ Walk(work, N) /\ Placing(N, O)
      /\ Tabled(N, DoneSites(N, work), DoneUses(N, work), O, scopes, idents, objects)
  BY DEF Following
<1>2. Grown(N) /\ n \in N /\ n.t = Top.node /\ Fits(Top)
  BY <1>0, <1>1, WalkTop
<1>3. n.t.k \in CallKind
  BY <1>0, <1>2 DEF Fits
<1>4. Walk(work', N) /\ Advances(work, work', N, n, {0})
  BY <1>0, <1>1, Pops
<1>5. RightCall(N, n)
  BY <1>0, CalleeFound
<1> HIDE DEF n
<1>6. /\ DoneSites(N, work') = DoneSites(N, work) /\ DoneUses(N, work') = DoneUses(N, work)
      /\ DoneCalls(N, work') = DoneCalls(N, work) \union {n}
  BY <1>2, <1>3, <1>4, CallNews
<1>7. Placing(N, O)'
  <2>1. \A e \in Events(N) : Pending(work', 1, e) => Pending(work, 1, e)
    BY <1>4 DEF Advances
  <2> QED BY <1>0, <1>1, <2>1, PopStep
<1>8. LookingUp(O, scopes, work', resolved')
  BY <1>0, PopsQuiet
<1>9. Called(N, DoneCalls(N, work'))
  BY <1>5, <1>6 DEF Following, Called
<1> QED BY <1>0, <1>1, <1>4, <1>6, <1>7, <1>8, <1>9 DEF Following

LEMMA ArityRejects ==
  ASSUME IInv, NEW N, Whole(N), NEW O, Following(N, O), CheckArity, verdict' # "running"
  PROVE  ~WellFormed(N)
<1> DEFINE n == NodeOf(Top)
<1>0. /\ Top.op = "arity" /\ work # <<>> /\ Placed(Top)
      /\ LET ty == objects[idents[Append(Top.at, 1)].referred].type
         IN ty.routine = "" \/ ty.arity # Len(Top.node.kids) - 1
  BY DEF CheckArity, Resuming, Goes, Placed
<1>1. Walk(work, N)
  BY DEF Following
<1>2. n \in N /\ n.t = Top.node /\ Fits(Top)
  BY <1>0, <1>1, WalkTop
<1>3. n.t.k \in CallKind
  BY <1>0, <1>2 DEF Fits
<1>4. ~RightCall(N, n)
  BY <1>0, CalleeFound
<1> QED BY <1>2, <1>3, <1>4 DEF WellFormed
-----------------------------------------------------------------------------
LEMMA BlockFollow ==
  ASSUME IInv, NEW N, Whole(N), NEW O, Following(N, O), visitBlock
  PROVE  \E P : Following(N, P)'
<1> DEFINE n == NodeOf(Top)
           p == Kids(Top.node, Top.at)
           c == CloseScope(Top.node, Len(scopes) + 1)
<1>0. /\ work # <<>> /\ Top.op = "visit" /\ Top.node.k = "block" /\ Placed(Top)
      /\ resolved' = resolved /\ objects' = objects /\ idents' = idents
      /\ scopes' = Append(scopes, Scope(current)) /\ current' = Len(scopes) + 1
      /\ work' = (p \o <<c>>) \o Under
  BY DEF visitBlock, Visiting, KeepTable, Placed
<1>1. /\ Walk(work, N) /\ Placing(N, O)
      /\ Tabled(N, DoneSites(N, work), DoneUses(N, work), O, scopes, idents, objects)
  BY DEF Following
<1>2. /\ Grown(N) /\ n \in N /\ n.t = Top.node /\ n.at = Top.at /\ Top.at \in Seq(Int) /\ Top.node \in Tree
      /\ Under \in Stacks
  BY <1>0, <1>1, WalkTop
<1>3. /\ p \in Stacks /\ DOMAIN p = DOMAIN Top.node.kids /\ NoCloses(p) /\ ~Asks(p)
      /\ \A a \in DOMAIN p : p[a].at = Append(Top.at, a) /\ DOMAIN p = 1 .. Len(Top.node.kids)
  BY <1>2, KidItems
<1>4. /\ Len(scopes) + 1 \in Nat /\ c \in Frames /\ c.op = "close"
      /\ DOMAIN scopes' = DOMAIN scopes \union {Len(scopes) + 1} /\ Len(scopes) + 1 \notin DOMAIN scopes
      /\ \A r \in DOMAIN scopes : scopes'[r] = scopes[r]
      /\ scopes'[Len(scopes) + 1].parent = current /\ scopes'[Len(scopes) + 1].symbols = <<>>
  <2>1. scopes \in Seq(ScopeRecords) /\ Len(scopes) + 1 \in Nat /\ DOMAIN scopes = 1 .. Len(scopes)
    BY DEF IInv, Shapes, Trees
  <2>2. c \in Frames /\ c.op = "close"
    BY <1>2, <2>1, CloseFrame
  <2>3. Scope(current).parent = current /\ Scope(current).symbols = <<>>
    BY DEF Scope
  <2> HIDE DEF c
  <2> QED BY <1>0, <2>1, <2>2, <2>3
<1>5. Walk(work', N) /\ Advances(work, work', N, n, Nat)
  BY <1>1, BlockWalk
<1>6. \A e \in Events(N) : Pending(work', 1, e) => Pending(work, 1, e)
  BY <1>5 DEF Advances
<1>7. ~Pending(work', 1, NameAt(Top.at, 0)) /\ Pends(Top, NameAt(Top.at, 0))
  <2>1. NameAt(n.at, 0) \in Events(N)
    BY <1>2, OwnEvent
  <2>2. NameAt(n.at, 0) \in Names(n.at, Nat)
    BY DEF Names
  <2>3. Leads(Top.at, NameAt(Top.at, 0))
    BY <1>2, NamePlace
  <2> QED BY <1>0, <1>2, <1>5, <2>1, <2>2, <2>3 DEF Advances, Pends
<1>8. Barren(n.t, Nat)
  BY <1>0, <1>2 DEF Barren, Naming, CallKind, DomainKind, Routines, Forwards
<1> HIDE DEF n, c, p
<1>9. PICK P : Placing(N, P)' /\ Keeps(scopes', P, scopes, O) /\ P[Len(scopes) + 1] = NodeOf(Top)
  <2>1. \A a \in DOMAIN p : Placed(p[a]) =>
           \E k \in DOMAIN Top.node.kids : p[a].at = Append(Top.at, k) /\ k >= Base(Top.node)
    <3>1. Base(Top.node) = 1
      BY <1>0 DEF Base, DomainKind
    <3> QED BY <1>3, <3>1
  <2>2. Top.node.k \in Openers /\ Top.node.k # "program"
    BY <1>0 DEF Openers
  <2>3. \A r \in DOMAIN scopes : scopes'[r].parent = scopes[r].parent
    BY <1>4
  <2> QED BY <1>0, <1>1, <1>3, <1>4, <1>6, <1>7, <2>1, <2>2, <2>3, OpenStep
<1>10. Tabled(N, DoneSites(N, work), DoneUses(N, work), P, scopes', idents, objects)
  <2>1. \A r \in DOMAIN scopes : scopes'[r].symbols = scopes[r].symbols /\ P[r] = O[r]
    BY <1>4, <1>9 DEF Keeps
  <2> QED BY <1>1, <1>4, <2>1, EmptyScope
<1>11. /\ DoneSites(N, work') = DoneSites(N, work) /\ DoneUses(N, work') = DoneUses(N, work)
       /\ DoneCalls(N, work') = DoneCalls(N, work)
  BY <1>2, <1>5, <1>8, NoNews
<1>12. LookingUp(P, scopes', work', resolved')
  <2>1. <<c>> \in Stacks /\ ~Asks(p \o <<c>>) /\ p \o <<c>> \in Stacks
    <3>1. <<c>> \in Stacks /\ DOMAIN <<c>> = {1} /\ <<c>>[1] = c /\ Len(<<c>>) = 1
      BY <1>4 DEF Stacks
    <3>2. /\ p \o <<c>> \in Stacks /\ Len(p) \in Nat /\ DOMAIN (p \o <<c>>) = 1 .. Len(p) + 1
          /\ \A i \in 1 .. Len(p) : (p \o <<c>>)[i] = p[i]
          /\ (p \o <<c>>)[Len(p) + 1] = c
      BY <1>3, <3>1, Joined
    <3>3. DOMAIN p = 1 .. Len(p)
      BY <1>3 DEF Stacks
    <3> QED BY <1>3, <1>4, <3>1, <3>2, <3>3 DEF Asks, Waits
  <2>2. work \in Stacks /\ LookupInv
    BY DEF IInv, Shapes
  <2> QED BY <1>0, <2>1, <2>2, NotLooking
<1>13. Called(N, DoneCalls(N, work'))
  BY <1>11 DEF Following
<1> QED BY <1>0, <1>5, <1>9, <1>10, <1>11, <1>12, <1>13 DEF Following

(* An item of a block or of the program declares its name there.           *)
LEMMA OuterHome ==
  ASSUME IInv, work # <<>>, NEW N, Whole(N), NEW O, Following(N, O), Placed(Top),
         Top.node.k \in {"declaration"} \union RoutineKind
  PROVE  LET s == SiteOf(NodeOf(Top), 1) IN
         /\ 1 \in Naming(Top.node) /\ s \in SitesIn(N) /\ current \in DOMAIN scopes /\ O[current] \in N
         /\ s.owner = O[current].at /\ s.name = Top.node.xs[1] /\ s.place = NameAt(Top.at, 1)
         /\ Top.node.k = "declaration" => s.type = L!Value
         /\ Top.node.k # "declaration" =>
              /\ s.type = L!TypeOf(Top.node) /\ s.owner = <<>> /\ Top.at = Append(<<>>, s.from)
<1> DEFINE n == NodeOf(Top)
           s == SiteOf(n, 1)
<1>1. Walk(work, N) /\ Placing(N, O)
  BY DEF Following
<1>2. Grown(N) /\ n \in N /\ n.t = Top.node /\ n.at = Top.at /\ Top.at \in Seq(Int)
  BY <1>1, WalkTop
<1>3. 1 \in Naming(n.t) /\ Outer(n.t, 1)
  <2>1. n.t \in Tree
    BY <1>2, NodeIs
  <2>2. Len(n.t.xs) >= 1 /\ Len(n.t.xs) \in Nat
    BY <1>2, <2>1, NodeKind
  <2>3. n.t.k \in {"declaration"} \union RoutineKind
    BY <1>2
  <2> HIDE DEF n
  <2>4. Outer(n.t, 1)
    BY <2>3 DEF Outer
  <2>5. 1 \in 1 .. Len(n.t.xs)
    BY <2>2
  <2> QED BY <2>3, <2>4, <2>5 DEF Naming, RoutineKind, Routines, Forwards, DomainKind
<1> HIDE DEF n
<1>4. PICK p \in N : \E j \in DOMAIN p.t.kids :
           /\ n.t = p.t.kids[j] /\ n.at = Append(p.at, j) /\ j \in Int /\ j > 0
           /\ s.owner = p.at
           /\ s.from = IF n.t.k = "declaration" THEN j + 1 ELSE j
           /\ p.t.k \in {"program", "block"}
           /\ n.t.k # "declaration" => p.at = <<>>
  <2>1. PICK i \in Naming(n.t) : i = 1 /\ Outer(n.t, i)
    BY <1>3
  <2>2. s = SiteOf(n, i)
    BY <2>1
  <2>3. n \in N
    BY <1>2
  <2> HIDE DEF s
  <2> QED BY ONLY <2>1, <2>2, <2>3, Whole(N), OuterSite
<1>5. PICK j \in DOMAIN p.t.kids :
           /\ n.t = p.t.kids[j] /\ n.at = Append(p.at, j) /\ j \in Int /\ j > 0
           /\ s.owner = p.at
           /\ s.from = IF n.t.k = "declaration" THEN j + 1 ELSE j
           /\ p.t.k \in {"program", "block"}
           /\ n.t.k # "declaration" => p.at = <<>>
  BY <1>4
<1>6. O[current] = p
  <2>1. p.t.k \in Openers /\ j >= Base(p.t)
    BY <1>5 DEF Openers, Base, DomainKind
  <2>2. Home(N, p, n.at)
    BY <1>2, <1>5, <2>1, HomeOwn
  <2>3. Home(N, O[current], n.at) /\ O[current] \in N
    BY <1>1, <1>2, TopHome
  <2> QED BY <1>2, <2>2, <2>3, SameHome
<1>7. current \in DOMAIN scopes
  BY DEF IInv, Shapes
<1>8. /\ s.place = NameAt(n.at, 1) /\ s.name = n.t.xs[1]
      /\ s.type = IF n.t.k = "declaration" THEN L!Value ELSE L!TypeOf(n.t)
  BY <1>2, <1>3, SiteFields
<1>9. s \in SitesIn(N)
  BY <1>2, <1>3, SiteIs
<1>10. /\ n.t.k = "declaration" => s.type = L!Value
       /\ n.t.k # "declaration" => s.type = L!TypeOf(n.t) /\ s.owner = <<>> /\ n.at = Append(<<>>, s.from)
  BY <1>5, <1>8
<1> HIDE DEF s
<1>11. /\ 1 \in Naming(Top.node) /\ s \in SitesIn(N) /\ current \in DOMAIN scopes /\ O[current] \in N
       /\ s.owner = O[current].at /\ s.name = Top.node.xs[1] /\ s.place = NameAt(Top.at, 1)
  BY <1>2, <1>3, <1>4, <1>5, <1>6, <1>7, <1>8, <1>9
<1> QED BY <1>2, <1>10, <1>11 DEF s, n

LEMMA SiteNews ==
  ASSUME NEW N, Grown(N), NEW n \in N, NEW w, NEW v, Advances(w, v, N, n, {1}),
         n.t.k \in {"declaration"} \union RoutineKind, 1 \in Naming(n.t)
  PROVE  /\ DoneSites(N, v) = DoneSites(N, w) \union {SiteOf(n, 1)} /\ DoneUses(N, v) = DoneUses(N, w)
         /\ DoneCalls(N, v) = DoneCalls(N, w)
<1>1. n.t.k # "name" /\ n.t.k \notin CallKind
  BY DEF RoutineKind, CallKind, Routines, Forwards
<1>2. PICK I \in SUBSET Nat : I = {1}
  OBVIOUS
<1>3. /\ DoneSites(N, v) = DoneSites(N, w) \union {SiteOf(n, i) : i \in I \intersect Naming(n.t)}
      /\ DoneUses(N, v) = DoneUses(N, w) \union {u \in {n} : n.t.k = "name" /\ 1 \in I}
      /\ DoneCalls(N, v) = DoneCalls(N, w) \union {u \in {n} : n.t.k \in CallKind /\ 0 \in I}
  BY <1>2, News
<1>4. /\ {SiteOf(n, i) : i \in I \intersect Naming(n.t)} = {SiteOf(n, 1)}
      /\ {u \in {n} : n.t.k = "name" /\ 1 \in I} = {}
      /\ {u \in {n} : n.t.k \in CallKind /\ 0 \in I} = {}
  BY <1>1, <1>2
<1> QED BY <1>3, <1>4
-----------------------------------------------------------------------------
(* What every step of the walk finds at an item of a node.                 *)
LEMMA OwnPending ==
  ASSUME IInv, work # <<>>, NEW N, Whole(N), Walk(work, N), Placed(Top), NEW i \in Nat,
         Pends(Top, NameAt(Top.at, i))
  PROVE  \A q \in DoneSites(N, work) : q.place # NameAt(Top.at, i)
<1>1. \A e : Pending(work, 1, e) <=> Pends(Top, e) \/ Pending(Under, 1, e)
  BY WalkTop
<1> QED BY <1>1 DEF DoneSites

(* One name declared in the current scope.                                 *)
LEMMA DeclaredFollow ==
  ASSUME IInv, work # <<>>, NEW N, Whole(N), NEW O, Following(N, O),
         Top.op \in {"declare", "routine"}, work' = Under, resolved' = resolved, current' = current,
         NEW xs \in Seq(STRING), Len(xs) = 1, xs[1] = Top.node.xs[1],
         xs[1] \notin DOMAIN scopes[current].symbols,
         NEW ty \in TypeRecords, TypeFits(ty, SiteOf(NodeOf(Top), 1).type),
         DeclareIn(scopes, current, xs, ty, <<NameAt(Top.at, 1)>>)
  PROVE  Following(N, O)'
<1> DEFINE n == NodeOf(Top)
           s == SiteOf(n, 1)
           D == DoneSites(N, work)
           U == DoneUses(N, work)
<1> PICK places : places = <<NameAt(Top.at, 1)>>
  OBVIOUS
<1>0. Placed(Top)
  BY DEF Placed
<1>1. /\ Walk(work, N) /\ Placing(N, O) /\ Owned(N, O, scopes, work)
      /\ Tabled(N, D, U, O, scopes, idents, objects)
  BY DEF Following, Placing
<1>2. /\ Grown(N) /\ n \in N /\ n.t = Top.node /\ n.at = Top.at /\ Fits(Top) /\ Top.at \in Seq(Int)
  BY <1>0, <1>1, WalkTop
<1>3. n.t.k \in {"declaration"} \union RoutineKind
  BY <1>2 DEF Fits
<1>4. Walk(work', N) /\ Advances(work, work', N, n, {1})
  BY <1>0, <1>1, Pops
<1>5. /\ 1 \in Naming(n.t) /\ s \in SitesIn(N) /\ current \in DOMAIN scopes
      /\ s.owner = O[current].at /\ s.name = xs[1] /\ s.place = NameAt(Top.at, 1)
  BY <1>0, <1>2, <1>3, OuterHome
<1>6. s \notin D
  <2>1. Pends(Top, NameAt(Top.at, 1)) /\ 1 \in Nat
    BY DEF Pends
  <2> QED BY <1>0, <1>1, <1>5, <2>1, OwnPending
<1>7. /\ objects \in ObjectTables /\ Referring(idents, objects) /\ scopes \in Trees /\ Sound(scopes, objects)
  BY DEF IInv, Shapes, Tables2, Sound
<1>8. DOMAIN xs = {1} /\ DOMAIN places = {1} /\ places[1] = NameAt(Top.at, 1)
  OBVIOUS
<1>9. Distinct(xs) /\ Distinct(places) /\ DOMAIN places = DOMAIN xs
  BY <1>8 DEF Distinct
<1>10. \A u \in N : \A i \in DOMAIN xs : u.at # places[i]
  BY <1>2, <1>8, UsePlace
<1> DEFINE f == [i \in {1} |-> s]
<1>11. f[1] = s
  OBVIOUS
<1>12. NewSites(N, D, O[current].at, xs, places, ty, f)
  BY <1>5, <1>6, <1>8, <1>11 DEF NewSites
<1>14. DifferentOwners(O, scopes)
  BY <1>1 DEF Owned, DifferentOwners
<1>15. D \in SUBSET SitesIn(N) /\ U \in SUBSET N
  BY DEF DoneSites, DoneUses, L!Uses
<1>16. \A i \in DOMAIN xs : xs[i] \notin DOMAIN scopes[current].symbols
  BY <1>8
<1>17. DeclareIn(scopes, current, xs, ty, places)
  OBVIOUS
<1> HIDE DEF n, s, D, U, f
<1>18. Tabled(N, D \union {s}, U, O, scopes', idents', objects')
  <2> PICK E : E = D \union {s}
    OBVIOUS
  <2>1. \A e : e \in E <=> e \in D \/ \E i \in DOMAIN xs : e = f[i]
    BY <1>8, <1>11
  <2> PICK c : c = current
    OBVIOUS
  <2> PICK DD : DD = D
    OBVIOUS
  <2>2. NewSites(N, DD, O[c].at, xs, places, ty, f) /\ DeclareIn(scopes, c, xs, ty, places)
    BY <1>12, <1>17
  <2>3. /\ objects \in ObjectTables /\ Referring(idents, objects) /\ Whole(N)
        /\ scopes \in Trees /\ Sound(scopes, objects) /\ DifferentOwners(O, scopes)
        /\ DD \in SUBSET SitesIn(N) /\ U \in SUBSET N /\ Tabled(N, DD, U, O, scopes, idents, objects)
        /\ c \in DOMAIN scopes /\ xs \in Seq(STRING) /\ Distinct(xs)
        /\ \A i \in DOMAIN xs : xs[i] \notin DOMAIN scopes[c].symbols
        /\ DOMAIN places = DOMAIN xs
        /\ \A u \in N : \A i \in DOMAIN xs : u.at # places[i]
        /\ \A e : e \in E <=> e \in DD \/ \E i \in DOMAIN xs : e = f[i]
    BY <1>1, <1>5, <1>7, <1>9, <1>10, <1>14, <1>15, <1>16, <2>1
  <2>4. DeclaresSites(N, O, DD, U, scopes, c, xs, ty, places, f, E)
    BY ONLY <2>2, <2>3 DEF DeclaresSites
  <2>5. Tabled(N, E, U, O, scopes', idents', objects')
    BY ONLY <2>4, DeclareTables
  <2> QED BY <2>5
<1>19. /\ DoneSites(N, work') = D \union {s} /\ DoneUses(N, work') = U
       /\ DoneCalls(N, work') = DoneCalls(N, work)
  BY <1>2, <1>3, <1>4, <1>5, SiteNews DEF s, D, U
<1>20. Placing(N, O)'
  <2>1. DOMAIN scopes' = DOMAIN scopes /\ \A r \in DOMAIN scopes : scopes'[r].parent = scopes[r].parent
    <3>1. DOMAIN places \subseteq DOMAIN xs
      BY <1>9
    <3>2. SameParents(scopes', scopes) /\ scopes' \in Trees
      BY <1>5, <1>7, <1>17, <3>1, DeclareInKeeps
    <3> QED BY <1>7, <3>2 DEF SameParents, Trees
  <2>2. \A e \in Events(N) : Pending(work', 1, e) => Pending(work, 1, e)
    BY <1>4 DEF Advances
  <2> QED BY <1>0, <1>1, <2>1, <2>2, PopStep
<1>21. LookingUp(O, scopes', work', resolved')
  BY PopsQuiet
<1>22. Called(N, DoneCalls(N, work'))
  BY <1>19 DEF Following
<1> QED BY <1>4, <1>18, <1>19, <1>20, <1>21, <1>22 DEF Following

LEMMA DeclareFollow ==
  ASSUME IInv, NEW N, Whole(N), NEW O, Following(N, O), Declare, verdict' = "running"
  PROVE  Following(N, O)'
<1>0. /\ Top.op = "declare" /\ work # <<>> /\ work' = Under /\ resolved' = resolved
      /\ current' = current /\ Placed(Top)
      /\ Top.node.xs[1] \notin DOMAIN scopes[current].symbols
      /\ DeclareIn(scopes, current, Top.node.xs, ValueTy, <<NameAt(Top.at, 1)>>)
  BY DEF Declare, Resuming, Throw, Placed
<1>1. Walk(work, N)
  BY DEF Following
<1>2. Fits(Top) /\ Top.node \in Tree
  BY <1>0, <1>1, WalkTop
<1>3. Top.node.k = "declaration"
  BY <1>0, <1>2 DEF Fits
<1>4. Top.node.xs \in Seq(STRING) /\ Len(Top.node.xs) = 1
  BY <1>2, <1>3, NodeKind
<1>5. SiteOf(NodeOf(Top), 1).type = L!Value
  BY <1>0, <1>3, OuterHome
<1>6. TypeFits(ValueTy, SiteOf(NodeOf(Top), 1).type)
  BY <1>5 DEF TypeFits, ValueTy
<1>7. ValueTy \in TypeRecords
  BY DEF ValueTy, TypeRecords
<1> QED BY <1>0, <1>4, <1>6, <1>7, DeclaredFollow

LEMMA DeclareRejects ==
  ASSUME IInv, NEW N, Whole(N), NEW O, Following(N, O), Declare, verdict' # "running"
  PROVE  ~WellFormed(N)
<1> DEFINE s == SiteOf(NodeOf(Top), 1)
           D == DoneSites(N, work)
<1>0. /\ Top.op = "declare" /\ work # <<>> /\ Placed(Top)
      /\ Top.node.xs[1] \in DOMAIN scopes[current].symbols
  BY DEF Declare, Resuming, Goes, Placed
<1>1. Walk(work, N) /\ Kept(D, O, scopes, idents, objects)
  BY DEF Following, Tabled
<1>2. Fits(Top)
  BY <1>0, <1>1, WalkTop
<1>3. Top.node.k = "declaration"
  BY <1>0, <1>2 DEF Fits
<1>4. /\ s \in SitesIn(N) /\ current \in DOMAIN scopes
      /\ s.owner = O[current].at /\ s.name = Top.node.xs[1] /\ s.place = NameAt(Top.at, 1)
      /\ s.type = L!Value
  BY <1>0, <1>3, OuterHome
<1>5. PICK q \in D : Keeper(D, q, O[current].at, Top.node.xs[1], scopes[current].symbols[Top.node.xs[1]], idents, objects)
  BY <1>0, <1>1, <1>4 DEF Kept
<1>6. q.place # s.place
  <2>1. Pends(Top, NameAt(Top.at, 1)) /\ 1 \in Nat
    BY <1>0 DEF Pends
  <2> QED BY <1>0, <1>1, <1>4, <2>1, OwnPending
<1>7. q \in SitesIn(N) /\ q.owner = s.owner /\ q.name = s.name
  BY <1>4, <1>5 DEF Keeper, DoneSites
<1>8. L!Clash(s, q)
  BY <1>4, <1>6, <1>7 DEF L!Clash
<1> QED BY <1>4, <1>7, <1>8 DEF WellFormed
-----------------------------------------------------------------------------
(* The scope of a loop, generator or filter, or of a routine's parameters. *)
Skips(f) == IF f.op = "body" THEN 1 ELSE 0
Inward(f) == IF f.op = "body" THEN Nat \ {1} ELSE Nat
Entered(f) == IF f.op = "body" THEN 1 ELSE Len(f.node.kids)

LEMMA OwnSites ==
  ASSUME IInv, work # <<>>, NEW N, Whole(N), Walk(work, N), Top.op \in {"enter", "body"}
  PROVE  LET n == NodeOf(Top)
             d == Skips(Top)
         IN /\ n \in N /\ n.t = Top.node /\ n.at = Top.at /\ Top.at \in Seq(Int) /\ Top.node \in Tree
            /\ d \in {0, 1} /\ Len(Top.node.xs) \in Nat /\ Len(Top.node.xs) >= d /\ Top.node.xs \in Seq(STRING)
            /\ Naming(Top.node) = 1 .. Len(Top.node.xs)
            /\ Top.node.k \in DomainKind \union Routines
            /\ Entered(Top) \in DOMAIN Top.node.kids /\ Entered(Top) = Base(Top.node)
            /\ Entered(Top) \in Int
            /\ \A i \in d + 1 .. Len(Top.node.xs) :
                 /\ SiteOf(n, i) \in SitesIn(N) \ DoneSites(N, work)
                 /\ SiteOf(n, i).owner = n.at /\ SiteOf(n, i).name = Top.node.xs[i]
                 /\ SiteOf(n, i).place = NameAt(Top.at, i) /\ SiteOf(n, i).type = L!Value
<1> DEFINE n == NodeOf(Top)
           d == Skips(Top)
<1>0. Placed(Top)
  BY DEF Placed
<1>1. /\ Grown(N) /\ n \in N /\ n.t = Top.node /\ n.at = Top.at /\ Fits(Top) /\ Top.at \in Seq(Int)
      /\ Top.node \in Tree
  BY <1>0, WalkTop
<1>2. /\ d \in {0, 1}
      /\ Top.op = "enter" => d = 0 /\ Top.node.k \in DomainKind
      /\ Top.op = "body" => d = 1 /\ Top.node.k \in Routines
  BY <1>1 DEF Fits, Skips
<1>3. /\ Top.node.xs \in Seq(STRING) /\ Len(Top.node.xs) \in Nat /\ Top.node.kids \in Seq(Tree)
      /\ Top.node.k \in Routines => Len(Top.node.xs) >= 1 /\ Len(Top.node.kids) = 1
      /\ Top.node.k \in DomainKind => Len(Top.node.kids) >= 1
  <2>1. Top.node.xs \in Seq(STRING) /\ Top.node.kids \in Seq(Tree)
    BY <1>1, NodeKind
  <2>2. /\ Top.node.k \in Routines => Len(Top.node.xs) >= 1 /\ Len(Top.node.kids) = 1
        /\ Top.node.k \in DomainKind => Len(Top.node.kids) >= 1
    BY <1>1, NodeKind DEF RoutineKind
  <2> QED BY <2>1, <2>2
<1>4. Entered(Top) \in DOMAIN Top.node.kids /\ Entered(Top) = Base(Top.node) /\ Entered(Top) \in Int
  <2>1. Top.node.k \in Routines => Top.node.k \notin DomainKind
    BY DEF Routines, DomainKind
  <2> QED BY <1>2, <1>3, <2>1 DEF Entered, Base
<1>5. Naming(Top.node) = 1 .. Len(Top.node.xs) /\ Top.node.k \in DomainKind \union Routines
  BY <1>2 DEF Naming
<1>6. ASSUME NEW i \in d + 1 .. Len(Top.node.xs)
      PROVE  /\ SiteOf(n, i) \in SitesIn(N) \ DoneSites(N, work)
             /\ SiteOf(n, i).owner = n.at /\ SiteOf(n, i).name = Top.node.xs[i]
             /\ SiteOf(n, i).place = NameAt(Top.at, i) /\ SiteOf(n, i).type = L!Value
  <2>1. i \in Naming(n.t) /\ i \in Nat /\ (Top.op = "body" => i # 1)
    BY <1>1, <1>2, <1>3, <1>5
  <2>2. ~Outer(n.t, i)
    BY <1>1, <1>2, <2>1 DEF Outer, DomainKind, RoutineKind, Routines, Forwards
  <2> HIDE DEF n, d
  <2>3. /\ SiteOf(n, i).owner = n.at /\ SiteOf(n, i).name = n.t.xs[i]
        /\ SiteOf(n, i).place = NameAt(n.at, i) /\ SiteOf(n, i).type = L!Value
    BY <1>1, <2>1, <2>2, SiteFields
  <2>4. SiteOf(n, i) \in SitesIn(N)
    BY <1>1, <2>1, SiteIs
  <2>5. Pends(Top, NameAt(Top.at, i))
    BY <2>1 DEF Pends, Names
  <2>6. SiteOf(n, i) \notin DoneSites(N, work)
    BY <1>0, <1>1, <2>1, <2>3, <2>5, OwnPending
  <2> QED BY <1>1, <2>3, <2>4, <2>6
<1> QED BY <1>1, <1>2, <1>3, <1>4, <1>5, <1>6

LEMMA EnterNews ==
  ASSUME NEW N, Grown(N), NEW n \in N, n.t.k \in DomainKind \union Routines, Naming(n.t) = 1 .. Len(n.t.xs),
         Len(n.t.xs) \in Nat,
         NEW d \in {0, 1}, NEW w, NEW v, Advances(w, v, N, n, IF d = 1 THEN Nat \ {1} ELSE Nat)
  PROVE  /\ \A e : e \in DoneSites(N, v) <=>
                     e \in DoneSites(N, w) \/ \E i \in d + 1 .. Len(n.t.xs) : e = SiteOf(n, i)
         /\ DoneUses(N, v) = DoneUses(N, w) /\ DoneCalls(N, v) = DoneCalls(N, w)
<1>1. n.t.k # "name" /\ n.t.k \notin CallKind
  BY DEF DomainKind, Routines, CallKind
<1> PICK I \in SUBSET Nat : I = IF d = 1 THEN Nat \ {1} ELSE Nat
  OBVIOUS
<1>2. /\ DoneSites(N, v) = DoneSites(N, w) \union {SiteOf(n, i) : i \in I \intersect Naming(n.t)}
      /\ DoneUses(N, v) = DoneUses(N, w) \union {u \in {n} : n.t.k = "name" /\ 1 \in I}
      /\ DoneCalls(N, v) = DoneCalls(N, w) \union {u \in {n} : n.t.k \in CallKind /\ 0 \in I}
  <2>1. Advances(w, v, N, n, I)
    OBVIOUS
  <2> QED BY ONLY <2>1, Grown(N), n \in N, I \in SUBSET Nat, News
<1>3. I \intersect Naming(n.t) = d + 1 .. Len(n.t.xs)
  OBVIOUS
<1>4. {u \in {n} : n.t.k = "name" /\ 1 \in I} = {} /\ {u \in {n} : n.t.k \in CallKind /\ 0 \in I} = {}
  BY <1>1
<1> QED BY <1>2, <1>3, <1>4
-----------------------------------------------------------------------------
LEMMA SameDomain ==
  ASSUME NEW a \in Trees, NEW b \in Trees, SameParents(a, b)
  PROVE  DOMAIN a = DOMAIN b
  BY DEF Trees, SameParents

LEMMA EnteredFollow ==
  ASSUME IInv, work # <<>>, NEW N, Whole(N), NEW O, Following(N, O), Top.op \in {"enter", "body"},
         NEW xs \in Seq(STRING), Distinct(xs), Len(xs) = Len(Top.node.xs) - Skips(Top),
         \A i \in 1 .. Len(xs) : xs[i] = Top.node.xs[i + Skips(Top)],
         NEW places, DOMAIN places = 1 .. Len(xs),
         \A i \in 1 .. Len(xs) : places[i] = NameAt(Top.at, i + Skips(Top)),
         DeclareIn(Append(scopes, Scope(current)), Len(scopes) + 1, xs, ValueTy, places),
         current' = Len(scopes) + 1, resolved' = resolved,
         work' = (<<Kid(Top.node, Top.at, Entered(Top))>> \o <<CloseScope(Top.node, Len(scopes) + 1)>>) \o Under,
         Walk(work', N), Advances(work, work', N, NodeOf(Top), Inward(Top))
  PROVE  \E P : Following(N, P)'
<1> DEFINE n == NodeOf(Top)
           d == Skips(Top)
           D == DoneSites(N, work)
           U == DoneUses(N, work)
           p == <<Kid(Top.node, Top.at, Entered(Top))>>
           c == CloseScope(Top.node, Len(scopes) + 1)
<1> PICK new : new = Append(scopes, Scope(current))
  OBVIOUS
<1> PICK z : z = Len(scopes) + 1
  OBVIOUS
<1>0. Placed(Top)
  BY DEF Placed
<1>1. /\ Walk(work, N) /\ Placing(N, O) /\ Tabled(N, D, U, O, scopes, idents, objects)
  BY DEF Following
<1>2. /\ n \in N /\ n.t = Top.node /\ n.at = Top.at /\ Top.at \in Seq(Int) /\ Top.node \in Tree
      /\ d \in {0, 1} /\ Len(Top.node.xs) \in Nat /\ Len(Top.node.xs) >= d /\ Top.node.xs \in Seq(STRING)
      /\ Naming(Top.node) = 1 .. Len(Top.node.xs)
      /\ Top.node.k \in DomainKind \union Routines
      /\ Entered(Top) \in DOMAIN Top.node.kids /\ Entered(Top) = Base(Top.node)
      /\ Entered(Top) \in Int
      /\ \A i \in d + 1 .. Len(Top.node.xs) :
           /\ SiteOf(n, i) \in SitesIn(N) \ D
           /\ SiteOf(n, i).owner = n.at /\ SiteOf(n, i).name = Top.node.xs[i]
           /\ SiteOf(n, i).place = NameAt(Top.at, i) /\ SiteOf(n, i).type = L!Value
  BY <1>1, OwnSites
<1>3. Grown(N) /\ Under \in Stacks
  BY <1>0, <1>1, WalkTop
<1>4. /\ p \in Stacks /\ NoCloses(p) /\ DOMAIN p = {1} /\ p[1].at = Append(Top.at, Entered(Top))
      /\ p[1].op = "visit" /\ Len(p) = 1
  <2> DEFINE g == Kid(Top.node, Top.at, Entered(Top))
  <2>1. g \in Frames /\ g.op = "visit" /\ g.at = Append(Top.at, Entered(Top))
    <3>1. g \in Frames /\ g.op = "visit"
      <4>1. Top.node.kids \in Seq(Tree)
        BY <1>2, NodeShape
      <4>2. Entered(Top) \in 1 .. Len(Top.node.kids)
        BY <1>2, <4>1
      <4> QED BY <1>2, <4>1, <4>2, KidsShape
    <3>2. g.at = Append(Top.at, Entered(Top))
      BY DEF Kid, Visit, Item
    <3> QED BY <3>1, <3>2
  <2> HIDE DEF g
  <2>2. <<g>> \in Stacks /\ DOMAIN <<g>> = {1} /\ <<g>>[1] = g /\ Len(<<g>>) = 1
    BY <2>1 DEF Stacks
  <2>3. p = <<g>>
    BY DEF g
  <2> HIDE DEF p
  <2> QED BY <2>1, <2>2, <2>3 DEF NoCloses, Closes
<1>5. /\ new \in Trees /\ z \in DOMAIN new /\ Sound(new, objects) /\ Len(new) = z /\ z \in Nat
      /\ DOMAIN new = DOMAIN scopes \union {z} /\ z \notin DOMAIN scopes
      /\ \A r \in DOMAIN scopes : new[r] = scopes[r]
      /\ new[z].parent = current /\ new[z].symbols = <<>>
  <2>1. new \in Trees /\ z \in DOMAIN new /\ Sound(new, objects) /\ Len(new) = z
    BY NewScope
  <2>2. scopes \in Seq(ScopeRecords) /\ Len(scopes) \in Nat /\ DOMAIN scopes = 1 .. Len(scopes)
    BY DEF IInv, Shapes, Trees
  <2>3. Scope(current).parent = current /\ Scope(current).symbols = <<>>
    BY DEF Scope
  <2> QED BY <2>1, <2>2, <2>3 DEF Trees
<1>6. c \in Frames /\ c.op = "close"
  BY <1>2, <1>5, CloseFrame
<1>7. DeclareIn(new, z, xs, ValueTy, places) /\ current' = z
  OBVIOUS
<1>8. objects \in ObjectTables /\ Referring(idents, objects) /\ ValueTy \in TypeRecords
  <2>1. ValueTy \in TypeRecords
    BY ONLY DEF ValueTy, TypeRecords
  <2>2. objects \in ObjectTables /\ Referring(idents, objects)
    BY ONLY IInv DEF IInv, Shapes, Tables2
  <2> QED BY <2>1, <2>2
<1>9. DOMAIN places = DOMAIN xs /\ DOMAIN xs = 1 .. Len(xs) /\ Len(xs) \in Nat
  OBVIOUS
<1>10. SameParents(scopes', new) /\ scopes' \in Trees
  <2>1. DOMAIN places \subseteq DOMAIN xs
    BY <1>9
  <2> QED BY <1>5, <1>7, <1>8, <2>1, DeclareInKeeps
<1>11. /\ DOMAIN scopes' = DOMAIN new /\ \A r \in DOMAIN scopes : scopes'[r].parent = scopes[r].parent
       /\ scopes'[z].parent = current
  <2>1. DOMAIN scopes' = DOMAIN new
    BY <1>5, <1>10, SameDomain
  <2>2. \A r \in DOMAIN new : scopes'[r].parent = new[r].parent
    BY ONLY <1>10 DEF SameParents
  <2> QED BY ONLY <1>5, <2>1, <2>2
<1>12. \A e \in Events(N) : Pending(work', 1, e) => Pending(work, 1, e)
  BY DEF Advances
<1>13. ~Pending(work', 1, NameAt(Top.at, 0)) /\ Pends(Top, NameAt(Top.at, 0))
  <2>1. NameAt(n.at, 0) \in Events(N)
    BY <1>2, <1>3, OwnEvent
  <2>2. NameAt(n.at, 0) \in Names(n.at, Inward(Top))
    <3>1. 0 \in Inward(Top)
      BY ONLY DEF Inward
    <3> QED BY ONLY <3>1 DEF Names
  <2>3. ~Pending(work', 1, NameAt(Top.at, 0))
    BY <1>2, <2>1, <2>2 DEF Advances
  <2>4. Pends(Top, NameAt(Top.at, 0))
    <3>1. 0 \in Nat \ {1} /\ 0 \in Nat
      OBVIOUS
    <3> QED BY ONLY <3>1, Top.op \in {"enter", "body"} DEF Pends, Names
  <2> QED BY <2>3, <2>4
<1> HIDE DEF n, d, D, U, c, p
<1>14. PICK P : Placing(N, P)' /\ Keeps(scopes', P, scopes, O) /\ P[z] = NodeOf(Top)
  <2>1. \A a \in DOMAIN p : Placed(p[a]) =>
           \E k \in DOMAIN Top.node.kids : p[a].at = Append(Top.at, k) /\ k >= Base(Top.node)
    <3>1. Entered(Top) >= Base(Top.node)
      BY ONLY <1>2
    <3> QED BY ONLY <1>2, <1>4, <3>1
  <2>2. Top.node.k \in Openers /\ Top.node.k # "program"
    BY <1>2 DEF Openers, DomainKind, Routines
  <2>3. work' = (p \o <<c>>) \o Under
    BY DEF p, c
  <2>4. /\ DOMAIN scopes' = DOMAIN scopes \union {Len(scopes) + 1}
        /\ scopes'[Len(scopes) + 1].parent = current /\ current' = Len(scopes) + 1
    BY <1>5, <1>11
  <2>5. IInv /\ work # <<>> /\ Whole(N) /\ z = Len(scopes) + 1
    OBVIOUS
  <2>6. \E P : Placing(N, P)' /\ Keeps(scopes', P, scopes, O) /\ P[Len(scopes) + 1] = NodeOf(Top)
    BY ONLY <1>0, <1>1, <1>4, <1>6, <1>11, <1>12, <1>13, <2>1, <2>2, <2>3, <2>4, <2>5, OpenStep
  <2> QED BY ONLY <2>5, <2>6
<1>15. Tabled(N, D, U, P, new, idents, objects)
  <2>1. \A r \in DOMAIN scopes : new[r].symbols = scopes[r].symbols /\ P[r] = O[r]
    BY <1>5, <1>14 DEF Keeps
  <2>2. /\ Tabled(N, D, U, O, scopes, idents, objects)
        /\ z \notin DOMAIN scopes /\ DOMAIN new = DOMAIN scopes \union {z} /\ new[z].symbols = <<>>
    BY <1>1, <1>5
  <2> QED BY ONLY <2>1, <2>2, EmptyScope
<1>16. DifferentOwners(P, new)
  BY <1>11, <1>14 DEF Placing, Owned, DifferentOwners
<1>17. /\ \A e : e \in DoneSites(N, work') <=>
                   e \in D \/ \E i \in d + 1 .. Len(n.t.xs) : e = SiteOf(n, i)
       /\ DoneUses(N, work') = U /\ DoneCalls(N, work') = DoneCalls(N, work)
  <2>1. Advances(work, work', N, n, IF d = 1 THEN Nat \ {1} ELSE Nat)
    <3>1. Inward(Top) = IF d = 1 THEN Nat \ {1} ELSE Nat
      BY ONLY DEF Inward, d, Skips
    <3> QED BY <3>1 DEF n
  <2>2. /\ \A e : e \in DoneSites(N, work') <=>
                   e \in DoneSites(N, work) \/ \E i \in d + 1 .. Len(n.t.xs) : e = SiteOf(n, i)
        /\ DoneUses(N, work') = DoneUses(N, work) /\ DoneCalls(N, work') = DoneCalls(N, work)
    BY ONLY <1>2, <1>3, <2>1, EnterNews, SMTT(30)
  <2> QED BY ONLY <2>2 DEF D, U
<1> PICK E : E = DoneSites(N, work')
  OBVIOUS
<1>25. E = DoneSites(N, work')
  OBVIOUS
<1> PICK f : f = [i \in 1 .. Len(xs) |-> SiteOf(n, i + d)]
  OBVIOUS
<1>18. \A i \in 1 .. Len(xs) : f[i] = SiteOf(n, i + d) /\ i + d \in d + 1 .. Len(Top.node.xs)
  BY <1>2, <1>9 DEF d
<1>19. \A e : e \in E <=> e \in D \/ \E i \in DOMAIN xs : e = f[i]
  <2>1. \A i \in d + 1 .. Len(n.t.xs) : i - d \in 1 .. Len(xs) /\ (i - d) + d = i
    BY <1>2, <1>9 DEF d
  <2>2. \A e : (\E i \in d + 1 .. Len(n.t.xs) : e = SiteOf(n, i)) <=> \E i \in DOMAIN xs : e = f[i]
    <3> TAKE e
    <3>1. ASSUME NEW i \in d + 1 .. Len(n.t.xs), e = SiteOf(n, i) PROVE \E j \in DOMAIN xs : e = f[j]
      <4>1. i - d \in DOMAIN xs /\ f[i - d] = SiteOf(n, i)
        BY <1>9, <1>18, <2>1
      <4> QED BY <3>1, <4>1
    <3>2. ASSUME NEW j \in DOMAIN xs, e = f[j] PROVE \E i \in d + 1 .. Len(n.t.xs) : e = SiteOf(n, i)
      <4>1. j + d \in d + 1 .. Len(n.t.xs) /\ f[j] = SiteOf(n, j + d)
        BY <1>2, <1>9, <1>18
      <4> QED BY <3>2, <4>1
    <3> QED BY <3>1, <3>2
  <2> QED BY ONLY <1>17, <1>25, <2>2
<1>20. NewSites(N, D, P[z].at, xs, places, ValueTy, f)
  <2>1. P[z].at = n.at
    BY <1>14 DEF n
  <2>2. TypeFits(ValueTy, L!Value)
    BY DEF TypeFits, ValueTy
  <2>3. ASSUME NEW i \in DOMAIN xs
        PROVE  /\ f[i] \in SitesIn(N) \ D /\ f[i].owner = n.at /\ f[i].name = xs[i] /\ f[i].place = places[i]
               /\ f[i].type = L!Value
    BY <1>2, <1>9, <1>18 DEF d
  <2> QED BY <2>1, <2>2, <2>3 DEF NewSites
<1>21. \A u \in N : \A i \in DOMAIN xs : u.at # places[i]
  <2> TAKE u \in N
  <2> TAKE i \in DOMAIN xs
  <2>1. i + Skips(Top) \in Nat /\ places[i] = NameAt(Top.at, i + Skips(Top))
    BY <1>2, <1>9 DEF d
  <2> QED BY <1>2, <1>3, <2>1, UsePlace, SMTT(30)
<1>22. Tabled(N, E, U, P, scopes', idents', objects')
  <2>1. \A i \in DOMAIN xs : xs[i] \notin DOMAIN new[z].symbols
    BY <1>5
  <2>2. D \in SUBSET SitesIn(N) /\ U \in SUBSET N
    BY DEF DoneSites, DoneUses, L!Uses, D, U
  <2>3. DeclaresSites(N, P, D, U, new, z, xs, ValueTy, places, f, E)
    BY <1>5, <1>7, <1>8, <1>9, <1>15, <1>16, <1>19, <1>20, <1>21, <2>1, <2>2 DEF DeclaresSites
  <2> QED BY ONLY <2>3, DeclareTables
<1>23. LookingUp(P, scopes', work', resolved')
  <2> PICK e : e = <<c>>
    OBVIOUS
  <2>1. e \in Stacks /\ e[1] = c /\ Len(e) = 1
    BY <1>6 DEF Stacks
  <2>2. /\ p \o e \in Stacks /\ DOMAIN (p \o e) = 1 .. Len(p) + Len(e)
        /\ \A i \in 1 .. Len(p) : (p \o e)[i] = p[i]
        /\ \A i \in 1 .. Len(e) : (p \o e)[Len(p) + i] = e[i]
    BY ONLY <1>4, <2>1, Joined
  <2>3. \A i \in DOMAIN (p \o e) : (p \o e)[i] = p[1] \/ (p \o e)[i] = c
    BY ONLY <1>4, <2>1, <2>2
  <2>4. ~Asks(p \o e)
    BY ONLY <1>4, <1>6, <2>3 DEF Asks, Waits
  <2>5. work \in Stacks /\ LookupInv
    BY DEF IInv, Shapes
  <2>6. work' = (p \o e) \o Under
    BY DEF p, c
  <2> QED BY <2>2, <2>4, <2>5, <2>6, NotLooking
<1>24. Called(N, DoneCalls(N, work'))
  BY <1>17 DEF Following
<1> QED BY <1>14, <1>17, <1>22, <1>23, <1>24 DEF Following
-----------------------------------------------------------------------------
LEMMA Pair ==
  ASSUME NEW a, NEW b
  PROVE  <<a, b>> = <<a>> \o <<b>>
<1>1. <<a>> \in Seq({a, b}) /\ <<b>> \in Seq({a, b}) /\ Len(<<a>>) = 1 /\ Len(<<b>>) = 1
  OBVIOUS
<1>2. <<a>> \o <<b>> \in Seq({a, b}) /\ Len(<<a>> \o <<b>>) = 2
  BY <1>1
<1>3. (<<a>> \o <<b>>)[1] = a /\ (<<a>> \o <<b>>)[2] = b
  BY <1>1
<1>4. <<a, b>> \in Seq({a, b}) /\ Len(<<a, b>>) = 2 /\ <<a, b>>[1] = a /\ <<a, b>>[2] = b
  OBVIOUS
<1> PICK s : s = <<a>> \o <<b>>
  OBVIOUS
<1> PICK t : t = <<a, b>>
  OBVIOUS
<1> PICK S : S = {a, b}
  OBVIOUS
<1>5. s \in Seq(S) /\ Len(s) = 2 /\ s[1] = a /\ s[2] = b
  BY <1>2, <1>3
<1>6. t \in Seq(S) /\ Len(t) = 2 /\ t[1] = a /\ t[2] = b
  BY <1>4
<1>7. \A i \in 1 .. Len(s) : s[i] = t[i]
  BY ONLY <1>5, <1>6
<1>8. s = t
  BY ONLY <1>5, <1>6, <1>7, SeqEqual
<1> QED BY <1>8

LEMMA NamesTail ==
  ASSUME NEW xs \in Seq(STRING), Len(xs) >= 1
  PROVE  /\ Tail(xs) \in Seq(STRING) /\ Len(Tail(xs)) = Len(xs) - 1
         /\ \A i \in 1 .. Len(xs) - 1 : Tail(xs)[i] = xs[i + 1]
  OBVIOUS

LEMMA EnterDomainFollow ==
  ASSUME IInv, NEW N, Whole(N), NEW O, Following(N, O), EnterDomain, verdict' = "running"
  PROVE  \E P : Following(N, P)'
<1> DEFINE g == Kid(Top.node, Top.at, Len(Top.node.kids))
           c == CloseScope(Top.node, Len(scopes) + 1)
<1> PICK xs : xs = Top.node.xs
  OBVIOUS
<1> PICK places : places = Places(Top.at, Len(Top.node.xs))
  OBVIOUS
<1>0. /\ Top.op = "enter" /\ work # <<>> /\ resolved' = resolved /\ Distinct(xs)
      /\ OpenWith(xs, places) /\ work' = <<g, c>> \o Under
  BY DEF EnterDomain, Resuming, Throw
<1>1. Skips(Top) = 0 /\ Entered(Top) = Len(Top.node.kids) /\ Inward(Top) = Nat
  BY <1>0 DEF Skips, Entered, Inward
<1>2. Walk(work, N)
  BY DEF Following
<1>3. xs \in Seq(STRING) /\ Len(xs) \in Nat
  BY <1>0, <1>2, OwnSites
<1>4. Walk(work', N) /\ Advances(work, work', N, NodeOf(Top), Inward(Top))
  BY <1>1, <1>2, EnterDomainWalk
<1>5. /\ DeclareIn(Append(scopes, Scope(current)), Len(scopes) + 1, xs, ValueTy, places)
      /\ current' = Len(scopes) + 1
  BY <1>0 DEF OpenWith
<1>6. /\ Len(xs) = Len(Top.node.xs) - Skips(Top)
      /\ \A i \in 1 .. Len(xs) : xs[i] = Top.node.xs[i + Skips(Top)]
  BY <1>1, <1>3
<1>7. DOMAIN places = 1 .. Len(xs) /\ \A i \in 1 .. Len(xs) : places[i] = NameAt(Top.at, i + Skips(Top))
  BY <1>1, <1>3 DEF Places
<1>8. work' = (<<Kid(Top.node, Top.at, Entered(Top))>> \o <<c>>) \o Under
  <2> HIDE DEF g, c
  <2>1. <<g, c>> = <<g>> \o <<c>>
    BY Pair
  <2>2. g = Kid(Top.node, Top.at, Entered(Top))
    BY <1>1 DEF g
  <2> QED BY <1>0, <2>1, <2>2
<1> QED BY <1>0, <1>3, <1>4, <1>5, <1>6, <1>7, <1>8, EnteredFollow, ZenonT(40)

LEMMA EnterRoutineFollow ==
  ASSUME IInv, NEW N, Whole(N), NEW O, Following(N, O), EnterRoutine, verdict' = "running"
  PROVE  \E P : Following(N, P)'
<1> DEFINE g == Kid(Top.node, Top.at, 1)
           c == CloseScope(Top.node, Len(scopes) + 1)
<1> PICK xs : xs = Tail(Top.node.xs)
  OBVIOUS
<1> PICK places : places = Tail(Places(Top.at, Len(Top.node.xs)))
  OBVIOUS
<1>0. /\ Top.op = "body" /\ work # <<>> /\ resolved' = resolved /\ Distinct(xs)
      /\ OpenWith(xs, places) /\ work' = <<g, c>> \o Under
  BY DEF EnterRoutine, Resuming, Throw
<1>1. Skips(Top) = 1 /\ Entered(Top) = 1 /\ Inward(Top) = Nat \ {1}
  BY <1>0 DEF Skips, Entered, Inward
<1>2. Walk(work, N)
  BY DEF Following
<1>3. /\ Top.node.xs \in Seq(STRING) /\ Len(Top.node.xs) \in Nat /\ Len(Top.node.xs) >= 1
      /\ Top.at \in Seq(Int)
  BY <1>0, <1>1, <1>2, OwnSites
<1>4. Walk(work', N) /\ Advances(work, work', N, NodeOf(Top), Inward(Top))
  BY <1>1, <1>2, EnterRoutineWalk
<1>5. /\ DeclareIn(Append(scopes, Scope(current)), Len(scopes) + 1, xs, ValueTy, places)
      /\ current' = Len(scopes) + 1
  BY <1>0 DEF OpenWith
<1>6. /\ xs \in Seq(STRING) /\ Len(xs) = Len(Top.node.xs) - Skips(Top)
      /\ \A i \in 1 .. Len(xs) : xs[i] = Top.node.xs[i + Skips(Top)]
  <2>1. /\ xs \in Seq(STRING) /\ Len(xs) = Len(Top.node.xs) - 1
        /\ \A i \in 1 .. Len(Top.node.xs) - 1 : xs[i] = Top.node.xs[i + 1]
    BY <1>3, NamesTail
  <2> QED BY <1>1, <2>1
<1>7. DOMAIN places = 1 .. Len(xs) /\ \A i \in 1 .. Len(xs) : places[i] = NameAt(Top.at, i + Skips(Top))
  <2> PICK ps : ps = Places(Top.at, Len(Top.node.xs))
    OBVIOUS
  <2>1. \A i \in 1 .. Len(Top.node.xs) : NameAt(Top.at, i) \in Seq(Int)
    BY <1>3 DEF NameAt
  <2>2. /\ ps \in Seq(Seq(Int)) /\ Len(ps) = Len(Top.node.xs)
        /\ \A i \in 1 .. Len(Top.node.xs) : ps[i] = NameAt(Top.at, i)
    BY <1>3, <2>1 DEF Places
  <2>3. /\ DOMAIN Tail(ps) = 1 .. Len(ps) - 1
        /\ \A i \in 1 .. Len(ps) - 1 : Tail(ps)[i] = ps[i + 1]
    BY <1>3, <2>2
  <2>4. places = Tail(ps) /\ Len(xs) = Len(ps) - 1
    BY <1>1, <1>3, <1>6, <2>2
  <2> QED BY <1>1, <1>3, <2>2, <2>3, <2>4
<1>8. work' = (<<Kid(Top.node, Top.at, Entered(Top))>> \o <<c>>) \o Under
  <2> HIDE DEF g, c
  <2>1. <<g, c>> = <<g>> \o <<c>>
    BY Pair
  <2>2. g = Kid(Top.node, Top.at, Entered(Top))
    BY <1>1 DEF g
  <2> QED BY <1>0, <2>1, <2>2
<1> QED BY <1>0, <1>4, <1>5, <1>6, <1>7, <1>8, EnteredFollow

(* Two names of one scope are two declarations that clash.                 *)
LEMMA SameNameRejects ==
  ASSUME IInv, work # <<>>, NEW N, Whole(N), NEW O, Following(N, O), Top.op \in {"enter", "body"},
         NEW i \in Skips(Top) + 1 .. Len(Top.node.xs), NEW j \in Skips(Top) + 1 .. Len(Top.node.xs), i # j,
         Top.node.xs[i] = Top.node.xs[j]
  PROVE  ~WellFormed(N)
<1> DEFINE s == SiteOf(NodeOf(Top), i)
           r == SiteOf(NodeOf(Top), j)
<1>1. Walk(work, N)
  BY DEF Following
<1>2. /\ s \in SitesIn(N) /\ r \in SitesIn(N) /\ s.name = r.name /\ s.owner = r.owner
      /\ s.type = L!Value /\ s.place = NameAt(Top.at, i) /\ r.place = NameAt(Top.at, j)
      /\ Top.at \in Seq(Int) /\ Skips(Top) \in {0, 1}
  BY <1>1, OwnSites
<1>3. i \in Nat /\ j \in Nat
  BY <1>2
<1> HIDE DEF s, r
<1>4. s # r
  BY <1>2, <1>3, NamePlaceEqual
<1>5. L!Clash(s, r)
  BY <1>2, <1>4 DEF L!Clash
<1> QED BY <1>2, <1>5 DEF WellFormed

LEMMA EnterDomainRejects ==
  ASSUME IInv, NEW N, Whole(N), NEW O, Following(N, O), EnterDomain, verdict' # "running"
  PROVE  ~WellFormed(N)
<1>0. Top.op = "enter" /\ work # <<>> /\ ~Distinct(Top.node.xs)
  BY DEF EnterDomain, Resuming, Goes
<1>1. Skips(Top) = 0
  BY <1>0 DEF Skips
<1>2. Top.node.xs \in Seq(STRING)
  BY <1>0, OwnSites DEF Following
<1>3. PICK i \in DOMAIN Top.node.xs : \E j \in DOMAIN Top.node.xs : i # j /\ Top.node.xs[i] = Top.node.xs[j]
  BY <1>0 DEF Distinct
<1>4. PICK j \in DOMAIN Top.node.xs : i # j /\ Top.node.xs[i] = Top.node.xs[j]
  BY <1>3
<1>5. i \in Skips(Top) + 1 .. Len(Top.node.xs) /\ j \in Skips(Top) + 1 .. Len(Top.node.xs)
  BY <1>1, <1>2, <1>3, <1>4
<1> QED BY <1>0, <1>4, <1>5, SameNameRejects

LEMMA EnterRoutineRejects ==
  ASSUME IInv, NEW N, Whole(N), NEW O, Following(N, O), EnterRoutine, verdict' # "running"
  PROVE  ~WellFormed(N)
<1> PICK xs : xs = Tail(Top.node.xs)
  OBVIOUS
<1>0. Top.op = "body" /\ work # <<>> /\ ~Distinct(xs)
  BY DEF EnterRoutine, Resuming, Goes
<1>1. Skips(Top) = 1
  BY <1>0 DEF Skips
<1>2. Top.node.xs \in Seq(STRING) /\ Len(Top.node.xs) >= 1 /\ Len(Top.node.xs) \in Nat
  BY <1>0, <1>1, OwnSites DEF Following
<1>3. PICK i \in DOMAIN xs : \E j \in DOMAIN xs : i # j /\ xs[i] = xs[j]
  BY <1>0 DEF Distinct
<1>4. PICK j \in DOMAIN xs : i # j /\ xs[i] = xs[j]
  BY <1>3
<1>5. DOMAIN xs = 1 .. Len(Top.node.xs) - 1 /\ \A a \in DOMAIN xs : xs[a] = Top.node.xs[a + 1]
  BY <1>2
<1>6. /\ i + 1 \in Skips(Top) + 1 .. Len(Top.node.xs) /\ j + 1 \in Skips(Top) + 1 .. Len(Top.node.xs)
      /\ i + 1 # j + 1 /\ Top.node.xs[i + 1] = Top.node.xs[j + 1]
  <2>1. i \in 1 .. Len(Top.node.xs) - 1 /\ j \in 1 .. Len(Top.node.xs) - 1
    BY <1>3, <1>4, <1>5
  <2>2. Top.node.xs[i + 1] = Top.node.xs[j + 1]
    BY <1>3, <1>4, <1>5
  <2> QED BY <1>1, <1>2, <1>4, <2>1, <2>2
<1> QED BY <1>0, <1>6, SameNameRejects
-----------------------------------------------------------------------------
(* The type of a routine's symbol tells what its declaration tells.        *)
LEMMA RoutineTypes ==
  ASSUME NEW t
  PROVE  /\ TypeFits(RoutineTy(t), L!TypeOf(t)) /\ L!TypeOf(t) # L!Value
         /\ \A ty \in TypeRecords : TypeFits(ty, L!TypeOf(t)) => ty = RoutineTy(t)
         /\ \A m : TypeFits(RoutineTy(t), L!TypeOf(m)) => L!TypeOf(m) = L!TypeOf(t)
<1> DEFINE k == IF t.k \in {"procedure", "procedure declaration"} THEN "procedure" ELSE "function"
           a == Len(t.xs) - 1
<1>1. RoutineTy(t).routine = k /\ RoutineTy(t).arity = a /\ RoutineTy(t) = [routine |-> k, arity |-> a]
  BY DEF RoutineTy
<1>2. L!TypeOf(t) = <<k, a>> /\ L!TypeOf(t)[1] = k /\ L!TypeOf(t)[2] = a
  BY DEF L!TypeOf
<1>3. k # "" /\ k # "value"
  OBVIOUS
<1> HIDE DEF k, a
<1>4. \A y : L!TypeOf(y) # L!Value
  BY DEF L!TypeOf, L!Value
<1>5. ASSUME NEW ty \in TypeRecords, TypeFits(ty, L!TypeOf(t)) PROVE ty = RoutineTy(t)
  <2>1. ty.routine = k /\ ty.arity = a
    BY <1>2, <1>4, <1>5 DEF TypeFits
  <2> QED BY <1>1, <2>1 DEF TypeRecords
<1>6. ASSUME NEW m, TypeFits(RoutineTy(t), L!TypeOf(m)) PROVE L!TypeOf(m) = L!TypeOf(t)
  <2>1. L!TypeOf(m)[1] = k /\ L!TypeOf(m)[2] = a
    BY <1>1, <1>4, <1>6 DEF TypeFits
  <2>2. L!TypeOf(m) = << L!TypeOf(m)[1], L!TypeOf(m)[2] >>
    BY DEF L!TypeOf
  <2> QED BY <1>2, <2>1, <2>2
<1> QED BY <1>1, <1>2, <1>3, <1>4, <1>5, <1>6 DEF TypeFits

(* A routine's name is looked up in the program's scope only.              *)
LEMMA RoutineAround ==
  ASSUME IInv, work # <<>>, NEW N, Whole(N), NEW O, Following(N, O), Top.op = "routine"
  PROVE  LET s == SiteOf(NodeOf(Top), 1) IN
         /\ NodeOf(Top) \in N /\ NodeOf(Top).t = Top.node /\ NodeOf(Top).at = Top.at /\ Top.at \in Seq(Int)
         /\ Grown(N) /\ Top.node.k \in RoutineKind /\ Placed(Top)
         /\ 1 \in Naming(Top.node) /\ s \in SitesIn(N) \ DoneSites(N, work) /\ current \in DOMAIN scopes
         /\ s.owner = O[current].at /\ s.name = Top.node.xs[1] /\ s.place = NameAt(Top.at, 1)
         /\ s.type = L!TypeOf(Top.node) /\ s.owner = <<>> /\ Top.at = Append(<<>>, s.from)
         /\ Inside(O[current], Top.at)
         /\ \A r \in DOMAIN scopes : Inside(O[r], Top.at) => O[r].at = <<>>
<1> DEFINE s == SiteOf(NodeOf(Top), 1)
<1>0. Placed(Top)
  BY DEF Placed
<1>1. Walk(work, N) /\ Placing(N, O)
  BY DEF Following
<1>2. /\ Grown(N) /\ NodeOf(Top) \in N /\ NodeOf(Top).t = Top.node /\ NodeOf(Top).at = Top.at /\ Fits(Top)
      /\ Top.at \in Seq(Int)
  BY <1>0, <1>1, WalkTop
<1>3. Top.node.k \in RoutineKind
  BY <1>2 DEF Fits
<1>4. Top.node.k # "declaration"
  BY <1>3 DEF RoutineKind, Routines, Forwards
<1>5. /\ 1 \in Naming(Top.node) /\ s \in SitesIn(N) /\ current \in DOMAIN scopes /\ O[current] \in N
      /\ s.owner = O[current].at /\ s.name = Top.node.xs[1] /\ s.place = NameAt(Top.at, 1)
      /\ s.type = L!TypeOf(Top.node) /\ s.owner = <<>> /\ Top.at = Append(<<>>, s.from)
  BY <1>0, <1>3, <1>4, OuterHome
<1> HIDE DEF s
<1>6. s \notin DoneSites(N, work)
  <2>1. Pends(Top, NameAt(Top.at, 1)) /\ 1 \in Nat
    BY DEF Pends
  <2> QED BY <1>0, <1>1, <1>5, <2>1, OwnPending
<1>7. s.from \in Int
  BY <1>5, SiteOwner
<1>8. Len(Top.at) = 1 /\ Top.at # <<>>
  BY <1>5, <1>7
<1>9. Inside(O[current], Top.at)
  <2>1. Home(N, O[current], Top.at)
    BY <1>0, <1>1, TopHome
  <2> QED BY <1>8, <2>1 DEF Home
<1>10. ASSUME NEW r \in DOMAIN scopes, Inside(O[r], Top.at) PROVE O[r].at = <<>>
  <2>1. O[r] \in N
    BY <1>1 DEF Placing, Owned
  <2>2. O[r].at \in Seq(Int)
    BY <1>2, <2>1, NodeIs
  <2>3. Len(O[r].at) < 1
    BY <1>8, <1>10 DEF Inside, Encloses
  <2> QED BY <2>2, <2>3
<1> QED BY <1>0, <1>2, <1>3, <1>5, <1>6, <1>9, <1>10 DEF s

LEMMA RoutineFound ==
  ASSUME IInv, work # <<>>, NEW N, Whole(N), NEW O, Following(N, O), Top.op = "routine", resolved # Nullptr
  PROVE  /\ \E q \in DoneSites(N, work) : Keeper(DoneSites(N, work), q, <<>>, Top.node.xs[1], resolved, idents, objects)
         /\ \E r \in DOMAIN scopes : O[r].at = <<>> /\ Top.node.xs[1] \in DOMAIN scopes[r].symbols
<1> DEFINE x == Top.node.xs[1]
           D == DoneSites(N, work)
<1>1. Kept(D, O, scopes, idents, objects) /\ Answer(O, scopes, resolved, Top.at, x)
  BY DEF Following, Tabled, LookingUp, Waits, Top
<1> HIDE DEF x, D
<1>2. PICK r \in DOMAIN scopes : Candidate(O, scopes, r, Top.at, x) /\ resolved = scopes[r].symbols[x]
  BY <1>1 DEF Answer
<1>3. O[r].at = <<>>
  BY <1>2, RoutineAround DEF Candidate
<1>4. x \in DOMAIN scopes[r].symbols
  BY <1>2 DEF Candidate
<1>5. \E q \in D : Keeper(D, q, <<>>, x, resolved, idents, objects)
  BY <1>1, <1>2, <1>3, <1>4 DEF Kept
<1> QED BY <1>2, <1>3, <1>4, <1>5 DEF D, x

LEMMA RoutineNewFollow ==
  ASSUME IInv, NEW N, Whole(N), NEW O, Following(N, O), DeclareRoutine, verdict' = "running",
         resolved = Nullptr
  PROVE  Following(N, O)'
<1> PICK xs : xs = SubSeq(Top.node.xs, 1, 1)
  OBVIOUS
<1>0. /\ Top.op = "routine" /\ work # <<>> /\ work' = Under /\ resolved' = resolved
      /\ current' = current
      /\ DeclareIn(scopes, current, xs, RoutineTy(Top.node), <<NameAt(Top.at, 1)>>)
  BY DEF DeclareRoutine, Resuming, Mismatch
<1>1. /\ NodeOf(Top) \in N /\ NodeOf(Top).t = Top.node /\ Grown(N) /\ Top.node.k \in RoutineKind
      /\ current \in DOMAIN scopes /\ Inside(O[current], Top.at)
      /\ SiteOf(NodeOf(Top), 1).type = L!TypeOf(Top.node)
  BY <1>0, RoutineAround
<1>2. Top.node \in Tree
  BY <1>1, NodeIs
<1>3. Top.node.xs \in Seq(STRING) /\ Len(Top.node.xs) >= 1
  BY <1>1, <1>2, NodeKind
<1>4. xs \in Seq(STRING) /\ Len(xs) = 1 /\ xs[1] = Top.node.xs[1]
  BY <1>3
<1>5. xs[1] \notin DOMAIN scopes[current].symbols
  <2>1. Answer(O, scopes, Nullptr, Top.at, Top.node.xs[1])
    BY <1>0 DEF Following, LookingUp, Waits, Top
  <2> QED BY <1>1, <1>4, <2>1 DEF Answer, Candidate
<1>6. TypeFits(RoutineTy(Top.node), SiteOf(NodeOf(Top), 1).type)
  BY <1>1, RoutineTypes
<1>7. RoutineTy(Top.node) \in TypeRecords
  BY <1>3 DEF RoutineTy, TypeRecords
<1> PICK ty : ty = RoutineTy(Top.node)
  OBVIOUS
<1> QED BY <1>0, <1>4, <1>5, <1>6, <1>7, DeclaredFollow
-----------------------------------------------------------------------------
(* Another declaration of a routine keeps the first of its scope.          *)
LEMMA FirstStays ==
  ASSUME NEW D, NEW s, NEW q \in D, q.owner = s.owner, q.name = s.name, q.type = s.type, q.type # L!Value,
         \A p \in D : p.owner = s.owner /\ p.name = s.name => p.from <= s.from,
         NEW O, NEW tree, NEW ids, NEW objs, Kept(D, O, tree, ids, objs), NEW E, E = D \union {s}
  PROVE  Kept(E, O, tree, ids, objs)
<1>1. ASSUME NEW p \in D, First(D, p) PROVE First(E, p)
  <2> SUFFICES ASSUME NEW e \in E, e.owner = p.owner, e.name = p.name
               PROVE  p.from <= e.from /\ p.type = e.type /\ (p.type = L!Value => p = e)
    BY DEF First
  <2>1. CASE e \in D
    BY <1>1, <2>1 DEF First
  <2>2. CASE e = s
    <3>1. p.type = q.type
      BY <1>1, <2>2 DEF First
    <3> QED BY <2>2, <3>1
  <2> QED BY <2>1, <2>2
<1> SUFFICES ASSUME NEW r \in DOMAIN tree, NEW x \in DOMAIN tree[r].symbols
             PROVE  \E p \in E : Keeper(E, p, O[r].at, x, tree[r].symbols[x], ids, objs)
  BY DEF Kept
<1>2. PICK p \in D : Keeper(D, p, O[r].at, x, tree[r].symbols[x], ids, objs)
  BY DEF Kept
<1>3. Keeper(E, p, O[r].at, x, tree[r].symbols[x], ids, objs)
  BY <1>1, <1>2 DEF Keeper
<1> QED BY <1>3

(* The declarations of a routine that are done come before it.             *)
LEMMA DoneBefore ==
  ASSUME IInv, work # <<>>, NEW N, Whole(N), NEW O, Following(N, O), Top.op = "routine",
         NEW p \in DoneSites(N, work), p.owner = <<>>
  PROVE  p.from <= SiteOf(NodeOf(Top), 1).from
<1> DEFINE s == SiteOf(NodeOf(Top), 1)
<1>1. Top.at = Append(<<>>, s.from) /\ s \in SitesIn(N) /\ Placed(Top) /\ Top.at \in Seq(Int)
  BY RoutineAround
<1>2. s.from \in Int
  BY <1>1, SiteOwner
<1> HIDE DEF s
<1>3. Len(Top.at) = 1 /\ Top.at[1] = s.from
  BY <1>1, <1>2
<1>4. p \in SitesIn(N) /\ p.owner \in Seq(Int) /\ ~Pending(work, 1, p.place)
  BY SiteOwner DEF DoneSites
<1>5. Encloses(p.owner, Top.at)
  BY <1>3 DEF Encloses, Leads
<1>6. Heads(Top, Under, N) /\ \A e : Pending(work, 1, e) <=> Pends(Top, e) \/ Pending(Under, 1, e)
  BY <1>1, WalkTop DEF Following
<1>7. L!Sees(Top.at, p)
  BY <1>1, <1>4, <1>5, <1>6 DEF Heads
<1>8. Top.at[Len(p.owner) + 1] >= p.from
  BY <1>1, <1>4, <1>7, SeesIs
<1>9. Top.at[1] >= p.from
  BY <1>8
<1> QED BY <1>2, <1>3, <1>4, <1>9, SiteOwner DEF s

LEMMA RoutineAgainFollow ==
  ASSUME IInv, NEW N, Whole(N), NEW O, Following(N, O), DeclareRoutine, verdict' = "running",
         resolved # Nullptr
  PROVE  Following(N, O)'
<1> DEFINE n == NodeOf(Top)
           s == SiteOf(n, 1)
           D == DoneSites(N, work)
           U == DoneUses(N, work)
           x == Top.node.xs[1]
<1>0. /\ Top.op = "routine" /\ work # <<>> /\ work' = Under /\ resolved' = resolved
      /\ UNCHANGED <<current, scopes, objects>> /\ idents' = Named(Top.node, Top.at)
      /\ objects[resolved].type = RoutineTy(Top.node)
  BY DEF DeclareRoutine, Resuming, Mismatch, Throw
<1>1. /\ Walk(work, N) /\ Placing(N, O) /\ Tabled(N, D, U, O, scopes, idents, objects)
  BY DEF Following
<1>2. /\ n \in N /\ n.t = Top.node /\ n.at = Top.at /\ Top.at \in Seq(Int)
      /\ Grown(N) /\ Top.node.k \in RoutineKind /\ Placed(Top)
      /\ 1 \in Naming(Top.node) /\ s \in SitesIn(N) \ D /\ current \in DOMAIN scopes
      /\ s.owner = O[current].at /\ s.name = x /\ s.place = NameAt(Top.at, 1)
      /\ s.type = L!TypeOf(Top.node) /\ s.owner = <<>>
  BY <1>0, RoutineAround
<1>3. Walk(work', N) /\ Advances(work, work', N, n, {1})
  BY <1>0, <1>1, <1>2, Pops
<1>4. /\ DoneSites(N, work') = D \union {s} /\ DoneUses(N, work') = U
      /\ DoneCalls(N, work') = DoneCalls(N, work)
  BY <1>2, <1>3, SiteNews
<1>5. PICK q \in D : Keeper(D, q, <<>>, x, resolved, idents, objects)
  BY <1>0, RoutineFound
<1>6. PICK r \in DOMAIN scopes : O[r].at = <<>> /\ x \in DOMAIN scopes[r].symbols
  BY <1>0, RoutineFound
<1>7. \A p \in D : p.place # NameAt(Top.at, 1)
  <2>1. Pends(Top, NameAt(Top.at, 1)) /\ 1 \in Nat
    BY <1>0 DEF Pends
  <2> QED BY <1>0, <1>1, <1>2, <2>1, OwnPending
<1>8. \A p \in D : p.owner = <<>> => p.from <= s.from
  BY <1>0, DoneBefore
<1>9. D \subseteq SitesIn(N) /\ U \subseteq N
  BY DEF DoneSites, DoneUses, L!Uses
<1> HIDE DEF n, s, D, U, x
<1>10. q.type = s.type /\ q.type # L!Value /\ q.owner = s.owner /\ q.name = s.name
  <2>1. TypeFits(RoutineTy(Top.node), q.type) /\ q.owner = <<>> /\ q.name = x /\ q \in SitesIn(N)
    BY <1>0, <1>5, <1>9 DEF Keeper
  <2>2. q.type # L!Value
    <3>1. TypeFits(RoutineTy(Top.node), L!TypeOf(Top.node)) /\ L!TypeOf(Top.node) # L!Value
      BY RoutineTypes
    <3> QED BY <2>1, <3>1 DEF TypeFits
  <2>3. PICK m \in N : m.t.k \in RoutineKind /\ q = SiteOf(m, 1) /\ 1 \in Naming(m.t)
    BY <2>1, <2>2, RoutineSite
  <2>4. q.type = L!TypeOf(m.t)
    BY <1>2, <2>2, <2>3, SiteFields
  <2>5. q.type = s.type
    BY <1>2, <2>1, <2>4, RoutineTypes
  <2> QED BY <1>2, <2>1, <2>2, <2>5
<1>11. \A k : k # NameAt(Top.at, 1) /\ k \in DOMAIN idents => k \in DOMAIN idents' /\ idents'[k] = idents[k]
  <2> PICK v : v = [name |-> Top.node.xs[1], referred |-> resolved]
    OBVIOUS
  <2>1. idents' = idents \/ idents' = Extended(idents, <<NameAt(Top.at, 1)>>, <<v>>)
    BY <1>0 DEF Named
  <2>2. OneMore(Extended(idents, <<NameAt(Top.at, 1)>>, <<v>>), idents, NameAt(Top.at, 1), v)
    BY ExtendedOne
  <2> QED BY <2>1, <2>2 DEF OneMore
<1>12. Grow(D, idents, objects, idents', objects')
  BY <1>0, <1>7, <1>11 DEF Grow
<1>13. \A u \in U : u.at \in DOMAIN idents => u.at \in DOMAIN idents' /\ idents'[u.at] = idents[u.at]
  <2>1. 1 \in Nat
    OBVIOUS
  <2>2. \A u \in N : u.at # NameAt(Top.at, 1)
    BY <1>2, <2>1, UsePlace
  <2> QED BY <1>9, <1>11, <2>2
<1> PICK E : E = D \union {s}
  OBVIOUS
<1>14. Kept(E, O, scopes, idents', objects')
  <2>1. \A c \in DOMAIN scopes : \A y \in DOMAIN scopes[c].symbols : scopes[c].symbols[y] \in DOMAIN objects
    BY DEF IInv, Shapes, Tables2, Rooted, ObjectTables
  <2>2. Kept(D, O, scopes, idents', objects')
    BY <1>1, <1>12, <2>1, KeptGrow DEF Tabled
  <2>3. \A p \in D : p.owner = s.owner /\ p.name = s.name => p.from <= s.from
    BY <1>2, <1>8
  <2> QED BY <1>10, <2>2, <2>3, FirstStays
<1>15. Known(E, O, scopes)
  BY <1>1, <1>2, <1>6 DEF Tabled, Known
<1>16. Bound(N, E, U, idents', objects')
  <2>1. Referring(idents, objects) /\ Bound(N, D, U, idents, objects) /\ D \subseteq E
    BY <1>1 DEF IInv, Tables2, Tabled
  <2> QED BY <1>12, <1>13, <2>1, BoundGrow
<1>17. Placing(N, O)'
  <2>1. \A e \in Events(N) : Pending(work', 1, e) => Pending(work, 1, e)
    BY <1>3 DEF Advances
  <2> QED BY <1>0, <1>1, <1>2, <2>1, PopStep
<1>18. LookingUp(O, scopes', work', resolved')
  BY <1>0, PopsQuiet
<1>19. Called(N, DoneCalls(N, work'))
  BY <1>4 DEF Following
<1>20. Tabled(N, DoneSites(N, work'), DoneUses(N, work'), O, scopes', idents', objects')
  BY <1>0, <1>4, <1>14, <1>15, <1>16 DEF Tabled
<1> QED BY <1>3, <1>17, <1>18, <1>19, <1>20 DEF Following

(* The symbols of a symbol table have types.                               *)
LEMMA ObjectAt ==
  ASSUME NEW objs \in ObjectTables, NEW i \in DOMAIN objs
  PROVE  objs[i].type \in TypeRecords
<1>1. PICK S : S = [name : STRING, type : TypeRecords]
  OBVIOUS
<1>2. objs \in Seq(S)
  BY <1>1 DEF ObjectTables
<1>3. objs[i] \in S
  BY <1>2
<1> QED BY <1>1, <1>3

LEMMA DeclareRoutineRejects ==
  ASSUME IInv, NEW N, Whole(N), NEW O, Following(N, O), DeclareRoutine, verdict' # "running"
  PROVE  ~WellFormed(N)
<1> DEFINE s == SiteOf(NodeOf(Top), 1)
           D == DoneSites(N, work)
           x == Top.node.xs[1]
<1>0. /\ Top.op = "routine" /\ work # <<>> /\ resolved # Nullptr
      /\ objects[resolved].type # RoutineTy(Top.node)
  BY DEF DeclareRoutine, Resuming, Mismatch, Goes
<1>1. /\ s \in SitesIn(N) \ D /\ s.owner = <<>> /\ s.name = x /\ s.type = L!TypeOf(Top.node)
  BY <1>0, RoutineAround
<1>2. PICK q \in D : Keeper(D, q, <<>>, x, resolved, idents, objects)
  BY <1>0, RoutineFound
<1>3. objects[resolved].type \in TypeRecords
  <2>1. objects \in ObjectTables /\ resolved \in DOMAIN objects
    BY <1>0 DEF IInv, Shapes, Symbols
  <2> QED BY <2>1, ObjectAt
<1> HIDE DEF s, D, x
<1>4. TypeFits(objects[resolved].type, q.type) /\ q.owner = <<>> /\ q.name = x
  BY <1>2 DEF Keeper
<1>5. q.type # s.type
  BY <1>0, <1>1, <1>3, <1>4, RoutineTypes
<1>6. q \in SitesIn(N) /\ s # q
  BY <1>1, <1>2 DEF D, DoneSites
<1>7. L!Clash(s, q)
  BY <1>1, <1>4, <1>5, <1>6 DEF L!Clash
<1> QED BY <1>1, <1>6, <1>7 DEF WellFormed
-----------------------------------------------------------------------------
(* Every use refers to the symbol of the declaration it is bound to.       *)
AllBound(N, ids) ==
  \A u \in L!Uses(N) :
    /\ BinderOf(N, u).place \in DOMAIN ids
    /\ ids[u.at].referred = ids[BinderOf(N, u).place].referred

(* At the start everything lies under the visit of the program.            *)
LEMMA StartWalk ==
  ASSUME NEW N, Grown(N), NEW t \in Tree, RootOf(t) \in N, NEW w, w = <<Visit(t, <<>>)>>
  PROVE  /\ Walk(w, N) /\ \A e \in Seq(Int) : Pending(w, 1, e)
         /\ DOMAIN w = {1} /\ w[1].op = "visit" /\ w[1].at = <<>>
<1>1. /\ DOMAIN w = {1} /\ w[1].op = "visit" /\ w[1].at = <<>> /\ NodeOf(w[1]) = RootOf(t)
  BY DEF Visit, Item, NodeOf, RootOf
<1>2. \A e \in Seq(Int) : Leads(<<>>, e)
  BY DEF Leads
<1>3. \A e \in Seq(Int) : Pending(w, 1, e)
  BY <1>1, <1>2 DEF Pending, Pends
<1>4. Matched(w, N)
  BY <1>1 DEF Matched, Fits
<1>5. Disjoint(w, N)
  BY <1>1 DEF Disjoint
<1>6. Ordered(w, N)
  <2> SUFFICES ASSUME NEW s \in SitesIn(N) PROVE ~Encloses(s.owner, <<>>)
    BY <1>1 DEF Ordered, OrderedAt
  <2>1. PICK n \in N : \E i \in Naming(n.t) : s = SiteOf(n, i)
    BY SiteIs
  <2>2. PICK i \in Naming(n.t) : s = SiteOf(n, i)
    BY <2>1
  <2> QED BY DEF Encloses
<1>7. NameFirst(w)
  BY <1>1 DEF NameFirst
<1> QED BY <1>1, <1>3, <1>4, <1>5, <1>6, <1>7 DEF Walk

LEMMA NothingDone ==
  ASSUME NEW N, Whole(N), NEW w, \A e \in Seq(Int) : Pending(w, 1, e)
  PROVE  DoneSites(N, w) = {} /\ DoneUses(N, w) = {} /\ DoneCalls(N, w) = {}
<1>0. Grown(N)
  BY DEF Whole
<1>1. \A s \in SitesIn(N) : s.place \in Seq(Int)
  BY SiteOwner
<1>2. ASSUME NEW n \in N PROVE NameAt(n.at, 0) \in Seq(Int) /\ NameAt(n.at, 1) \in Seq(Int)
  <2>1. n.at \in Seq(Int)
    BY <1>0, NodeIs
  <2> QED BY <2>1, NamePlace
<1> QED BY <1>1, <1>2 DEF DoneSites, DoneUses, DoneCalls, L!Uses

LEMMA InitFollows ==
  ASSUME Init, NEW N, N = L!Subtrees[source]
  PROVE  Whole(N) /\ \E O : Following(N, O)
<1>1. source \in Tree /\ source.k = "program"
  BY TreeAssumption DEF Init
<1>2. Grown(N) /\ RootOf(source) \in N /\ Whole(N)
  BY <1>1, SubtreesGrown DEF Whole
<1>3. /\ Walk(work, N) /\ \A e \in Seq(Int) : Pending(work, 1, e)
      /\ DOMAIN work = {1} /\ work[1].op = "visit" /\ work[1].at = <<>>
  BY <1>1, <1>2, StartWalk DEF Init
<1>4. DoneSites(N, work) = {} /\ DoneUses(N, work) = {} /\ DoneCalls(N, work) = {}
  BY <1>2, <1>3, NothingDone
<1>5. /\ DOMAIN scopes = {1} /\ scopes[1].symbols = <<>> /\ current = 1
  BY DEF Init, Scope, Global
<1> PICK O : O = <<RootOf(source)>>
  OBVIOUS
<1>6. DOMAIN O = {1} /\ O[1] = RootOf(source) /\ O[1].at = <<>> /\ O[1].t.k = "program"
  BY <1>1 DEF RootOf
<1>7. Owned(N, O, scopes, work)
  BY <1>2, <1>5, <1>6 DEF Owned, Openers
<1>8. Laid(work, current, scopes, O, N)
  <2> PICK C : C = <<1, 1>>
    OBVIOUS
  <2>1. DOMAIN C = 1 .. 2 /\ C[1] = 1 /\ C[2] = 1
    OBVIOUS
  <2>2. Len(work) = 1 /\ ~Closes(work, 1)
    BY <1>3 DEF Init, Closes
  <2>3. Home(N, O[1], work[1].at)
    BY <1>3, <1>6 DEF Home
  <2>4. Lies(work, C, scopes, O, N)
    BY <1>3, <1>5, <2>1, <2>2, <2>3 DEF Lies
  <2> QED BY <1>5, <2>1, <2>4 DEF Laid
<1>9. Tabled(N, {}, {}, O, scopes, idents, objects)
  BY <1>5 DEF Tabled, Kept, Known, Bound
<1>10. Called(N, {})
  BY DEF Called
<1>11. LookingUp(O, scopes, work, resolved)
  BY <1>3 DEF LookingUp, Waits
<1>12. Following(N, O)
  BY <1>3, <1>4, <1>7, <1>8, <1>9, <1>10, <1>11 DEF Following, Placing
<1> QED BY <1>2, <1>12

(* When nothing is left to be done, everything is done as it should be.    *)
LEMMA EndFollows ==
  ASSUME NEW N, Whole(N), NEW O, Following(N, O), work = <<>>
  PROVE  WellFormed(N) /\ AllBound(N, idents)
<1>1. \A e : ~Pending(work, 1, e)
  BY DEF Pending
<1>2. /\ DoneSites(N, work) = SitesIn(N) /\ DoneUses(N, work) = L!Uses(N)
      /\ DoneCalls(N, work) = {n \in N : n.t.k \in CallKind}
  BY <1>1 DEF DoneSites, DoneUses, DoneCalls
<1>3. /\ Kept(SitesIn(N), O, scopes, idents, objects) /\ Known(SitesIn(N), O, scopes)
      /\ Bound(N, SitesIn(N), L!Uses(N), idents, objects)
      /\ Called(N, {n \in N : n.t.k \in CallKind})
  BY <1>2 DEF Following, Tabled
<1>4. ASSUME NEW u \in L!Uses(N)
      PROVE  /\ BinderOf(N, u) # L!Unbound /\ BinderOf(N, u).place \in DOMAIN idents
             /\ idents[u.at].referred = idents[BinderOf(N, u).place].referred
  <2>1. /\ BinderOf(N, u) \in SitesIn(N) /\ BinderOf(N, u).place \in DOMAIN idents
        /\ idents[u.at].referred = idents[BinderOf(N, u).place].referred
    BY <1>3 DEF Bound, BoundOne
  <2>2. BinderOf(N, u).place # <<>>
    BY <2>1, SiteOwner
  <2>3. L!Unbound.place = <<>>
    BY DEF L!Unbound, L!Site
  <2> QED BY <2>1, <2>2, <2>3
<1>5. ASSUME NEW s \in SitesIn(N), NEW r \in SitesIn(N), s.name = r.name, s.owner = r.owner
      PROVE  s.type = r.type /\ (s.type = L!Value => s = r)
  <2>1. PICK c \in DOMAIN scopes : O[c].at = s.owner /\ s.name \in DOMAIN scopes[c].symbols
    BY <1>3 DEF Known
  <2>2. PICK q \in SitesIn(N) : Keeper(SitesIn(N), q, O[c].at, s.name, scopes[c].symbols[s.name], idents, objects)
    BY <1>3, <2>1 DEF Kept
  <2>3. First(SitesIn(N), q) /\ q.owner = s.owner /\ q.name = s.name
    BY <2>1, <2>2 DEF Keeper
  <2> QED BY <1>5, <2>3 DEF First
<1>6. \A s, r \in SitesIn(N) : ~L!Clash(s, r)
  BY <1>5 DEF L!Clash
<1>7. \A n \in N : n.t.k \in CallKind => RightCall(N, n)
  BY <1>3 DEF Called
<1> QED BY <1>4, <1>6, <1>7 DEF WellFormed, AllBound
-----------------------------------------------------------------------------
Outcome(N) ==
  /\ verdict' = "running" => \E P : Following(N, P)'
  /\ verdict' = "resolved" => WellFormed(N) /\ AllBound(N, idents')
  /\ verdict' = "rejected" => ~WellFormed(N)

LEMMA VisitOutcome ==
  ASSUME IInv, NEW N, Whole(N), NEW O, Following(N, O),
         \/ visitChildren \/ visitDeclaration \/ visitIdentifier \/ visitCall \/ visitBlock
         \/ visitDomain \/ visitRoutine
  PROVE  Outcome(N)
<1>1. verdict' = "running"
  BY DEF visitChildren, visitDeclaration, visitIdentifier, visitCall, visitBlock, visitDomain,
         visitRoutine, Visiting
<1>2. \E P : Following(N, P)'
  <2>1. CASE visitChildren
    BY <2>1, ChildrenFollow
  <2>2. CASE visitDeclaration
    BY <2>2, DeclarationFollow
  <2>3. CASE visitIdentifier
    BY <2>3, IdentifierFollow
  <2>4. CASE visitCall
    BY <2>4, CallFollow
  <2>5. CASE visitBlock
    BY <2>5, BlockFollow
  <2>6. CASE visitDomain
    BY <2>6, DomainFollow
  <2>7. CASE visitRoutine
    BY <2>7, RoutineFollow
  <2> QED BY <2>1, <2>2, <2>3, <2>4, <2>5, <2>6, <2>7
<1> QED BY <1>1, <1>2 DEF Outcome

LEMMA FrameOutcome ==
  ASSUME IInv, NEW N, Whole(N), NEW O, Following(N, O),
         \/ Resolve \/ Declare \/ Refer \/ EnterDomain \/ Close \/ CheckArity
         \/ DeclareRoutine \/ EnterRoutine
  PROVE  Outcome(N)
<1>1. verdict' \in {"running", "rejected"}
  BY DEF Resolve, Declare, Refer, EnterDomain, Close, CheckArity, DeclareRoutine, EnterRoutine,
         Resuming, Throw, Goes
<1>2. ASSUME verdict' = "running" PROVE \E P : Following(N, P)'
  <2>1. CASE Resolve
    BY <2>1, ResolveFollow
  <2>2. CASE Declare
    BY <1>2, <2>2, DeclareFollow
  <2>3. CASE Refer
    <3>1. resolved # Nullptr
      BY <1>2, <2>3 DEF Refer, Throw
    <3> QED BY <2>3, <3>1, ReferFollow
  <2>4. CASE EnterDomain
    BY <1>2, <2>4, EnterDomainFollow
  <2>5. CASE Close
    BY <2>5, CloseFollow
  <2>6. CASE CheckArity
    BY <1>2, <2>6, ArityFollow
  <2>7. CASE DeclareRoutine
    BY <1>2, <2>7, RoutineNewFollow, RoutineAgainFollow
  <2>8. CASE EnterRoutine
    BY <1>2, <2>8, EnterRoutineFollow
  <2> QED BY <2>1, <2>2, <2>3, <2>4, <2>5, <2>6, <2>7, <2>8
<1>3. ASSUME verdict' = "rejected" PROVE ~WellFormed(N)
  <2>1. verdict' # "running"
    BY <1>3
  <2>2. CASE Resolve \/ Close
    BY <1>3, <2>2 DEF Resolve, Close, Resuming, Goes
  <2>3. CASE Declare
    BY <2>1, <2>3, DeclareRejects
  <2>4. CASE Refer
    <3>1. resolved = Nullptr
      BY <2>1, <2>4 DEF Refer, Resuming, Goes
    <3> QED BY <2>4, <3>1, ReferRejects
  <2>5. CASE EnterDomain
    BY <2>1, <2>5, EnterDomainRejects
  <2>6. CASE CheckArity
    BY <2>1, <2>6, ArityRejects
  <2>7. CASE DeclareRoutine
    BY <2>1, <2>7, DeclareRoutineRejects
  <2>8. CASE EnterRoutine
    BY <2>1, <2>8, EnterRoutineRejects
  <2> QED BY <2>2, <2>3, <2>4, <2>5, <2>6, <2>7, <2>8
<1> QED BY <1>1, <1>2, <1>3 DEF Outcome

LEMMA FinishOutcome ==
  ASSUME NEW N, Whole(N), NEW O, Following(N, O), Finish
  PROVE  Outcome(N)
<1>1. work = <<>> /\ verdict' = "resolved" /\ idents' = idents
  BY DEF Finish, KeepTable
<1>2. WellFormed(N) /\ AllBound(N, idents)
  BY <1>1, EndFollows
<1> QED BY <1>1, <1>2 DEF Outcome

LEMMA StepOutcome ==
  ASSUME IInv, NEW N, Whole(N), NEW O, Following(N, O), NextScope
  PROVE  Outcome(N)
BY VisitOutcome, FrameOutcome, FinishOutcome DEF NextScope
-----------------------------------------------------------------------------
(* The passes after the scopes, and the text's own verdict.                *)
LEMMA WellScopedIs == L!WellScoped(source) <=> WellFormed(L!Subtrees[source])
<1> DEFINE N == L!Subtrees[source]
<1>1. \A u \in L!Uses(N) : BinderOf(N, u) = L!Binder(SitesIn(N), u.t.xs[1], u.at)
  BY DEF BinderOf
<1>2. L!WellScoped(source) <=>
        /\ \A u \in L!Uses(N) : L!Binder(SitesIn(N), u.t.xs[1], u.at) # L!Unbound
        /\ \A s, r \in SitesIn(N) : ~L!Clash(s, r)
        /\ \A n \in N : n.t.k \in CallKind => RightCall(N, n)
  BY DEF L!WellScoped, SitesIn, RightCall, CallKind, L!CallKind
<1> QED BY <1>1, <1>2 DEF WellFormed

LEMMA BindingsAre ==
  ASSUME NEW b
  PROVE  b \in L!Bindings(source) <=>
           \E u \in L!Uses(L!Subtrees[source]) : b = <<u.at, BinderOf(L!Subtrees[source], u).place>>
BY DEF L!Bindings, BinderOf, SitesIn

(* A routine has one body exactly if a body is found for each declaration  *)
(* and none twice.                                                         *)
LEMMA DefinitionsAre ==
  Definitions <=>
    /\ \A t \in ToSet(source.kids) : t.k \in RoutineKind =>
         \E i \in DOMAIN source.kids :
           /\ source.kids[i].k \in Routines /\ source.kids[i].xs[1] = t.xs[1]
           /\ \A j \in DOMAIN source.kids :
                source.kids[j].k \in Routines /\ source.kids[j].xs[1] = t.xs[1] => j = i
    /\ \E t \in ToSet(source.kids) : IsMain(t)
<1>1. ASSUME NEW t PROVE t \in ToSet(source.kids) <=> \E i \in DOMAIN source.kids : t = source.kids[i]
  BY DEF ToSet
<1>2. ASSUME NEW x
      PROVE  /\ x \in Defined <=> \E i \in DOMAIN source.kids :
                  source.kids[i].k \in Routines /\ source.kids[i].xs[1] = x
             /\ x \in Declared <=> \E i \in DOMAIN source.kids :
                  source.kids[i].k \in RoutineKind /\ source.kids[i].xs[1] = x
  BY <1>1 DEF Defined, Declared, RoutineNames
<1>3. DefinedTwice <=> \E i, j \in DOMAIN source.kids :
        /\ i # j /\ source.kids[i].k \in Routines /\ source.kids[j].k \in Routines
        /\ source.kids[i].xs[1] = source.kids[j].xs[1]
  BY DEF DefinedTwice
<1>4. Routines \subseteq RoutineKind
  BY DEF RoutineKind
<1>5. ASSUME ~DefinedTwice, Defined = Declared, NEW t \in ToSet(source.kids), t.k \in RoutineKind
      PROVE  \E i \in DOMAIN source.kids :
               /\ source.kids[i].k \in Routines /\ source.kids[i].xs[1] = t.xs[1]
               /\ \A j \in DOMAIN source.kids :
                    source.kids[j].k \in Routines /\ source.kids[j].xs[1] = t.xs[1] => j = i
  <2>1. t.xs[1] \in Defined
    BY <1>1, <1>2, <1>5
  <2>2. PICK i \in DOMAIN source.kids : source.kids[i].k \in Routines /\ source.kids[i].xs[1] = t.xs[1]
    BY <1>2, <2>1
  <2> QED BY <1>3, <1>5, <2>2
<1>6. ASSUME \A t \in ToSet(source.kids) : t.k \in RoutineKind =>
               \E i \in DOMAIN source.kids :
                 /\ source.kids[i].k \in Routines /\ source.kids[i].xs[1] = t.xs[1]
                 /\ \A j \in DOMAIN source.kids :
                      source.kids[j].k \in Routines /\ source.kids[j].xs[1] = t.xs[1] => j = i
      PROVE  ~DefinedTwice /\ Defined = Declared
  <2>1. ASSUME NEW i \in DOMAIN source.kids, source.kids[i].k \in RoutineKind
        PROVE  \E h \in DOMAIN source.kids :
                 /\ source.kids[h].k \in Routines /\ source.kids[h].xs[1] = source.kids[i].xs[1]
                 /\ \A j \in DOMAIN source.kids :
                      source.kids[j].k \in Routines /\ source.kids[j].xs[1] = source.kids[i].xs[1] => j = h
    BY <1>1, <1>6, <2>1
  <2>2. ~DefinedTwice
    BY <1>3, <1>4, <2>1
  <2>3. \A x : x \in Defined <=> x \in Declared
    BY <1>2, <1>4, <2>1
  <2> QED BY <2>2, <2>3
<1> QED BY <1>5, <1>6 DEF Definitions

LEMMA LegalIs == Legal <=> WellFormed(L!Subtrees[source]) /\ Definitions /\ ValidGlobals
BY WellScopedIs, DefinitionsAre DEF Legal, ValidGlobals
-----------------------------------------------------------------------------
(* The compiler on its way through the passes.                             *)
PassInv ==
  /\ IInv
  /\ stage \in 0 .. 3
  /\ stage > 0 <=> verdict = "resolved"
  /\ stage > 1 => Definitions
  /\ stage > 2 => ValidGlobals

TextInv ==
  /\ Whole(L!Subtrees[source])
  /\ verdict = "running" => \E O : Following(L!Subtrees[source], O)
  /\ verdict = "resolved" => WellFormed(L!Subtrees[source]) /\ AllBound(L!Subtrees[source], idents)
  /\ verdict = "rejected" => ~Legal

LEMMA CheckStarts == InitChecks => PassInv /\ TextInv
<1> SUFFICES ASSUME InitChecks PROVE PassInv /\ TextInv
  OBVIOUS
<1>1. Init /\ stage = 0 /\ verdict = "running"
  BY DEF InitChecks, Init
<1>2. PICK N : N = L!Subtrees[source]
  OBVIOUS
<1>3. Whole(N) /\ \E O : Following(N, O)
  BY <1>1, <1>2, InitFollows
<1>4. IInv
  BY <1>1, InitKeeps
<1> QED BY <1>1, <1>2, <1>3, <1>4 DEF PassInv, TextInv

LEMMA SameSource ==
  ASSUME source' = source
  PROVE  /\ Definitions' = Definitions /\ ValidGlobals' = ValidGlobals /\ Legal' = Legal
         /\ (L!Subtrees[source])' = L!Subtrees[source]
<1>1. Definitions' = Definitions
  BY DEF Definitions, DefinedTwice, Defined, Declared, RoutineNames
<1>2. ValidGlobals' = ValidGlobals
  BY DEF ValidGlobals
<1>3. Legal' = Legal
  BY DEF Legal
<1> QED BY <1>1, <1>2, <1>3

LEMMA ScopesKeep ==
  ASSUME PassInv, TextInv, ResolveScopes
  PROVE  PassInv' /\ TextInv'
<1>1. /\ NextScope /\ stage = 0 /\ verdict = "running" /\ source' = source
  BY DEF ResolveScopes, PassInv, TextInv, NextScope, visitChildren, visitDeclaration, visitIdentifier,
         visitCall, visitBlock, visitDomain, visitRoutine, Resolve, Declare, Refer, EnterDomain, Close,
         CheckArity, DeclareRoutine, EnterRoutine, Finish, Visiting, Resuming
<1>2. IInv'
  BY <1>1, StepKeeps DEF PassInv
<1>3. verdict' \in {"running", "resolved", "rejected"}
  BY <1>2 DEF IInv, Shapes
<1>4. PICK N : N = L!Subtrees[source]
  OBVIOUS
<1>5. PICK O : Whole(N) /\ Following(N, O)
  BY <1>1, <1>4 DEF TextInv
<1>6. Outcome(N)
  BY <1>1, <1>5, StepOutcome DEF PassInv
<1>7. N = (L!Subtrees[source])'
  BY <1>1, <1>4, SameSource
<1>8. stage' = IF verdict' = "resolved" THEN 1 ELSE 0
  BY DEF ResolveScopes
<1>9. PassInv'
  BY <1>2, <1>3, <1>8 DEF PassInv
<1>10. verdict' = "rejected" => ~Legal'
  BY <1>1, <1>4, <1>6, LegalIs, SameSource DEF Outcome
<1>11. TextInv'
  <2>1. Whole(N) /\ N = L!Subtrees[source']
    BY <1>5, <1>7
  <2>2. /\ verdict' = "running" => (\E P : Following(L!Subtrees[source], P))'
        /\ verdict' = "resolved" => (WellFormed(L!Subtrees[source]) /\ AllBound(L!Subtrees[source], idents))'
    BY <1>6, <1>7 DEF Outcome
  <2> QED BY <1>10, <2>1, <2>2 DEF TextInv
<1> QED BY <1>9, <1>11, SMTT(30)

(* A check changes nothing but the verdict and the pass that is next.      *)
LEMMA CheckKeeps ==
  ASSUME PassInv, TextInv, stage \in {1, 2}, NEW ok, UNCHANGED <<source, work, resolved>>, Check(ok),
         stage = 1 => (ok <=> Definitions), stage = 2 => (ok <=> ValidGlobals)
  PROVE  PassInv' /\ TextInv'
<1>1. /\ UNCHANGED <<source, work, resolved, scopes, current, idents, objects>>
      /\ verdict = "resolved"
  BY DEF Check, NoChange, Untouched, PassInv
<1>2. IInv'
  <2>1. verdict' \in {"running", "resolved", "rejected"}
    BY <1>1 DEF Check
  <2> QED BY <1>1, <2>1 DEF PassInv, IInv, Shapes, Tables2, ScopesNest, LookupInv, Top, Symbols
<1>3. CASE ok
  <2>1. stage' = stage + 1 /\ verdict' = "resolved"
    BY <1>1, <1>3 DEF Check
  <2>2. /\ stage = 1 => Definitions
        /\ stage = 2 => Definitions /\ ValidGlobals
    BY <1>3 DEF PassInv
  <2>3. PassInv'
    BY <1>1, <1>2, <2>1, <2>2, SameSource DEF PassInv
  <2>4. TextInv'
    BY <1>1, <2>1, SameSource DEF TextInv
  <2> QED BY <2>3, <2>4
<1>4. CASE ~ok
  <2>1. stage' = 0 /\ verdict' = "rejected"
    BY <1>4 DEF Check
  <2>2. ~Legal
    BY <1>4, LegalIs
  <2>3. PassInv'
    BY <1>2, <2>1 DEF PassInv
  <2>4. TextInv'
    BY <1>1, <2>1, <2>2, SameSource DEF TextInv
  <2> QED BY <2>3, <2>4
<1> QED BY <1>3, <1>4

LEMMA ChecksKeep ==
  ASSUME PassInv, TextInv, [NextChecks]_cvars
  PROVE  PassInv' /\ TextInv'
<1>1. CASE ResolveScopes
  BY <1>1, ScopesKeep
<1>2. CASE EnsureDefinition
  <2>1. stage = 1 /\ UNCHANGED <<source, work, resolved>> /\ Check(Definitions)
    BY <1>2 DEF EnsureDefinition, Running, Later, PassInv
  <2> QED BY <2>1, CheckKeeps
<1>3. CASE EnsureValidGlobalInit
  <2>1. stage = 2 /\ UNCHANGED <<source, work, resolved>> /\ Check(ValidGlobals)
    BY <1>3 DEF EnsureValidGlobalInit, Running, Later, PassInv
  <2> QED BY <2>1, CheckKeeps
<1>4. CASE UNCHANGED cvars
  <2>1. UNCHANGED <<source, work, scopes, current, objects, idents, resolved, verdict, stage>>
    BY <1>4 DEF cvars, svars
  <2>2. IInv'
    BY <2>1, StutterKeeps DEF PassInv, svars
  <2> QED BY <2>1, <2>2, SameSource DEF PassInv, TextInv, Following, Placing
<1> QED BY <1>1, <1>2, <1>3, <1>4 DEF NextChecks

(* Whatever the program, once its scopes are resolved every use of a name  *)
(* has the symbol of the declaration the text binds it to.                 *)
THEOREM UsesResolveLexically == ChecksSpec => []ResolvesLexically
<1>1. PassInv /\ TextInv => ResolvesLexically
  <2> SUFFICES ASSUME TextInv, verdict = "resolved", NEW b \in L!Bindings(source)
               PROVE  b[2] \in DOMAIN idents /\ idents[b[1]].referred = idents[b[2]].referred
    BY DEF ResolvesLexically
  <2>1. PICK u \in L!Uses(L!Subtrees[source]) : b = <<u.at, BinderOf(L!Subtrees[source], u).place>>
    BY BindingsAre
  <2> QED BY <2>1 DEF TextInv, AllBound
<1>2. PassInv /\ TextInv /\ [NextChecks]_cvars => PassInv' /\ TextInv'
  BY ChecksKeep
<1> QED BY <1>1, <1>2, CheckStarts, PTL DEF ChecksSpec

(* Whatever the program, scope resolution, the check of definitions and    *)
(* that of global initialisers let through exactly the legal ones.         *)
THEOREM CompilerVerdictIsRight == ChecksSpec => []VerdictIsRight
<1>1. PassInv /\ TextInv => VerdictIsRight
  <2> SUFFICES ASSUME PassInv, TextInv PROVE VerdictIsRight
    OBVIOUS
  <2>1. stage > 2 => verdict = "resolved" /\ Definitions /\ ValidGlobals
    BY DEF PassInv
  <2> QED BY <2>1, LegalIs DEF VerdictIsRight, Passed, TextInv
<1>2. PassInv /\ TextInv /\ [NextChecks]_cvars => PassInv' /\ TextInv'
  BY ChecksKeep
<1> QED BY <1>1, <1>2, CheckStarts, PTL DEF ChecksSpec
=============================================================================
