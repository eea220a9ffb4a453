----------------------- MODULE ScopeResolution_proofs -----------------------
(***************************************************************************)
(* Scope resolution keeps its scope tree, its symbol table and the stack   *)
(* of its visits in order, for every program: the scopes that wait to be   *)
(* closed are the current one and those around it, innermost first, and a  *)
(* symbol belongs to one name of one scope.                                *)
(***************************************************************************)
EXTENDS ScopeResolution, SequenceTheorems, TLAPS

Ops == {"visit", "resolve", "declare", "refer", "enter", "close", "arity", "routine", "body"}

Frames ==
  {f \in [op : Ops, node : Tree, at : Seq(Int), scope : Nat] :
     /\ f.op \in {"declare", "refer", "resolve", "routine", "body"} => f.node.xs # <<>>
     /\ f.op \in {"enter", "body"} => f.node.kids # <<>>}

Stacks == Seq(Frames)
Tables == UNION {[D -> Nat \ {0}] : D \in SUBSET STRING}
ScopeRecords == [parent : Nat, symbols : Tables]
Trees  == Seq(ScopeRecords)
TypeRecords  == [routine : {"", "procedure", "function"}, arity : Int]
ObjectTables == Seq([name : STRING, type : TypeRecords])

(* The conjuncts of the type invariant and of SymbolsApart, for any tree   *)
(* and table.                                                              *)
Rooted(tree, n) ==
  \A s \in DOMAIN tree :
    /\ tree[s].parent \in (IF s = Global THEN {Nullptr} ELSE 1 .. s - 1)
    /\ \A x \in DOMAIN tree[s].symbols : tree[s].symbols[x] \in 1 .. n

OneHome(tree) ==
  \A s, r \in DOMAIN tree :
    \A x \in DOMAIN tree[s].symbols, y \in DOMAIN tree[r].symbols :
      tree[s].symbols[x] = tree[r].symbols[y] => s = r /\ x = y

NamedAlike(tree, objs) ==
  \A s \in DOMAIN tree : \A x \in DOMAIN tree[s].symbols : objs[tree[s].symbols[x]].name = x

Referring(ids, objs) ==
  \A p \in DOMAIN ids :
    ids[p].referred \in DOMAIN objs /\ objs[ids[p].referred].name = ids[p].name

Shapes ==
  /\ source \in Source /\ work \in Stacks
  /\ scopes \in Trees /\ objects \in ObjectTables
  /\ verdict \in {"running", "resolved", "rejected"}
  /\ current \in DOMAIN scopes
  /\ resolved \in {Nullptr} \union Symbols

Tables2 ==
  /\ Rooted(scopes, Len(objects)) /\ OneHome(scopes)
  /\ NamedAlike(scopes, objects) /\ Referring(idents, objects)

IInv == Shapes /\ Tables2 /\ ScopesNest /\ LookupInv
-----------------------------------------------------------------------------
(* The nesting of scopes, as stacks of frames come and go.                 *)
NoCloses(p) == \A i \in DOMAIN p : ~Closes(p, i)

LEMMA ChainPrepend ==
  ASSUME NEW w \in Stacks, NEW p \in Stacks, NEW tree \in Trees, NEW cur,
         Nested(w, tree, cur), NoCloses(p)
  PROVE  Nested(p \o w, tree, cur)
<1> DEFINE v == p \o w
           n == Len(p)
<1>1. v \in Stacks /\ n \in Nat /\ DOMAIN v = 1 .. n + Len(w)
  BY DEF Stacks
<1>2. \A i \in 1 .. n : ~Closes(v, i)
  BY DEF Stacks, NoCloses, Closes
<1>3. \A i \in 1 .. Len(w) : v[n + i] = w[i] /\ (Closes(v, n + i) <=> Closes(w, i))
  BY DEF Stacks, Closes
<1> SUFFICES ASSUME NEW j \in DOMAIN v, Closes(v, j)
             PROVE  /\ v[j].scope \in 2 .. Len(tree)
                    /\ NoClose(v, 1, j - 1) => v[j].scope = cur
                    /\ \A h \in 1 .. j - 1 :
                         Closes(v, h) /\ NoClose(v, h + 1, j - 1) =>
                           tree[v[h].scope].parent = v[j].scope
  BY DEF Nested
<1> HIDE DEF v, n
<1>4. PICK i \in 1 .. Len(w) : j = n + i
  <2>1. j > n
    BY <1>1, <1>2
  <2>2. j - n \in 1 .. Len(w) /\ j = n + (j - n)
    BY <1>1, <2>1 DEF Stacks
  <2> QED
    BY <2>2
<1>5. Closes(w, i) /\ v[j] = w[i] /\ i \in DOMAIN w
  BY <1>3, <1>4 DEF Stacks
<1>6. NoClose(v, 1, j - 1) => NoClose(w, 1, i - 1)
  BY <1>1, <1>3, <1>4 DEF NoClose, Stacks
<1>7. ASSUME NEW h \in 1 .. j - 1, Closes(v, h), NoClose(v, h + 1, j - 1)
      PROVE  tree[v[h].scope].parent = v[j].scope
  <2>1. h > n
    BY <1>1, <1>2, <1>7
  <2> DEFINE g == h - n
  <2>2. g \in 1 .. i - 1 /\ h = n + g /\ g \in 1 .. Len(w)
    BY <1>1, <1>4, <2>1 DEF Stacks
  <2>3. Closes(w, g) /\ v[h] = w[g]
    BY <1>3, <1>7, <2>2
  <2>4. NoClose(w, g + 1, i - 1)
    <3> SUFFICES ASSUME NEW k \in g + 1 .. i - 1 PROVE ~Closes(w, k)
      BY DEF NoClose
    <3>1. n + k \in h + 1 .. j - 1 /\ k \in 1 .. Len(w)
      BY <1>1, <1>4, <2>2 DEF Stacks
    <3> QED
      BY <3>1, <1>3, <1>7 DEF NoClose
  <2> QED
    BY <1>5, <2>2, <2>3, <2>4 DEF Nested
<1> QED
  BY <1>5, <1>6, <1>7 DEF Nested

LEMMA ChainTail ==
  ASSUME NEW w \in Stacks, w # <<>>, NEW tree \in Trees, NEW cur, NEW new,
         Nested(w, tree, cur),
         IF Closes(w, 1) THEN new = tree[cur].parent ELSE new = cur
  PROVE  Nested(Tail(w), tree, new)
<1> DEFINE v == Tail(w)
<1>1. /\ v \in Stacks /\ Len(w) \in Nat /\ Len(w) > 0
      /\ DOMAIN v = 1 .. Len(w) - 1 /\ DOMAIN w = 1 .. Len(w)
  BY DEF Stacks
<1>2. \A i \in 1 .. Len(w) - 1 : v[i] = w[i + 1] /\ (Closes(v, i) <=> Closes(w, i + 1))
  BY DEF Stacks, Closes
<1> SUFFICES ASSUME NEW i \in DOMAIN v, Closes(v, i)
             PROVE  /\ v[i].scope \in 2 .. Len(tree)
                    /\ NoClose(v, 1, i - 1) => v[i].scope = new
                    /\ \A h \in 1 .. i - 1 :
                         Closes(v, h) /\ NoClose(v, h + 1, i - 1) =>
                           tree[v[h].scope].parent = v[i].scope
  BY DEF Nested
<1> HIDE DEF v
<1>3. i + 1 \in DOMAIN w /\ Closes(w, i + 1) /\ v[i] = w[i + 1]
  BY <1>1, <1>2
<1>4. ASSUME NEW h \in 0 .. i - 1, NoClose(v, h + 1, i - 1)
      PROVE  NoClose(w, h + 2, i)
  <2> SUFFICES ASSUME NEW k \in h + 2 .. i PROVE ~Closes(w, k)
    BY DEF NoClose
  <2>1. k - 1 \in h + 1 .. i - 1 /\ k - 1 \in 1 .. Len(w) - 1 /\ (k - 1) + 1 = k
    BY <1>1
  <2> QED
    BY <2>1, <1>2, <1>4 DEF NoClose
<1>5. ASSUME NoClose(v, 1, i - 1) PROVE v[i].scope = new
  <2>1. NoClose(w, 2, i)
    BY <1>1, <1>4, <1>5
  <2>2. CASE Closes(w, 1)
    <3>1. w[1].scope = cur
      BY <1>1, <2>2 DEF Nested, NoClose
    <3>2. tree[w[1].scope].parent = w[i + 1].scope
      BY <1>1, <1>3, <2>1, <2>2 DEF Nested
    <3> QED
      BY <1>3, <2>2, <3>1, <3>2
  <2>3. CASE ~Closes(w, 1)
    <3>1. NoClose(w, 1, i)
      BY <1>1, <2>1, <2>3 DEF NoClose
    <3> QED
      BY <1>1, <1>3, <2>3, <3>1 DEF Nested
  <2> QED
    BY <2>2, <2>3
<1>6. ASSUME NEW h \in 1 .. i - 1, Closes(v, h), NoClose(v, h + 1, i - 1)
      PROVE  tree[v[h].scope].parent = v[i].scope
  <2>1. h + 1 \in 1 .. i /\ Closes(w, h + 1) /\ v[h] = w[h + 1]
    BY <1>1, <1>2, <1>6
  <2>2. NoClose(w, h + 2, i) /\ (h + 1) + 1 = h + 2 /\ (i + 1) - 1 = i
    BY <1>1, <1>4, <1>6
  <2> QED
    BY <1>3, <2>1, <2>2 DEF Nested
<1> QED
  BY <1>3, <1>5, <1>6 DEF Nested

LEMMA ChainPush ==
  ASSUME NEW w \in Stacks, NEW c \in Frames, NEW tree \in Trees, NEW new \in Trees,
         NEW cur \in DOMAIN tree,
         Nested(w, tree, cur),
         Len(new) = Len(tree) + 1,
         \A s \in DOMAIN tree : new[s].parent = tree[s].parent,
         new[Len(tree) + 1].parent = cur,
         c.op = "close", c.scope = Len(tree) + 1
  PROVE  Nested(<<c>> \o w, new, Len(tree) + 1)
<1> DEFINE v == <<c>> \o w
<1>1. /\ v \in Stacks /\ Len(w) \in Nat /\ DOMAIN v = 1 .. Len(w) + 1 /\ DOMAIN w = 1 .. Len(w)
      /\ v[1] = c /\ Closes(v, 1)
  BY DEF Stacks, Closes
<1>2. \A i \in 1 .. Len(w) : v[i + 1] = w[i] /\ (Closes(v, i + 1) <=> Closes(w, i))
  BY DEF Stacks, Closes
<1>3. Len(tree) \in Nat /\ DOMAIN tree = 1 .. Len(tree) /\ Len(tree) >= 1
  BY DEF Trees
<1> SUFFICES ASSUME NEW j \in DOMAIN v, Closes(v, j)
             PROVE  /\ v[j].scope \in 2 .. Len(new)
                    /\ NoClose(v, 1, j - 1) => v[j].scope = Len(tree) + 1
                    /\ \A h \in 1 .. j - 1 :
                         Closes(v, h) /\ NoClose(v, h + 1, j - 1) =>
                           new[v[h].scope].parent = v[j].scope
  BY DEF Nested
<1> HIDE DEF v
<1>4. CASE j = 1
  BY <1>1, <1>3, <1>4
<1>5. CASE j # 1
  <2> DEFINE i == j - 1
  <2>1. i \in 1 .. Len(w) /\ j = i + 1 /\ Closes(w, i) /\ v[j] = w[i]
    BY <1>1, <1>2, <1>5
  <2>2. w[i].scope \in 2 .. Len(tree)
    BY <1>1, <2>1 DEF Nested
  <2>3. ~NoClose(v, 1, j - 1)
    BY <1>1, <2>1 DEF NoClose
  <2>4. ASSUME NEW h \in 1 .. j - 1, Closes(v, h), NoClose(v, h + 1, j - 1)
        PROVE  new[v[h].scope].parent = v[j].scope
    <3>1. CASE h = 1
      <4>1. NoClose(w, 1, i - 1)
        BY <1>1, <1>2, <2>1, <2>4, <3>1 DEF NoClose
      <4> QED
        BY <1>1, <2>1, <3>1, <4>1 DEF Nested
    <3>2. CASE h # 1
      <4> DEFINE g == h - 1
      <4>1. g \in 1 .. i - 1 /\ g \in DOMAIN w /\ h = g + 1 /\ Closes(w, g) /\ v[h] = w[g]
        BY <1>1, <1>2, <2>1, <2>4, <3>2
      <4>2. NoClose(w, g + 1, i - 1)
        <5> SUFFICES ASSUME NEW k \in g + 1 .. i - 1 PROVE ~Closes(w, k)
          BY DEF NoClose
        <5>1. k + 1 \in h + 1 .. j - 1 /\ k \in 1 .. Len(w)
          BY <1>1, <2>1, <4>1
        <5> QED
          BY <1>2, <2>4, <5>1 DEF NoClose
      <4>3. tree[w[g].scope].parent = w[i].scope /\ w[g].scope \in 2 .. Len(tree)
        BY <1>1, <2>1, <4>1, <4>2 DEF Nested
      <4> QED
        BY <1>3, <2>1, <4>1, <4>3
    <3> QED
      BY <3>1, <3>2
  <2> QED
    BY <2>1, <2>2, <2>3, <2>4, <1>3
<1> QED
  BY <1>4, <1>5

(* Only the parents of a tree count.                                       *)
SameParents(new, tree) ==
  Len(new) = Len(tree) /\ \A r \in DOMAIN tree : new[r].parent = tree[r].parent

LEMMA ChainTree ==
  ASSUME NEW w \in Stacks, NEW tree \in Trees, NEW new \in Trees, NEW cur,
         Nested(w, tree, cur), SameParents(new, tree)
  PROVE  Nested(w, new, cur)
<1> USE DEF SameParents
<1>1. \A h \in DOMAIN w : Closes(w, h) => new[w[h].scope].parent = tree[w[h].scope].parent
  BY DEF Nested, Trees
<1>2. DOMAIN w = 1 .. Len(w) /\ Len(w) \in Nat
  BY DEF Stacks
<1> QED
  BY <1>1, <1>2 DEF Nested
-----------------------------------------------------------------------------
(* What a declaration does to the tree and the table.                      *)
ExtendsBy(new, m, keys, values) ==
  /\ DOMAIN new = DOMAIN m \union {keys[i] : i \in DOMAIN keys}
  /\ \A k \in {keys[i] : i \in DOMAIN keys} :
       /\ FirstOf(keys, k) \in DOMAIN keys
       /\ keys[FirstOf(keys, k)] = k
       /\ new[k] = values[FirstOf(keys, k)]
  /\ \A k \in DOMAIN m \ {keys[i] : i \in DOMAIN keys} : new[k] = m[k]

LEMMA ExtendedValue ==
  ASSUME NEW m, NEW keys, NEW values
  PROVE  ExtendsBy(Extended(m, keys, values), m, keys, values)
<1> DEFINE new == Extended(m, keys, values)
<1>1. DOMAIN new = DOMAIN m \union {keys[i] : i \in DOMAIN keys}
  BY DEF Extended
<1>2. ASSUME NEW k \in {keys[i] : i \in DOMAIN keys}
      PROVE  /\ FirstOf(keys, k) \in DOMAIN keys
             /\ keys[FirstOf(keys, k)] = k
             /\ new[k] = values[FirstOf(keys, k)]
  <2>1. \E i \in DOMAIN keys : keys[i] = k
    OBVIOUS
  <2>2. FirstOf(keys, k) \in DOMAIN keys /\ keys[FirstOf(keys, k)] = k
    BY <2>1 DEF FirstOf
  <2> QED
    BY <2>1, <2>2 DEF Extended
<1>3. ASSUME NEW k \in DOMAIN m \ {keys[i] : i \in DOMAIN keys}
      PROVE  new[k] = m[k]
  BY DEF Extended
<1> QED
  BY <1>1, <1>2, <1>3 DEF ExtendsBy

Updates(new, tree, s, table) ==
  /\ DOMAIN tree = 1 .. Len(tree) /\ Len(tree) \in Nat /\ DOMAIN new = DOMAIN tree
  /\ \A r \in DOMAIN tree : tree[r].symbols \in Tables /\ new[r].parent = tree[r].parent
  /\ \A r \in DOMAIN tree : r # s => new[r].symbols = tree[r].symbols
  /\ new[s].symbols = table
  /\ table \in Tables => new \in Trees /\ Len(new) = Len(tree)

LEMMA TreeExcept ==
  ASSUME NEW tree \in Trees, NEW s \in DOMAIN tree, NEW table
  PROVE  Updates([tree EXCEPT ![s].symbols = table], tree, s, table)
<1> DEFINE new == [tree EXCEPT ![s].symbols = table]
<1> DEFINE node == [tree[s] EXCEPT !.symbols = table]
<1>1. /\ DOMAIN tree = 1 .. Len(tree) /\ Len(tree) \in Nat
      /\ \A r \in DOMAIN tree : tree[r] \in ScopeRecords
  BY DEF Trees
<1>2. new = [tree EXCEPT ![s] = node]
  OBVIOUS
<1>3. /\ node.parent = tree[s].parent /\ node.symbols = table
      /\ table \in Tables => node \in ScopeRecords
  BY <1>1 DEF ScopeRecords
<1> HIDE DEF node
<1>4. DOMAIN new = DOMAIN tree /\ new[s] = node /\ \A r \in DOMAIN tree : r # s => new[r] = tree[r]
  BY <1>2
<1>5. \A r \in DOMAIN tree : tree[r].symbols \in Tables /\ new[r].parent = tree[r].parent
  BY <1>1, <1>3, <1>4 DEF ScopeRecords
<1>6. table \in Tables => new \in Trees /\ Len(new) = Len(tree)
  BY <1>1, <1>2, <1>3, ExceptSeq DEF Trees
<1> QED
  BY <1>1, <1>3, <1>4, <1>5, <1>6 DEF Updates

(* A tree and a table before a declaration and after it.                   *)
Declares(new, objs, tree, s, xs, ty) ==
  /\ new = [tree EXCEPT ![s].symbols = Extended(@, xs, Fresh(xs))]
  /\ objs = objects \o [i \in DOMAIN xs |-> [name |-> xs[i], type |-> ty]]

Grows(objs, xs) ==
  /\ objs \in ObjectTables /\ Len(objs) = Len(objects) + Len(xs)
  /\ \A i \in DOMAIN objects : objs[i] = objects[i]
  /\ \A i \in DOMAIN xs : objs[Len(objects) + i].name = xs[i]

Sound(tree, objs) == Rooted(tree, Len(objs)) /\ OneHome(tree) /\ NamedAlike(tree, objs)

LEMMA DeclaredTree ==
  ASSUME objects \in ObjectTables,
         NEW tree \in Trees, NEW s \in DOMAIN tree, NEW xs \in Seq(STRING),
         NEW ty \in TypeRecords,
         Sound(tree, objects),
         NEW new, NEW objs, Declares(new, objs, tree, s, xs, ty)
  PROVE  /\ new \in Trees /\ SameParents(new, tree)
         /\ Grows(objs, xs) /\ Sound(new, objs)
<1> USE DEF Sound, Declares
<1> DEFINE n == Len(objects)
           old == tree[s].symbols
           fresh == Extended(old, xs, Fresh(xs))
           names == {xs[i] : i \in DOMAIN xs}
<1>1. /\ n \in Nat /\ Len(xs) \in Nat /\ DOMAIN xs = 1 .. Len(xs) /\ DOMAIN objects = 1 .. n
      /\ \A i \in DOMAIN xs : xs[i] \in STRING /\ Fresh(xs)[i] = n + i
  BY DEF ObjectTables, Fresh
<1>2. /\ objs \in ObjectTables /\ Len(objs) = n + Len(xs)
      /\ \A i \in DOMAIN objects : objs[i] = objects[i]
      /\ \A i \in DOMAIN xs : objs[n + i].name = xs[i]
  <2> DEFINE more == [i \in DOMAIN xs |-> [name |-> xs[i], type |-> ty]]
  <2>1. more \in ObjectTables /\ Len(more) = Len(xs) /\ \A i \in DOMAIN xs : more[i].name = xs[i]
    BY <1>1 DEF ObjectTables
  <2> HIDE DEF more
  <2>2. objs = objects \o more
    BY DEF more
  <2> QED
    BY <1>1, <2>1, <2>2 DEF ObjectTables
<1>0. new = [tree EXCEPT ![s].symbols = fresh]
  OBVIOUS
<1> DEFINE vals == Fresh(xs)
<1> HIDE DEF fresh, vals, n, old
<1>3. Updates(new, tree, s, fresh)
  <2>1. Updates([tree EXCEPT ![s].symbols = fresh], tree, s, fresh)
    BY TreeExcept
  <2> QED
    BY <1>0, <2>1
<1>4. ExtendsBy(fresh, old, xs, vals)
  BY ExtendedValue DEF fresh, vals
<1>5. /\ DOMAIN fresh = DOMAIN old \union names
      /\ \A x \in names : /\ FirstOf(xs, x) \in DOMAIN xs /\ xs[FirstOf(xs, x)] = x
                           /\ fresh[x] = vals[FirstOf(xs, x)]
      /\ \A x \in DOMAIN old \ names : fresh[x] = old[x]
  BY <1>4 DEF ExtendsBy
<1> HIDE DEF names
<1>6. \A x \in DOMAIN old \ names : fresh[x] = old[x]
  BY <1>5
<1>7. \A x \in names : /\ FirstOf(xs, x) \in 1 .. Len(xs) /\ xs[FirstOf(xs, x)] = x
                       /\ fresh[x] = n + FirstOf(xs, x)
  BY <1>1, <1>5 DEF vals, n
<1>8. old \in Tables /\ \A x \in DOMAIN old : x \in STRING /\ old[x] \in 1 .. n
  <2>1. old \in Tables
    BY <1>3 DEF Updates, old
  <2>2. PICK D \in SUBSET STRING : old \in [D -> Nat \ {0}]
    BY <2>1 DEF Tables
  <2>3. \A x \in DOMAIN old : x \in STRING
    BY <2>2
  <2> QED
    BY <2>1, <2>3 DEF Rooted, n, old
<1>9. \A x \in DOMAIN fresh : x \in STRING /\ fresh[x] \in 1 .. n + Len(xs)
  <2> SUFFICES ASSUME NEW x \in DOMAIN fresh
               PROVE  x \in STRING /\ fresh[x] \in 1 .. n + Len(xs)
    OBVIOUS
  <2>1. CASE x \in names
    BY <1>1, <1>7, <2>1
  <2>2. CASE x \notin names
    BY <1>1, <1>5, <1>8, <2>2
  <2> QED
    BY <2>1, <2>2
<1>10. new \in Trees /\ Len(new) = Len(tree)
  <2>1. fresh \in Tables
    <3>1. fresh = [x \in DOMAIN fresh |-> fresh[x]]
      BY DEF fresh, Extended
    <3>2. fresh \in [DOMAIN fresh -> Nat \ {0}] /\ DOMAIN fresh \in SUBSET STRING
      BY <1>1, <1>9, <3>1
    <3> QED
      BY <3>2 DEF Tables
  <2> QED
    BY <1>3, <2>1 DEF Updates
<1>11. Rooted(new, Len(objs))
  <2> SUFFICES ASSUME NEW r \in DOMAIN tree
               PROVE  /\ new[r].parent \in (IF r = Global THEN {Nullptr} ELSE 1 .. r - 1)
                      /\ \A x \in DOMAIN new[r].symbols : new[r].symbols[x] \in 1 .. Len(objs)
    BY <1>3 DEF Rooted, Updates
  <2>1. new[r].parent \in (IF r = Global THEN {Nullptr} ELSE 1 .. r - 1)
    BY <1>3 DEF Rooted, Updates
  <2>2. CASE r = s
    BY <1>2, <1>3, <1>9, <2>1, <2>2 DEF Updates
  <2>3. CASE r # s
    <3>1. \A x \in DOMAIN tree[r].symbols : tree[r].symbols[x] \in 1 .. n
      BY DEF Rooted, n
    <3> QED
      BY <1>1, <1>2, <1>3, <2>1, <2>3, <3>1 DEF Updates
  <2> QED
    BY <2>2, <2>3
<1>12. NamedAlike(new, objs)
  <2> SUFFICES ASSUME NEW r \in DOMAIN tree, NEW x \in DOMAIN new[r].symbols
               PROVE  objs[new[r].symbols[x]].name = x
    BY <1>3 DEF NamedAlike, Updates
  <2>1. \A q \in DOMAIN tree : \A y \in DOMAIN tree[q].symbols :
          tree[q].symbols[y] \in DOMAIN objects /\ objs[tree[q].symbols[y]].name = y
    BY <1>1, <1>2 DEF Rooted, NamedAlike, n
  <2>2. CASE r # s
    BY <1>3, <2>1, <2>2 DEF Updates
  <2>3. CASE r = s /\ x \in names
    BY <1>1, <1>2, <1>3, <1>7, <2>3 DEF Updates
  <2>4. CASE r = s /\ x \notin names
    <3>1. x \in DOMAIN old /\ new[r].symbols[x] = old[x]
      BY <1>3, <1>5, <2>4 DEF Updates
    <3>2. objs[old[x]].name = x
      BY <2>1, <3>1 DEF old
    <3> QED
      BY <3>1, <3>2
  <2> QED
    BY <2>2, <2>3, <2>4
<1>13. OneHome(new)
  <2>1. \A q \in DOMAIN tree : \A y \in DOMAIN new[q].symbols :
          \/ q = s /\ y \in names /\ new[q].symbols[y] = n + FirstOf(xs, y)
          \/ ~(q = s /\ y \in names) /\ y \in DOMAIN tree[q].symbols
               /\ new[q].symbols[y] = tree[q].symbols[y] /\ tree[q].symbols[y] \in 1 .. n
    BY <1>3, <1>5, <1>7 DEF Rooted, n, old, Updates
  <2> SUFFICES ASSUME NEW q \in DOMAIN tree, NEW r \in DOMAIN tree,
                      NEW x \in DOMAIN new[q].symbols, NEW y \in DOMAIN new[r].symbols,
                      new[q].symbols[x] = new[r].symbols[y]
               PROVE  q = r /\ x = y
    BY <1>3 DEF OneHome, Updates
  <2>2. CASE q = s /\ x \in names
    <3> DEFINE i == FirstOf(xs, x)
               j == FirstOf(xs, y)
               v == new[r].symbols[y]
    <3>a. v = n + i /\ i \in 1 .. Len(xs) /\ ~(v \in 1 .. n)
      <4>1. new[q].symbols[x] = n + i
        BY <2>1, <2>2
      <4>2. i \in 1 .. Len(xs)
        BY <1>7, <2>2
      <4>3. v = n + i
        BY <4>1
      <4> HIDE DEF i, v
      <4> QED
        BY <1>1, <4>2, <4>3 DEF n
    <3>1. r = s /\ y \in names /\ v = n + j
      BY <2>1, <3>a
    <3>2. i = j
      <4>1. j \in 1 .. Len(xs)
        BY <1>7, <3>1
      <4> HIDE DEF i, j, v
      <4> QED
        BY <1>1, <3>a, <3>1, <4>1 DEF n
    <3> QED
      BY <1>7, <2>2, <3>1, <3>2
  <2>3. CASE ~(q = s /\ x \in names)
    <3>1. ~(r = s /\ y \in names)
      <4>1. new[q].symbols[x] \in 1 .. n
        BY <2>1, <2>3
      <4> QED
        BY <1>1, <1>7, <2>1, <4>1 DEF n
    <3>2. tree[q].symbols[x] = tree[r].symbols[y] /\ x \in DOMAIN tree[q].symbols /\ y \in DOMAIN tree[r].symbols
      BY <2>1, <2>3, <3>1
    <3> QED
      BY <3>2 DEF OneHome
  <2> QED
    BY <2>2, <2>3
<1> QED
  BY <1>2, <1>3, <1>10, <1>11, <1>12, <1>13 DEF n, Updates, SameParents, Grows

LEMMA DeclaredIdents ==
  ASSUME objects \in ObjectTables, NEW xs \in Seq(STRING),
         NEW places, DOMAIN places \subseteq DOMAIN xs,
         NEW ids, Referring(ids, objects),
         NEW objs, Grows(objs, xs)
  PROVE  Referring(Extended(ids, places,
                     [i \in DOMAIN xs |-> [name |-> xs[i], referred |-> Fresh(xs)[i]]]), objs)
<1> USE DEF Grows
<1> DEFINE values == [i \in DOMAIN xs |-> [name |-> xs[i], referred |-> Fresh(xs)[i]]]
           new == Extended(ids, places, values)
           at == {places[i] : i \in DOMAIN places}
<1>1. \A i \in DOMAIN xs : /\ values[i].name = xs[i] /\ values[i].referred \in DOMAIN objs
                           /\ objs[values[i].referred].name = xs[i]
  BY DEF ObjectTables, Fresh
<1>2. DOMAIN objects \subseteq DOMAIN objs
  BY DEF ObjectTables
<1> HIDE DEF new, values
<1>3. ExtendsBy(new, ids, places, values)
  BY ExtendedValue DEF new
<1>4. /\ DOMAIN new = DOMAIN ids \union at
      /\ \A k \in at : FirstOf(places, k) \in DOMAIN places /\ new[k] = values[FirstOf(places, k)]
      /\ \A k \in DOMAIN ids \ at : new[k] = ids[k]
  BY <1>3 DEF ExtendsBy
<1> HIDE DEF at
<1>6. ASSUME NEW k \in DOMAIN new
      PROVE  new[k].referred \in DOMAIN objs /\ objs[new[k].referred].name = new[k].name
  <2>1. CASE k \in at
    BY <1>1, <1>4, <2>1
  <2>2. CASE k \notin at
    BY <1>2, <1>4, <2>2 DEF Referring
  <2> QED
    BY <2>1, <2>2
<1>7. Referring(new, objs)
  BY <1>6 DEF Referring
<1> QED
  BY <1>7 DEF new, values

LEMMA DeclareInKeeps ==
  ASSUME objects \in ObjectTables,
         NEW tree \in Trees, NEW s \in DOMAIN tree, NEW xs \in Seq(STRING),
         NEW ty \in TypeRecords,
         NEW places, DOMAIN places \subseteq DOMAIN xs,
         Sound(tree, objects), Referring(idents, objects),
         DeclareIn(tree, s, xs, ty, places)
  PROVE  /\ scopes' \in Trees /\ SameParents(scopes', tree)
         /\ objects' \in ObjectTables /\ Symbols \subseteq Symbols'
         /\ Tables2'
<1>1. PICK new : new = scopes'
  OBVIOUS
<1>2. PICK objs : objs = objects'
  OBVIOUS
<1>3. /\ Declares(new, objs, tree, s, xs, ty)
      /\ idents' = Extended(idents, places,
                     [i \in DOMAIN xs |-> [name |-> xs[i], referred |-> Fresh(xs)[i]]])
  BY <1>1, <1>2 DEF DeclareIn, Declares
<1>4. new \in Trees /\ SameParents(new, tree) /\ Grows(objs, xs) /\ Sound(new, objs)
  BY <1>3, DeclaredTree
<1>5. Referring(Extended(idents, places,
                  [i \in DOMAIN xs |-> [name |-> xs[i], referred |-> Fresh(xs)[i]]]), objs)
  BY <1>4, DeclaredIdents
<1>6. Symbols \subseteq Symbols'
  BY <1>2, <1>4 DEF Symbols, ObjectTables, Grows
<1>7. Tables2'
  <2>1. Referring(idents', objs)
    BY <1>3, <1>5
  <2> QED
    BY <1>1, <1>2, <1>4, <2>1 DEF Tables2, Sound
<1>8. objects' \in ObjectTables
  BY <1>2, <1>4 DEF Grows
<1> QED
  BY <1>1, <1>4, <1>6, <1>7, <1>8
-----------------------------------------------------------------------------
(* What a visitor does to the stack.                                       *)
Quiet(p) == \A i \in DOMAIN p : p[i].op \notin {"close", "resolve"} \union Waits

LEMMA Concat ==
  ASSUME NEW p \in Stacks, NEW q \in Stacks
  PROVE  /\ p \o q \in Stacks /\ Len(p \o q) = Len(p) + Len(q)
         /\ \A i \in 1 .. Len(p) : (p \o q)[i] = p[i]
         /\ \A i \in 1 .. Len(q) : (p \o q)[Len(p) + i] = q[i]
  BY DEF Stacks

LEMMA QuietConcat ==
  ASSUME NEW p \in Stacks, NEW q \in Stacks, Quiet(p), Quiet(q)
  PROVE  p \o q \in Stacks /\ Quiet(p \o q)
<1>1. /\ p \o q \in Stacks /\ Len(p) \in Nat /\ Len(q) \in Nat
      /\ DOMAIN (p \o q) = 1 .. Len(p) + Len(q) /\ DOMAIN p = 1 .. Len(p) /\ DOMAIN q = 1 .. Len(q)
      /\ \A i \in 1 .. Len(p) : (p \o q)[i] = p[i]
      /\ \A i \in 1 .. Len(q) : (p \o q)[Len(p) + i] = q[i]
  BY DEF Stacks
<1>2. ASSUME NEW i \in DOMAIN (p \o q)
      PROVE  (p \o q)[i].op \notin {"close", "resolve"} \union Waits
  <2>1. CASE i \in 1 .. Len(p)
    BY <1>1, <2>1 DEF Quiet
  <2>2. CASE i \notin 1 .. Len(p)
    <3>1. i - Len(p) \in 1 .. Len(q) /\ Len(p) + (i - Len(p)) = i
      BY <1>1, <2>2
    <3>2. (p \o q)[i] = q[i - Len(p)]
      BY <1>1, <3>1
    <3> QED
      BY <1>1, <3>1, <3>2 DEF Quiet
  <2> QED
    BY <2>1, <2>2
<1> QED
  BY <1>1, <1>2 DEF Quiet

(* A visitor starts with a lookup or without one.                          *)
Looks(p) ==
  /\ p[1].op = "resolve" /\ p[1].scope \in DOMAIN scopes
  /\ p[2].op \in Waits /\ p[1].node = p[2].node
  /\ Len(p) >= 2
  /\ \A i \in 3 .. Len(p) : p[i].op \notin {"close", "resolve"} \union Waits

LEMMA UnderQuiet ==
  ASSUME work \in Stacks, work # <<>>, LookupInv, Top.op # "resolve"
  PROVE  /\ Under \in Stacks /\ Len(Under) = Len(work) - 1 /\ Len(work) >= 1
         /\ \A i \in 1 .. Len(Under) :
              Under[i] = work[i + 1] /\ Under[i].op \notin {"resolve"} \union Waits
<1>1. /\ Under \in Stacks /\ Len(Under) = Len(work) - 1 /\ Len(work) \in Nat /\ Len(work) >= 1
      /\ \A i \in 1 .. Len(Under) : Under[i] = work[i + 1] /\ i + 1 \in DOMAIN work /\ i + 1 # 1
  BY DEF Stacks, Under
<1>2. \A i \in DOMAIN work : i # 1 => work[i].op \notin {"resolve"} \union Waits
  BY DEF LookupInv, Top
<1>3. \A i \in 1 .. Len(Under) :
        Under[i] = work[i + 1] /\ Under[i].op \notin {"resolve"} \union Waits
  BY <1>1, <1>2
<1> QED
  BY <1>1, <1>3

LEMMA ReplaceTop ==
  ASSUME Shapes, ScopesNest, LookupInv,
         work # <<>>, Top.op \notin {"close", "resolve"},
         NEW p \in Stacks, Quiet(p) \/ Looks(p),
         work' = p \o Under,
         scopes' \in Trees, SameParents(scopes', scopes),
         current' = current
  PROVE  work' \in Stacks /\ ScopesNest' /\ LookupInv'
<1>1. /\ Under \in Stacks /\ Len(Under) = Len(work) - 1 /\ Len(work) >= 1 /\ Len(work) \in Nat
      /\ \A i \in 1 .. Len(Under) : Under[i] = work[i + 1] /\ Under[i].op \notin {"resolve"} \union Waits
  BY UnderQuiet DEF Shapes, Stacks
<1>2. work' \in Stacks
  BY <1>1 DEF Stacks
<1>3. ScopesNest'
  <2>1. Nested(Under, scopes, current)
    BY <1>1, ChainTail DEF Shapes, ScopesNest, Under, Top, Closes
  <2>2. NoCloses(p)
    <3> SUFFICES ASSUME NEW i \in DOMAIN p PROVE p[i].op # "close"
      BY DEF NoCloses, Closes
    <3>1. CASE Quiet(p)
      BY <3>1 DEF Quiet
    <3>2. CASE Looks(p)
      <4>1. i = 1 \/ i = 2 \/ i \in 3 .. Len(p)
        BY DEF Stacks
      <4> QED
        BY <3>2, <4>1 DEF Looks, Waits
    <3> QED
      BY <3>1, <3>2
  <2>3. Nested(p \o Under, scopes, current)
    BY <1>1, <2>1, <2>2, ChainPrepend DEF Shapes
  <2>4. PICK new : new = scopes'
    OBVIOUS
  <2>5. p \o Under \in Stacks
    BY <1>1 DEF Stacks
  <2>6. Nested(p \o Under, new, current)
    BY <2>3, <2>4, <2>5, ChainTree DEF Shapes
  <2> QED
    BY <2>4, <2>6 DEF ScopesNest
<1>4. LookupInv'
  <2>0. Len(p) \in Nat /\ DOMAIN p = 1 .. Len(p) /\ Len(Under) \in Nat
    BY <1>1 DEF Stacks
  <2> DEFINE w == p \o Under
  <2>1. /\ DOMAIN w = 1 .. Len(p) + Len(Under)
        /\ \A i \in 1 .. Len(p) : w[i] = p[i]
        /\ \A i \in 1 .. Len(Under) : w[Len(p) + i] = Under[i]
    BY <1>1, <2>0 DEF Stacks
  <2>2. work' = w
    OBVIOUS
  <2> HIDE DEF w
  <2>3. \A i \in DOMAIN w : i > Len(p) => w[i].op \notin {"resolve"} \union Waits
    <3> SUFFICES ASSUME NEW i \in DOMAIN w, i > Len(p)
                 PROVE  w[i].op \notin {"resolve"} \union Waits
      OBVIOUS
    <3>1. i - Len(p) \in 1 .. Len(Under) /\ Len(p) + (i - Len(p)) = i
      BY <2>0, <2>1
    <3> QED
      BY <1>1, <2>1, <3>1
  <2>4. CASE Quiet(p)
    <3>1. \A i \in DOMAIN w : w[i].op \notin {"resolve"} \union Waits
      BY <2>0, <2>1, <2>3, <2>4 DEF Quiet
    <3>2. w # <<>> => 1 \in DOMAIN w
      BY <2>0, <2>1, <2>2, <1>2 DEF Stacks
    <3> QED
      BY <2>2, <3>1, <3>2 DEF LookupInv, Top
  <2>5. CASE Looks(p)
    <3>1. /\ w[1] = p[1] /\ w[2] = p[2]
          /\ \A i \in DOMAIN w : i = 1 \/ i = 2 \/ w[i].op \notin {"resolve"} \union Waits
      BY <2>0, <2>1, <2>3, <2>5 DEF Looks
    <3>2. w[1].op = "resolve" /\ w[2].op \in Waits /\ w[1].node = w[2].node
      BY <2>5, <3>1 DEF Looks
    <3>3. w[1].scope \in 0 .. Len(scopes')
      BY <2>5, <3>1 DEF Looks, Shapes, Trees, SameParents
    <3> QED
      BY <2>2, <3>1, <3>2, <3>3 DEF LookupInv, Top, Waits
  <2> QED
    BY <2>4, <2>5
<1> QED
  BY <1>2, <1>3, <1>4

LEMMA PopTop ==
  ASSUME Shapes, ScopesNest, LookupInv,
         work # <<>>, Top.op \notin {"close", "resolve"},
         work' = Under,
         scopes' \in Trees, SameParents(scopes', scopes),
         current' = current
  PROVE  work' \in Stacks /\ ScopesNest' /\ LookupInv'
<1>1. <<>> \in Stacks /\ Quiet(<<>>)
  BY DEF Stacks, Quiet
<1>2. Under \in Stacks
  BY UnderQuiet DEF Shapes
<1>3. work' = <<>> \o Under
  BY <1>2 DEF Stacks
<1> QED
  BY <1>1, <1>3, ReplaceTop

LEMMA OpenTop ==
  ASSUME Shapes, ScopesNest, LookupInv,
         work # <<>>, Top.op \notin {"close", "resolve"},
         NEW p \in Stacks, Quiet(p),
         NEW c \in Frames, c.op = "close", c.scope = Len(scopes) + 1,
         work' = p \o <<c>> \o Under,
         scopes' \in Trees, SameParents(scopes', Append(scopes, Scope(current))),
         current' = Len(scopes) + 1
  PROVE  work' \in Stacks /\ ScopesNest' /\ LookupInv'
<1>1. /\ Under \in Stacks /\ Len(Under) = Len(work) - 1 /\ Len(work) >= 1 /\ Len(work) \in Nat
      /\ \A i \in 1 .. Len(Under) : Under[i] = work[i + 1] /\ Under[i].op \notin {"resolve"} \union Waits
  BY UnderQuiet DEF Shapes, Stacks
<1> DEFINE v == <<c>> \o Under
           w == p \o v
<1>2. v \in Stacks /\ Len(v) = Len(Under) + 1 /\ v[1] = c
      /\ \A i \in 1 .. Len(Under) : v[i + 1] = Under[i]
  BY <1>1 DEF Stacks
<1>3. /\ w \in Stacks /\ work' = w
      /\ Len(p) \in Nat /\ DOMAIN w = 1 .. Len(p) + Len(v)
      /\ \A i \in 1 .. Len(p) : w[i] = p[i]
      /\ \A i \in 1 .. Len(v) : w[Len(p) + i] = v[i]
  BY <1>1, <1>2 DEF Stacks
<1>4. ScopesNest'
  <2>1. Nested(Under, scopes, current)
    BY <1>1, ChainTail DEF Shapes, ScopesNest, Under, Top, Closes
  <2>2. PICK new : new = scopes'
    OBVIOUS
  <2>3. Len(new) = Len(scopes) + 1 /\ new[Len(scopes) + 1].parent = current
        /\ \A s \in DOMAIN scopes : new[s].parent = scopes[s].parent
    <3>1. /\ DOMAIN Append(scopes, Scope(current)) = 1 .. Len(scopes) + 1
          /\ Len(Append(scopes, Scope(current))) = Len(scopes) + 1
          /\ Append(scopes, Scope(current))[Len(scopes) + 1].parent = current
          /\ \A s \in DOMAIN scopes : Append(scopes, Scope(current))[s] = scopes[s]
          /\ DOMAIN scopes = 1 .. Len(scopes) /\ Len(scopes) \in Nat
      BY DEF Shapes, Trees, Scope
    <3> QED
      BY <2>2, <3>1 DEF SameParents
  <2>4. Nested(v, new, Len(scopes) + 1)
    BY <1>1, <2>1, <2>2, <2>3, ChainPush DEF Shapes
  <2>5. NoCloses(p)
    BY DEF NoCloses, Closes, Quiet
  <2> HIDE DEF v
  <2>6. Nested(w, new, Len(scopes) + 1)
    BY <1>2, <2>2, <2>4, <2>5, ChainPrepend
  <2> QED
    BY <1>3, <2>2, <2>6 DEF ScopesNest
<1> HIDE DEF v, w
<1>5. \A i \in DOMAIN w : w[i].op \notin {"resolve"} \union Waits
  <2> SUFFICES ASSUME NEW i \in DOMAIN w PROVE w[i].op \notin {"resolve"} \union Waits
    OBVIOUS
  <2>1. CASE i <= Len(p)
    <3>1. i \in DOMAIN p /\ w[i] = p[i]
      BY <1>3, <2>1 DEF Stacks
    <3> QED
      BY <3>1 DEF Quiet
  <2>2. CASE i = Len(p) + 1
    BY <1>1, <1>2, <1>3, <2>2 DEF Waits
  <2>3. CASE i > Len(p) + 1
    <3> DEFINE j == i - Len(p) - 1
    <3>1. j \in 1 .. Len(Under) /\ Len(p) + (j + 1) = i /\ j + 1 \in 1 .. Len(v)
      BY <1>1, <1>2, <1>3, <2>3, SMTT(30)
    <3>2. w[i] = Under[j]
      BY <1>2, <1>3, <3>1
    <3> QED
      BY <1>1, <3>1, <3>2
  <2> QED
    BY <1>3, <2>1, <2>2, <2>3
<1>6. w # <<>> => 1 \in DOMAIN w
  BY <1>1, <1>2, <1>3
<1>7. LookupInv'
  BY <1>3, <1>5, <1>6 DEF LookupInv, Top
<1> QED
  BY <1>3, <1>4, <1>7
-----------------------------------------------------------------------------
(* The nodes of the tree and the frames made of them.                      *)
LEMMA NodeShape ==
  ASSUME NEW t \in Tree
  PROVE  /\ t.xs \in Seq(STRING) /\ t.kids \in Seq(Tree)
         /\ t.k \in {"name", "declaration"} \union Routines \union Forwards => t.xs # <<>>
         /\ t.k \in CallKind \union DomainKind \union Routines => t.kids # <<>>
<1>1. t \in Nodes
  BY TreeAssumption
<1>2. t.xs \in Seq(STRING) /\ t.kids \in Seq(Tree)
  BY <1>1 DEF Nodes
<1>3. t.kids = <<>> => Len(t.kids) = 0
  OBVIOUS
<1>4. t.k \in {"name", "declaration"} \union Routines \union Forwards => t.xs # <<>>
  BY TreeAssumption DEF RoutineKind
<1>5. t.k \in CallKind \union DomainKind \union Routines => t.kids # <<>>
  BY <1>3, TreeAssumption
<1> QED
  BY <1>2, <1>4, <1>5

LEMMA KidsShape ==
  ASSUME NEW t \in Tree, NEW at \in Seq(Int)
  PROVE  /\ Kids(t, at) \in Stacks /\ Len(Kids(t, at)) = Len(t.kids)
         /\ \A i \in 1 .. Len(t.kids) : Kids(t, at)[i] \in Frames /\ Kids(t, at)[i].op = "visit"
                                        /\ Kid(t, at, i) = Kids(t, at)[i]
<1>1. t.kids \in Seq(Tree)
  BY NodeShape
<1>2. \A i \in 1 .. Len(t.kids) : Kid(t, at, i) \in Frames /\ Kid(t, at, i).op = "visit"
  <2> SUFFICES ASSUME NEW i \in 1 .. Len(t.kids)
               PROVE  Kid(t, at, i) \in Frames /\ Kid(t, at, i).op = "visit"
    OBVIOUS
  <2>1. t.kids[i] \in Tree /\ Append(at, i) \in Seq(Int)
    BY <1>1
  <2> QED
    BY <2>1 DEF Kid, Visit, Item, Frames, Ops, Nullptr
<1>3. DOMAIN t.kids = 1 .. Len(t.kids) /\ Len(t.kids) \in Nat
  BY <1>1
<1>4. /\ Kids(t, at) \in [1 .. Len(t.kids) -> Frames]
      /\ \A i \in 1 .. Len(t.kids) : Kids(t, at)[i] = Kid(t, at, i)
  BY <1>2, <1>3 DEF Kids
<1> HIDE DEF Kids
<1>5. Kids(t, at) \in Stacks /\ Len(Kids(t, at)) = Len(t.kids)
  <2> DEFINE ks == Kids(t, at)
             n == Len(t.kids)
  <2>1. n \in Nat /\ ks \in [1 .. n -> Frames]
    BY <1>3, <1>4
  <2> HIDE DEF ks, n
  <2>2. ks \in Stacks /\ Len(ks) = n
    BY <2>1 DEF Stacks
  <2> QED
    BY <2>2 DEF ks, n
<1> QED
  BY <1>2, <1>4, <1>5

LEMMA ItemShape ==
  ASSUME NEW t \in Tree, NEW at \in Seq(Int), NEW op \in Ops, NEW s \in Nat,
         op \in {"declare", "refer", "resolve", "routine", "body"} => t.xs # <<>>,
         op \in {"enter", "body"} => t.kids # <<>>
  PROVE  /\ Item(op, t, at) \in Frames /\ Item(op, t, at).op = op /\ Item(op, t, at).node = t
         /\ Within(op, t, s) \in Frames /\ Within(op, t, s).op = op
         /\ Within(op, t, s).node = t /\ Within(op, t, s).scope = s
  BY DEF Item, Within, Frames, Nullptr

LEMMA TopShape ==
  ASSUME IInv, work # <<>>
  PROVE  /\ Top \in Frames /\ Top.node \in Tree /\ Top.at \in Seq(Int) /\ Top.scope \in Nat
         /\ Top.op \in {"declare", "refer", "resolve", "routine", "body"} => Top.node.xs # <<>>
         /\ Top.op \in {"enter", "body"} => Top.node.kids # <<>>
<1>1. Top \in Frames
  BY DEF IInv, Shapes, Stacks, Top
<1> QED
  BY <1>1 DEF Frames

LEMMA NewScope ==
  ASSUME IInv
  PROVE  /\ Append(scopes, Scope(current)) \in Trees
         /\ Len(Append(scopes, Scope(current))) = Len(scopes) + 1
         /\ Len(scopes) + 1 \in DOMAIN Append(scopes, Scope(current))
         /\ Sound(Append(scopes, Scope(current)), objects)
<1> DEFINE new == Append(scopes, Scope(current))
<1>1. <<>> \in Tables /\ DOMAIN <<>> = {}
  <2>1. <<>> \in [{} -> Nat \ {0}]
    OBVIOUS
  <2> QED
    BY <2>1 DEF Tables
<1>2. scopes \in Trees /\ Len(scopes) \in Nat /\ DOMAIN scopes = 1 .. Len(scopes) /\ current \in 1 .. Len(scopes)
  BY DEF IInv, Shapes, Trees
<1>3. Scope(current) \in ScopeRecords /\ Scope(current).parent = current /\ Scope(current).symbols = <<>>
  BY <1>1, <1>2 DEF Scope, ScopeRecords
<1>4. /\ new \in Trees /\ Len(new) = Len(scopes) + 1 /\ DOMAIN new = 1 .. Len(scopes) + 1
      /\ \A s \in DOMAIN scopes : new[s] = scopes[s]
      /\ new[Len(scopes) + 1] = Scope(current)
  BY <1>2, <1>3 DEF Trees
<1> HIDE DEF new
<1>5. \A s \in DOMAIN new : s \in DOMAIN scopes \/ (s = Len(scopes) + 1 /\ DOMAIN new[s].symbols = {})
  BY <1>1, <1>2, <1>3, <1>4
<1>6. Rooted(scopes, Len(objects)) /\ OneHome(scopes) /\ NamedAlike(scopes, objects)
  BY DEF IInv, Tables2
<1>7. Rooted(new, Len(objects))
  <2> SUFFICES ASSUME NEW s \in DOMAIN new
               PROVE  /\ new[s].parent \in (IF s = Global THEN {Nullptr} ELSE 1 .. s - 1)
                      /\ \A x \in DOMAIN new[s].symbols : new[s].symbols[x] \in 1 .. Len(objects)
    BY DEF Rooted
  <2>1. CASE s \in DOMAIN scopes
    BY <1>4, <1>6, <2>1 DEF Rooted
  <2>2. CASE s = Len(scopes) + 1 /\ DOMAIN new[s].symbols = {}
    BY <1>2, <1>3, <1>4, <2>2 DEF Global
  <2> QED
    BY <1>5, <2>1, <2>2
<1>8. OneHome(new)
  BY <1>4, <1>5, <1>6 DEF OneHome
<1>9. NamedAlike(new, objects)
  BY <1>4, <1>5, <1>6 DEF NamedAlike
<1> QED
  BY <1>2, <1>4, <1>7, <1>8, <1>9 DEF Sound, new
-----------------------------------------------------------------------------
(* Visits that push work and change nothing else.                          *)
LEMMA VisitKeeps ==
  ASSUME IInv, NEW kinds, Visiting(kinds),
         NEW p \in Stacks, Quiet(p) \/ Looks(p),
         work' = p \o Under, KeepScopes, KeepTable
  PROVE  IInv'
<1>1. /\ work # <<>> /\ Top.op = "visit" /\ source' = source /\ verdict' = verdict
      /\ resolved' = resolved /\ scopes' = scopes /\ current' = current
      /\ objects' = objects /\ idents' = idents
  BY DEF Visiting, KeepScopes, KeepTable
<1>2. SameParents(scopes', scopes) /\ scopes' \in Trees
  BY <1>1 DEF SameParents, IInv, Shapes
<1>3. work' \in Stacks /\ ScopesNest' /\ LookupInv'
  BY <1>1, <1>2, ReplaceTop DEF IInv
<1>4. Shapes' /\ Tables2'
  BY <1>1, <1>3 DEF IInv, Shapes, Tables2, Symbols
<1> QED
  BY <1>3, <1>4 DEF IInv

LEMMA ChildrenKeeps ==
  ASSUME IInv, visitChildren
  PROVE  IInv'
<1>1. Top.node \in Tree /\ Top.at \in Seq(Int)
  BY TopShape DEF visitChildren, Visiting
<1>2. Kids(Top.node, Top.at) \in Stacks /\ Quiet(Kids(Top.node, Top.at))
  BY <1>1, KidsShape DEF Quiet, Stacks, Waits
<1> QED
  BY <1>2, VisitKeeps DEF visitChildren

LEMMA DeclarationKeeps ==
  ASSUME IInv, visitDeclaration
  PROVE  IInv'
<1> DEFINE kids == Kids(Top.node, Top.at)
           last == Item("declare", Top.node, Top.at)
<1>1. Top.node \in Tree /\ Top.at \in Seq(Int) /\ Top.node.xs # <<>>
  BY TopShape, NodeShape DEF visitDeclaration, Visiting
<1>2. kids \in Stacks /\ \A i \in 1 .. Len(kids) : kids[i].op = "visit"
  BY <1>1, KidsShape
<1>3. last \in Frames /\ last.op = "declare"
  BY <1>1, ItemShape DEF Ops, Item, Frames, Nullptr
<1> HIDE DEF kids, last
<1>4. kids \o <<last>> \in Stacks /\ Quiet(kids \o <<last>>)
  BY <1>2, <1>3 DEF Stacks, Quiet, Waits
<1> QED
  BY <1>4, VisitKeeps DEF visitDeclaration, kids, last

LEMMA IdentifierKeeps ==
  ASSUME IInv, visitIdentifier
  PROVE  IInv'
<1> DEFINE p == <<Lookup(Top.node, current), Item("refer", Top.node, Top.at)>>
<1>1. Top.node \in Tree /\ Top.at \in Seq(Int) /\ Top.node.xs # <<>>
  BY TopShape, NodeShape DEF visitIdentifier, Visiting
<1>2. current \in Nat /\ current \in DOMAIN scopes
  BY DEF IInv, Shapes, Trees
<1>3. /\ Lookup(Top.node, current) \in Frames /\ Lookup(Top.node, current).op = "resolve"
      /\ Lookup(Top.node, current).node = Top.node /\ Lookup(Top.node, current).scope = current
      /\ Item("refer", Top.node, Top.at) \in Frames /\ Item("refer", Top.node, Top.at).op = "refer"
      /\ Item("refer", Top.node, Top.at).node = Top.node
  BY <1>1, <1>2 DEF Lookup, Within, Item, Frames, Ops, Nullptr
<1>4. p \in Stacks /\ Len(p) = 2 /\ p[1] = Lookup(Top.node, current) /\ p[2] = Item("refer", Top.node, Top.at)
  BY <1>3 DEF Stacks
<1> HIDE DEF p
<1>5. Looks(p)
  BY <1>2, <1>3, <1>4 DEF Looks, Waits
<1> QED
  BY <1>4, <1>5, VisitKeeps DEF visitIdentifier, p

LEMMA CallKeeps ==
  ASSUME IInv, visitCall
  PROVE  IInv'
<1> DEFINE kids == Kids(Top.node, Top.at)
           ends == <<Kid(Top.node, Top.at, 1), Item("arity", Top.node, Top.at)>>
           p == Tail(kids) \o ends
<1>1. Top.node \in Tree /\ Top.at \in Seq(Int) /\ Top.node.kids # <<>> /\ Top.node.kids \in Seq(Tree)
  BY TopShape, NodeShape DEF visitCall, Visiting
<1>2. /\ kids \in Stacks /\ Len(kids) = Len(Top.node.kids)
      /\ \A i \in 1 .. Len(kids) : kids[i] \in Frames /\ kids[i].op = "visit"
      /\ Len(kids) >= 1 /\ Kid(Top.node, Top.at, 1) = kids[1]
  <2>1. Len(Top.node.kids) >= 1
    BY <1>1
  <2> QED
    BY <1>1, <2>1, KidsShape
<1>3. Item("arity", Top.node, Top.at) \in Frames /\ Item("arity", Top.node, Top.at).op = "arity"
  BY <1>1 DEF Item, Frames, Ops, Nullptr
<1>4. ends \in Stacks /\ Len(ends) = 2 /\ ends[1].op = "visit" /\ ends[2].op = "arity"
  BY <1>2, <1>3 DEF Stacks
<1> HIDE DEF kids, ends
<1>5. Tail(kids) \in Stacks /\ \A i \in 1 .. Len(Tail(kids)) : Tail(kids)[i].op = "visit"
  BY <1>2 DEF Stacks
<1>6. p \in Stacks /\ Quiet(p)
  <2>1. \A i \in 1 .. Len(ends) : ends[i].op \notin {"close", "resolve"} \union Waits
    BY <1>4 DEF Waits
  <2>2. \A i \in 1 .. Len(Tail(kids)) : Tail(kids)[i].op \notin {"close", "resolve"} \union Waits
    BY <1>5 DEF Waits
  <2> QED
    <3>1. Quiet(ends) /\ Quiet(Tail(kids))
      BY <1>4, <1>5, <2>1, <2>2 DEF Stacks, Quiet
    <3> QED
      BY <1>4, <1>5, <3>1, QuietConcat
<1> HIDE DEF p
<1> QED
  BY <1>6, VisitKeeps DEF visitCall, p, kids, ends

LEMMA RoutineKeeps ==
  ASSUME IInv, visitRoutine
  PROVE  IInv'
<1> DEFINE starts == <<Lookup(Top.node, current), Item("routine", Top.node, Top.at)>>
           bodies == [i \in DOMAIN Top.node.kids |-> Item("body", Top.node, Top.at)]
           p == starts \o bodies
<1>1. Top.node \in Tree /\ Top.at \in Seq(Int) /\ Top.node.xs # <<>> /\ Top.node.kids \in Seq(Tree)
  BY TopShape, NodeShape DEF visitRoutine, Visiting
<1>2. current \in Nat /\ current \in DOMAIN scopes
  BY DEF IInv, Shapes, Trees
<1>3. /\ Lookup(Top.node, current) \in Frames /\ Lookup(Top.node, current).op = "resolve"
      /\ Lookup(Top.node, current).node = Top.node /\ Lookup(Top.node, current).scope = current
      /\ Item("routine", Top.node, Top.at) \in Frames /\ Item("routine", Top.node, Top.at).op = "routine"
      /\ Item("routine", Top.node, Top.at).node = Top.node
  BY <1>1, <1>2 DEF Lookup, Within, Item, Frames, Ops, Nullptr
<1>4. \A i \in DOMAIN Top.node.kids : Item("body", Top.node, Top.at) \in Frames /\ Item("body", Top.node, Top.at).op = "body"
  <2> SUFFICES ASSUME NEW i \in DOMAIN Top.node.kids
               PROVE  Item("body", Top.node, Top.at) \in Frames /\ Item("body", Top.node, Top.at).op = "body"
    OBVIOUS
  <2>1. Top.node.kids # <<>>
    BY <1>1
  <2> QED
    BY <1>1, <2>1 DEF Item, Frames, Ops, Nullptr
<1>5. /\ starts \in Stacks /\ Len(starts) = 2
      /\ starts[1] = Lookup(Top.node, current) /\ starts[2] = Item("routine", Top.node, Top.at)
  BY <1>3 DEF Stacks
<1>6. bodies \in Stacks /\ Len(bodies) \in Nat /\ \A i \in 1 .. Len(bodies) : bodies[i].op = "body"
  <2>1. DOMAIN Top.node.kids = 1 .. Len(Top.node.kids) /\ Len(Top.node.kids) \in Nat
    BY <1>1
  <2> QED
    BY <1>4, <2>1 DEF Stacks
<1> HIDE DEF starts, bodies
<1>7. /\ p \in Stacks /\ Len(p) = 2 + Len(bodies) /\ p[1] = starts[1] /\ p[2] = starts[2]
      /\ \A i \in 3 .. Len(p) : p[i].op = "body"
  <2>1. /\ p \in Stacks /\ Len(p) = 2 + Len(bodies) /\ p[1] = starts[1] /\ p[2] = starts[2]
        /\ \A i \in 1 .. Len(bodies) : p[2 + i] = bodies[i]
    <3>1. /\ p \in Stacks /\ Len(p) = Len(starts) + Len(bodies)
          /\ \A i \in 1 .. Len(starts) : p[i] = starts[i]
          /\ \A i \in 1 .. Len(bodies) : p[Len(starts) + i] = bodies[i]
      BY <1>5, <1>6, Concat
    <3> HIDE DEF p
    <3> QED
      BY <1>5, <1>6, <3>1
  <2>2. \A i \in 3 .. Len(p) : i - 2 \in 1 .. Len(bodies) /\ 2 + (i - 2) = i
    BY <1>6, <2>1
  <2> QED
    BY <1>6, <2>1, <2>2
<1> HIDE DEF p
<1>8. Looks(p)
  BY <1>2, <1>3, <1>5, <1>6, <1>7 DEF Looks, Waits
<1> QED
  BY <1>7, <1>8, VisitKeeps DEF visitRoutine, p, starts, bodies

LEMMA DomainKeeps ==
  ASSUME IInv, visitDomain
  PROVE  IInv'
<1> DEFINE kids == Kids(Top.node, Top.at)
           front == SubSeq(kids, 1, Len(Top.node.kids) - 1)
           last == Item("enter", Top.node, Top.at)
<1>1. Top.node \in Tree /\ Top.at \in Seq(Int) /\ Top.node.kids # <<>> /\ Top.node.kids \in Seq(Tree)
  BY TopShape, NodeShape DEF visitDomain, Visiting
<1>2. /\ kids \in Stacks /\ Len(kids) = Len(Top.node.kids) /\ Len(kids) >= 1
      /\ \A i \in 1 .. Len(kids) : kids[i].op = "visit"
  <2>1. Len(Top.node.kids) >= 1
    BY <1>1
  <2> QED
    BY <1>1, <2>1, KidsShape
<1>3. last \in Frames /\ last.op = "enter"
  BY <1>1 DEF Item, Frames, Ops, Nullptr
<1> HIDE DEF kids, last
<1>4. front \in Stacks /\ \A i \in 1 .. Len(front) : front[i].op = "visit"
  BY <1>2 DEF Stacks
<1> HIDE DEF front
<1>5. front \o <<last>> \in Stacks /\ Quiet(front \o <<last>>)
  BY <1>3, <1>4 DEF Stacks, Quiet, Waits
<1> QED
  BY <1>5, VisitKeeps DEF visitDomain, Domains, kids, last, front
-----------------------------------------------------------------------------
(* Visitors that open a scope, with or without names in it.                *)
LEMMA CloseFrame ==
  ASSUME NEW t \in Tree, NEW n \in Nat
  PROVE  CloseScope(t, n) \in Frames /\ CloseScope(t, n).op = "close" /\ CloseScope(t, n).scope = n
  BY DEF CloseScope, Within, Frames, Ops

LEMMA BlockKeeps ==
  ASSUME IInv, visitBlock
  PROVE  IInv'
<1> DEFINE p == Kids(Top.node, Top.at)
           c == CloseScope(Top.node, Len(scopes) + 1)
           new == Append(scopes, Scope(current))
<1>1. /\ work # <<>> /\ Top.op = "visit" /\ source' = source /\ verdict' = verdict
      /\ resolved' = resolved /\ objects' = objects /\ idents' = idents
      /\ scopes' = new /\ current' = Len(scopes) + 1
      /\ work' = p \o <<c>> \o Under
  BY DEF visitBlock, Visiting, KeepTable
<1>2. Top.node \in Tree /\ Top.at \in Seq(Int)
  BY <1>1, TopShape
<1>3. p \in Stacks /\ Quiet(p)
  BY <1>2, KidsShape DEF Quiet, Stacks, Waits
<1>4. Len(scopes) + 1 \in Nat
  BY DEF IInv, Shapes, Trees
<1>5. c \in Frames /\ c.op = "close" /\ c.scope = Len(scopes) + 1
  BY <1>2, <1>4, CloseFrame
<1>6. new \in Trees /\ Len(scopes) + 1 \in DOMAIN new /\ Sound(new, objects)
  BY NewScope
<1>7. scopes' \in Trees /\ SameParents(scopes', new)
  BY <1>1, <1>6 DEF SameParents
<1>8. work' \in Stacks /\ ScopesNest' /\ LookupInv'
  <2> HIDE DEF p, c
  <2> QED
    BY <1>1, <1>3, <1>5, <1>7, OpenTop DEF IInv
<1> HIDE DEF p, c, new
<1>9. Shapes'
  BY <1>1, <1>6, <1>8 DEF IInv, Shapes, Symbols
<1>10. Tables2'
  BY <1>1, <1>6 DEF IInv, Tables2, Sound
<1> QED
  BY <1>8, <1>9, <1>10 DEF IInv

ScopeEnters(op, xs, places, p) ==
  /\ verdict = "running" /\ work # <<>> /\ Top.op = op
  /\ UNCHANGED <<source, resolved, verdict>>
  /\ OpenWith(xs, places)
  /\ work' = p \o <<CloseScope(Top.node, Len(scopes) + 1)>> \o Under

LEMMA EnterKeeps ==
  ASSUME IInv, NEW op \in {"enter", "body"}, NEW xs \in Seq(STRING),
         NEW places, DOMAIN places \subseteq DOMAIN xs,
         NEW p \in Stacks, Quiet(p), ScopeEnters(op, xs, places, p)
  PROVE  IInv'
<1> DEFINE c == CloseScope(Top.node, Len(scopes) + 1)
           new == Append(scopes, Scope(current))
<1>1. /\ work # <<>> /\ Top.op \notin {"close", "resolve"}
      /\ source' = source /\ verdict' = verdict /\ resolved' = resolved
      /\ DeclareIn(new, Len(scopes) + 1, xs, ValueTy, places)
      /\ current' = Len(scopes) + 1
      /\ work' = p \o <<c>> \o Under
  BY DEF ScopeEnters, OpenWith
<1>2. Top.node \in Tree
  BY <1>1, TopShape
<1>3. Len(scopes) + 1 \in Nat
  BY DEF IInv, Shapes, Trees
<1>4. c \in Frames /\ c.op = "close" /\ c.scope = Len(scopes) + 1
  BY <1>2, <1>3, CloseFrame
<1>5. new \in Trees /\ Len(scopes) + 1 \in DOMAIN new /\ Sound(new, objects) /\ Len(new) = Len(scopes) + 1
  BY NewScope
<1>6. ValueTy \in TypeRecords
  BY DEF ValueTy, TypeRecords
<1>7. /\ scopes' \in Trees /\ SameParents(scopes', new)
      /\ objects' \in ObjectTables /\ Symbols \subseteq Symbols' /\ Tables2'
  <2>1. objects \in ObjectTables /\ Referring(idents, objects)
    BY DEF IInv, Shapes, Tables2
  <2> HIDE DEF new
  <2> QED
    BY <1>1, <1>5, <1>6, <2>1, DeclareInKeeps
<1>8. work' \in Stacks /\ ScopesNest' /\ LookupInv'
  <2> HIDE DEF c
  <2> QED
    BY <1>1, <1>4, <1>7, OpenTop DEF IInv
<1> HIDE DEF c, new
<1>9. current' \in DOMAIN scopes'
  BY <1>1, <1>5, <1>7 DEF SameParents, Trees
<1>10. Shapes'
  BY <1>1, <1>7, <1>8, <1>9 DEF IInv, Shapes
<1> QED
  BY <1>7, <1>8, <1>10 DEF IInv

(* A rejected program is left as it was.                                   *)
LEMMA ThrowKeeps ==
  ASSUME IInv, Throw, UNCHANGED <<source, resolved>>
  PROVE  IInv'
  BY DEF IInv, Throw, KeepScopes, KeepTable, Shapes, Tables2, ScopesNest, LookupInv, Top, Symbols

LEMMA SingleFrame ==
  ASSUME NEW f \in Frames, f.op = "visit"
  PROVE  <<f>> \in Stacks /\ Quiet(<<f>>)
  BY DEF Stacks, Quiet, Waits

LEMMA EnterDomainKeeps ==
  ASSUME IInv, EnterDomain
  PROVE  IInv'
<1>1. work # <<>> /\ Top.op = "enter" /\ UNCHANGED <<source, resolved>>
  BY DEF EnterDomain, Resuming
<1>2. CASE ~Distinct(Top.node.xs)
  BY <1>1, <1>2, ThrowKeeps DEF EnterDomain
<1>3. CASE Distinct(Top.node.xs)
  <2> DEFINE f == Kid(Top.node, Top.at, Len(Top.node.kids))
             places == Places(Top.at, Len(Top.node.xs))
  <2>1. /\ Top.node \in Tree /\ Top.at \in Seq(Int) /\ Top.node.kids # <<>>
        /\ Top.node.kids \in Seq(Tree) /\ Top.node.xs \in Seq(STRING)
    BY <1>1, TopShape, NodeShape
  <2>2. Len(Top.node.kids) \in 1 .. Len(Top.node.kids)
    BY <2>1
  <2>3. f \in Frames /\ f.op = "visit"
    BY <2>1, <2>2, KidsShape, ZenonT(40)
  <2>4. DOMAIN places \subseteq DOMAIN Top.node.xs
    BY <2>1 DEF Places
  <2>5. Under \in Stacks
    BY <1>1, UnderQuiet DEF IInv, Shapes
  <2>6. ScopeEnters("enter", Top.node.xs, places, <<f>>)
    <3> DEFINE c == CloseScope(Top.node, Len(scopes) + 1)
    <3>1. c \in Frames
      BY <2>1, CloseFrame DEF IInv, Shapes, Trees
    <3>2. <<f, c>> = <<f>> \o <<c>>
      OBVIOUS
    <3> QED
      BY <1>3, <3>2 DEF EnterDomain, Resuming, ScopeEnters, Goes
  <2> HIDE DEF f, places
  <2> QED
    BY <2>1, <2>3, <2>4, <2>6, SingleFrame, EnterKeeps
<1> QED
  BY <1>2, <1>3

LEMMA TailOfNames ==
  ASSUME NEW xs \in Seq(STRING), xs # <<>>
  PROVE  Len(xs) \in Nat \ {0} /\ Tail(xs) \in Seq(STRING) /\ Len(Tail(xs)) = Len(xs) - 1
  OBVIOUS

LEMMA EnterRoutineKeeps ==
  ASSUME IInv, EnterRoutine
  PROVE  IInv'
<1> DEFINE params == Tail(Top.node.xs)
<1>1. work # <<>> /\ Top.op = "body" /\ UNCHANGED <<source, resolved>>
  BY DEF EnterRoutine, Resuming
<1>2. CASE ~Distinct(params)
  BY <1>1, <1>2, ThrowKeeps DEF EnterRoutine
<1>3. CASE Distinct(params)
  <2> DEFINE f == Kid(Top.node, Top.at, 1)
             places == Tail(Places(Top.at, Len(Top.node.xs)))
  <2>1. /\ Top.node \in Tree /\ Top.at \in Seq(Int) /\ Top.node.kids # <<>> /\ Top.node.xs # <<>>
        /\ Top.node.kids \in Seq(Tree) /\ Top.node.xs \in Seq(STRING)
    BY <1>1, TopShape, NodeShape
  <2>2. 1 \in 1 .. Len(Top.node.kids)
    BY <2>1
  <2>3. f \in Frames /\ f.op = "visit"
    BY <2>1, <2>2, KidsShape
  <2>4. params \in Seq(STRING) /\ DOMAIN places \subseteq DOMAIN params
    <3> DEFINE n == Len(Top.node.xs)
               ps == Places(Top.at, n)
    <3>1. n \in Nat \ {0} /\ params \in Seq(STRING) /\ Len(params) = n - 1
      BY <2>1, TailOfNames
    <3>2. \A i \in 1 .. n : NameAt(Top.at, i) \in Seq(Int)
      BY <2>1 DEF NameAt
    <3>3. ps \in Seq(Seq(Int)) /\ Len(ps) = n
      BY <3>1, <3>2 DEF Places
    <3> HIDE DEF n, ps
    <3>4. Tail(ps) \in Seq(Seq(Int)) /\ Len(Tail(ps)) = n - 1
      BY <3>1, <3>3
    <3>5. places = Tail(ps)
      BY DEF ps, n
    <3> HIDE DEF places, params
    <3> QED
      BY <3>1, <3>4, <3>5
  <2>5. ScopeEnters("body", params, places, <<f>>)
    <3> DEFINE c == CloseScope(Top.node, Len(scopes) + 1)
    <3>1. <<f, c>> = <<f>> \o <<c>>
      OBVIOUS
    <3> QED
      BY <1>3, <3>1 DEF EnterRoutine, Resuming, ScopeEnters, Goes
  <2> HIDE DEF f, places, params
  <2> QED
    BY <2>1, <2>3, <2>4, <2>5, SingleFrame, EnterKeeps
<1> QED
  BY <1>2, <1>3

LEMMA RunsOn ==
  ASSUME IInv, verdict = "running", UNCHANGED <<source, verdict>>,
         resolved' = resolved, Symbols \subseteq Symbols',
         work' \in Stacks, scopes' \in Trees, objects' \in ObjectTables, current' \in DOMAIN scopes'
  PROVE  Shapes'
  BY DEF IInv, Shapes

(* The end of a visitor that declared symbols or referred to one.          *)
LEMMA PopKeeps ==
  ASSUME IInv, NEW op, Resuming(op), op \notin {"close", "resolve"}, Goes,
         work' = Under, current' = current,
         scopes' \in Trees, SameParents(scopes', scopes),
         objects' \in ObjectTables, Symbols \subseteq Symbols', Tables2'
  PROVE  IInv'
<1>1. /\ work # <<>> /\ Top.op \notin {"close", "resolve"} /\ verdict = "running"
      /\ UNCHANGED <<source, verdict>> /\ resolved' = resolved
  BY DEF Resuming, Goes
<1>2. work' \in Stacks /\ ScopesNest' /\ LookupInv'
  BY <1>1, PopTop DEF IInv
<1>3. current' \in DOMAIN scopes'
  BY DEF IInv, Shapes, SameParents, Trees
<1>4. Shapes'
  BY <1>1, <1>2, <1>3, RunsOn
<1> QED
  BY <1>2, <1>4 DEF IInv

LEMMA StaysThere ==
  ASSUME IInv, UNCHANGED <<scopes, current>>
  PROVE  scopes' \in Trees /\ SameParents(scopes', scopes) /\ current' = current
  BY DEF IInv, Shapes, SameParents

LEMMA OnePlace ==
  ASSUME NEW xs \in Seq(STRING), xs # <<>>, NEW at
  PROVE  DOMAIN <<at>> \subseteq DOMAIN xs
<1>1. DOMAIN <<at>> = 1 .. 1 /\ 1 \in DOMAIN xs
  OBVIOUS
<1> QED
  BY <1>1

LEMMA DeclareKeeps ==
  ASSUME IInv, Declare
  PROVE  IInv'
<1>1. Resuming("declare") /\ UNCHANGED <<source, resolved>> /\ work # <<>> /\ Top.op = "declare"
  BY DEF Declare, Resuming
<1>2. CASE Top.node.xs[1] \in DOMAIN scopes[current].symbols
  BY <1>1, <1>2, ThrowKeeps DEF Declare
<1>3. CASE Top.node.xs[1] \notin DOMAIN scopes[current].symbols
  <2>1. /\ DeclareIn(scopes, current, Top.node.xs, ValueTy, <<NameAt(Top.at, 1)>>)
        /\ work' = Under /\ Goes /\ current' = current
    BY <1>3 DEF Declare
  <2>2. Top.node.xs \in Seq(STRING) /\ Top.node.xs # <<>>
    BY <1>1, TopShape, NodeShape
  <2>3. DOMAIN <<NameAt(Top.at, 1)>> \subseteq DOMAIN Top.node.xs
    BY <2>2, OnePlace
  <2>4. ValueTy \in TypeRecords
    BY DEF ValueTy, TypeRecords
  <2>5. /\ objects \in ObjectTables /\ scopes \in Trees /\ current \in DOMAIN scopes
        /\ Sound(scopes, objects) /\ Referring(idents, objects)
    BY DEF IInv, Shapes, Tables2, Sound
  <2>6. /\ scopes' \in Trees /\ SameParents(scopes', scopes)
        /\ objects' \in ObjectTables /\ Symbols \subseteq Symbols' /\ Tables2'
    BY <2>1, <2>2, <2>3, <2>4, <2>5, DeclareInKeeps
  <2> QED
    BY <1>1, <2>1, <2>6, PopKeeps
<1> QED
  BY <1>2, <1>3

(* An identifier takes a symbol of its own name.                           *)
LEMMA ReferringOne ==
  ASSUME NEW ids, NEW objs, Referring(ids, objs), NEW at, NEW x, NEW s \in DOMAIN objs,
         objs[s].name = x
  PROVE  Referring(Extended(ids, <<at>>, <<[name |-> x, referred |-> s]>>), objs)
<1> DEFINE value == [name |-> x, referred |-> s]
           new == Extended(ids, <<at>>, <<value>>)
<1>1. ExtendsBy(new, ids, <<at>>, <<value>>)
  BY ExtendedValue
<1>2. DOMAIN <<at>> = {1} /\ <<at>>[1] = at /\ <<value>>[1] = value
  OBVIOUS
<1>3. value.referred = s /\ value.name = x
  OBVIOUS
<1> HIDE DEF new, value
<1>4. ASSUME NEW p \in DOMAIN new
      PROVE  new[p].referred \in DOMAIN objs /\ objs[new[p].referred].name = new[p].name
  BY <1>1, <1>2, <1>3 DEF ExtendsBy, Referring
<1>5. Referring(new, objs)
  BY <1>4 DEF Referring
<1> QED
  BY <1>5 DEF new, value

LEMMA ReferKeeps ==
  ASSUME IInv, Refer
  PROVE  IInv'
<1>1. Resuming("refer") /\ UNCHANGED <<source, resolved>> /\ work # <<>> /\ Top.op = "refer"
  BY DEF Refer, Resuming
<1>2. CASE resolved = Nullptr
  BY <1>1, <1>2, ThrowKeeps DEF Refer
<1>3. CASE resolved # Nullptr
  <2>1. /\ idents' = Extended(idents, <<Top.at>>,
                       <<[name |-> Top.node.xs[1], referred |-> resolved]>>)
        /\ work' = Under /\ UNCHANGED <<scopes, current>> /\ Goes /\ objects' = objects
    BY <1>3 DEF Refer, KeepScopes
  <2>2. objects[resolved].name = Top.node.xs[1] /\ resolved \in DOMAIN objects
    BY <1>1, <1>3 DEF IInv, LookupInv, Waits, Shapes, Symbols
  <2>3. Referring(idents, objects)
    BY DEF IInv, Tables2
  <2>4. Referring(idents', objects)
    BY <2>1, <2>2, <2>3, ReferringOne
  <2>5. Tables2'
    BY <2>1, <2>4 DEF IInv, Tables2
  <2>6. objects' \in ObjectTables /\ Symbols \subseteq Symbols'
    BY <2>1 DEF IInv, Shapes, Symbols
  <2> QED
    BY <1>1, <2>1, <2>5, <2>6, StaysThere, PopKeeps
<1> QED
  BY <1>2, <1>3

LEMMA CheckArityKeeps ==
  ASSUME IInv, CheckArity
  PROVE  IInv'
<1>1. Resuming("arity") /\ UNCHANGED <<source, resolved>>
  BY DEF CheckArity, Resuming
<1>2. CASE Throw
  BY <1>1, <1>2, ThrowKeeps
<1>3. CASE work' = Under /\ KeepScopes /\ KeepTable /\ Goes
  <2>1. UNCHANGED <<scopes, current, objects, idents>>
    BY <1>3 DEF KeepScopes, KeepTable
  <2>2. objects' \in ObjectTables /\ Symbols \subseteq Symbols' /\ Tables2'
    BY <2>1 DEF IInv, Shapes, Symbols, Tables2
  <2> QED
    BY <1>1, <1>3, <2>1, <2>2, StaysThere, PopKeeps
<1> QED
  BY <1>2, <1>3 DEF CheckArity

LEMMA FirstName ==
  ASSUME NEW xs \in Seq(STRING), xs # <<>>
  PROVE  SubSeq(xs, 1, 1) \in Seq(STRING) /\ SubSeq(xs, 1, 1) # <<>>
<1>1. Len(xs) \in Nat /\ Len(xs) >= 1
  OBVIOUS
<1>2. SubSeq(xs, 1, 1) \in Seq(STRING) /\ Len(SubSeq(xs, 1, 1)) = 1
  BY <1>1
<1> QED
  BY <1>2

LEMMA NamedRefers ==
  ASSUME IInv, work # <<>>, Top.op = "routine", resolved # Nullptr
  PROVE  Referring(Named(Top.node, Top.at), objects)
<1>1. objects[resolved].name = Top.node.xs[1] /\ resolved \in DOMAIN objects
  BY DEF IInv, LookupInv, Waits, Shapes, Symbols
<1>2. Referring(idents, objects)
  BY DEF IInv, Tables2
<1>3. Referring(Extended(idents, <<NameAt(Top.at, 1)>>,
                  <<[name |-> Top.node.xs[1], referred |-> resolved]>>), objects)
  BY <1>1, <1>2, ReferringOne
<1> QED
  BY <1>2, <1>3 DEF Named

LEMMA DeclareRoutineKeeps ==
  ASSUME IInv, DeclareRoutine
  PROVE  IInv'
<1>1. /\ Resuming("routine") /\ UNCHANGED <<source, resolved>>
      /\ work # <<>> /\ Top.op = "routine"
  BY DEF DeclareRoutine, Resuming
<1>2. CASE Mismatch(Top.node)
  BY <1>1, <1>2, ThrowKeeps DEF DeclareRoutine
<1>3. CASE ~Mismatch(Top.node) /\ resolved = Nullptr
  <2> DEFINE xs == SubSeq(Top.node.xs, 1, 1)
  <2>1. /\ DeclareIn(scopes, current, xs, RoutineTy(Top.node), <<NameAt(Top.at, 1)>>)
        /\ work' = Under /\ Goes /\ current' = current
    BY <1>3 DEF DeclareRoutine
  <2>2. Top.node.xs \in Seq(STRING) /\ Top.node.xs # <<>>
    BY <1>1, TopShape, NodeShape
  <2>3. xs \in Seq(STRING) /\ xs # <<>>
    BY <2>2, FirstName
  <2>4. RoutineTy(Top.node) \in TypeRecords
    BY <2>2 DEF RoutineTy, TypeRecords
  <2>5. /\ objects \in ObjectTables /\ scopes \in Trees /\ current \in DOMAIN scopes
        /\ Sound(scopes, objects) /\ Referring(idents, objects)
    BY DEF IInv, Shapes, Tables2, Sound
  <2> HIDE DEF xs
  <2>6. DOMAIN <<NameAt(Top.at, 1)>> \subseteq DOMAIN xs
    BY <2>3, OnePlace
  <2>7. /\ scopes' \in Trees /\ SameParents(scopes', scopes)
        /\ objects' \in ObjectTables /\ Symbols \subseteq Symbols' /\ Tables2'
    BY <2>1, <2>3, <2>4, <2>5, <2>6, DeclareInKeeps
  <2> QED
    BY <1>1, <2>1, <2>7, PopKeeps
<1>4. CASE ~Mismatch(Top.node) /\ resolved # Nullptr
  <2>1. /\ idents' = Named(Top.node, Top.at)
        /\ work' = Under /\ UNCHANGED <<scopes, current>> /\ Goes /\ objects' = objects
    BY <1>4 DEF DeclareRoutine
  <2>2. Referring(idents', objects)
    BY <1>1, <1>4, <2>1, NamedRefers
  <2>3. Tables2'
    BY <2>1, <2>2 DEF IInv, Tables2
  <2>4. objects' \in ObjectTables /\ Symbols \subseteq Symbols'
    BY <2>1 DEF IInv, Shapes, Symbols
  <2> QED
    BY <1>1, <2>1, <2>3, <2>4, StaysThere, PopKeeps
<1> QED
  BY <1>2, <1>3, <1>4

(* Under a lookup, at most the visitor that asked for it waits.            *)
LEMMA UnderLookup ==
  ASSUME work \in Stacks, work # <<>>, LookupInv
  PROVE  /\ Under \in Stacks
         /\ \A i \in DOMAIN Under :
              /\ Under[i].op # "resolve"
              /\ Under[i].op \in Waits => i = 1 /\ Top.op = "resolve" /\ Under[i].node = Top.node
<1>1. /\ Under \in Stacks
      /\ \A i \in DOMAIN Under : Under[i] = work[i + 1] /\ i + 1 \in DOMAIN work /\ i >= 1 /\ i \in Int
  BY DEF Stacks, Under
<1>2. ASSUME NEW i \in DOMAIN Under
      PROVE  /\ Under[i].op # "resolve"
             /\ Under[i].op \in Waits => i = 1 /\ Top.op = "resolve" /\ Under[i].node = Top.node
  <2>1. Under[i] = work[i + 1] /\ i + 1 \in DOMAIN work /\ i + 1 # 1
    BY <1>1
  <2>2. work[i + 1].op # "resolve"
    BY <2>1 DEF LookupInv
  <2>3. ASSUME work[i + 1].op \in Waits
        PROVE  i + 1 = 2 /\ work[1].op = "resolve" /\ work[1].node = work[2].node
    BY <2>1, <2>3 DEF LookupInv
  <2> QED
    BY <1>1, <2>1, <2>2, <2>3 DEF Top
<1> QED
  BY <1>1, <1>2

LEMMA UnderNested ==
  ASSUME work \in Stacks, work # <<>>, ScopesNest, scopes \in Trees, Top.op # "close"
  PROVE  Nested(Under, scopes, current)
<1>1. ~Closes(work, 1)
  BY DEF Closes, Top
<1> QED
  BY <1>1, ChainTail DEF ScopesNest, Under

(* The parent of a scope, and the symbol a scope keeps under a name.       *)
LEMMA ClimbShape ==
  ASSUME IInv, work # <<>>, Top.op = "resolve"
  PROVE  /\ Climb[2] => Climb[1] \in 0 .. Len(scopes)
         /\ ~Climb[2] => \/ Climb[1] = Nullptr
                         \/ /\ Climb[1] \in Symbols
                            /\ objects[Climb[1]].name = Top.node.xs[1]
<1> DEFINE s == Top.scope
           x == Top.node.xs[1]
<1>1. s \in 0 .. Len(scopes) /\ Len(scopes) \in Nat /\ DOMAIN scopes = 1 .. Len(scopes)
  BY DEF IInv, LookupInv, Shapes, Trees
<1>2. CASE s = Nullptr
  <2>1. Climb = <<Nullptr, FALSE>>
    BY <1>2 DEF Climb
  <2> QED
    BY <2>1
<1>3. CASE s # Nullptr /\ x \in DOMAIN scopes[s].symbols
  <2>1. Climb = <<scopes[s].symbols[x], FALSE>>
    BY <1>3 DEF Climb
  <2>2. s \in DOMAIN scopes
    BY <1>1, <1>3 DEF Nullptr
  <2>3. scopes[s].symbols[x] \in Symbols
    BY <1>3, <2>2 DEF IInv, Tables2, Rooted, Symbols, Shapes, ObjectTables
  <2>4. objects[scopes[s].symbols[x]].name = x
    BY <1>3, <2>2 DEF IInv, Tables2, NamedAlike
  <2> QED
    BY <2>1, <2>3, <2>4
<1>4. CASE s # Nullptr /\ x \notin DOMAIN scopes[s].symbols
  <2>1. Climb = <<scopes[s].parent, TRUE>>
    BY <1>4 DEF Climb
  <2>2. s \in DOMAIN scopes
    BY <1>1, <1>4 DEF Nullptr
  <2>3. scopes[s].parent \in 0 .. Len(scopes)
    BY <1>1, <2>2 DEF IInv, Tables2, Rooted, Nullptr, Global
  <2> QED
    BY <2>1, <2>3
<1> QED
  BY <1>2, <1>3, <1>4

LEMMA Climbing ==
  ASSUME IInv, work # <<>>, Top.op = "resolve", Climb[2],
         work' = <<[Top EXCEPT !.scope = Climb[1]]>> \o Under,
         UNCHANGED <<scopes, current, objects, resolved>>
  PROVE  work' \in Stacks /\ ScopesNest' /\ LookupInv'
<1> DEFINE f == [Top EXCEPT !.scope = Climb[1]]
<1>1. Climb[1] \in 0 .. Len(scopes) /\ Climb[1] \in Nat
  BY ClimbShape DEF IInv, Shapes, Trees
<1>2. f \in Frames /\ f.op = "resolve" /\ f.node = Top.node /\ f.scope = Climb[1]
  BY <1>1, TopShape DEF Frames
<1>3. work \in Stacks /\ scopes \in Trees
  BY DEF IInv, Shapes
<1>4. /\ Under \in Stacks
      /\ \A i \in DOMAIN Under :
           /\ Under[i].op # "resolve"
           /\ Under[i].op \in Waits => i = 1 /\ Under[i].node = Top.node
  BY <1>3, UnderLookup DEF IInv
<1> HIDE DEF f
<1> DEFINE w == <<f>> \o Under
<1>5. <<f>> \in Stacks /\ NoCloses(<<f>>)
  BY <1>2 DEF Stacks, NoCloses, Closes
<1>6. Nested(w, scopes, current)
  <2>1. Nested(Under, scopes, current)
    BY <1>3, UnderNested DEF IInv
  <2> QED
    BY <1>3, <1>4, <1>5, <2>1, ChainPrepend
<1>7. /\ w \in Stacks /\ w # <<>> /\ w[1] = f /\ DOMAIN w = 1 .. Len(Under) + 1
      /\ Len(Under) \in Nat /\ DOMAIN Under = 1 .. Len(Under)
      /\ \A i \in 1 .. Len(Under) : w[i + 1] = Under[i]
  BY <1>2, <1>4 DEF Stacks
<1>8. work' = w
  BY DEF f
<1> HIDE DEF w
<1>9. LookupInv'
  <2>1. ASSUME NEW i \in DOMAIN w
        PROVE  /\ w[i].op = "resolve" => i = 1
               /\ w[i].op \in Waits =>
                    i = 1 \/ (i = 2 /\ w[1].op = "resolve" /\ w[1].node = w[2].node)
    <3>1. CASE i = 1
      BY <3>1
    <3>2. CASE i # 1
      <4>1. i - 1 \in DOMAIN Under /\ w[i] = Under[i - 1] /\ (i - 1 = 1 => i = 2)
        BY <1>7, <3>2
      <4> QED
        BY <1>2, <1>4, <1>7, <4>1
    <3> QED
      BY <3>1, <3>2
  <2>2. w[1].scope \in 0 .. Len(scopes)
    BY <1>1, <1>2, <1>7
  <2>3. w[1].op \notin Waits
    BY <1>2, <1>7 DEF Waits
  <2> QED
    BY <1>8, <2>1, <2>2, <2>3 DEF LookupInv, Top
<1> QED
  BY <1>6, <1>7, <1>8, <1>9 DEF ScopesNest

LEMMA Found ==
  ASSUME IInv, work # <<>>, Top.op = "resolve", ~Climb[2],
         work' = Under, resolved' = Climb[1],
         UNCHANGED <<scopes, current, objects>>
  PROVE  work' \in Stacks /\ ScopesNest' /\ LookupInv'
<1>1. work \in Stacks /\ scopes \in Trees
  BY DEF IInv, Shapes
<1>2. /\ Under \in Stacks
      /\ \A i \in DOMAIN Under :
           /\ Under[i].op # "resolve"
           /\ Under[i].op \in Waits => i = 1 /\ Under[i].node = Top.node
  BY <1>1, UnderLookup DEF IInv
<1>3. Nested(Under, scopes, current)
  BY <1>1, UnderNested DEF IInv
<1>4. LookupInv'
  <2>1. PICK w : w = Under
    OBVIOUS
  <2>2. PICK r : r = resolved'
    OBVIOUS
  <2>3. w # <<>> => 1 \in DOMAIN w
    BY <1>2, <2>1 DEF Stacks
  <2>4. w # <<>> => w[1].op # "resolve"
    BY <1>2, <2>1, <2>3
  <2>5. w # <<>> /\ w[1].op \in Waits /\ r # Nullptr => objects[r].name = w[1].node.xs[1]
    <3> SUFFICES ASSUME w # <<>>, w[1].op \in Waits, r # Nullptr
                 PROVE  objects[r].name = w[1].node.xs[1]
      OBVIOUS
    <3>1. w[1].node = Top.node
      BY <1>2, <2>1, <2>3
    <3>2. objects[Climb[1]].name = Top.node.xs[1]
      BY <2>2, ClimbShape
    <3> QED
      BY <2>2, <3>1, <3>2
  <2>6. \A i \in DOMAIN w : w[i].op # "resolve" /\ (w[i].op \in Waits => i = 1)
    BY <1>2, <2>1
  <2>7. work' = w
    BY <2>1
  <2> QED
    BY <2>2, <2>4, <2>5, <2>6, <2>7 DEF LookupInv, Top
<1> QED
  BY <1>2, <1>3, <1>4 DEF ScopesNest

LEMMA ResolveKeeps ==
  ASSUME IInv, Resolve
  PROVE  IInv'
<1>1. /\ work # <<>> /\ Top.op = "resolve" /\ verdict = "running"
      /\ UNCHANGED <<source, verdict, scopes, current, objects, idents>>
  BY DEF Resolve, KeepScopes, KeepTable, Goes
<1>2. Tables2'
  BY <1>1 DEF IInv, Tables2
<1>3. CASE Climb[2]
  <2>1. work' = <<[Top EXCEPT !.scope = Climb[1]]>> \o Under /\ resolved' = resolved
    BY <1>3 DEF Resolve
  <2>2. work' \in Stacks /\ ScopesNest' /\ LookupInv'
    BY <1>1, <1>3, <2>1, Climbing
  <2>3. Shapes'
    BY <1>1, <2>1, <2>2 DEF IInv, Shapes, Symbols
  <2> QED
    BY <1>2, <2>2, <2>3 DEF IInv
<1>4. CASE ~Climb[2]
  <2>1. work' = Under /\ resolved' = Climb[1]
    BY <1>4 DEF Resolve
  <2>2. work' \in Stacks /\ ScopesNest' /\ LookupInv'
    BY <1>1, <1>4, <2>1, Found
  <2>3. resolved' \in {Nullptr} \union Symbols
    BY <1>1, <1>4, <2>1, ClimbShape
  <2>4. Shapes'
    BY <1>1, <2>2, <2>3 DEF IInv, Shapes, Symbols
  <2> QED
    BY <1>2, <2>2, <2>4 DEF IInv
<1> QED
  BY <1>3, <1>4

LEMMA CloseKeeps ==
  ASSUME IInv, Close
  PROVE  IInv'
<1>1. /\ work # <<>> /\ Top.op = "close" /\ verdict = "running"
      /\ UNCHANGED <<source, verdict, scopes, objects, idents, resolved>>
      /\ work' = Under /\ current' = scopes[current].parent
  BY DEF Close, Resuming, KeepTable, Goes
<1>2. work \in Stacks /\ scopes \in Trees /\ current \in DOMAIN scopes
  BY DEF IInv, Shapes
<1>3. 1 \in DOMAIN work /\ Closes(work, 1)
  BY <1>1, <1>2 DEF Stacks, Closes, Top
<1>4. current \in 2 .. Len(scopes)
  <2>1. NoClose(work, 1, 1 - 1)
    BY DEF NoClose
  <2>2. work[1].scope \in 2 .. Len(scopes) /\ work[1].scope = current
    BY <1>3, <2>1 DEF IInv, ScopesNest, Nested
  <2> QED
    BY <2>2
<1>5. scopes[current].parent \in DOMAIN scopes
  <2>1. scopes[current].parent \in 1 .. current - 1
    BY <1>2, <1>4 DEF IInv, Tables2, Rooted, Global
  <2> QED
    BY <1>2, <1>4, <2>1 DEF Trees
<1>6. PICK cur : cur = scopes[current].parent
  OBVIOUS
<1>7. Nested(Under, scopes, cur)
  BY <1>1, <1>2, <1>3, <1>6, ChainTail DEF IInv, ScopesNest, Under
<1>8. /\ Under \in Stacks
      /\ \A i \in DOMAIN Under : Under[i].op \notin {"resolve"} \union Waits
  BY <1>1, <1>2, UnderLookup DEF IInv
<1>9. Under # <<>> => 1 \in DOMAIN Under
  BY <1>8 DEF Stacks
<1>10. ScopesNest'
  BY <1>1, <1>6, <1>7 DEF ScopesNest
<1>11. LookupInv'
  <2>1. PICK w : w = Under
    OBVIOUS
  <2>2. \A i \in DOMAIN w : w[i].op # "resolve" /\ w[i].op \notin Waits
    BY <1>8, <2>1
  <2>3. w # <<>> => w[1].op # "resolve" /\ w[1].op \notin Waits
    BY <1>9, <2>1, <2>2
  <2>4. work' = w
    BY <1>1, <2>1
  <2> QED
    BY <2>2, <2>3, <2>4 DEF LookupInv, Top
<1>12. Tables2'
  BY <1>1 DEF IInv, Tables2
<1>13. Shapes'
  BY <1>1, <1>5, <1>8 DEF IInv, Shapes, Symbols
<1> QED
  BY <1>10, <1>11, <1>12, <1>13 DEF IInv

LEMMA FinishKeeps ==
  ASSUME IInv, Finish
  PROVE  IInv'
  BY DEF IInv, Finish, KeepScopes, KeepTable, Shapes, Tables2, ScopesNest, LookupInv, Top, Symbols

LEMMA StutterKeeps ==
  ASSUME IInv, UNCHANGED svars
  PROVE  IInv'
  BY DEF IInv, svars, Shapes, Tables2, ScopesNest, LookupInv, Top, Symbols
-----------------------------------------------------------------------------
LEMMA FirstVisit ==
  ASSUME NEW t \in Tree
  PROVE  Visit(t, <<>>) \in Frames /\ Visit(t, <<>>).op = "visit"
<1>1. <<>> \in Seq(Int)
  OBVIOUS
<1> QED
  BY <1>1 DEF Visit, Item, Frames, Ops, Nullptr

(* Every program starts as the invariant asks: an empty global scope, and  *)
(* the program's node to visit.                                            *)
THEOREM InitKeeps == Init => IInv
<1> SUFFICES ASSUME Init PROVE IInv
  OBVIOUS
<1>1. source \in Source /\ source \in Tree
  BY TreeAssumption DEF Init
<1>2. Visit(source, <<>>) \in Frames /\ Visit(source, <<>>).op = "visit"
  BY <1>1, FirstVisit
<1>3. work \in Stacks /\ Len(work) = 1 /\ DOMAIN work = {1} /\ work[1].op = "visit"
  BY <1>2 DEF Init, Stacks
<1>4. scopes \in Trees /\ DOMAIN scopes = {1} /\ scopes[1].parent = Nullptr /\ DOMAIN scopes[1].symbols = {}
  <2>1. Scope(Nullptr).parent = Nullptr /\ Scope(Nullptr).symbols = <<>> /\ DOMAIN Scope(Nullptr) = {"parent", "symbols"}
    BY DEF Scope
  <2>2. DOMAIN <<>> = {}
    OBVIOUS
  <2>3. <<>> \in Tables
    <3>1. <<>> \in [{} -> Nat \ {0}]
      OBVIOUS
    <3> QED
      BY <3>1 DEF Tables
  <2>4. Scope(Nullptr) \in ScopeRecords
    BY <2>3 DEF Scope, ScopeRecords, Nullptr
  <2>5. <<Scope(Nullptr)>> \in Trees /\ DOMAIN <<Scope(Nullptr)>> = {1} /\ <<Scope(Nullptr)>>[1] = Scope(Nullptr)
    BY <2>4 DEF Trees
  <2> QED
    BY <2>1, <2>2, <2>5 DEF Init
<1>5. objects \in ObjectTables /\ DOMAIN objects = {} /\ Len(objects) = 0 /\ DOMAIN idents = {}
  BY DEF Init, ObjectTables
<1>6. Shapes
  BY <1>1, <1>3, <1>4, <1>5 DEF Init, Shapes, Global
<1>7. Tables2
  BY <1>4, <1>5 DEF Tables2, Rooted, OneHome, NamedAlike, Referring, Global
<1>8. ScopesNest
  BY <1>3 DEF ScopesNest, Nested, Closes
<1>9. LookupInv
  BY <1>3 DEF LookupInv, Top, Waits
<1> QED
  BY <1>6, <1>7, <1>8, <1>9 DEF IInv

(* Every step of the pass, the rejection of a program included, keeps the  *)
(* scope tree, the symbol table and the stack of visits in order.          *)
THEOREM StepKeeps == IInv /\ [NextScope]_svars => IInv'
<1> SUFFICES ASSUME IInv, [NextScope]_svars PROVE IInv'
  OBVIOUS
<1>1. CASE visitChildren \/ visitDeclaration \/ visitIdentifier \/ visitCall \/ visitBlock
  BY <1>1, ChildrenKeeps, DeclarationKeeps, IdentifierKeeps, CallKeeps, BlockKeeps
<1>2. CASE visitDomain \/ visitRoutine \/ Resolve \/ Declare \/ Refer
  BY <1>2, DomainKeeps, RoutineKeeps, ResolveKeeps, DeclareKeeps, ReferKeeps
<1>3. CASE EnterDomain \/ Close \/ CheckArity
  BY <1>3, EnterDomainKeeps, CloseKeeps, CheckArityKeeps
<1>4. CASE DeclareRoutine \/ EnterRoutine \/ Finish \/ UNCHANGED svars
  BY <1>4, DeclareRoutineKeeps, EnterRoutineKeeps, FinishKeeps, StutterKeeps
<1> QED
  BY <1>1, <1>2, <1>3, <1>4 DEF NextScope

(* The scopes are a tree rooted in the global scope whose symbols are in   *)
(* the table, whatever the program is.                                     *)
THEOREM ScopeTypeOK == ScopeSpec => []TypeOK
<1>1. IInv => TypeOK
  <2> SUFFICES ASSUME IInv PROVE TypeOK
    OBVIOUS
  <2>1. DOMAIN scopes = 1 .. Len(scopes) /\ Len(scopes) \in Nat
    BY DEF IInv, Shapes, Trees
  <2>2. ASSUME NEW s \in DOMAIN scopes
        PROVE  /\ DOMAIN scopes[s] = {"parent", "symbols"}
               /\ IsTable(scopes[s].symbols)
    <3>1. scopes[s] \in ScopeRecords
      BY DEF IInv, Shapes, Trees
    <3>2. DOMAIN scopes[s] = {"parent", "symbols"} /\ scopes[s].symbols \in Tables
      BY <3>1 DEF ScopeRecords
    <3>3. DOMAIN scopes[s].symbols \subseteq STRING
      BY <3>2 DEF Tables
    <3>4. \A x \in DOMAIN scopes[s].symbols : scopes[s].symbols[x] \in Symbols
      BY DEF IInv, Tables2, Rooted, Symbols, Shapes, ObjectTables
    <3> QED
      BY <3>2, <3>3, <3>4 DEF IsTable
  <2>3. \A s \in DOMAIN scopes : scopes[s].parent \in (IF s = Global THEN {Nullptr} ELSE 1 .. s - 1)
    BY DEF IInv, Tables2, Rooted
  <2> QED
    BY <2>1, <2>2, <2>3 DEF IInv, Shapes, TypeOK
<1> QED
  BY <1>1, InitKeeps, StepKeeps, PTL DEF ScopeSpec

(* No two declarations share a symbol, and what an identifier refers to    *)
(* was declared under the identifier's own name.                           *)
THEOREM ScopeSymbolsApart == ScopeSpec => []SymbolsApart
<1>1. IInv => SymbolsApart
  BY DEF IInv, Tables2, OneHome, NamedAlike, Referring, Symbols, SymbolsApart
<1> QED
  BY <1>1, InitKeeps, StepKeeps, PTL DEF ScopeSpec

(* Whatever was rejected or accepted on the way, a visitor that ends       *)
(* closes the scope it opened itself.                                      *)
THEOREM VisitorsNest == ScopeSpec => []ScopesNest
<1>1. IInv => ScopesNest
  BY DEF IInv
<1> QED
  BY <1>1, InitKeeps, StepKeeps, PTL DEF ScopeSpec
=============================================================================
