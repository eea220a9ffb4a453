--------------------------- MODULE LexicalScoping ---------------------------
(***************************************************************************)
(* What the names of a program mean, told from the program's text alone:   *)
(* which declaration a use is bound to, which programs are well scoped,    *)
(* and what a well-scoped program prints when every declaration makes a    *)
(* location of its own each time it is reached.                            *)
(***************************************************************************)
EXTENDS Programs, SequencesExt

CONSTANT Tree \* nodes, with every node below them

(* The nodes of t, with their paths from t.                                *)
Subtrees[t \in Tree] ==
  {[t |-> t, at |-> <<>>]} \union
    UNION {{[t |-> n.t, at |-> <<i>> \o n.at] : n \in Subtrees[t.kids[i]]} : i \in DOMAIN t.kids}
-----------------------------------------------------------------------------
(* A declaration site: the name, its place, and the part of the program    *)
(* that sees it: what lies under "owner" at child "from" or later.         *)
Site(x, place, owner, from, ty) ==
  [name |-> x, place |-> place, owner |-> owner, from |-> from, type |-> ty]

Value == <<"value", 0>>
TypeOf(t) ==
  <<IF t.k \in {"procedure", "procedure declaration"} THEN "procedure" ELSE "function",
    Len(t.xs) - 1>>

SitesOf(n) ==
  LET t == n.t
      Up == Front(n.at)
      Inside(i, from) == Site(t.xs[i], NameAt(n.at, i), n.at, from, Value) IN
  CASE t.k = "declaration" -> {Site(t.xs[1], NameAt(n.at, 1), Up, Last(n.at) + 1, Value)}
    [] t.k \in DomainKind  -> {Inside(i, Len(t.kids)) : i \in DOMAIN t.xs}
    [] t.k \in Routines \union Forwards ->
         {Site(t.xs[1], NameAt(n.at, 1), Up, Last(n.at), TypeOf(t))}
           \union {Inside(i, 1) : i \in IF t.k \in Routines THEN 2 .. Len(t.xs) ELSE {}}
    [] OTHER -> {}

Sees(at, s) ==
  /\ Len(at) > Len(s.owner)
  /\ SubSeq(at, 1, Len(s.owner)) = s.owner
  /\ at[Len(s.owner) + 1] >= s.from

Unbound == Site("", <<>>, <<>>, 0, Value)

(* Of the sites a use sees, the innermost one; a routine declared before   *)
(* its definition is the same routine, and so the first of its sites.      *)
Binder(sites, x, at) ==
  LET seen == {s \in sites : s.name = x /\ Sees(at, s)}
      inner == {s \in seen : \A r \in seen : Len(r.owner) <= Len(s.owner)}
      first == {s \in inner : \A r \in inner : s.from <= r.from}
  IN IF first = {} THEN Unbound ELSE CHOOSE s \in first : TRUE

Uses(nodes) == {n \in nodes : n.t.k = "name"}

(* One scope has one declaration of a name, but for a routine that is      *)
(* declared and defined with the same type.                                *)
Clash(s, r) ==
  /\ s # r /\ s.name = r.name /\ s.owner = r.owner
  /\ s.type = Value \/ s.type # r.type

Callee(sites, n) == Binder(sites, n.t.kids[1].xs[1], n.at)

WellScoped(program) ==
  LET nodes == Subtrees[program]
      sites == UNION {SitesOf(n) : n \in nodes}
  IN /\ \A u \in Uses(nodes) : Binder(sites, u.t.xs[1], u.at) # Unbound
     /\ \A s, r \in sites : ~Clash(s, r)
     /\ \A n \in nodes : n.t.k \in CallKind =>
          LET ty == Callee(sites, n).type
          IN ty # Value /\ ty[2] = Len(n.t.kids) - 1

(* The place of the declaration each use is bound to.                      *)
Bindings(program) ==
  LET nodes == Subtrees[program]
      sites == UNION {SitesOf(n) : n \in nodes}
  IN {<<u.at, Binder(sites, u.t.xs[1], u.at).place>> : u \in Uses(nodes)}
=============================================================================
