----------------------------- MODULE RoutineSets -----------------------------
(* The routines of at most MaxStatements statements that TLC compiles.     *)
EXTENDS Lowering, SequencesExt

CONSTANTS
  MaxStatements,
  Kinds,   \* of routines: "procedure", "function"
  BareWhile  \* may the body of a while or do-while loop be no block?

RECURSIVE AllFit(_)
AllFit(t) == Fits(t) /\ \A i \in DOMAIN t.kids : AllFit(t.kids[i])

RECURSIVE BlockWhiles(_)
BlockWhiles(t) ==
  /\ t.op \in {"while", "dowhile"} => t.kids[1].op = "block"
  /\ \A i \in DOMAIN t.kids : BlockWhiles(t.kids[i])

(* A list of statements is read off its prefix form, from the right: each  *)
(* operator takes its children from the statements that follow it, and     *)
(* "none" stands for no statement at all.                                  *)
Arities(n) ==
  (Leaf \union {"none"}) \X {0} \union Unary \X {1} \union {"ifelse"} \X {2}
    \union {"block"} \X (0 .. n)

Smaller(a, b) == IF a < b THEN a ELSE b

ReadOff(prefix) ==
  FoldRight(LAMBDA k, list :
              IF k[1] = "none" THEN list
              ELSE <<[op |-> k[1], kids |-> SubSeq(list, 1, Smaller(k[2], Len(list)))]>>
                     \o SubSeq(list, k[2] + 1, Len(list)),
            prefix, <<>>)

RECURSIVE Placed(_, _)
Placed(t, at) ==
  [op |-> t.op, at |-> at,
   kids |-> Listed([i \in DOMAIN t.kids |-> Placed(t.kids[i], Append(at, i))])]

(* The bodies of at most n statements, nested ones included.               *)
AnyBodies(n) ==
  LET lists == {ReadOff(p) : p \in [1 .. n -> Arities(n)]}
      body(list) == [op |-> "block", kids |-> list]
  IN {Placed(body(l), <<>>) : l \in {k \in lists : AllFit(body(k))}}

RECURSIVE Preorder(_)
Preorder(t) == <<t>> \o FlattenSeq(Listed([i \in DOMAIN t.kids |-> Preorder(t.kids[i])]))

Nth(t, i) == LET p == Preorder(t) IN p[IF i <= Len(p) THEN i ELSE 1]
Parts(ts) == {Nth(t, i) : t \in ts, i \in 1 .. 3 * MaxStatements + 2}

RECURSIVE Depth(_)
Depth(t) == 1 + FoldSeq(LAMBDA k, d : IF Depth(k) > d THEN Depth(k) ELSE d, 0, t.kids)

(* Built, for a statement of no set in particular.                         *)
RECURSIVE Lowered(_)
Lowered(t) == BuildNode(t, Listed([i \in DOMAIN t.kids |-> Lowered(t.kids[i])]))

(* The sources, their statements, what they are lowered to, and every      *)
(* statement inside that.  TLC evaluates each of them once, in this order. *)
Bodies           == {b \in AnyBodies(MaxStatements) : BareWhile \/ BlockWhiles(b)}
Sources          == Kinds \X Bodies
SourceStatements == Parts(Bodies)
Routines         == {EnsuredReturn(s[1], Lowered(s[2])) : s \in Sources}
SubStatements    == Parts(Routines)
Depths           == [t \in SourceStatements \union SubStatements |-> Depth(t)]
=============================================================================
