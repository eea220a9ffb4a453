------------------------ MODULE SameBehaviour_proofs ------------------------
(***************************************************************************)
(* The code generated for a routine does what its source means: a proof of *)
(* SameBehaviour of CompiledRoutine, for every set of routines.            *)
(*                                                                         *)
(* A visit <<T, b, k>> pairs what remains of the source, T, with a place   *)
(* in the code, instruction k of block b.  A set of visits is settled when *)
(* from each of them either execution goes on, unseen, to another visit of *)
(* the set, or both show the same and go on to visits of it (Advances).    *)
(* Code generation builds such a set step by step (Sim), relying on visits *)
(* whose code is still to come (Waits); the run then stays with it (Meets).*)
(***************************************************************************)
EXTENDS CompiledRoutine_proofs
-----------------------------------------------------------------------------
(* The compiled code does what the source means.  What remains to be       *)
(* executed is a sequence of items.                                        *)
Loops == Parsed \union {Second(v) : v \in Parsed}
Items ==
  Loops \union {Mark(l) : l \in Loops} \union {Around(l) : l \in Loops}
  \union {Round(l) : l \in Loops} \union {FallOff("procedure"), FallOff("function")}
Todo == Seq(Items)

Cons(u, R) == <<u>> \o R

LEMMA ConsIs ==
  ASSUME NEW u \in Items, NEW R \in Todo
  PROVE  /\ Cons(u, R) \in Todo /\ Cons(u, R) # <<>>
         /\ Cons(u, R)[1] = u /\ Tail(Cons(u, R)) = R
  BY DEF Cons, Todo

LEMMA ConsTwo ==
  ASSUME NEW u \in Items, NEW m \in Items, NEW R \in Todo
  PROVE  <<u, m>> \o R = Cons(u, Cons(m, R))
  <1> DEFINE a == <<u>>  b == <<m>>  ab == <<u, m>>
  <1>1. a \in Seq(Items) /\ b \in Seq(Items) /\ ab \in Seq(Items) /\ R \in Seq(Items)
    BY DEF Todo
  <1>2. a \o (b \o R) = (a \o b) \o R
    BY <1>1, ConcatAssociative
  <1>3. a \o b = ab
    <2>1. a \o b \in Seq(Items) /\ Len(a \o b) = 2 /\ Len(ab) = 2
      BY <1>1
    <2>2. (a \o b)[1] = ab[1] /\ (a \o b)[2] = ab[2]
      BY <1>1
    <2>3. \A i \in 1 .. 2 : i = 1 \/ i = 2
      OBVIOUS
    <2> HIDE DEF a, b, ab
    <2>4. \A i \in 1 .. Len(a \o b) : (a \o b)[i] = ab[i]
      BY <2>1, <2>2, <2>3
    <2> QED BY <1>1, <2>1, <2>4, SeqEqual
  <1> QED BY <1>2, <1>3 DEF Cons

LEMMA LoopItems ==
  ASSUME NEW l \in Loops
  PROVE  l \in Items /\ Mark(l) \in Items /\ Around(l) \in Items /\ Round(l) \in Items
  BY DEF Items

(* One step of the source, by the item that comes first.                   *)
SeenOps == {"act", "if", "ifelse", "while", "domain", "domain2", "second",
            "round", "return", "end"}

LEMMA ShowsIs ==
  ASSUME NEW T
  PROVE  /\ T[1].op \in SeenOps => Shows(T) /\ Observed(T) = <<Seen[T[1].op], T[1].at>>
         /\ T[1].op \notin SeenOps \union {"mark"} => ~Shows(T)
         /\ T[1].op = "mark" => (Shows(T) <=> T[1].kids[1].op = "dowhile")
         /\ T[1].op = "mark" => Observed(T) = <<"eval", T[1].at>>
  <1>1. DOMAIN Seen = SeenOps
    BY DEF Seen, SeenOps
  <1>2. "mark" \notin SeenOps
    BY DEF SeenOps
  <1> QED BY <1>1, <1>2 DEF Shows, Observed

LEMMA SeenIs ==
  /\ Seen["act"] = "do" /\ Seen["if"] = "eval" /\ Seen["ifelse"] = "eval" /\ Seen["while"] = "eval"
  /\ Seen["domain"] = "enter" /\ Seen["domain2"] = "enter" /\ Seen["second"] = "enter"
  /\ Seen["round"] = "eval" /\ Seen["return"] = "ret" /\ Seen["end"] = "unreachable"
  BY DEF Seen

LEMMA QuietIs ==
  ASSUME NEW T
  PROVE  /\ T[1].op = "block" => Quiet(T) = T[1].kids \o Tail(T)
         /\ T[1].op = "break" => Quiet(T) = AfterLoop(T)
         /\ T[1].op = "continue" => Quiet(T) = NextRound(T)
         /\ T[1].op \in {"loop", "dowhile"} => Quiet(T) = <<T[1].kids[1], Mark(T[1])>> \o Tail(T)
         /\ T[1].op \in {"mark", "around"} /\ T[1].kids[1].op \in {"domain", "domain2", "second"} =>
              Quiet(T) = Cons(Round(T[1].kids[1]), Tail(T))
         /\ T[1].op = "mark" /\ T[1].kids[1].op \notin {"domain", "domain2", "second"} =>
              Quiet(T) = Cons(T[1].kids[1], Tail(T))
  <1>1. PICK t : t = T[1]
    OBVIOUS
  <1>2. t.op = "block" => Quiet(T) = t.kids \o Tail(T)
    BY <1>1 DEF Quiet
  <1>3. t.op = "break" => Quiet(T) = AfterLoop(T)
    BY <1>1 DEF Quiet
  <1>4. t.op = "continue" => Quiet(T) = NextRound(T)
    BY <1>1 DEF Quiet
  <1>5. t.op \in {"loop", "dowhile"} => Quiet(T) = <<t.kids[1], Mark(t)>> \o Tail(T)
    BY <1>1 DEF Quiet
  <1>6. t.op \in {"mark", "around"} /\ t.kids[1].op \in {"domain", "domain2", "second"} =>
          Quiet(T) = <<Round(t.kids[1])>> \o Tail(T)
    BY <1>1 DEF Quiet
  <1>7. t.op = "mark" /\ t.kids[1].op \notin {"domain", "domain2", "second"} =>
          Quiet(T) = <<t.kids[1]>> \o Tail(T)
    BY <1>1 DEF Quiet
  <1> QED BY <1>1, <1>2, <1>3, <1>4, <1>5, <1>6, <1>7 DEF Cons

LEMMA ResumedIs ==
  ASSUME NEW T
  PROVE  /\ T[1].op = "act" => Resumed(T, TRUE) = Tail(T)
         /\ T[1].op \in {"domain", "domain2", "second"} => Resumed(T, TRUE) = Cons(Round(T[1]), Tail(T))
         /\ T[1].op \in {"if", "mark"} => Resumed(T, TRUE) = T[1].kids \o Tail(T)
         /\ T[1].op = "ifelse" => /\ Resumed(T, TRUE) = Cons(T[1].kids[1], Tail(T))
                                  /\ Resumed(T, FALSE) = Cons(T[1].kids[2], Tail(T))
         /\ T[1].op = "while" => Resumed(T, TRUE) = <<T[1].kids[1], Mark(T[1])>> \o Tail(T)
         /\ T[1].op \in {"if", "mark", "while", "round"} => Resumed(T, FALSE) = Tail(T)
  <1>1. PICK t : t = T[1]
    OBVIOUS
  <1>2. t.op = "act" => Resumed(T, TRUE) = Tail(T)
    BY <1>1 DEF Resumed
  <1>3. t.op \in {"domain", "domain2", "second"} => Resumed(T, TRUE) = <<Round(t)>> \o Tail(T)
    BY <1>1 DEF Resumed
  <1>4. t.op \in {"if", "mark"} => Resumed(T, TRUE) = t.kids \o Tail(T)
    BY <1>1 DEF Resumed
  <1>5. t.op = "ifelse" => Resumed(T, TRUE) = <<t.kids[1]>> \o Tail(T)
    BY <1>1 DEF Resumed
  <1>6. t.op = "ifelse" => Resumed(T, FALSE) = <<t.kids[2]>> \o Tail(T)
    BY <1>1 DEF Resumed
  <1>7. t.op = "while" => Resumed(T, TRUE) = <<t.kids[1], Mark(t)>> \o Tail(T)
    BY <1>1 DEF Resumed
  <1>8. t.op \in {"if", "mark", "while", "round"} => Resumed(T, FALSE) = Tail(T)
    BY <1>1 DEF Resumed
  <1> QED BY <1>1, <1>2, <1>3, <1>4, <1>5, <1>6, <1>7, <1>8 DEF Cons

LEMMA RoundIs ==
  ASSUME NEW T, NEW l, T[1].op = "round", T[1].kids[1] = l
  PROVE  /\ l.op = "domain" => Resumed(T, TRUE) = <<l.kids[1], Mark(l)>> \o Tail(T)
         /\ l.op = "domain2" => Resumed(T, TRUE) = <<Second(l), Mark(l)>> \o Tail(T)
         /\ l.op = "second" => Resumed(T, TRUE) = <<l.kids[1], Around(l)>> \o Tail(T)
  <1>1. PICK t : t = T[1]
    OBVIOUS
  <1>2. l.op = "domain" => Resumed(T, TRUE) = <<l.kids[1], Mark(l)>> \o Tail(T)
    BY <1>1 DEF Resumed
  <1>3. l.op = "domain2" => Resumed(T, TRUE) = <<Second(l), Mark(l)>> \o Tail(T)
    BY <1>1 DEF Resumed
  <1>4. l.op = "second" => Resumed(T, TRUE) = <<l.kids[1], Around(l)>> \o Tail(T)
    BY <1>1 DEF Resumed
  <1> QED BY <1>2, <1>3, <1>4

(* break and continue look for the innermost loop that counts.             *)
IsFirstMark(T, k) ==
  /\ k \in DOMAIN T /\ T[k].op = "mark"
  /\ \A j \in 1 .. k - 1 : T[j].op # "mark"

LEMMA FirstMarkIs ==
  ASSUME NEW T \in Todo, NEW k, IsFirstMark(T, k)
  PROVE  FirstMark(T) = k
  <1>1. DOMAIN T \subseteq Nat /\ \A i \in DOMAIN T : i >= 1
    BY DEF Todo
  <1>2. \A i : IsFirstMark(T, i) => i = k
    <2> SUFFICES ASSUME NEW i, IsFirstMark(T, i)
                 PROVE  i = k
      OBVIOUS
    <2>1. i \in Nat /\ k \in Nat /\ i >= 1 /\ k >= 1
      BY <1>1 DEF IsFirstMark
    <2>2. ~(i < k)
      BY <2>1 DEF IsFirstMark
    <2>3. ~(k < i)
      BY <2>1 DEF IsFirstMark
    <2> QED BY <2>1, <2>2, <2>3
  <1>3. FirstMark(T) = CHOOSE i \in DOMAIN T : IsFirstMark(T, i)
    <2>1. \A i \in DOMAIN T : IsFirstMark(T, i) <=>
            T[i].op = "mark" /\ \A j \in 1 .. i - 1 : T[j].op # "mark"
      BY DEF IsFirstMark
    <2> QED BY <2>1 DEF FirstMark
  <1> QED BY <1>2, <1>3 DEF IsFirstMark

LEMMA MarkFound ==
  ASSUME NEW T \in Todo, NEW n \in DOMAIN T, T[n].op = "mark"
  PROVE  \E k \in DOMAIN T : IsFirstMark(T, k)
  <1> DEFINE B == {i \in DOMAIN T : T[i].op = "mark"}
  <1>1. B \subseteq Nat /\ B # {} /\ \A i \in 1 .. Len(T) : i \in DOMAIN T
    BY DEF Todo
  <1>2. PICK k \in B : \A j \in B : k <= j
    <2> HIDE DEF B
    <2> QED BY <1>1, LeastNat
  <1>3. \A j \in 1 .. k - 1 : j \in DOMAIN T /\ ~(k <= j)
    BY DEF Todo
  <1> QED BY <1>2, <1>3 DEF IsFirstMark

(* S is what is left of T when its innermost loop goes around.             *)
Within(T, S) ==
  /\ \E k \in DOMAIN T : T[k].op = "mark"
  /\ NextRound(T) = S
  /\ AfterLoop(T) = Tail(S)

LEMMA WithinSelf ==
  ASSUME NEW m \in Items, m.op = "mark", NEW R \in Todo
  PROVE  Within(Cons(m, R), Cons(m, R))
  <1>1. PICK T : T = Cons(m, R)
    OBVIOUS
  <1>0. T \in Todo /\ T # <<>> /\ T[1] = m
    BY <1>1, ConsIs
  <1>2. T \in Seq(Items) /\ T # <<>> /\ T[1] = m /\ Len(T) \in Nat /\ DOMAIN T = 1 .. Len(T) /\ Len(T) >= 1
    BY <1>0 DEF Todo
  <1>3. IsFirstMark(T, 1)
    BY <1>2 DEF IsFirstMark
  <1>4. FirstMark(T) = 1
    BY <1>2, <1>3, FirstMarkIs DEF Todo
  <1>5. SubSeq(T, 1, Len(T)) = T
    BY <1>2
  <1>6. SubSeq(T, 2, Len(T)) = Tail(T)
    BY <1>2
  <1>7. NextRound(T) = T /\ AfterLoop(T) = Tail(T)
    BY <1>4, <1>5, <1>6 DEF NextRound, AfterLoop
  <1> QED BY <1>1, <1>3, <1>7 DEF Within, IsFirstMark

NoMarks(s) == \A k \in DOMAIN s : s[k].op # "mark"

LEMMA WithinMore ==
  ASSUME NEW s \in Todo, NoMarks(s), NEW R \in Todo, NEW S
  PROVE  Within(s \o R, S) <=> Within(R, S)
  <1>1. PICK T : T = s \o R
    OBVIOUS
  <1>2. /\ T \in Todo /\ Len(s) \in Nat /\ Len(R) \in Nat /\ Len(T) = Len(s) + Len(R)
        /\ DOMAIN T = 1 .. Len(T) /\ DOMAIN R = 1 .. Len(R) /\ DOMAIN s = 1 .. Len(s)
    BY <1>1 DEF Todo
  <1>3. \A i \in 1 .. Len(s) : i \in DOMAIN s /\ T[i] = s[i]
    BY <1>1 DEF Todo
  <1>4. \A i \in DOMAIN R : Len(s) + i \in DOMAIN T /\ T[Len(s) + i] = R[i]
    BY <1>1 DEF Todo
  <1>5. \A i \in DOMAIN T : i > Len(s) => i - Len(s) \in DOMAIN R /\ T[i] = R[i - Len(s)]
    BY <1>1, <1>2 DEF Todo
  <1>6. (\E k \in DOMAIN T : T[k].op = "mark") <=> \E k \in DOMAIN R : R[k].op = "mark"
    <2>1. ASSUME NEW k \in DOMAIN T, T[k].op = "mark"
          PROVE  \E j \in DOMAIN R : R[j].op = "mark"
      <3>1. k > Len(s)
        BY <1>2, <1>3, <2>1 DEF NoMarks
      <3> QED BY <1>5, <2>1, <3>1
    <2> QED BY <1>4, <2>1
  <1>7. ASSUME NEW k \in DOMAIN R, IsFirstMark(R, k)
        PROVE  NextRound(T) = NextRound(R) /\ AfterLoop(T) = AfterLoop(R)
    <2>1. IsFirstMark(T, Len(s) + k)
      <3>1. Len(s) + k \in DOMAIN T /\ T[Len(s) + k].op = "mark"
        BY <1>4, <1>7 DEF IsFirstMark
      <3>3. PICK n : n = Len(s) + k
        OBVIOUS
      <3>2. ASSUME NEW j \in 1 .. n - 1
            PROVE  T[j].op # "mark"
        <4>1. CASE j <= Len(s)
          BY <1>2, <1>3, <4>1 DEF NoMarks
        <4>2. CASE j > Len(s)
          <5>1. j - Len(s) \in 1 .. k - 1 /\ j \in DOMAIN T
            BY <1>2, <3>1, <3>3, <4>2
          <5> QED BY <1>5, <1>7, <4>2, <5>1 DEF IsFirstMark
        <4> QED BY <1>2, <3>3, <4>1, <4>2
      <3>4. \A j \in 1 .. n - 1 : T[j].op # "mark"
        BY <3>2
      <3>5. n \in DOMAIN T /\ T[n].op = "mark"
        BY <3>1, <3>3
      <3>6. IsFirstMark(T, n)
        BY <3>4, <3>5 DEF IsFirstMark
      <3> QED BY <3>3, <3>6
    <2>2. FirstMark(T) = Len(s) + k /\ FirstMark(R) = k
      BY <1>2, <1>7, <2>1, FirstMarkIs
    <2>3. ASSUME NEW j \in Nat, j >= 1, j <= Len(R) + 1
          PROVE  SubSeq(T, Len(s) + j, Len(T)) = SubSeq(R, j, Len(R))
      <3>1. PICK a, b : a = SubSeq(T, Len(s) + j, Len(T)) /\ b = SubSeq(R, j, Len(R))
        OBVIOUS
      <3>2. /\ Len(a) = Len(R) + 1 - j /\ Len(b) = Len(R) + 1 - j
            /\ a \in Seq(Items) /\ b \in Seq(Items)
        <4>2. /\ SubSeq(T, Len(s) + j, Len(T)) \in Seq(Items)
              /\ SubSeq(R, j, Len(R)) \in Seq(Items)
          BY <1>2, <2>3, SubSeqProperties DEF Todo
        <4>3. /\ Len(SubSeq(T, Len(s) + j, Len(T))) = Len(R) + 1 - j
              /\ Len(SubSeq(R, j, Len(R))) = Len(R) + 1 - j
          BY <1>2, <2>3, SubSeqProperties DEF Todo
        <4> QED BY <3>1, <4>2, <4>3
      <3>3. ASSUME NEW i \in 1 .. Len(R) + 1 - j
            PROVE  a[i] = b[i]
        <4>1. a[i] = T[Len(s) + j + i - 1] /\ b[i] = R[j + i - 1]
          BY <1>2, <2>3, <3>1 DEF Todo
        <4>2. j + i - 1 \in DOMAIN R /\ Len(s) + (j + i - 1) = Len(s) + j + i - 1
          BY <1>2, <2>3
        <4> QED BY <1>4, <4>1, <4>2
      <3>4. a = b
        BY <3>2, <3>3, SeqEqual
      <3> QED BY <3>1, <3>4
    <2>4. k \in Nat /\ k >= 1 /\ k <= Len(R) /\ Len(s) + k + 1 = Len(s) + (k + 1)
      BY <1>2
    <2>8. SubSeq(T, Len(s) + k, Len(T)) = SubSeq(R, k, Len(R))
      <3>1. k >= 1 /\ k <= Len(R) + 1
        BY <1>2, <2>4
      <3> QED BY <2>3, <2>4, <3>1
    <2>5. NextRound(T) = NextRound(R)
      BY <2>2, <2>8 DEF NextRound
    <2>6. AfterLoop(T) = SubSeq(T, Len(s) + (k + 1), Len(T)) /\ AfterLoop(R) = SubSeq(R, k + 1, Len(R))
      BY <2>2, <2>4 DEF AfterLoop
    <2>7. k + 1 \in Nat /\ k + 1 >= 1 /\ k + 1 <= Len(R) + 1
      BY <1>2, <2>4
    <2> QED BY <2>3, <2>5, <2>6, <2>7
  <1>8. CASE \E k \in DOMAIN R : R[k].op = "mark"
    <2>1. PICK k \in DOMAIN R : IsFirstMark(R, k)
      BY <1>8, MarkFound
    <2> QED BY <1>1, <1>6, <1>7, <1>8, <2>1 DEF Within
  <1>9. CASE ~ \E k \in DOMAIN R : R[k].op = "mark"
    BY <1>1, <1>6, <1>9 DEF Within
  <1> QED BY <1>8, <1>9

LEMMA WithinCons ==
  ASSUME NEW u \in Items, u.op # "mark", NEW R \in Todo, NEW S
  PROVE  Within(Cons(u, R), S) <=> Within(R, S)
  <1>1. PICK s : s = <<u>>
    OBVIOUS
  <1>2. s \in Todo /\ NoMarks(s)
    BY <1>1 DEF Todo, NoMarks
  <1> QED BY <1>1, <1>2, WithinMore DEF Cons
-----------------------------------------------------------------------------
(* A visit is at <<T, b, k>> when T remains of the source and the code is  *)
(* at instruction k of block b.  From there either execution goes on to a  *)
(* visit in K, or both show the same and go on to visits in K.             *)
SameShown(T, s, k, b, K) ==
  /\ s[k].op \in {"do", "eval", "enter", "ret", "unreachable"}
  /\ Shows(T)
  /\ Observed(T) = <<s[k].op, IF s[k].op = "unreachable" THEN << 0 >> ELSE s[k].at>>
  /\ s[k].op \in {"do", "enter"} => <<Resumed(T, TRUE), b, k + 1>> \in K
  /\ s[k].op = "eval" => /\ k + 1 \in DOMAIN s
                         /\ <<Resumed(T, TRUE), s[k + 1].to[1], 1>> \in K
                         /\ <<Resumed(T, FALSE), s[k + 1].to[2], 1>> \in K

SourceMoves(T, k, b, K) == ~Shows(T) /\ <<Quiet(T), b, k>> \in K

CodeMoves(T, s, k, K) == s[k].op = "br" /\ <<T, s[k].to[1], 1>> \in K

AdvancesAt(T, b, k, c, K) ==
  \/ SourceMoves(T, k, b, K)
  \/ /\ b \in DOMAIN c /\ k \in DOMAIN c[b]
     /\ CodeMoves(T, c[b], k, K) \/ SameShown(T, c[b], k, b, K)

Advances(h, c, K) == \E T, b, k : h = <<T, b, k>> /\ AdvancesAt(T, b, k, c, K)

(* Where code is still to come: at the end of the current block, and in    *)
(* the blocks that wait, for what remains after their visits.              *)
Here(c, p) == Len(c[p]) + 1

Waits(w, ts, c, p) ==
  {<<ts[1], p, Here(c, p)>> : i \in DOMAIN w}
  \union UNION {{<<ts[i + 1], b, 1>> : b \in Owned(w[i])} : i \in {n \in DOMAIN w : n + 1 \in DOMAIN w}}

Known(H, w, ts, c, p) == H \union Waits(w, ts, c, p)

LEMMA WaitsHere ==
  ASSUME NEW w, NEW ts, NEW c, NEW p, 1 \in DOMAIN w
  PROVE  <<ts[1], p, Here(c, p)>> \in Waits(w, ts, c, p)
  BY DEF Waits

LEMMA WaitsOwned ==
  ASSUME NEW w, NEW ts, NEW c, NEW p, NEW i \in DOMAIN w, i + 1 \in DOMAIN w, NEW b \in Owned(w[i])
  PROVE  <<ts[i + 1], b, 1>> \in Waits(w, ts, c, p)
  BY DEF Waits

LEMMA WaitsOnly ==
  ASSUME NEW w, NEW ts, NEW c, NEW p, NEW h \in Waits(w, ts, c, p)
  PROVE  \/ h = <<ts[1], p, Here(c, p)>> /\ w # <<>>
         \/ \E i \in DOMAIN w : i + 1 \in DOMAIN w /\ \E b \in Owned(w[i]) : h = <<ts[i + 1], b, 1>>
  BY DEF Waits

(* Code that is written stays.                                             *)
Grows(c, d) ==
  \A b \in DOMAIN c : b \in DOMAIN d /\ \A k \in DOMAIN c[b] : k \in DOMAIN d[b] /\ d[b][k] = c[b][k]

LEMMA AdvancesGrow ==
  ASSUME NEW c, NEW d, Grows(c, d), NEW K, NEW M, K \subseteq M, NEW h, Advances(h, c, K)
  PROVE  Advances(h, d, M)
  <1>1. PICK T, b, k : h = <<T, b, k>> /\ AdvancesAt(T, b, k, c, K)
    BY DEF Advances
  <1>3. SourceMoves(T, k, b, K) => SourceMoves(T, k, b, M)
    BY DEF SourceMoves
  <1>4. ASSUME b \in DOMAIN c, k \in DOMAIN c[b], CodeMoves(T, c[b], k, K) \/ SameShown(T, c[b], k, b, K)
        PROVE  AdvancesAt(T, b, k, d, M)
    <2>1. b \in DOMAIN d /\ k \in DOMAIN d[b] /\ d[b][k] = c[b][k]
      BY <1>4 DEF Grows
    <2>2. CodeMoves(T, c[b], k, K) => CodeMoves(T, d[b], k, M)
      BY <2>1 DEF CodeMoves
    <2>3. ASSUME SameShown(T, c[b], k, b, K)
          PROVE  SameShown(T, d[b], k, b, M)
      <3>1. c[b][k].op = "eval" => k + 1 \in DOMAIN d[b] /\ d[b][k + 1] = c[b][k + 1]
        BY <1>4, <2>3 DEF Grows, SameShown
      <3> QED BY <2>1, <2>3, <3>1 DEF SameShown
    <2> QED BY <1>4, <2>1, <2>2, <2>3 DEF AdvancesAt
  <1>6. AdvancesAt(T, b, k, d, M)
    <2>1. SourceMoves(T, k, b, M) => AdvancesAt(T, b, k, d, M)
      BY DEF AdvancesAt
    <2> QED BY <1>1, <1>3, <1>4, <2>1 DEF AdvancesAt
  <1> QED BY <1>1, <1>6 DEF Advances

LEMMA WroteGrows ==
  ASSUME GenInv, NEW n \in Nat, NEW s, Wrote(n, s)
  PROVE  /\ Grows(code, code')
         /\ s # <<>> => /\ Here(code, ip) \in DOMAIN code'[ip]
                        /\ code'[ip][Here(code, ip)] = s[1]
         /\ Len(s) = 2 => /\ Here(code, ip) + 1 \in DOMAIN code'[ip]
                          /\ code'[ip][Here(code, ip) + 1] = s[2]
         /\ ip \in DOMAIN code /\ ip \in DOMAIN code'
         /\ Here(code', ip) = Here(code, ip) + Len(s)
         /\ Here(code, ip) \in Nat
  <1>1. code[ip] \in Seq(Instr) /\ s \in Seq(Instr) /\ ip \in DOMAIN code
    BY DEF GenInv, BlockInv, TypeOK, Wrote
  <1>2. PICK a : a = code[ip]
    OBVIOUS
  <1>3. PICK d : d = a \o s
    OBVIOUS
  <1>4. a \in Seq(Instr) /\ code'[ip] = d
    BY <1>1, <1>2, <1>3 DEF Wrote
  <1>5. /\ Len(a) \in Nat /\ Len(s) \in Nat /\ Len(d) = Len(a) + Len(s) /\ DOMAIN d = 1 .. Len(d)
        /\ DOMAIN a = 1 .. Len(a)
        /\ \A k \in DOMAIN a : k \in DOMAIN d /\ d[k] = a[k]
    BY <1>1, <1>3, <1>4
  <1>6. s # <<>> => Len(a) + 1 \in DOMAIN d /\ d[Len(a) + 1] = s[1]
    BY <1>1, <1>3, <1>4
  <1>7. Len(s) = 2 => Len(a) + 2 \in DOMAIN d /\ d[Len(a) + 2] = s[2]
    <2>1. \A i \in DOMAIN s : Len(a) + i \in DOMAIN d /\ d[Len(a) + i] = s[i]
      BY <1>1, <1>3, <1>4
    <2>2. Len(s) = 2 => 2 \in DOMAIN s
      BY <1>1
    <2> QED BY <2>1, <2>2
  <1>8. Here(code, ip) = Len(a) + 1 /\ Here(code', ip) = Len(d) + 1
    BY <1>2, <1>4 DEF Here
  <1>9. Grows(code, code')
    <2>1. ASSUME NEW b \in DOMAIN code
          PROVE  /\ b \in DOMAIN code'
                 /\ \A k \in DOMAIN code[b] : k \in DOMAIN code'[b] /\ code'[b][k] = code[b][k]
      <3>1. CASE b = ip
        BY <1>2, <1>4, <1>5, <3>1 DEF Wrote
      <3>2. CASE b # ip
        BY <3>2 DEF Wrote
      <3> QED BY <3>1, <3>2
    <2> QED BY <2>1 DEF Grows
  <1>10. Len(a) + 1 + 1 = Len(a) + 2 /\ Len(d) + 1 = Len(a) + 1 + Len(s)
    BY <1>5
  <1>11. ip \in DOMAIN code'
    BY <1>1 DEF Wrote
  <1> QED BY <1>1, <1>4, <1>5, <1>6, <1>7, <1>8, <1>9, <1>10, <1>11
-----------------------------------------------------------------------------
(* What remains when a visit begins, for each visit still to come.         *)
Translates(x, u) ==
  \/ u \in Parsed /\ (x = Built[u] \/ x = AsBlock(Built[u]))
  \/ \E v \in Parsed : v.op = "domain2" /\ u = Second(v) /\ (x = InnerOf(v) \/ x = AsBlock(InnerOf(v)))

StandsStmt(w, ts, i) ==
  /\ w[i] \in Stmt /\ i + 1 \in DOMAIN w
  /\ \E u \in Loops : Translates(w[i], u) /\ ts[i] = Cons(u, ts[i + 1])

StandsReturn(w, ts, i) ==
  w[i] = AddedReturn /\ i + 1 \in DOMAIN w /\ ts[i] = <<FallOff("procedure")>>

StandsWhole(w, ts, i) ==
  /\ i + 1 \in DOMAIN w
  /\ \E u \in Parsed : /\ u.op = "block" /\ w[i] = EnsuredReturn("procedure", Built[u])
                       /\ ts[i] = Cons(u, <<FallOff("procedure")>>)

StandsFrame(w, ts, i) ==
  /\ w[i] \in Frames
  /\ w[i].op # "RoutineEnd" => i + 1 \in DOMAIN w
  /\ w[i].op \in LoopEnds => \E m \in Items : ts[i] = Cons(m, ts[i + 1])
  /\ w[i].op \in {"ConditionalEnd", "ElseBranchEnd"} => ts[i] = ts[i + 1]
  /\ w[i].op = "IfBranchEnd" => i + 3 \in DOMAIN w /\ ts[i] = ts[i + 3]
  /\ w[i].op = "RoutineEnd" => ts[i] = <<FallOff("function")>>

Stands(w, ts, i) ==
  \/ StandsStmt(w, ts, i) \/ StandsReturn(w, ts, i) \/ StandsWhole(w, ts, i)
  \/ StandsFrame(w, ts, i)

(* No breakable loop is in progress between two visits.                    *)
NoLoopFrom(w, i, j) == \A k \in DOMAIN w : i <= k /\ k < j => w[k].op \notin BreakEnds

LoopsNest(w, ts) ==
  \A i, j \in DOMAIN w : i <= j /\ w[j].op \in BreakEnds /\ NoLoopFrom(w, i, j) => Within(ts[i], ts[j])

HeadersKnown(w, ts, H) ==
  \A j \in DOMAIN w : w[j].op \in LoopEnds => <<ts[j], w[j].blks[1], 1>> \in H

Sim(w, ts, H, c, p) ==
  /\ ts \in Seq(Todo) /\ Len(ts) = Len(w)
  /\ \A h \in H : Advances(h, c, Known(H, w, ts, c, p))
  /\ \A i \in DOMAIN w : Stands(w, ts, i)
  /\ LoopsNest(w, ts)
  /\ HeadersKnown(w, ts, H)

(* A step that starts the visits X, with Y to remain for them.             *)
Begins(w, ts, X, Y, v, tv) ==
  /\ w \in Visits /\ w # <<>> /\ X \in Visits /\ v = X \o Tail(w)
  /\ ts \in Seq(Todo) /\ Len(ts) = Len(w)
  /\ Y \in Seq(Todo) /\ Len(Y) = Len(X) /\ tv = Y \o Tail(ts)

LEMMA ShiftIs ==
  ASSUME NEW w, NEW ts, NEW X, NEW Y, NEW v, NEW tv, Begins(w, ts, X, Y, v, tv)
  PROVE  /\ v \in Visits /\ tv \in Seq(Todo) /\ Len(tv) = Len(v) /\ DOMAIN v \subseteq Nat
         /\ DOMAIN X = 1 .. Len(X) /\ Len(X) \in Nat /\ DOMAIN w = 1 .. Len(w) /\ Len(w) \in Nat
         /\ DOMAIN v = 1 .. Len(X) + Len(w) - 1
         /\ \A i \in DOMAIN X : i \in DOMAIN v /\ v[i] = X[i] /\ tv[i] = Y[i]
         /\ \A i \in DOMAIN w \ {1} : /\ i + Len(X) - 1 \in DOMAIN v
                                      /\ v[i + Len(X) - 1] = w[i] /\ tv[i + Len(X) - 1] = ts[i]
         /\ \A j \in DOMAIN v \ DOMAIN X : /\ j - Len(X) + 1 \in DOMAIN w \ {1}
                                           /\ v[j] = w[j - Len(X) + 1] /\ tv[j] = ts[j - Len(X) + 1]
  <1>1. /\ w \in Seq(Stmt \union Frames) /\ w # <<>> /\ X \in Seq(Stmt \union Frames)
        /\ v = X \o Tail(w)
    BY DEF Begins, Visits
  <1>2. /\ ts \in Seq(Todo) /\ ts # <<>> /\ Len(ts) = Len(w)
        /\ Y \in Seq(Todo) /\ Len(Y) = Len(X) /\ tv = Y \o Tail(ts)
    BY <1>1 DEF Begins
  <1>3. PICK a, b : a = Tail(w) /\ b = Tail(ts)
    OBVIOUS
  <1>4. /\ a \in Seq(Stmt \union Frames) /\ b \in Seq(Todo)
        /\ Len(w) \in Nat /\ Len(w) >= 1 /\ Len(a) = Len(w) - 1 /\ Len(b) = Len(w) - 1
        /\ DOMAIN w = 1 .. Len(w) /\ DOMAIN ts = 1 .. Len(w)
    BY <1>1, <1>2, <1>3
  <1>5. /\ \A i \in 1 .. Len(w) - 1 : a[i] = w[i + 1]
        /\ \A i \in 1 .. Len(w) - 1 : b[i] = ts[i + 1]
    BY <1>1, <1>2, <1>3, <1>4
  <1>6. /\ v \in Seq(Stmt \union Frames) /\ tv \in Seq(Todo)
        /\ Len(X) \in Nat /\ DOMAIN X = 1 .. Len(X)
        /\ Len(v) = Len(X) + Len(a) /\ Len(tv) = Len(X) + Len(b)
        /\ DOMAIN v = 1 .. Len(v)
    <2>1. v = X \o a /\ tv = Y \o b
      BY <1>1, <1>2, <1>3
    <2>2. v \in Seq(Stmt \union Frames) /\ Len(v) = Len(X) + Len(a)
      BY <1>1, <1>4, <2>1
    <2>3. tv \in Seq(Todo) /\ Len(tv) = Len(Y) + Len(b)
      <3>1. Y \in Seq(Todo) /\ b \in Seq(Todo)
        BY <1>2, <1>4
      <3>2. Y \o b \in Seq(Todo) /\ Len(Y \o b) = Len(Y) + Len(b)
        BY <3>1
      <3> QED BY <2>1, <3>2
    <2> QED BY <1>1, <1>2, <2>2, <2>3
  <1>7. \A i \in 1 .. Len(X) : v[i] = X[i] /\ tv[i] = Y[i]
    BY <1>1, <1>2, <1>3, <1>4
  <1>8. \A i \in Len(X) + 1 .. Len(v) : v[i] = a[i - Len(X)] /\ tv[i] = b[i - Len(X)]
    BY <1>1, <1>2, <1>3, <1>4, <1>6
  <1>9. ASSUME NEW j \in DOMAIN v \ DOMAIN X
        PROVE  /\ j - Len(X) + 1 \in DOMAIN w \ {1}
               /\ v[j] = w[j - Len(X) + 1] /\ tv[j] = ts[j - Len(X) + 1]
    <2>1. j \in Len(X) + 1 .. Len(v) /\ j - Len(X) \in 1 .. Len(w) - 1
      BY <1>4, <1>6, <1>9
    <2> QED BY <1>4, <1>5, <1>8, <2>1
  <1>10. ASSUME NEW i \in DOMAIN w \ {1}
         PROVE  /\ i + Len(X) - 1 \in DOMAIN v
                /\ v[i + Len(X) - 1] = w[i] /\ tv[i + Len(X) - 1] = ts[i]
    <2>1. PICK j : j = i + Len(X) - 1
      OBVIOUS
    <2>2. j \in DOMAIN v \ DOMAIN X /\ j - Len(X) + 1 = i
      BY <1>4, <1>6, <1>10, <2>1, SMTT(30)
    <2> QED BY <1>9, <2>1, <2>2
  <1>11. \A i \in DOMAIN X : i \in DOMAIN v
    BY <1>4, <1>6
  <1>12. v \in Visits /\ Len(tv) = Len(v) /\ DOMAIN v \subseteq Nat /\ Len(v) = Len(X) + Len(w) - 1
    BY <1>4, <1>6 DEF Visits
  <1> QED BY <1>4, <1>6, <1>7, <1>9, <1>10, <1>11, <1>12

(* A visit that was under the one on top is one of those before.           *)
LEMMA ShiftBack ==
  ASSUME NEW w, NEW ts, NEW X, NEW Y, NEW v, NEW tv, Begins(w, ts, X, Y, v, tv),
         NEW j \in DOMAIN v, j \notin DOMAIN X, NEW i, i = j - Len(X) + 1
  PROVE  /\ i \in DOMAIN w \ {1} /\ v[j] = w[i] /\ tv[j] = ts[i]
         /\ i \in Nat /\ i > 1 /\ j \in Nat /\ Len(X) \in Nat
  <1>1. /\ DOMAIN v \subseteq Nat /\ Len(X) \in Nat
        /\ DOMAIN w = 1 .. Len(w) /\ Len(w) \in Nat
    BY ShiftIs
  <1>2. \A k \in DOMAIN v \ DOMAIN X : /\ k - Len(X) + 1 \in DOMAIN w \ {1}
                                       /\ v[k] = w[k - Len(X) + 1] /\ tv[k] = ts[k - Len(X) + 1]
    BY ShiftIs
  <1>3. i \in DOMAIN w \ {1} /\ v[j] = w[i] /\ tv[j] = ts[i]
    BY <1>2
  <1>4. i \in Nat /\ i > 1
    BY <1>1, <1>3
  <1> QED BY <1>1, <1>3, <1>4

(* What was known stays known.                                             *)
LEMMA KnownKept ==
  ASSUME NEW w, NEW ts, NEW X, NEW Y, NEW v, NEW tv, Begins(w, ts, X, Y, v, tv),
         NEW H, NEW G, H \subseteq G, NEW c, NEW p, NEW d, NEW q,
         <<ts[1], p, Here(c, p)>> \in Known(G, v, tv, d, q),
         \A b \in Owned(w[1]) : 2 \in DOMAIN w => <<ts[2], b, 1>> \in Known(G, v, tv, d, q)
  PROVE  Known(H, w, ts, c, p) \subseteq Known(G, v, tv, d, q)
  <1> SUFFICES ASSUME NEW h \in Waits(w, ts, c, p)
               PROVE  h \in Known(G, v, tv, d, q)
    BY DEF Known
  <1>1. CASE h = <<ts[1], p, Here(c, p)>>
    BY <1>1
  <1>2. ASSUME NEW i \in DOMAIN w, i + 1 \in DOMAIN w, NEW b \in Owned(w[i]), h = <<ts[i + 1], b, 1>>
        PROVE  h \in Known(G, v, tv, d, q)
    <2>1. CASE i = 1
      <3>1. i + 1 = 2
        BY <2>1
      <3> QED BY <1>2, <2>1, <3>1
    <2>2. CASE i # 1
      <3>1. PICK j : j = i + Len(X) - 1
        OBVIOUS
      <3>2. i \in Nat /\ i + 1 # 1 /\ Len(X) \in Nat /\ i + 1 + Len(X) - 1 = j + 1
        BY <3>1, ShiftIs
      <3>3. j \in DOMAIN v /\ v[j] = w[i]
        BY <2>2, <3>1, ShiftIs
      <3>4. j + 1 \in DOMAIN v /\ tv[j + 1] = ts[i + 1]
        <4>1. i + 1 \in DOMAIN w \ {1}
          BY <1>2, <3>2
        <4>2. i + 1 + Len(X) - 1 \in DOMAIN v /\ tv[i + 1 + Len(X) - 1] = ts[i + 1]
          BY <4>1, ShiftIs
        <4> QED BY <3>2, <4>2
      <3>5. <<tv[j + 1], b, 1>> \in Waits(v, tv, d, q)
        BY <1>2, <3>3, <3>4, WaitsOwned
      <3> QED BY <1>2, <3>4, <3>5 DEF Known
    <2> QED BY <2>1, <2>2
  <1> QED BY <1>1, <1>2, WaitsOnly

LEMMA StandsShift ==
  ASSUME NEW w, NEW ts, NEW X, NEW Y, NEW v, NEW tv, Begins(w, ts, X, Y, v, tv),
         NEW j \in DOMAIN v \ DOMAIN X, Stands(w, ts, j - Len(X) + 1)
  PROVE  Stands(v, tv, j)
  <1>1. PICK i : i = j - Len(X) + 1
    OBVIOUS
  <1>2. i \in DOMAIN w \ {1} /\ v[j] = w[i] /\ tv[j] = ts[i]
    BY <1>1, ShiftBack
  <1>3. i \in Nat /\ i > 1 /\ j \in Nat /\ Len(X) \in Nat
    BY <1>1, ShiftBack
  <1>4. ASSUME NEW n \in {1, 3}, i + n \in DOMAIN w
        PROVE  j + n \in DOMAIN v /\ tv[j + n] = ts[i + n]
    <2>1. i + n \in DOMAIN w \ {1} /\ i + n + Len(X) - 1 = j + n
      BY <1>1, <1>3, <1>4
    <2>2. i + n + Len(X) - 1 \in DOMAIN v /\ tv[i + n + Len(X) - 1] = ts[i + n]
      BY <2>1, ShiftIs
    <2> QED BY <2>1, <2>2
  <1>5. /\ i + 1 \in DOMAIN w => j + 1 \in DOMAIN v /\ tv[j + 1] = ts[i + 1]
        /\ i + 3 \in DOMAIN w => j + 3 \in DOMAIN v /\ tv[j + 3] = ts[i + 3]
    BY <1>4
  <1>6. StandsStmt(w, ts, i) => StandsStmt(v, tv, j)
    BY <1>2, <1>5 DEF StandsStmt
  <1>7. StandsReturn(w, ts, i) => StandsReturn(v, tv, j)
    BY <1>2, <1>5 DEF StandsReturn
  <1>8. StandsWhole(w, ts, i) => StandsWhole(v, tv, j)
    BY <1>2, <1>5 DEF StandsWhole
  <1>9. ASSUME StandsFrame(w, ts, i)
        PROVE  StandsFrame(v, tv, j)
    <2>1. w[i].op \in LoopEnds \union CondEnds => w[i].op # "RoutineEnd"
      BY DEF LoopEnds, CondEnds
    <2>2. w[i].op \in LoopEnds \union CondEnds => i + 1 \in DOMAIN w
      BY <1>9, <2>1 DEF StandsFrame
    <2> QED BY <1>2, <1>5, <1>9, <2>2 DEF StandsFrame, CondEnds
  <1> QED BY <1>1, <1>6, <1>7, <1>8, <1>9 DEF Stands

(* The visits started nest in the loops in progress.                       *)
NestsNew(X, Y, T) ==
  /\ \A i, j \in DOMAIN X : i <= j /\ X[j].op \in BreakEnds /\ NoLoopFrom(X, i, j) => Within(Y[i], Y[j])
  /\ \A i \in DOMAIN X : (\A k \in DOMAIN X : i <= k => X[k].op \notin BreakEnds) =>
       \A S : Within(T, S) => Within(Y[i], S)

LEMMA NestShift ==
  ASSUME NEW w, NEW ts, NEW X, NEW Y, NEW v, NEW tv, Begins(w, ts, X, Y, v, tv),
         LoopsNest(w, ts), NestsNew(X, Y, ts[1]), X # <<>> => w[1].op \notin BreakEnds
  PROVE  LoopsNest(v, tv)
  <1> SUFFICES ASSUME NEW i \in DOMAIN v, NEW j \in DOMAIN v, i <= j, v[j].op \in BreakEnds,
                      NoLoopFrom(v, i, j)
               PROVE  Within(tv[i], tv[j])
    BY DEF LoopsNest
  <1>0. /\ DOMAIN v = 1 .. Len(X) + Len(w) - 1 /\ DOMAIN X = 1 .. Len(X) /\ Len(X) \in Nat
        /\ DOMAIN w = 1 .. Len(w) /\ Len(w) \in Nat
    BY ShiftIs
  <1>1. \A k \in DOMAIN X : k \in DOMAIN v /\ v[k] = X[k] /\ tv[k] = Y[k]
    BY ShiftIs
  <1>2. \A k \in DOMAIN w \ {1} : k + Len(X) - 1 \in DOMAIN v /\ v[k + Len(X) - 1] = w[k]
    BY ShiftIs
  <1>3. CASE j \in DOMAIN X
    <2>1. i \in DOMAIN X
      <3>1. i \in Nat /\ i >= 1 /\ j \in Nat /\ j <= Len(X)
        BY <1>0, <1>3
      <3> QED BY <1>0, <3>1
    <2>2. NoLoopFrom(X, i, j)
      BY <1>1 DEF NoLoopFrom
    <2> QED BY <1>1, <1>3, <2>1, <2>2 DEF NestsNew
  <1>4. CASE j \notin DOMAIN X
    <2>1. PICK m : m = j - Len(X) + 1
      OBVIOUS
    <2>2. m \in DOMAIN w \ {1} /\ v[j] = w[m] /\ tv[j] = ts[m]
      BY <1>4, <2>1, ShiftBack
    <2>3. ASSUME NEW n \in DOMAIN w, n <= m, n >= 2 => i <= n + Len(X) - 1,
                 n = 1 => w[1].op \notin BreakEnds /\ i <= Len(X) + 1
          PROVE  Within(ts[n], tv[j])
      <3>1. NoLoopFrom(w, n, m)
        <4> SUFFICES ASSUME NEW k \in DOMAIN w, n <= k, k < m
                     PROVE  w[k].op \notin BreakEnds
          BY DEF NoLoopFrom
        <4>1. CASE k = 1
          <5>1. n = 1
            BY <1>0, <4>1
          <5> QED BY <2>3, <4>1, <5>1
        <4>2. CASE k # 1
          <5>1. k + Len(X) - 1 \in DOMAIN v /\ v[k + Len(X) - 1] = w[k]
            BY <1>2, <4>2
          <5>2. i <= k + Len(X) - 1 /\ k + Len(X) - 1 < j
            BY <1>0, <2>1, <2>3, <4>2, SMTT(30)
          <5> QED BY <5>1, <5>2 DEF NoLoopFrom
        <4> QED BY <4>1, <4>2
      <3> QED BY <2>2, <2>3, <3>1 DEF LoopsNest
    <2>4. CASE i \in DOMAIN X
      <3>1. X # <<>> /\ 1 \in DOMAIN w /\ 1 <= m /\ i <= Len(X) + 1
        BY <1>0, <2>2, <2>4
      <3>2. Within(ts[1], tv[j])
        BY <2>3, <3>1
      <3>3. \A k \in DOMAIN X : i <= k => X[k].op \notin BreakEnds
        <4>1. \A k \in DOMAIN X : k < j
          BY <1>0, <1>4
        <4> QED BY <1>1, <4>1 DEF NoLoopFrom
      <3> QED BY <1>1, <2>4, <3>2, <3>3 DEF NestsNew
    <2>5. CASE i \notin DOMAIN X
      <3>1. PICK n : n = i - Len(X) + 1
        OBVIOUS
      <3>2. n \in DOMAIN w \ {1} /\ tv[i] = ts[n]
        BY <2>5, <3>1, ShiftBack
      <3>3. n <= m /\ i <= n + Len(X) - 1 /\ n # 1
        BY <1>0, <2>1, <3>1, <3>2
      <3> QED BY <2>3, <3>2, <3>3
    <2> QED BY <2>4, <2>5
  <1> QED BY <1>3, <1>4

LEMMA HeadersShift ==
  ASSUME NEW w, NEW ts, NEW X, NEW Y, NEW v, NEW tv, Begins(w, ts, X, Y, v, tv),
         NEW H, NEW G, H \subseteq G, HeadersKnown(w, ts, H), HeadersKnown(X, Y, G)
  PROVE  HeadersKnown(v, tv, G)
  <1> SUFFICES ASSUME NEW j \in DOMAIN v, v[j].op \in LoopEnds
               PROVE  <<tv[j], v[j].blks[1], 1>> \in G
    BY DEF HeadersKnown
  <1>1. CASE j \in DOMAIN X
    <2>1. v[j] = X[j] /\ tv[j] = Y[j]
      BY <1>1, ShiftIs
    <2> QED BY <1>1, <2>1 DEF HeadersKnown
  <1>2. CASE j \notin DOMAIN X
    <2>1. PICK i : i = j - Len(X) + 1
      OBVIOUS
    <2>2. i \in DOMAIN w /\ v[j] = w[i] /\ tv[j] = ts[i]
      BY <1>2, <2>1, ShiftBack
    <2> QED BY <2>2 DEF HeadersKnown
  <1> QED BY <1>1, <1>2

(* What a step adds, G to the visits known before it.                      *)
Adds(w, ts, X, Y, v, tv, H, G, c, p, d, q) ==
  /\ Begins(w, ts, X, Y, v, tv) /\ H \subseteq G /\ Grows(c, d)
  /\ <<ts[1], p, Here(c, p)>> \in Known(G, v, tv, d, q)
  /\ \A b \in Owned(w[1]) : 2 \in DOMAIN w => <<ts[2], b, 1>> \in Known(G, v, tv, d, q)
  /\ \A h \in G \ H : Advances(h, d, Known(G, v, tv, d, q))
  /\ \A i \in DOMAIN X : Stands(v, tv, i)
  /\ NestsNew(X, Y, ts[1])
  /\ X # <<>> => w[1].op \notin BreakEnds
  /\ HeadersKnown(X, Y, G)

LEMMA SimVisit ==
  ASSUME NEW w, NEW ts, NEW X, NEW Y, NEW v, NEW tv, NEW H, NEW G, NEW c, NEW p, NEW d, NEW q,
         Sim(w, ts, H, c, p), Adds(w, ts, X, Y, v, tv, H, G, c, p, d, q)
  PROVE  Sim(v, tv, G, d, q) /\ Known(H, w, ts, c, p) \subseteq Known(G, v, tv, d, q)
  <1>1. Known(H, w, ts, c, p) \subseteq Known(G, v, tv, d, q)
    BY KnownKept DEF Adds
  <1>2. \A h \in G : Advances(h, d, Known(G, v, tv, d, q))
    BY <1>1, AdvancesGrow DEF Sim, Adds
  <1>3. \A i \in DOMAIN v : Stands(v, tv, i)
    <2>1. ASSUME NEW i \in DOMAIN v \ DOMAIN X
          PROVE  Stands(v, tv, i)
      <3>1. i - Len(X) + 1 \in DOMAIN w
        BY ShiftIs DEF Adds
      <3> QED BY <3>1, StandsShift DEF Sim, Adds
    <2> QED BY <2>1 DEF Adds
  <1>4. LoopsNest(v, tv)
    BY NestShift DEF Sim, Adds
  <1>5. HeadersKnown(v, tv, G)
    BY HeadersShift DEF Sim, Adds
  <1>6. tv \in Seq(Todo) /\ Len(tv) = Len(v)
    BY ShiftIs DEF Adds
  <1> QED BY <1>1, <1>2, <1>3, <1>4, <1>5, <1>6 DEF Sim
-----------------------------------------------------------------------------
(* What the next statement to visit is to do.                              *)
LEMMA ShapeIs ==
  ASSUME WhilesHaveBlocks, NEW t \in Parsed
  PROVE  Shape(t, Built[t])
  <1>1. CASE t.op \in {"while", "dowhile"}
    <2>1. t.kids[1] \in Parsed /\ t.kids[1].op = "block"
      BY <1>1, ParsedForm DEF WhilesHaveBlocks
    <2>2. Built[t.kids[1]].op = "block"
      BY <2>1, BuiltNode DEF Shape
    <2> QED BY <2>2, BuiltNode
  <1>2. CASE t.op \notin {"while", "dowhile"}
    BY <1>2, BuiltNode
  <1> QED BY <1>1, <1>2

LEMMA StmtNoFrame ==
  ASSUME NEW x \in Stmt
  PROVE  /\ x.op \in Ops /\ x.op \notin FrameOps /\ Owned(x) = {}
         /\ x.op \notin LoopEnds /\ x.op \notin BreakEnds
  <1>1. x.op \in Ops
    BY StmtAssumption
  <1>2. Ops \intersect FrameOps = {}
    BY DEF Ops, FrameOps, LoopEnds, CondEnds
  <1>3. LoopEnds \subseteq FrameOps /\ CondEnds \subseteq FrameOps /\ "RoutineEnd" \in FrameOps
        /\ BreakEnds \subseteq LoopEnds
    BY DEF FrameOps, BreakEnds
  <1> QED BY <1>1, <1>2, <1>3 DEF Owned

AsStands(x, T, R) == \E u \in Loops : Translates(x, u) /\ T = Cons(u, R)

LEMMA TopStands ==
  ASSUME GenInv, NEW ts, NEW H, Sim(work, ts, H, code, ip), work # <<>>, Top \in Stmt
  PROVE  /\ 2 \in DOMAIN work /\ ts[1] \in Todo /\ ts[2] \in Todo
         /\ \/ AsStands(Top, ts[1], ts[2])
            \/ StandsReturn(work, ts, 1)
            \/ StandsWhole(work, ts, 1)
  <1>1. 1 \in DOMAIN work /\ Top = work[1] /\ Stands(work, ts, 1)
    BY WorkForm DEF Sim
  <1>2. ~StandsFrame(work, ts, 1)
    <2>1. \A f \in Frames : f.op \in FrameOps
      BY DEF Frames
    <2> QED BY <1>1, <2>1, StmtNoFrame DEF StandsFrame
  <1>3. 1 + 1 = 2
    OBVIOUS
  <1>4. 2 \in DOMAIN work
    BY <1>1, <1>2, <1>3 DEF Stands, StandsStmt, StandsReturn, StandsWhole
  <1>5. ts \in Seq(Todo) /\ DOMAIN ts = DOMAIN work
    BY WorkForm DEF Sim, Visits
  <1>6. ts[1] \in Todo /\ ts[2] \in Todo
    BY <1>1, <1>4, <1>5
  <1>7. StandsStmt(work, ts, 1) => AsStands(Top, ts[1], ts[2])
    BY <1>1, <1>3 DEF StandsStmt, AsStands
  <1> QED BY <1>1, <1>2, <1>4, <1>6, <1>7 DEF Stands

LEMMA AsBlockOp ==
  ASSUME NEW x
  PROVE  AsBlock(x).op = "block" /\ (x.op # "block" => AsBlock(x).kids = <<x>>)
                                 /\ (x.op = "block" => AsBlock(x) = x)
  BY DEF AsBlock

LEMMA InnerIs ==
  ASSUME NEW v
  PROVE  /\ InnerOf(v).op = "inner" /\ InnerOf(v).at = Append(v.at, 0)
         /\ InnerOf(v).kids = <<AsBlock(Built[v.kids[1]])>>
         /\ InnerOf(v).kids[1] = AsBlock(Built[v.kids[1]])
         /\ Second(v).op = "second" /\ Second(v).at = Append(v.at, 0) /\ Second(v).kids = v.kids
  BY DEF InnerOf, InnerLoop, Second

LEMMA WholeIsBlock ==
  ASSUME WhilesHaveBlocks, NEW u \in Parsed, u.op = "block"
  PROVE  /\ EnsuredReturn("procedure", Built[u]).op = "block"
         /\ EnsuredReturn("procedure", Built[u]).kids = Append(Built[u].kids, AddedReturn)
  <1>1. Built[u] = [u EXCEPT !.kids = OnKids(Built, u)]
    BY BuiltIs, ParsedForm DEF BuildNode, Leaf
  <1>2. Built[u].op = "block" /\ DOMAIN Built[u] = {"op", "at", "kids"}
    BY <1>1, ParsedForm, ShapeIs DEF Shape
  <1> QED BY <1>2 DEF EnsuredReturn

(* The statement the visited node was built from, and what then remains.   *)
From(u, T, R) == u \in Parsed /\ Top = Built[u] /\ Shape(u, Top) /\ T = Cons(u, R)

LEMMA TopFrom ==
  ASSUME WhilesHaveBlocks, GenInv, NEW ts, NEW H, Sim(work, ts, H, code, ip),
         work # <<>>, Top \in Stmt, Top.op \notin {"return", "block", "inner"}
  PROVE  \E u : /\ From(u, ts[1], ts[2])
                /\ u.op \in (IF Top.op = "domain" THEN {"domain", "domain2"} ELSE {Top.op})
  <1>1. Top = work[1]
    BY DEF Top
  <1>2. ~StandsReturn(work, ts, 1)
    BY <1>1 DEF StandsReturn, AddedReturn
  <1>3. ~StandsWhole(work, ts, 1)
    BY <1>1, WholeIsBlock DEF StandsWhole
  <1>4. PICK u \in Loops : Translates(Top, u) /\ ts[1] = Cons(u, ts[2])
    BY <1>2, <1>3, TopStands DEF AsStands
  <1>5. u \in Parsed /\ Top = Built[u]
    BY <1>4, AsBlockOp, InnerIs DEF Translates
  <1>6. Shape(u, Top)
    BY <1>5, ShapeIs
  <1>7. u.op \in (IF Top.op = "domain" THEN {"domain", "domain2"} ELSE {Top.op})
    <2>1. Top.op = IF u.op = "domain2" THEN "domain" ELSE u.op
      BY <1>6 DEF Shape
    <2> QED BY <2>1
  <1> QED BY <1>4, <1>5, <1>6, <1>7 DEF From

LEMMA TopInner ==
  ASSUME WhilesHaveBlocks, GenInv, NEW ts, NEW H, Sim(work, ts, H, code, ip),
         work # <<>>, Top \in Stmt, Top.op = "inner"
  PROVE  \E v \in Parsed : v.op = "domain2" /\ Top = InnerOf(v) /\ ts[1] = Cons(Second(v), ts[2])
  <1>1. Top = work[1]
    BY DEF Top
  <1>2. ~StandsReturn(work, ts, 1)
    BY <1>1 DEF StandsReturn, AddedReturn
  <1>3. ~StandsWhole(work, ts, 1)
    BY <1>1, WholeIsBlock DEF StandsWhole
  <1>4. PICK u \in Loops : Translates(Top, u) /\ ts[1] = Cons(u, ts[2])
    BY <1>2, <1>3, TopStands DEF AsStands
  <1>5. \A t \in Parsed : Built[t].op # "inner"
    BY ShapeIs, ParsedForm DEF Shape, Leaf, Bodied
  <1> QED BY <1>4, <1>5, AsBlockOp DEF Translates

LEMMA TopReturn ==
  ASSUME WhilesHaveBlocks, GenInv, NEW ts, NEW H, Sim(work, ts, H, code, ip),
         work # <<>>, Top \in Stmt, Top.op = "return"
  PROVE  ts[1][1].op = "return" /\ ts[1][1].at = Top.at
  <1>1. Top = work[1]
    BY DEF Top
  <1>2. ~StandsWhole(work, ts, 1)
    BY <1>1, WholeIsBlock DEF StandsWhole
  <1>3. CASE StandsReturn(work, ts, 1)
    BY <1>1, <1>3 DEF StandsReturn, AddedReturn, FallOff
  <1>4. CASE AsStands(Top, ts[1], ts[2])
    <2>1. PICK u \in Loops : Translates(Top, u) /\ ts[1] = Cons(u, ts[2])
      BY <1>4 DEF AsStands
    <2>2. u \in Parsed /\ Top = Built[u]
      BY <2>1, AsBlockOp, InnerIs DEF Translates
    <2>3. Top.op = (IF u.op = "domain2" THEN "domain" ELSE u.op) /\ Top.at = u.at
      BY <2>2, ShapeIs DEF Shape
    <2>4. u \in Items /\ ts[2] \in Todo
      BY LoopItems, TopStands
    <2>5. ts[1][1] = u
      BY <2>1, <2>4, ConsIs
    <2> QED BY <2>3, <2>5
  <1> QED BY <1>2, <1>3, <1>4, TopStands
-----------------------------------------------------------------------------
(* A step of code generation keeps the visits known, and adds its own.     *)
SimNow(ts, H)   == Sim(work, ts, H, code, ip)
SimNext(tv, G)  == Sim(work', tv, G, code', ip')
KnownNow(ts, H) == Known(H, work, ts, code, ip)
KnownNext(tv, G) == Known(G, work', tv, code', ip')
SimKept(ts, H) == \E tv, G : SimNext(tv, G) /\ KnownNow(ts, H) \subseteq KnownNext(tv, G)

CurrentVisit(T) == <<T, ip, Here(code, ip)>>
NextVisit(T)    == <<T, ip', Here(code', ip')>>

LEMMA SimForm ==
  ASSUME GenInv, NEW ts, NEW H, SimNow(ts, H)
  PROVE  /\ ts \in Seq(Todo) /\ DOMAIN ts = DOMAIN work /\ Len(ts) = Len(work)
         /\ \A i \in DOMAIN work : ts[i] \in Todo /\ Stands(work, ts, i)
  <1>1. ts \in Seq(Todo) /\ DOMAIN ts = DOMAIN work /\ Len(ts) = Len(work)
    BY WorkForm DEF SimNow, Sim, Visits
  <1>2. \A i \in DOMAIN ts : ts[i] \in Todo
    BY <1>1
  <1> QED BY <1>1, <1>2 DEF SimNow, Sim

LEMMA UnderBegins ==
  ASSUME GenInv, NEW ts, NEW H, SimNow(ts, H), work # <<>>, work' = Under
  PROVE  /\ Begins(work, ts, <<>>, <<>>, work', Tail(ts))
         /\ 2 \in DOMAIN work => 1 \in DOMAIN work' /\ Tail(ts)[1] = ts[2]
  <1>1. /\ work \in Seq(Stmt \union Frames) /\ ts \in Seq(Todo) /\ Len(ts) = Len(work)
        /\ DOMAIN ts = DOMAIN work
    BY WorkForm, SimForm DEF Visits
  <1>2. PICK a, b : a = Tail(work) /\ b = Tail(ts)
    OBVIOUS
  <1>3. a \in Seq(Stmt \union Frames) /\ ts # <<>>
    BY <1>1, <1>2
  <1>4. b \in Seq(Todo) /\ (2 \in DOMAIN ts => 1 \in DOMAIN b /\ b[1] = ts[2]) /\ Len(b) = Len(ts) - 1
    BY <1>1, <1>2, <1>3
  <1>5. <<>> \o a = a
    BY <1>3
  <1>6. <<>> \o b = b
    BY <1>4
  <1>7. (2 \in DOMAIN work => 1 \in DOMAIN a)
    BY <1>1, <1>2, <1>3
  <1>8. work' = <<>> \o Tail(work) /\ work' = a /\ Tail(ts) = <<>> \o Tail(ts)
    BY <1>2, <1>5, <1>6 DEF Under
  <1>9. <<>> \in Visits /\ work \in Visits /\ <<>> \in Seq(Todo) /\ Len(<<>>) = Len(<<>>)
    BY <1>1 DEF Visits
  <1> QED BY <1>1, <1>2, <1>4, <1>7, <1>8, <1>9 DEF Begins

(* Steps that start no visit.                                              *)
LEMMA UnderKnown ==
  ASSUME GenInv, NEW ts, NEW H, SimNow(ts, H), work # <<>>, 2 \in DOMAIN work, work' = Under,
         NEW G, H \subseteq G, CurrentVisit(ts[1]) \in KnownNext(Tail(ts), G),
         \A b \in Owned(Top) : b = ip' /\ Here(code', ip') = 1
  PROVE  /\ KnownNow(ts, H) \subseteq KnownNext(Tail(ts), G)
         /\ NextVisit(ts[2]) \in KnownNext(Tail(ts), G)
  <1>1. Begins(work, ts, <<>>, <<>>, work', Tail(ts)) /\ 1 \in DOMAIN work' /\ Tail(ts)[1] = ts[2]
    BY UnderBegins
  <1>2. NextVisit(ts[2]) \in Waits(work', Tail(ts), code', ip')
    BY <1>1, WaitsHere DEF NextVisit
  <1>3. NextVisit(ts[2]) \in KnownNext(Tail(ts), G)
    BY <1>2 DEF KnownNext, Known
  <1>4. \A b \in Owned(work[1]) : 2 \in DOMAIN work => <<ts[2], b, 1>> \in Known(G, work', Tail(ts), code', ip')
    BY <1>3 DEF Top, NextVisit, KnownNext
  <1>5. <<ts[1], ip, Here(code, ip)>> \in Known(G, work', Tail(ts), code', ip')
    BY DEF CurrentVisit, KnownNext
  <1>6. KnownNow(ts, H) \subseteq KnownNext(Tail(ts), G)
    BY <1>1, <1>4, <1>5, KnownKept DEF KnownNow, KnownNext
  <1> QED BY <1>3, <1>6

LEMMA SimUnder ==
  ASSUME GenInv, NEW ts, NEW H, SimNow(ts, H), work # <<>>, work' = Under,
         Grows(code, code'), NEW G, H \subseteq G, CurrentVisit(ts[1]) \in KnownNext(Tail(ts), G),
         2 \in DOMAIN work => \A b \in Owned(Top) : b = ip' /\ Here(code', ip') = 1,
         \A h \in G \ H : Advances(h, code', KnownNext(Tail(ts), G))
  PROVE  SimKept(ts, H)
  <1>1. Begins(work, ts, <<>>, <<>>, work', Tail(ts))
    BY UnderBegins
  <1>2. ASSUME NEW b \in Owned(work[1]), 2 \in DOMAIN work
        PROVE  <<ts[2], b, 1>> \in Known(G, work', Tail(ts), code', ip')
    <2>1. 1 \in DOMAIN work' /\ Tail(ts)[1] = ts[2]
      BY <1>2, UnderBegins
    <2>2. b = ip' /\ Here(code', ip') = 1
      BY <1>2 DEF Top
    <2>3. <<ts[2], b, 1>> \in Waits(work', Tail(ts), code', ip')
      BY <2>1, <2>2, WaitsHere
    <2> QED BY <2>3 DEF Known
  <1>3. DOMAIN <<>> = {}
    OBVIOUS
  <1>4. NestsNew(<<>>, <<>>, ts[1])
    BY <1>3 DEF NestsNew
  <1>5. HeadersKnown(<<>>, <<>>, G)
    BY <1>3 DEF HeadersKnown
  <1>6. \A i \in DOMAIN <<>> : Stands(work', Tail(ts), i)
    BY <1>3
  <1>7. <<ts[1], ip, Here(code, ip)>> \in Known(G, work', Tail(ts), code', ip')
    BY DEF CurrentVisit, KnownNext
  <1>8. /\ Sim(work', Tail(ts), G, code', ip')
        /\ Known(H, work, ts, code, ip) \subseteq Known(G, work', Tail(ts), code', ip')
    <2>1. Sim(work, ts, H, code, ip)
      BY DEF SimNow
    <2>2. \A h \in G \ H : Advances(h, code', Known(G, work', Tail(ts), code', ip'))
      BY DEF KnownNext
    <2>3. \A b \in Owned(work[1]) : 2 \in DOMAIN work => <<ts[2], b, 1>> \in Known(G, work', Tail(ts), code', ip')
      BY <1>2
    <2>4. Adds(work, ts, <<>>, <<>>, work', Tail(ts), H, G, code, ip, code', ip')
      BY <1>1, <1>4, <1>5, <1>6, <1>7, <2>2, <2>3 DEF Adds
    <2> QED BY <2>1, <2>4, SimVisit
  <1> QED BY <1>8 DEF SimKept, SimNext, KnownNow, KnownNext

(* The ways to go on.                                                      *)
LEMMA BySource ==
  ASSUME NEW T, NEW b, NEW n, NEW d, NEW K, ~Shows(T), NEW R, Quiet(T) = R, <<R, b, n>> \in K
  PROVE  Advances(<<T, b, n>>, d, K)
  BY DEF Advances, AdvancesAt, SourceMoves

LEMMA ByCode ==
  ASSUME NEW T, NEW b, NEW n, NEW d, NEW K, b \in DOMAIN d, n \in DOMAIN d[b],
         NEW target, d[b][n] = Br(target), <<T, target, 1>> \in K
  PROVE  Advances(<<T, b, n>>, d, K)
  <1>1. d[b][n].op = "br" /\ d[b][n].to[1] = target
    BY DEF Br
  <1>2. CodeMoves(T, d[b], n, K)
    BY <1>1 DEF CodeMoves
  <1> QED BY <1>2 DEF Advances, AdvancesAt

LEMMA ByDoing ==
  ASSUME NEW T, NEW b, NEW n, NEW d, NEW K, b \in DOMAIN d, n \in DOMAIN d[b],
         NEW i, d[b][n] = i, i.op \in {"do", "enter"}, Shows(T), Observed(T) = <<i.op, i.at>>,
         NEW R, Resumed(T, TRUE) = R, <<R, b, n + 1>> \in K
  PROVE  Advances(<<T, b, n>>, d, K)
  <1>1. SameShown(T, d[b], n, b, K)
    BY DEF SameShown
  <1> QED BY <1>1 DEF Advances, AdvancesAt

LEMMA ByTesting ==
  ASSUME NEW T, NEW b, NEW d, NEW K, b \in DOMAIN d,
         NEW t, NEW yes, NEW no, d[b] = <<Eval(t), CondBr(yes, no)>>,
         Shows(T), Observed(T) = <<"eval", t.at>>,
         NEW R, Resumed(T, TRUE) = R, <<R, yes, 1>> \in K,
         NEW S, Resumed(T, FALSE) = S, <<S, no, 1>> \in K
  PROVE  Advances(<<T, b, 1>>, d, K)
  <1>1. /\ 1 \in DOMAIN d[b] /\ 1 + 1 \in DOMAIN d[b]
        /\ d[b][1] = Eval(t) /\ d[b][1 + 1] = CondBr(yes, no)
    OBVIOUS
  <1>2. d[b][1].op = "eval" /\ d[b][1].at = t.at
    BY <1>1 DEF Eval
  <1>3. d[b][1 + 1].to[1] = yes /\ d[b][1 + 1].to[2] = no
    BY <1>1 DEF CondBr
  <1>4. SameShown(T, d[b], 1, b, K)
    BY <1>1, <1>2, <1>3 DEF SameShown
  <1> QED BY <1>1, <1>4 DEF Advances, AdvancesAt

LEMMA ByEnding ==
  ASSUME NEW T, NEW b, NEW n, NEW d, NEW K, b \in DOMAIN d, n \in DOMAIN d[b],
         NEW i, d[b][n] = i, i.op \in {"ret", "unreachable"}, Shows(T),
         Observed(T) = <<i.op, IF i.op = "unreachable" THEN << 0 >> ELSE i.at>>
  PROVE  Advances(<<T, b, n>>, d, K)
  <1>1. SameShown(T, d[b], n, b, K)
    BY DEF SameShown
  <1> QED BY <1>1 DEF Advances, AdvancesAt

LEMMA ActIs ==
  ASSUME NEW T, T[1].op = "act"
  PROVE  Shows(T) /\ Observed(T) = <<"do", T[1].at>> /\ Resumed(T, TRUE) = Tail(T)
  <1>1. Shows(T) /\ Observed(T) = <<Seen["act"], T[1].at>>
    BY ShowsIs DEF SeenOps
  <1> QED BY <1>1, SeenIs, ResumedIs

(* The visits a step adds, if it starts none.                              *)
LEMMA SimPlain ==
  ASSUME WhilesHaveBlocks, GenInv, NEW ts, NEW H, SimNow(ts, H), visitPlain
  PROVE  SimKept(ts, H)
  <1>1. /\ work # <<>> /\ Top \in Stmt /\ Top.op = "act"
        /\ Wrote(0, <<Do(Top)>>) /\ ip' = ip /\ work' = Under
    BY PlainStep
  <1>2. PICK u : From(u, ts[1], ts[2]) /\ u.op = "act"
    BY <1>1, TopFrom DEF SimNow
  <1>3. /\ 2 \in DOMAIN work /\ ts[2] \in Todo /\ u \in Items
    BY <1>1, <1>2, TopStands, LoopItems DEF SimNow, From, Loops
  <1>4. ts[1][1] = u /\ Tail(ts[1]) = ts[2]
    BY <1>2, <1>3, ConsIs DEF From
  <1>5. Shows(ts[1]) /\ Observed(ts[1]) = <<"do", u.at>> /\ Resumed(ts[1], TRUE) = ts[2]
    BY <1>2, <1>4, ActIs
  <1>6. Top.at = u.at
    BY <1>2 DEF From, Shape
  <1>7. PICK s : s = <<Do(Top)>>
    OBVIOUS
  <1>8. Len(s) = 1 /\ s # <<>> /\ s[1] = Do(Top) /\ Wrote(0, s)
    BY <1>1, <1>7
  <1>9. /\ Grows(code, code') /\ ip \in DOMAIN code' /\ Here(code, ip) \in DOMAIN code'[ip]
        /\ code'[ip][Here(code, ip)] = Do(Top) /\ Here(code', ip) = Here(code, ip) + 1
    BY <1>8, WroteGrows
  <1>10. PICK G : G = H \union {CurrentVisit(ts[1])}
    OBVIOUS
  <1>11. CurrentVisit(ts[1]) \in KnownNext(Tail(ts), G)
    BY <1>10 DEF KnownNext, Known
  <1>12. \A b \in Owned(Top) : b = ip' /\ Here(code', ip') = 1
    BY <1>1, StmtNoFrame
  <1>13. NextVisit(ts[2]) \in KnownNext(Tail(ts), G)
    BY <1>1, <1>3, <1>10, <1>11, <1>12, UnderKnown
  <1>14. <<ts[2], ip, Here(code, ip) + 1>> \in KnownNext(Tail(ts), G)
    BY <1>1, <1>9, <1>13 DEF NextVisit
  <1>15. Advances(CurrentVisit(ts[1]), code', KnownNext(Tail(ts), G))
    <2>1. Do(Top).op \in {"do", "enter"} /\ Observed(ts[1]) = <<Do(Top).op, Do(Top).at>>
      BY <1>5, <1>6 DEF Do
    <2> QED BY <1>5, <1>9, <1>14, <2>1, ByDoing, Zenon DEF CurrentVisit
  <1> QED BY <1>1, <1>9, <1>10, <1>11, <1>12, <1>15, SimUnder

LEMMA SimReturn ==
  ASSUME WhilesHaveBlocks, GenInv, NEW ts, NEW H, SimNow(ts, H), visitReturn
  PROVE  SimKept(ts, H)
  <1>1. Top.op = "return" /\ Moved(<<Ret(Top)>>)
    BY ReturnStep
  <1>2. work # <<>> /\ Top \in Stmt /\ work' = Under /\ Wrote(1, <<Ret(Top)>>)
    BY <1>1 DEF Moved
  <1>3. ts[1][1].op = "return" /\ ts[1][1].at = Top.at
    BY <1>1, <1>2, TopReturn DEF SimNow
  <1>4. Shows(ts[1]) /\ Observed(ts[1]) = <<"ret", Top.at>>
    <2>1. Shows(ts[1]) /\ Observed(ts[1]) = <<Seen["return"], Top.at>>
      BY <1>3, ShowsIs DEF SeenOps
    <2> QED BY <2>1, SeenIs
  <1>5. PICK s : s = <<Ret(Top)>>
    OBVIOUS
  <1>6. Len(s) = 1 /\ s # <<>> /\ s[1] = Ret(Top) /\ Wrote(1, s)
    BY <1>2, <1>5
  <1>7. /\ Grows(code, code') /\ ip \in DOMAIN code' /\ Here(code, ip) \in DOMAIN code'[ip]
        /\ code'[ip][Here(code, ip)] = Ret(Top)
    BY <1>6, WroteGrows
  <1>8. PICK G : G = H \union {CurrentVisit(ts[1])}
    OBVIOUS
  <1>9. Advances(CurrentVisit(ts[1]), code', KnownNext(Tail(ts), G))
    <2>1. /\ Ret(Top).op \in {"ret", "unreachable"}
          /\ Observed(ts[1]) = <<Ret(Top).op, IF Ret(Top).op = "unreachable" THEN << 0 >> ELSE Ret(Top).at>>
      BY <1>4 DEF Ret
    <2> QED BY <1>4, <1>7, <2>1, ByEnding, Zenon DEF CurrentVisit
  <1>10. CurrentVisit(ts[1]) \in KnownNext(Tail(ts), G)
    BY <1>8 DEF KnownNext, Known
  <1>11. \A b \in Owned(Top) : b = ip' /\ Here(code', ip') = 1
    BY <1>2, StmtNoFrame
  <1> QED BY <1>2, <1>7, <1>8, <1>9, <1>10, <1>11, SimUnder

(* break and continue: the source leaves its loop, and the code follows.   *)
LEMMA SimJump ==
  ASSUME GenInv, NEW ts, NEW H, SimNow(ts, H), NEW target, Moved(<<Br(target)>>), 2 \in DOMAIN work,
         ~Shows(ts[1]), NEW R, Quiet(ts[1]) = R, <<R, target, 1>> \in KnownNow(ts, H)
  PROVE  SimKept(ts, H)
  <1>2. work # <<>> /\ Top \in Stmt /\ work' = Under /\ Wrote(1, <<Br(target)>>)
    BY DEF Moved
  <1>5. PICK s : s = <<Br(target)>>
    OBVIOUS
  <1>6. Len(s) = 1 /\ s # <<>> /\ s[1] = Br(target) /\ Wrote(1, s)
    BY <1>2, <1>5
  <1>7. /\ Grows(code, code') /\ ip \in DOMAIN code' /\ Here(code, ip) \in DOMAIN code'[ip]
        /\ code'[ip][Here(code, ip)] = Br(target)
    BY <1>6, WroteGrows
  <1>8. PICK G : G = H \union {CurrentVisit(ts[1]), CurrentVisit(R)}
    OBVIOUS
  <1>9. CurrentVisit(ts[1]) \in KnownNext(Tail(ts), G) /\ CurrentVisit(R) \in KnownNext(Tail(ts), G)
    BY <1>8 DEF KnownNext, Known
  <1>10. \A b \in Owned(Top) : b = ip' /\ Here(code', ip') = 1
    BY <1>2, StmtNoFrame
  <1>11. KnownNow(ts, H) \subseteq KnownNext(Tail(ts), G)
    BY <1>2, <1>8, <1>9, <1>10, UnderKnown
  <1>12. Advances(CurrentVisit(R), code', KnownNext(Tail(ts), G))
    <2>1. <<R, target, 1>> \in KnownNext(Tail(ts), G)
      BY <1>11
    <2> QED BY <1>7, <2>1, ByCode, Zenon DEF CurrentVisit
  <1>13. Advances(CurrentVisit(ts[1]), code', KnownNext(Tail(ts), G))
    BY <1>7, <1>9, BySource, Zenon DEF CurrentVisit
  <1> QED BY <1>2, <1>7, <1>8, <1>9, <1>10, <1>12, <1>13, SimUnder

LEMMA WithinLoop ==
  ASSUME WhilesHaveBlocks, GenInv, NEW ts, NEW H, SimNow(ts, H), NEW j \in DOMAIN work, InnermostLoop(j),
         work # <<>>, Top \in Stmt, Top.op \in {"break", "continue"}
  PROVE  /\ 2 \in DOMAIN work /\ ts[1][1].op = Top.op /\ ~Shows(ts[1])
         /\ Quiet(ts[1]) = IF Top.op = "break" THEN ts[j + 1] ELSE ts[j]
         /\ <<ts[j + 1], work[j].blks[2], 1>> \in KnownNow(ts, H)
         /\ <<ts[j], work[j].blks[1], 1>> \in KnownNow(ts, H)
  <1>1. PICK u : From(u, ts[1], ts[2]) /\ u.op = Top.op
    BY TopFrom DEF SimNow
  <1>2. /\ 2 \in DOMAIN work /\ ts[2] \in Todo /\ u \in Items
    BY <1>1, TopStands, LoopItems DEF SimNow, From, Loops
  <1>3. ts[1][1] = u
    BY <1>1, <1>2, ConsIs DEF From
  <1>4. ~Shows(ts[1])
    <2>1. u.op \notin SeenOps \union {"mark"}
      BY <1>1 DEF SeenOps
    <2> QED BY <1>3, <2>1, ShowsIs
  <1>5. Within(ts[1], ts[j])
    <2>1. 1 \in DOMAIN work /\ 1 <= j /\ \A k \in DOMAIN work : k \in Nat /\ k >= 1 /\ (k < j => k \in 1 .. j - 1)
      BY WorkForm DEF Visits
    <2>2. NoLoopFrom(work, 1, j)
      BY <2>1 DEF NoLoopFrom, InnermostLoop
    <2> QED BY <2>1, <2>2 DEF SimNow, Sim, LoopsNest, InnermostLoop
  <1>6. work[j].op \in LoopEnds /\ work[j].op \notin {"RoutineEnd"} /\ work[j] \in Frames
        /\ Owned(work[j]) = {work[j].blks[2]}
    <2>1. work[j] \in Stmt \union Frames
      BY WorkForm DEF Visits
    <2>2. work[j].op \in LoopEnds
      BY BreakIsLoop
    <2>3. "RoutineEnd" \notin LoopEnds
      BY DEF LoopEnds
    <2> QED BY <2>1, <2>2, <2>3, BreakIsLoop, StmtNoFrame
  <1>7. StandsFrame(work, ts, j)
    <2>1. Stands(work, ts, j)
      BY SimForm
    <2>2. work[j] \notin Stmt
      BY <1>6, StmtNoFrame
    <2>3. AddedReturn.op \notin LoopEnds
      BY DEF AddedReturn, LoopEnds
    <2>4. "block" \notin LoopEnds
      BY DEF LoopEnds
    <2> QED BY <1>6, <2>1, <2>2, <2>3, <2>4, WholeIsBlock DEF Stands, StandsStmt, StandsReturn, StandsWhole
  <1>8. j + 1 \in DOMAIN work /\ \E m \in Items : ts[j] = Cons(m, ts[j + 1])
    BY <1>6, <1>7 DEF StandsFrame
  <1>9. Tail(ts[j]) = ts[j + 1]
    BY <1>8, SimForm, ConsIs
  <1>10. Quiet(ts[1]) = IF Top.op = "break" THEN ts[j + 1] ELSE ts[j]
    <2>1. NextRound(ts[1]) = ts[j] /\ AfterLoop(ts[1]) = ts[j + 1]
      BY <1>5, <1>9 DEF Within
    <2>2. CASE Top.op = "break"
      BY <1>1, <1>3, <2>1, <2>2, QuietIs
    <2>3. CASE Top.op = "continue"
      <3>1. Quiet(ts[1]) = NextRound(ts[1])
        BY <1>1, <1>3, <2>3, QuietIs
      <3> QED BY <2>1, <2>3, <3>1
    <2> QED BY <2>2, <2>3
  <1>11. <<ts[j + 1], work[j].blks[2], 1>> \in KnownNow(ts, H)
    <2>1. <<ts[j + 1], work[j].blks[2], 1>> \in Waits(work, ts, code, ip)
      BY <1>6, <1>8, WaitsOwned
    <2> QED BY <2>1 DEF KnownNow, Known
  <1>12. <<ts[j], work[j].blks[1], 1>> \in KnownNow(ts, H)
    BY <1>6 DEF SimNow, Sim, HeadersKnown, KnownNow, Known
  <1> QED BY <1>1, <1>2, <1>3, <1>4, <1>10, <1>11, <1>12

LEMMA SimBreak ==
  ASSUME WhilesHaveBlocks, GenInv, NEW ts, NEW H, SimNow(ts, H), visitBreak
  PROVE  SimKept(ts, H)
  <1>1. PICK j \in DOMAIN work : Top.op = "break" /\ InnermostLoop(j) /\ Moved(<<Br(work[j].blks[2])>>)
    BY BreakStep
  <1>2. work # <<>> /\ Top \in Stmt
    BY <1>1 DEF Moved
  <1>3. /\ 2 \in DOMAIN work /\ ~Shows(ts[1]) /\ Quiet(ts[1]) = ts[j + 1]
        /\ <<ts[j + 1], work[j].blks[2], 1>> \in KnownNow(ts, H)
    BY <1>1, <1>2, WithinLoop
  <1> QED BY <1>1, <1>3, SimJump, Zenon

LEMMA SimContinue ==
  ASSUME WhilesHaveBlocks, GenInv, NEW ts, NEW H, SimNow(ts, H), visitContinue
  PROVE  SimKept(ts, H)
  <1>1. PICK j \in DOMAIN work : Top.op = "continue" /\ InnermostLoop(j) /\ Moved(<<Br(work[j].blks[1])>>)
    BY ContinueStep
  <1>2. work # <<>> /\ Top \in Stmt
    BY <1>1 DEF Moved
  <1>3. /\ 2 \in DOMAIN work /\ ~Shows(ts[1]) /\ Quiet(ts[1]) = ts[j]
        /\ <<ts[j], work[j].blks[1], 1>> \in KnownNow(ts, H)
    BY <1>1, <1>2, WithinLoop
  <1> QED BY <1>1, <1>3, SimJump, Zenon

(* The end of a loop or of a branch.                                       *)
LEMMA TopFrame ==
  ASSUME GenInv, NEW ts, NEW H, SimNow(ts, H), work # <<>>, Top.op \in FrameOps
  PROVE  1 \in DOMAIN work /\ Top = work[1] /\ StandsFrame(work, ts, 1)
  <1>0. 1 \in DOMAIN work /\ Top = work[1]
    BY WorkForm
  <1>1. Stands(work, ts, 1)
    BY <1>0, SimForm
  <1>2. Top.op \in FrameOps
    OBVIOUS
  <1>3. Top \notin Stmt
    BY <1>2, StmtNoFrame
  <1>4. AddedReturn.op \notin FrameOps /\ "block" \notin FrameOps
    BY DEF AddedReturn, FrameOps, LoopEnds, CondEnds
  <1>5. ASSUME NEW u \in Parsed, u.op = "block", Top = EnsuredReturn("procedure", Built[u])
        PROVE  FALSE
    <2>1. DOMAIN Built[u] = {"op", "at", "kids"} /\ Built[u].op = "block"
      <3>1. Built[u] = [u EXCEPT !.kids = OnKids(Built, u)]
        BY <1>5, BuiltIs, ParsedForm DEF BuildNode, Leaf
      <3> QED BY <1>5, <3>1, ParsedForm
    <2>2. EnsuredReturn("procedure", Built[u]).op = "block"
      BY <2>1 DEF EnsuredReturn
    <2> QED BY <1>2, <1>4, <1>5, <2>2
  <1> QED BY <1>0, <1>1, <1>2, <1>3, <1>4, <1>5 DEF Stands, StandsStmt, StandsReturn, StandsWhole

LEMMA SimEnded ==
  ASSUME GenInv, Paired, NEW ts, NEW H, SimNow(ts, H), NEW target, Ended(target)
  PROVE  SimKept(ts, H)
  <1>1. /\ work # <<>> /\ Top \in Frames /\ Top.op \in LoopEnds \union CondEnds
        /\ Wrote(0, <<Br(target)>>) /\ Owned(Top) = {ip'} /\ work' = Under
        /\ target = Top.blks[IF Top.op = "IfBranchEnd" THEN 2 ELSE 1]
    BY DEF Ended
  <1>2. 1 \in DOMAIN work /\ Top = work[1]
    BY <1>1, WorkForm
  <1>3. StandsFrame(work, ts, 1)
    BY <1>1, TopFrame DEF FrameOps
  <1>4. 2 \in DOMAIN work
    <2>1. Top.op # "RoutineEnd" /\ 1 + 1 = 2
      BY <1>1 DEF LoopEnds, CondEnds
    <2> QED BY <1>2, <1>3, <2>1 DEF StandsFrame
  <1>5. Here(code', ip') = 1 /\ ip' \in DOMAIN code' /\ ip' # ip
    <2>1. ip' \in Owned(work[1])
      BY <1>1, <1>2
    <2>2. ip' \in DOMAIN code /\ ip' # ip /\ code[ip'] = <<>>
      BY <1>2, <2>1 DEF GenInv, BlockInv, WaitingInv
    <2>3. code'[ip'] = <<>> /\ ip' \in DOMAIN code'
      BY <1>1, <2>2 DEF Wrote
    <2> QED BY <2>2, <2>3 DEF Here
  <1>6. PICK s : s = <<Br(target)>>
    OBVIOUS
  <1>7. Len(s) = 1 /\ s # <<>> /\ s[1] = Br(target) /\ Wrote(0, s)
    BY <1>1, <1>6
  <1>8. /\ Grows(code, code') /\ ip \in DOMAIN code' /\ Here(code, ip) \in DOMAIN code'[ip]
        /\ code'[ip][Here(code, ip)] = Br(target)
    BY <1>7, WroteGrows
  <1>9. PICK G : G = H \union {CurrentVisit(ts[1])}
    OBVIOUS
  <1>10. CurrentVisit(ts[1]) \in KnownNext(Tail(ts), G)
    BY <1>9 DEF KnownNext, Known
  <1>11. \A b \in Owned(Top) : b = ip' /\ Here(code', ip') = 1
    BY <1>1, <1>5
  <1>12. /\ KnownNow(ts, H) \subseteq KnownNext(Tail(ts), G)
         /\ NextVisit(ts[2]) \in KnownNext(Tail(ts), G)
    BY <1>1, <1>4, <1>9, <1>10, <1>11, UnderKnown
  <1>13. <<ts[1], target, 1>> \in KnownNext(Tail(ts), G)
    <2>1. CASE Top.op \in LoopEnds
      <3>1. target = work[1].blks[1]
        BY <1>1, <1>2, <2>1 DEF LoopEnds
      <3>2. <<ts[1], target, 1>> \in H
        BY <1>2, <2>1, <3>1 DEF SimNow, Sim, HeadersKnown
      <3> QED BY <1>12, <3>2 DEF KnownNow, Known
    <2>2. CASE Top.op \in {"ConditionalEnd", "ElseBranchEnd"}
      <3>1. ts[1] = ts[1 + 1]
        BY <1>2, <1>3, <2>2 DEF StandsFrame
      <3>2. target = ip'
        <4>1. target = Top.blks[1]
          BY <1>1, <2>2
        <4>2. Owned(Top) = {Top.blks[1]}
          BY <2>2 DEF Owned, LoopEnds, CondEnds
        <4> QED BY <1>1, <4>1, <4>2
      <3>3. ts[1] = ts[2]
        BY <3>1
      <3> QED BY <1>5, <1>12, <3>2, <3>3 DEF NextVisit
    <2>3. CASE Top.op = "IfBranchEnd"
      <3>1. 4 \in DOMAIN work /\ ts[1] = ts[4]
        <4>1. 1 + 3 = 4
          OBVIOUS
        <4> QED BY <1>2, <1>3, <2>3, <4>1 DEF StandsFrame
      <3>2. 3 \in DOMAIN work /\ work[3].op = "ElseBranchEnd" /\ work[3].blks[1] = target
        <4>1. 1 + 2 = 3
          OBVIOUS
        <4> QED BY <1>1, <1>2, <2>3, <4>1 DEF Paired
      <3>3. target \in Owned(work[3])
        BY <3>2 DEF Owned, LoopEnds, CondEnds
      <3>4. <<ts[3 + 1], target, 1>> \in Waits(work, ts, code, ip)
        <4>1. 3 + 1 \in DOMAIN work
          BY <3>1
        <4> QED BY <3>2, <3>3, <4>1, WaitsOwned
      <3> QED BY <1>12, <3>1, <3>4 DEF KnownNow, Known
    <2> QED BY <1>1, <2>1, <2>2, <2>3 DEF CondEnds
  <1>14. Advances(CurrentVisit(ts[1]), code', KnownNext(Tail(ts), G))
    BY <1>8, <1>13, ByCode, Zenon DEF CurrentVisit
  <1> QED BY <1>1, <1>4, <1>8, <1>9, <1>10, <1>11, <1>14, SimUnder
-----------------------------------------------------------------------------
(* Steps that start the visit of a body, and leave a frame below it.       *)
NewBody(y, f, a, b, T, R) ==
  /\ a \in Todo /\ b \in Todo /\ AsStands(y, a, b)
  /\ f.op \in LoopEnds => \E m \in Items : b = Cons(m, R)
  /\ f.op = "ConditionalEnd" => b = R
  /\ f.op \in BreakEnds => Within(b, b)
  /\ f.op \notin BreakEnds => \A S : Within(T, S) => Within(b, S)

LEMMA LoopsNoMarks ==
  ASSUME NEW u \in Loops
  PROVE  u.op # "mark" /\ u \in Items
  <1>1. \A t \in Parsed : t.op # "mark"
    BY ParsedForm DEF Leaf, Bodied
  <1> QED BY <1>1, LoopItems DEF Loops, Second

OpensBody(y, f, a, b, X, Y, ts, tv) ==
  /\ X \in Visits /\ Len(X) = 2 /\ X[1] = y /\ X[2] = f /\ work' = X \o Under
  /\ Y \in Seq(Todo) /\ Len(Y) = 2 /\ Y[1] = a /\ Y[2] = b /\ tv = Y \o Tail(ts)

LEMMA BodyOpens ==
  ASSUME NEW y \in Stmt, NEW f \in Frames, work' = <<y, f>> \o Under,
         NEW a \in Todo, NEW b \in Todo, NEW ts
  PROVE  \E X, Y, tv : OpensBody(y, f, a, b, X, Y, ts, tv)
  <1>1. PICK X : X = <<y, f>>
    OBVIOUS
  <1>2. PICK Y : Y = <<a, b>>
    OBVIOUS
  <1>3. PICK tv : tv = Y \o Tail(ts)
    OBVIOUS
  <1>4. X \in Visits /\ Len(X) = 2 /\ X[1] = y /\ X[2] = f /\ work' = X \o Under
    BY <1>1 DEF Visits
  <1>5. Y \in Seq(Todo) /\ Len(Y) = 2 /\ Y[1] = a /\ Y[2] = b
    BY <1>2
  <1>6. OpensBody(y, f, a, b, X, Y, ts, tv)
    BY <1>3, <1>4, <1>5 DEF OpensBody
  <1> QED BY <1>6

LEMMA BodyBegins ==
  ASSUME GenInv, NEW ts, NEW H, SimNow(ts, H), work # <<>>, 2 \in DOMAIN work,
         NEW y, NEW f, NEW a, NEW b, NEW X, NEW Y, NEW tv, OpensBody(y, f, a, b, X, Y, ts, tv)
  PROVE  /\ Begins(work, ts, X, Y, work', tv)
         /\ DOMAIN X = {1, 2} /\ X[1] = y /\ X[2] = f /\ Y[1] = a /\ Y[2] = b
         /\ 1 \in DOMAIN work' /\ 2 \in DOMAIN work' /\ 3 \in DOMAIN work'
         /\ work'[1] = y /\ work'[2] = f /\ tv[1] = a /\ tv[2] = b /\ tv[3] = ts[2]
  <1>1. /\ X \in Visits /\ Y \in Seq(Todo) /\ Len(X) = 2 /\ Len(Y) = 2
        /\ X[1] = y /\ X[2] = f /\ Y[1] = a /\ Y[2] = b
    BY DEF OpensBody
  <1>0. DOMAIN X = {1, 2}
    BY <1>1 DEF Visits
  <1>2. work \in Visits /\ ts \in Seq(Todo) /\ Len(ts) = Len(work)
    BY WorkForm, SimForm
  <1>3. work' = X \o Tail(work) /\ tv = Y \o Tail(ts)
    BY DEF Under, OpensBody
  <1>4. Begins(work, ts, X, Y, work', tv)
    BY <1>1, <1>2, <1>3 DEF Begins
  <1>6. \A i \in DOMAIN X : i \in DOMAIN work' /\ work'[i] = X[i] /\ tv[i] = Y[i]
    BY <1>4, ShiftIs
  <1>7. \A i \in DOMAIN work \ {1} : /\ i + Len(X) - 1 \in DOMAIN work'
                                     /\ work'[i + Len(X) - 1] = work[i] /\ tv[i + Len(X) - 1] = ts[i]
    BY <1>4, ShiftIs
  <1>8. 2 + Len(X) - 1 = 3 /\ 2 \in DOMAIN work \ {1}
    BY <1>1
  <1>9. 3 \in DOMAIN work' /\ tv[3] = ts[2]
    BY <1>7, <1>8
  <1> QED BY <1>0, <1>1, <1>4, <1>6, <1>9

LEMMA BodyKnown ==
  ASSUME GenInv, NEW ts, NEW H, SimNow(ts, H), work # <<>>, Top \in Stmt, 2 \in DOMAIN work,
         NEW y, NEW f, NEW a, NEW b, NEW X, NEW Y, NEW tv, OpensBody(y, f, a, b, X, Y, ts, tv),
         NEW G, H \subseteq G, CurrentVisit(ts[1]) \in G
  PROVE  /\ KnownNow(ts, H) \subseteq KnownNext(tv, G)
         /\ NextVisit(a) \in KnownNext(tv, G)
         /\ \A q \in Owned(f) : <<ts[2], q, 1>> \in KnownNext(tv, G)
         /\ G \subseteq KnownNext(tv, G)
  <1>2. /\ Begins(work, ts, X, Y, work', tv)
        /\ 1 \in DOMAIN work' /\ 2 \in DOMAIN work' /\ 3 \in DOMAIN work'
        /\ work'[1] = y /\ work'[2] = f /\ tv[1] = a /\ tv[2] = b /\ tv[3] = ts[2]
    BY BodyBegins
  <1>3. G \subseteq KnownNext(tv, G)
    BY DEF KnownNext, Known
  <1>4. NextVisit(a) \in KnownNext(tv, G)
    <2>1. <<tv[1], ip', Here(code', ip')>> \in Waits(work', tv, code', ip')
      BY <1>2, WaitsHere
    <2> QED BY <1>2, <2>1 DEF NextVisit, KnownNext, Known
  <1>5. ASSUME NEW q \in Owned(f)
        PROVE  <<ts[2], q, 1>> \in KnownNext(tv, G)
    <2>1. 2 + 1 = 3
      OBVIOUS
    <2>2. <<tv[2 + 1], q, 1>> \in Waits(work', tv, code', ip')
      <3>1. 2 + 1 \in DOMAIN work' /\ q \in Owned(work'[2])
        BY <1>2, <1>5, <2>1
      <3> QED BY <1>2, <3>1, WaitsOwned
    <2> QED BY <1>2, <2>1, <2>2 DEF KnownNext, Known
  <1>6. KnownNow(ts, H) \subseteq KnownNext(tv, G)
    <2>1. Owned(work[1]) = {}
      BY StmtNoFrame DEF Top
    <2>2. <<ts[1], ip, Here(code, ip)>> \in Known(G, work', tv, code', ip')
      BY <1>3 DEF CurrentVisit, KnownNext
    <2>3. \A q \in Owned(work[1]) : 2 \in DOMAIN work => <<ts[2], q, 1>> \in Known(G, work', tv, code', ip')
      BY <2>1
    <2> QED BY <1>2, <2>2, <2>3, KnownKept DEF KnownNow, KnownNext
  <1> QED BY <1>3, <1>4, <1>5, <1>6

LEMMA SimBody ==
  ASSUME GenInv, NEW ts, NEW H, SimNow(ts, H), work # <<>>, Top \in Stmt, NEW y \in Stmt, NEW f \in Frames,
         f.op \in LoopEnds \/ f.op = "ConditionalEnd",
         NEW a, NEW b, NewBody(y, f, a, b, ts[1], ts[2]),
         NEW X, NEW Y, NEW tv, OpensBody(y, f, a, b, X, Y, ts, tv),
         Grows(code, code'), NEW G, H \subseteq G, CurrentVisit(ts[1]) \in G,
         f.op \in LoopEnds => <<b, f.blks[1], 1>> \in G,
         \A h \in G \ H : Advances(h, code', KnownNext(tv, G))
  PROVE  SimKept(ts, H)
  <1>0. 2 \in DOMAIN work /\ a \in Todo /\ b \in Todo
    BY TopStands DEF SimNow, NewBody
  <1>2. /\ Begins(work, ts, X, Y, work', tv)
        /\ DOMAIN X = {1, 2} /\ X[1] = y /\ X[2] = f /\ Y[1] = a /\ Y[2] = b
        /\ 1 \in DOMAIN work' /\ 2 \in DOMAIN work' /\ 3 \in DOMAIN work'
        /\ work'[1] = y /\ work'[2] = f /\ tv[1] = a /\ tv[2] = b /\ tv[3] = ts[2]
    BY <1>0, BodyBegins
  <1>3. /\ KnownNow(ts, H) \subseteq KnownNext(tv, G)
        /\ CurrentVisit(ts[1]) \in KnownNext(tv, G)
    BY <1>0, BodyKnown
  <1>4. Stands(work', tv, 1)
    <2>1. 1 + 1 = 2
      OBVIOUS
    <2>2. \E u \in Loops : Translates(work'[1], u) /\ tv[1] = Cons(u, tv[2])
      BY <1>2 DEF NewBody, AsStands
    <2>3. StandsStmt(work', tv, 1)
      BY <1>2, <2>1, <2>2 DEF StandsStmt
    <2> QED BY <2>3 DEF Stands
  <1>5. Stands(work', tv, 2)
    <2>1. 2 + 1 = 3
      OBVIOUS
    <2>2. f.op \notin {"ElseBranchEnd", "IfBranchEnd", "RoutineEnd"}
      BY DEF LoopEnds
    <2>3. f.op \in LoopEnds => f.op # "ConditionalEnd"
      BY DEF LoopEnds
    <2>4. f.op \in LoopEnds => \E m \in Items : tv[2] = Cons(m, tv[3])
      BY <1>2 DEF NewBody
    <2>5. f.op = "ConditionalEnd" => tv[2] = tv[3]
      BY <1>2 DEF NewBody
    <2>6. StandsFrame(work', tv, 2)
      BY <1>2, <2>1, <2>2, <2>4, <2>5 DEF StandsFrame
    <2> QED BY <2>6 DEF Stands
  <1>6. NestsNew(X, Y, ts[1])
    <2>1. PICK u \in Loops : a = Cons(u, b)
      BY DEF NewBody, AsStands
    <2>2. \A S : Within(a, S) <=> Within(b, S)
      BY <1>0, <2>1, LoopsNoMarks, WithinCons
    <2>3. y.op \notin BreakEnds
      BY StmtNoFrame
    <2>4. ASSUME NEW i \in DOMAIN X, NEW j \in DOMAIN X, i <= j, X[j].op \in BreakEnds
          PROVE  Within(Y[i], Y[j])
      <3>1. j = 2 /\ f.op \in BreakEnds /\ (i = 1 \/ i = 2)
        BY <1>2, <2>3, <2>4
      <3> QED BY <1>2, <2>2, <3>1 DEF NewBody
    <2>5. ASSUME NEW i \in DOMAIN X, \A k \in DOMAIN X : i <= k => X[k].op \notin BreakEnds,
                 NEW S, Within(ts[1], S)
          PROVE  Within(Y[i], S)
      <3>1. f.op \notin BreakEnds
        <4>1. i <= 2 /\ 2 \in DOMAIN X
          BY <1>2
        <4> QED BY <1>2, <2>5, <4>1
      <3>2. Within(b, S)
        BY <2>5, <3>1 DEF NewBody
      <3> QED BY <1>2, <2>2, <3>2
    <2> QED BY <2>4, <2>5 DEF NestsNew
  <1>7. HeadersKnown(X, Y, G)
    <2>1. y.op \notin LoopEnds
      BY StmtNoFrame
    <2> QED BY <1>2, <2>1 DEF HeadersKnown
  <1>8. Adds(work, ts, X, Y, work', tv, H, G, code, ip, code', ip')
    <2>1. Owned(work[1]) = {} /\ work[1].op \notin BreakEnds
      BY StmtNoFrame DEF Top
    <2>2. \A i \in DOMAIN X : Stands(work', tv, i)
      BY <1>2, <1>4, <1>5
    <2>3. <<ts[1], ip, Here(code, ip)>> \in Known(G, work', tv, code', ip')
      BY <1>3 DEF CurrentVisit, KnownNext
    <2>4. \A h \in G \ H : Advances(h, code', Known(G, work', tv, code', ip'))
      BY DEF KnownNext
    <2> QED BY <1>2, <1>6, <1>7, <2>1, <2>2, <2>3, <2>4 DEF Adds
  <1>9. Sim(work', tv, G, code', ip')
    BY <1>8, SimVisit DEF SimNow
  <1> QED BY <1>3, <1>9 DEF SimKept, SimNext
-----------------------------------------------------------------------------
(* What loops and conditionals mean, one step at a time.                   *)
Evals(T, at, yes, no) ==
  /\ Shows(T) /\ Observed(T) = <<"eval", at>>
  /\ Resumed(T, TRUE) = yes /\ Resumed(T, FALSE) = no

LEMMA ByEval ==
  ASSUME NEW T, NEW b, NEW d, NEW K, b \in DOMAIN d,
         NEW t, NEW yes, NEW no, d[b] = <<Eval(t), CondBr(yes, no)>>,
         NEW R, NEW S, Evals(T, t.at, R, S), <<R, yes, 1>> \in K, <<S, no, 1>> \in K
  PROVE  Advances(<<T, b, 1>>, d, K)
  <1>1. /\ Shows(T) /\ Observed(T) = <<"eval", t.at>>
        /\ Resumed(T, TRUE) = R /\ Resumed(T, FALSE) = S
    BY DEF Evals
  <1> QED BY <1>1, ByTesting, Zenon

LEMMA MarkMoves ==
  ASSUME NEW u \in Loops, NEW R \in Todo, NEW M, M = Cons(Mark(u), R)
  PROVE  /\ M \in Todo /\ M[1] = Mark(u) /\ Within(M, M)
         /\ u.op # "dowhile" => ~Shows(M)
         /\ u.op \in {"domain", "domain2"} => Quiet(M) = Cons(Round(u), R)
         /\ u.op \in {"loop", "while"} => Quiet(M) = Cons(u, R)
         /\ u.op = "dowhile" => Evals(M, u.at, Cons(u, R), R)
  <1>1. Mark(u) \in Items
    BY LoopItems
  <1>2. Mark(u).op = "mark" /\ Mark(u).at = u.at /\ Mark(u).kids = <<u>> /\ Mark(u).kids[1] = u
    BY DEF Mark
  <1>3. M \in Todo /\ M[1] = Mark(u) /\ Tail(M) = R
    BY <1>1, ConsIs
  <1>4. Within(M, M)
    BY <1>1, <1>2, WithinSelf
  <1>5. (Shows(M) <=> u.op = "dowhile") /\ Observed(M) = <<"eval", u.at>>
    BY <1>2, <1>3, ShowsIs
  <1>6. u.op \in {"domain", "domain2"} => Quiet(M) = Cons(Round(u), R)
    BY <1>2, <1>3, QuietIs
  <1>7. u.op \in {"loop", "while"} => Quiet(M) = Cons(u, R)
    BY <1>2, <1>3, QuietIs
  <1>8. Resumed(M, TRUE) = Cons(u, R) /\ Resumed(M, FALSE) = R
    BY <1>2, <1>3, ResumedIs DEF Cons
  <1>9. u.op = "dowhile" => Evals(M, u.at, Cons(u, R), R)
    BY <1>5, <1>8 DEF Evals
  <1> QED BY <1>3, <1>4, <1>5, <1>6, <1>7, <1>9

LEMMA AroundMoves ==
  ASSUME NEW u \in Loops, u.op = "second", NEW R \in Todo, NEW M, M = Cons(Around(u), R)
  PROVE  M \in Todo /\ ~Shows(M) /\ Quiet(M) = Cons(Round(u), R)
  <1>1. Around(u) \in Items
    BY LoopItems
  <1>2. Around(u).op = "around" /\ Around(u).kids[1] = u
    BY DEF Around
  <1>3. M \in Todo /\ M[1] = Around(u) /\ Tail(M) = R
    BY <1>1, ConsIs
  <1>4. "around" \notin SeenOps \union {"mark"}
    BY DEF SeenOps
  <1>5. ~Shows(M)
    BY <1>2, <1>3, <1>4, ShowsIs
  <1>6. Quiet(M) = Cons(Round(u), R)
    BY <1>2, <1>3, QuietIs
  <1> QED BY <1>3, <1>5, <1>6

LEMMA RoundMoves ==
  ASSUME NEW u \in Loops, NEW R \in Todo, NEW D, D = Cons(Round(u), R),
         u.op # "domain2" => u.kids[1] \in Loops, u.op = "domain2" => Second(u) \in Loops
  PROVE  /\ D \in Todo
         /\ u.op = "domain" => Evals(D, u.at, Cons(u.kids[1], Cons(Mark(u), R)), R)
         /\ u.op = "domain2" => Evals(D, u.at, Cons(Second(u), Cons(Mark(u), R)), R)
         /\ u.op = "second" => Evals(D, u.at, Cons(u.kids[1], Cons(Around(u), R)), R)
  <1>1. Round(u) \in Items /\ Mark(u) \in Items /\ Around(u) \in Items
    BY LoopItems
  <1>2. Round(u).op = "round" /\ Round(u).at = u.at /\ Round(u).kids[1] = u
    BY DEF Round
  <1>3. D \in Todo /\ D[1] = Round(u) /\ Tail(D) = R
    BY <1>1, ConsIs
  <1>4. Shows(D) /\ Observed(D) = <<"eval", u.at>>
    <2>1. Shows(D) /\ Observed(D) = <<Seen["round"], u.at>>
      BY <1>2, <1>3, ShowsIs DEF SeenOps
    <2> QED BY <2>1, SeenIs
  <1>5. Resumed(D, FALSE) = R
    BY <1>2, <1>3, ResumedIs
  <1>6. CASE u.op = "domain"
    <2>1. Resumed(D, TRUE) = <<u.kids[1], Mark(u)>> \o R
      BY <1>2, <1>3, <1>6, RoundIs
    <2>2. u.kids[1] \in Items
      BY <1>6, LoopItems
    <2>3. Resumed(D, TRUE) = Cons(u.kids[1], Cons(Mark(u), R))
      BY <1>1, <2>1, <2>2, ConsTwo
    <2>4. Evals(D, u.at, Cons(u.kids[1], Cons(Mark(u), R)), R)
      BY <1>4, <1>5, <2>3 DEF Evals
    <2> QED BY <1>3, <1>6, <2>4
  <1>7. CASE u.op = "domain2"
    <2>1. Resumed(D, TRUE) = <<Second(u), Mark(u)>> \o R
      BY <1>2, <1>3, <1>7, RoundIs
    <2>2. Second(u) \in Items
      BY <1>7, LoopItems
    <2>3. Resumed(D, TRUE) = Cons(Second(u), Cons(Mark(u), R))
      BY <1>1, <2>1, <2>2, ConsTwo
    <2>4. Evals(D, u.at, Cons(Second(u), Cons(Mark(u), R)), R)
      BY <1>4, <1>5, <2>3 DEF Evals
    <2> QED BY <1>3, <1>7, <2>4
  <1>8. CASE u.op = "second"
    <2>1. Resumed(D, TRUE) = <<u.kids[1], Around(u)>> \o R
      BY <1>2, <1>3, <1>8, RoundIs
    <2>2. u.kids[1] \in Items
      BY <1>8, LoopItems
    <2>3. Resumed(D, TRUE) = Cons(u.kids[1], Cons(Around(u), R))
      BY <1>1, <2>1, <2>2, ConsTwo
    <2>4. Evals(D, u.at, Cons(u.kids[1], Cons(Around(u), R)), R)
      BY <1>4, <1>5, <2>3 DEF Evals
    <2> QED BY <1>3, <1>8, <2>4
  <1> QED BY <1>3, <1>6, <1>7, <1>8

LEMMA EntersIs ==
  ASSUME NEW u \in Loops, u.op \in {"domain", "domain2", "second"}, NEW R \in Todo, NEW T, T = Cons(u, R)
  PROVE  Shows(T) /\ Observed(T) = <<"enter", u.at>> /\ Resumed(T, TRUE) = Cons(Round(u), R)
  <1>1. T[1] = u /\ Tail(T) = R
    BY LoopItems, ConsIs
  <1>2. Shows(T) /\ Observed(T) = <<Seen[u.op], u.at>>
    BY <1>1, ShowsIs DEF SeenOps
  <1> QED BY <1>1, <1>2, SeenIs, ResumedIs

LEMMA WhileIs ==
  ASSUME NEW u \in Loops, u.kids[1] \in Loops, NEW R \in Todo, NEW T, T = Cons(u, R)
  PROVE  /\ u.op \in {"loop", "dowhile"} =>
              ~Shows(T) /\ Quiet(T) = Cons(u.kids[1], Cons(Mark(u), R))
         /\ u.op = "while" => Evals(T, u.at, Cons(u.kids[1], Cons(Mark(u), R)), R)
  <1>1. T[1] = u /\ Tail(T) = R
    BY LoopItems, ConsIs
  <1>2. <<u.kids[1], Mark(u)>> \o R = Cons(u.kids[1], Cons(Mark(u), R))
    BY LoopItems, ConsTwo
  <1>3. CASE u.op \in {"loop", "dowhile"}
    <2>1. u.op \notin SeenOps \union {"mark"}
      BY <1>3 DEF SeenOps
    <2>2. ~Shows(T)
      BY <1>1, <2>1, ShowsIs
    <2>3. Quiet(T) = <<u.kids[1], Mark(u)>> \o R
      BY <1>1, <1>3, QuietIs
    <2> QED BY <1>2, <1>3, <2>2, <2>3
  <1>4. CASE u.op = "while"
    <2>1. Shows(T) /\ Observed(T) = <<Seen["while"], u.at>>
      BY <1>1, <1>4, ShowsIs DEF SeenOps
    <2>2. Resumed(T, TRUE) = <<u.kids[1], Mark(u)>> \o R
      BY <1>1, <1>4, ResumedIs
    <2>3. Resumed(T, FALSE) = R
      BY <1>1, <1>4, ResumedIs
    <2>4. Observed(T) = <<"eval", u.at>>
      BY <2>1, SeenIs
    <2>5. Evals(T, u.at, Cons(u.kids[1], Cons(Mark(u), R)), R)
      BY <1>2, <2>1, <2>2, <2>3, <2>4 DEF Evals
    <2> QED BY <1>4, <2>5
  <1> QED BY <1>3, <1>4

LEMMA IfIs ==
  ASSUME NEW u \in Parsed, NEW R \in Todo, NEW T, T = Cons(u, R)
  PROVE  /\ u.op = "if" => Evals(T, u.at, Cons(u.kids[1], R), R)
         /\ u.op = "ifelse" => Evals(T, u.at, Cons(u.kids[1], R), Cons(u.kids[2], R))
  <1>1. T[1] = u /\ Tail(T) = R
    BY LoopItems, ConsIs DEF Loops
  <1>2. u.op \in {"if", "ifelse"} => Shows(T) /\ Observed(T) = <<Seen[u.op], u.at>>
    BY <1>1, ShowsIs DEF SeenOps
  <1>3. u.op = "if" => u.kids = <<u.kids[1]>>
    <2>1. u.kids \in Seq(Parsed) /\ (u.op = "if" => Len(u.kids) = 1)
      BY ParsedForm
    <2>2. PICK s : s = u.kids
      OBVIOUS
    <2>3. s \in Seq(Parsed) /\ Len(s) = 1 => s = <<s[1]>>
      OBVIOUS
    <2> QED BY <2>1, <2>2, <2>3
  <1>4. u.op = "if" => Resumed(T, TRUE) = u.kids \o R /\ Resumed(T, FALSE) = R
    BY <1>1, ResumedIs
  <1>5. u.op = "ifelse" => Resumed(T, TRUE) = Cons(u.kids[1], R) /\ Resumed(T, FALSE) = Cons(u.kids[2], R)
    BY <1>1, ResumedIs
  <1>6. u.op \in {"if", "ifelse"} => Shows(T) /\ Observed(T) = <<"eval", u.at>>
    BY <1>2, SeenIs
  <1>7. u.op = "if" => Resumed(T, TRUE) = Cons(u.kids[1], R)
    BY <1>3, <1>4 DEF Cons
  <1> QED BY <1>4, <1>5, <1>6, <1>7 DEF Evals

(* The visits that the body of a loop or of a conditional starts.          *)
LEMMA ToLoop ==
  ASSUME NEW y, NEW k \in Loops, Translates(y, k), NEW u \in Loops, NEW R \in Todo, NEW M, M = Cons(Mark(u), R),
         NEW f, f.op \in BreakEnds, NEW T
  PROVE  NewBody(y, f, Cons(k, M), M, T, R)
  <1>1. M \in Todo /\ Within(M, M) /\ Mark(u) \in Items
    BY MarkMoves, LoopItems
  <1>2. Cons(k, M) \in Todo
    BY <1>1, LoopItems, ConsIs
  <1>3. AsStands(y, Cons(k, M), M)
    BY DEF AsStands
  <1>4. f.op # "ConditionalEnd"
    BY DEF BreakEnds, LoopEnds
  <1> QED BY <1>1, <1>2, <1>3, <1>4 DEF NewBody

LEMMA ToInner ==
  ASSUME NEW y, NEW k \in Loops, Translates(y, k), NEW u \in Loops, u.op = "second",
         NEW R \in Todo, NEW M, M = Cons(Around(u), R),
         NEW f, f.op \in LoopEnds, f.op \notin BreakEnds, NEW T, T = Cons(u, R)
  PROVE  NewBody(y, f, Cons(k, M), M, T, R)
  <1>1. M \in Todo /\ Around(u) \in Items
    BY AroundMoves, LoopItems
  <1>2. Cons(k, M) \in Todo
    BY <1>1, LoopItems, ConsIs
  <1>3. AsStands(y, Cons(k, M), M)
    BY DEF AsStands
  <1>4. f.op # "ConditionalEnd"
    BY DEF LoopEnds
  <1>5. ASSUME NEW S, Within(T, S)
        PROVE  Within(M, S)
    <2>1. Within(R, S)
      BY <1>5, LoopsNoMarks, WithinCons
    <2>2. Around(u).op # "mark"
      BY DEF Around
    <2> QED BY <1>1, <2>1, <2>2, WithinCons
  <1> QED BY <1>1, <1>2, <1>3, <1>4, <1>5 DEF NewBody

LEMMA ToBranch ==
  ASSUME NEW y, NEW k \in Loops, Translates(y, k), NEW u \in Loops,
         NEW R \in Todo, NEW f, f.op = "ConditionalEnd", NEW T, T = Cons(u, R)
  PROVE  NewBody(y, f, Cons(k, R), R, T, R)
  <1>2. Cons(k, R) \in Todo
    BY LoopItems, ConsIs
  <1>3. AsStands(y, Cons(k, R), R)
    BY DEF AsStands
  <1>4. f.op \notin LoopEnds /\ f.op \notin BreakEnds
    BY DEF LoopEnds, BreakEnds
  <1>5. \A S : Within(T, S) => Within(R, S)
    BY LoopsNoMarks, WithinCons
  <1> QED BY <1>2, <1>3, <1>4, <1>5 DEF NewBody

LEMMA SimLoop ==
  ASSUME WhilesHaveBlocks, GenInv, NEW ts, NEW H, SimNow(ts, H), visitInfiniteLoop
  PROVE  SimKept(ts, H)
  <1>1. /\ work # <<>> /\ Top \in Stmt /\ Top.op = "loop" /\ Top.kids[1] \in Stmt
        /\ Wrote(2, <<Br(New(1))>>) /\ code'[New(1)] = <<>>
        /\ ip' = New(1)
        /\ work' = <<Top.kids[1], Frame("InfiniteLoopEnd", <<New(1), New(2)>>)>> \o Under
    BY LoopStep
  <1>2. PICK u : From(u, ts[1], ts[2]) /\ u.op = "loop"
    BY <1>1, TopFrom DEF SimNow
  <1>3. 2 \in DOMAIN work /\ ts[2] \in Todo /\ u \in Loops /\ ts[1] = Cons(u, ts[2])
    BY <1>1, <1>2, TopStands DEF SimNow, From, Loops
  <1>4. u.kids[1] \in Loops /\ Top.kids[1] = AsBlock(Built[u.kids[1]]) /\ u.kids[1] \in Parsed
    BY <1>2, ParsedForm DEF From, Shape, Bodied, Loops
  <1>5. Translates(Top.kids[1], u.kids[1])
    BY <1>4 DEF Translates
  <1>6. PICK f : f = Frame("InfiniteLoopEnd", <<New(1), New(2)>>)
    OBVIOUS
  <1>7. f \in Frames /\ f.op \in BreakEnds /\ f.op \in LoopEnds /\ Owned(f) = {New(2)} /\ f.blks[1] = New(1)
    <2>1. New(1) \in Nat /\ New(2) \in Nat
      BY DEF New, GenInv, BlockInv, TypeOK
    <2> QED BY <1>6, <2>1 DEF Frame, Frames, FrameOps, LoopEnds, BreakEnds, Owned
  <1>8. PICK M : M = Cons(Mark(u), ts[2])
    OBVIOUS
  <1>9. PICK a : a = Cons(u.kids[1], M)
    OBVIOUS
  <1>10. NewBody(Top.kids[1], f, a, M, ts[1], ts[2])
    BY <1>3, <1>4, <1>5, <1>7, <1>8, <1>9, ToLoop
  <1>11. a \in Todo /\ M \in Todo
    BY <1>10 DEF NewBody
  <1>12. PICK X, Y, tv : OpensBody(Top.kids[1], f, a, M, X, Y, ts, tv)
    BY <1>1, <1>6, <1>7, <1>11, BodyOpens
  <1>13. PICK G : G = H \union {CurrentVisit(ts[1]), <<ts[1], New(1), 1>>, <<M, New(1), 1>>}
    OBVIOUS
  <1>14. NextVisit(a) \in KnownNext(tv, G) /\ G \subseteq KnownNext(tv, G)
    BY <1>1, <1>3, <1>12, <1>13, BodyKnown, ZenonT(40)
  <1>15. <<a, New(1), 1>> \in KnownNext(tv, G)
    <2>1. Here(code', ip') = 1
      BY <1>1, SMTT(30) DEF Here
    <2> QED BY <1>1, <1>14, <2>1 DEF NextVisit
  <1>16. PICK s : s = <<Br(New(1))>>
    OBVIOUS
  <1>17. Len(s) = 1 /\ s # <<>> /\ s[1] = Br(New(1)) /\ Wrote(2, s)
    BY <1>1, <1>16
  <1>18. /\ Grows(code, code') /\ ip \in DOMAIN code' /\ Here(code, ip) \in DOMAIN code'[ip]
         /\ code'[ip][Here(code, ip)] = Br(New(1))
    BY <1>17, WroteGrows
  <1>19. Advances(CurrentVisit(ts[1]), code', KnownNext(tv, G))
    <2>1. <<ts[1], New(1), 1>> \in KnownNext(tv, G)
      BY <1>13, <1>14
    <2> QED BY <1>18, <2>1, ByCode, Zenon DEF CurrentVisit
  <1>20. Advances(<<ts[1], New(1), 1>>, code', KnownNext(tv, G))
    <2>1. ~Shows(ts[1]) /\ Quiet(ts[1]) = a
      BY <1>2, <1>3, <1>4, <1>8, <1>9, WhileIs
    <2> QED BY <1>15, <2>1, BySource, Zenon
  <1>21. Advances(<<M, New(1), 1>>, code', KnownNext(tv, G))
    <2>1. ~Shows(M) /\ Quiet(M) = ts[1]
      BY <1>2, <1>3, <1>8, MarkMoves
    <2>2. <<ts[1], New(1), 1>> \in KnownNext(tv, G)
      BY <1>13, <1>14
    <2> QED BY <2>1, <2>2, BySource, Zenon
  <1>22. \A h \in G \ H : Advances(h, code', KnownNext(tv, G))
    BY <1>13, <1>19, <1>20, <1>21
  <1>23. H \subseteq G /\ CurrentVisit(ts[1]) \in G /\ <<M, f.blks[1], 1>> \in G
    BY <1>7, <1>13
  <1> QED BY <1>1, <1>7, <1>10, <1>12, <1>18, <1>22, <1>23, SimBody

(* Steps that test: what they write, and what it leads to.                 *)
LEMMA TestKnown ==
  ASSUME GenInv, NEW ts, NEW H, SimNow(ts, H), NEW s, NEW f, Tested(s, f), TestRow(s, f), 2 \in DOMAIN work,
         NEW a, NEW b, NEW X, NEW Y, NEW tv, OpensBody(Top.kids[1], f, a, b, X, Y, ts, tv),
         NEW G, H \subseteq G, CurrentVisit(ts[1]) \in G
  PROVE  /\ <<a, New(2), 1>> \in KnownNext(tv, G) /\ <<ts[2], New(3), 1>> \in KnownNext(tv, G)
         /\ G \subseteq KnownNext(tv, G) /\ Grows(code, code')
         /\ ip \in DOMAIN code' /\ Here(code, ip) \in DOMAIN code'[ip] /\ code'[ip][Here(code, ip)] = s[1]
         /\ Len(s) = 2 => /\ Here(code, ip) + 1 \in DOMAIN code'[ip]
                          /\ code'[ip][Here(code, ip) + 1] = s[2]
         /\ New(1) \in DOMAIN code' /\ code'[New(1)] = <<Eval(Top), CondBr(New(2), New(3))>>
  <1>1. /\ work # <<>> /\ Top \in Stmt /\ Wrote(3, s) /\ code'[New(2)] = <<>> /\ ip' = New(2)
        /\ code'[New(1)] = <<Eval(Top), CondBr(New(2), New(3))>>
    BY DEF Tested
  <1>2. Owned(f) = {New(3)}
    BY RowFrame
  <1>3. /\ NextVisit(a) \in KnownNext(tv, G) /\ G \subseteq KnownNext(tv, G)
        /\ \A q \in Owned(f) : <<ts[2], q, 1>> \in KnownNext(tv, G)
    BY <1>1, BodyKnown
  <1>4. Here(code', ip') = 1
    BY <1>1 DEF Here
  <1>5. <<a, New(2), 1>> \in KnownNext(tv, G)
    BY <1>1, <1>3, <1>4 DEF NextVisit
  <1>6. s # <<>>
    <2>1. \A p, q : <<p>> # <<>> /\ <<p, q>> # <<>>
      OBVIOUS
    <2> QED BY <2>1 DEF TestRow
  <1>7. /\ Grows(code, code') /\ ip \in DOMAIN code' /\ Here(code, ip) \in DOMAIN code'[ip]
        /\ code'[ip][Here(code, ip)] = s[1]
        /\ Len(s) = 2 => /\ Here(code, ip) + 1 \in DOMAIN code'[ip]
                         /\ code'[ip][Here(code, ip) + 1] = s[2]
    BY <1>1, <1>6, WroteGrows
  <1>8. New(1) \in DOMAIN code'
    <2>1. 1 \in 1 .. 3
      OBVIOUS
    <2> QED BY <1>1, <2>1 DEF Wrote
  <1> QED BY <1>1, <1>2, <1>3, <1>5, <1>7, <1>8

LEMMA RowIs ==
  ASSUME NEW s, NEW f, TestRow(s, f)
  PROVE  /\ Top.op \in {"while", "if"} => s[1] = Br(New(1))
         /\ Top.op = "dowhile" => s[1] = Br(New(2))
         /\ Top.op \in {"domain", "inner"} => Len(s) = 2 /\ s[1] = Enter(Top) /\ s[2] = Br(New(1))
         /\ Top.op \in {"while", "dowhile", "domain", "inner", "if"}
         /\ Top.op \in {"while", "dowhile", "domain", "inner"} <=> f.op \in LoopEnds
         /\ Top.op = "if" => f.op = "ConditionalEnd"
         /\ f.op \in LoopEnds => f.blks[1] = New(1)
  <1>1. PICK t : t = Top
    OBVIOUS
  <1>2. \/ t.op = "while" /\ s = <<Br(New(1))>> /\ f = Frame("ConditionalLoopEnd", <<New(1), New(3)>>)
        \/ t.op = "dowhile" /\ s = <<Br(New(2))>> /\ f = Frame("ConditionalLoopEnd", <<New(1), New(3)>>)
        \/ t.op = "domain" /\ s = <<Enter(t), Br(New(1))>> /\ f = Frame("DomainLoopEnd", <<New(1), New(3)>>)
        \/ t.op = "inner" /\ s = <<Enter(t), Br(New(1))>> /\ f = Frame("InnerLoopEnd", <<New(1), New(3)>>)
        \/ t.op = "if" /\ s = <<Br(New(1))>> /\ f = Frame("ConditionalEnd", <<New(3)>>)
    BY <1>1 DEF TestRow
  <1>3. t.op \in {"while", "dowhile"} => f.op = "ConditionalLoopEnd" /\ f.blks[1] = New(1)
    BY <1>2 DEF Frame
  <1>4. t.op = "domain" => f.op = "DomainLoopEnd" /\ f.blks[1] = New(1)
    BY <1>2 DEF Frame
  <1>5. t.op = "inner" => f.op = "InnerLoopEnd" /\ f.blks[1] = New(1)
    BY <1>2 DEF Frame
  <1>6. t.op = "if" => f.op = "ConditionalEnd"
    BY <1>2 DEF Frame
  <1>7. t.op \in {"while", "dowhile", "domain", "inner", "if"}
    BY <1>2
  <1>8. t.op \in {"domain", "inner"} => Len(s) = 2 /\ s[1] = Enter(t) /\ s[2] = Br(New(1))
    BY <1>2
  <1>9. /\ t.op \in {"while", "if"} => s[1] = Br(New(1))
        /\ t.op = "dowhile" => s[1] = Br(New(2))
    BY <1>2
  <1> QED BY <1>1, <1>3, <1>4, <1>5, <1>6, <1>7, <1>8, <1>9 DEF LoopEnds

LEMMA SimWhile ==
  ASSUME WhilesHaveBlocks, GenInv, NEW ts, NEW H, SimNow(ts, H),
         NEW s, NEW f, Tested(s, f), TestRow(s, f), Top.op = "while"
  PROVE  SimKept(ts, H)
  <1>1. work # <<>> /\ Top \in Stmt /\ Top.kids[1] \in Stmt /\ work' = <<Top.kids[1], f>> \o Under
    BY DEF Tested
  <1>2. PICK u : From(u, ts[1], ts[2]) /\ u.op = "while"
    BY <1>1, TopFrom DEF SimNow
  <1>3. 2 \in DOMAIN work /\ ts[2] \in Todo /\ u \in Loops /\ ts[1] = Cons(u, ts[2]) /\ Top.at = u.at
    BY <1>1, <1>2, TopStands DEF SimNow, From, Loops, Shape
  <1>4. u.kids[1] \in Loops /\ Top.kids[1] = AsBlock(Built[u.kids[1]]) /\ u.kids[1] \in Parsed
    BY <1>2, ParsedForm DEF From, Shape, Bodied, Loops
  <1>5. Translates(Top.kids[1], u.kids[1])
    BY <1>4 DEF Translates
  <1>7. f \in Frames /\ f.op \in BreakEnds /\ f.op \in LoopEnds /\ f.blks[1] = New(1)
    BY RowFrame, RowIs
  <1>8. PICK M : M = Cons(Mark(u), ts[2])
    OBVIOUS
  <1>9. PICK a : a = Cons(u.kids[1], M)
    OBVIOUS
  <1>10. NewBody(Top.kids[1], f, a, M, ts[1], ts[2])
    BY <1>3, <1>4, <1>5, <1>7, <1>8, <1>9, ToLoop
  <1>11. a \in Todo /\ M \in Todo
    BY <1>10 DEF NewBody
  <1>12. PICK X, Y, tv : OpensBody(Top.kids[1], f, a, M, X, Y, ts, tv)
    BY <1>1, <1>7, <1>11, BodyOpens
  <1>13. PICK G : G = H \union {CurrentVisit(ts[1]), <<ts[1], New(1), 1>>, <<M, New(1), 1>>}
    OBVIOUS
  <1>14. /\ <<a, New(2), 1>> \in KnownNext(tv, G) /\ <<ts[2], New(3), 1>> \in KnownNext(tv, G)
         /\ G \subseteq KnownNext(tv, G) /\ Grows(code, code')
         /\ ip \in DOMAIN code' /\ Here(code, ip) \in DOMAIN code'[ip]
         /\ code'[ip][Here(code, ip)] = Br(New(1))
         /\ New(1) \in DOMAIN code' /\ code'[New(1)] = <<Eval(Top), CondBr(New(2), New(3))>>
    <2>1. H \subseteq G /\ CurrentVisit(ts[1]) \in G
      BY <1>13
    <2>2. s[1] = Br(New(1))
      BY RowIs
    <2> QED BY <1>3, <1>12, <2>1, <2>2, TestKnown
  <1>15. <<ts[1], New(1), 1>> \in KnownNext(tv, G)
    BY <1>13, <1>14
  <1>19. Advances(CurrentVisit(ts[1]), code', KnownNext(tv, G))
    BY <1>14, <1>15, ByCode, Zenon DEF CurrentVisit
  <1>20. Advances(<<ts[1], New(1), 1>>, code', KnownNext(tv, G))
    <2>1. Evals(ts[1], u.at, a, ts[2])
      BY <1>2, <1>3, <1>4, <1>8, <1>9, WhileIs
    <2>2. Evals(ts[1], Top.at, a, ts[2])
      BY <1>3, <2>1
    <2> QED BY <1>14, <1>15, <2>2, ByEval, Zenon
  <1>21. Advances(<<M, New(1), 1>>, code', KnownNext(tv, G))
    <2>1. ~Shows(M) /\ Quiet(M) = ts[1]
      BY <1>2, <1>3, <1>8, MarkMoves
    <2> QED BY <1>15, <2>1, BySource, Zenon
  <1>22. \A h \in G \ H : Advances(h, code', KnownNext(tv, G))
    BY <1>13, <1>19, <1>20, <1>21
  <1>23. H \subseteq G /\ CurrentVisit(ts[1]) \in G /\ <<M, f.blks[1], 1>> \in G
    BY <1>7, <1>13
  <1> QED BY <1>1, <1>3, <1>7, <1>10, <1>12, <1>14, <1>22, <1>23, SimBody

LEMMA SimDoWhile ==
  ASSUME WhilesHaveBlocks, GenInv, NEW ts, NEW H, SimNow(ts, H),
         NEW s, NEW f, Tested(s, f), TestRow(s, f), Top.op = "dowhile"
  PROVE  SimKept(ts, H)
  <1>1. work # <<>> /\ Top \in Stmt /\ Top.kids[1] \in Stmt /\ work' = <<Top.kids[1], f>> \o Under
    BY DEF Tested
  <1>2. PICK u : From(u, ts[1], ts[2]) /\ u.op = "dowhile"
    BY <1>1, TopFrom DEF SimNow
  <1>3. 2 \in DOMAIN work /\ ts[2] \in Todo /\ u \in Loops /\ ts[1] = Cons(u, ts[2]) /\ Top.at = u.at
    BY <1>1, <1>2, TopStands DEF SimNow, From, Loops, Shape
  <1>4. u.kids[1] \in Loops /\ Top.kids[1] = AsBlock(Built[u.kids[1]]) /\ u.kids[1] \in Parsed
    BY <1>2, ParsedForm DEF From, Shape, Bodied, Loops
  <1>5. Translates(Top.kids[1], u.kids[1])
    BY <1>4 DEF Translates
  <1>7. f \in Frames /\ f.op \in BreakEnds /\ f.op \in LoopEnds /\ f.blks[1] = New(1)
    BY RowFrame, RowIs
  <1>8. PICK M : M = Cons(Mark(u), ts[2])
    OBVIOUS
  <1>9. PICK a : a = Cons(u.kids[1], M)
    OBVIOUS
  <1>10. NewBody(Top.kids[1], f, a, M, ts[1], ts[2])
    BY <1>3, <1>4, <1>5, <1>7, <1>8, <1>9, ToLoop
  <1>11. a \in Todo /\ M \in Todo
    BY <1>10 DEF NewBody
  <1>12. PICK X, Y, tv : OpensBody(Top.kids[1], f, a, M, X, Y, ts, tv)
    BY <1>1, <1>7, <1>11, BodyOpens
  <1>13. PICK G : G = H \union {CurrentVisit(ts[1]), <<ts[1], New(2), 1>>, <<M, New(1), 1>>}
    OBVIOUS
  <1>14. /\ <<a, New(2), 1>> \in KnownNext(tv, G) /\ <<ts[2], New(3), 1>> \in KnownNext(tv, G)
         /\ G \subseteq KnownNext(tv, G) /\ Grows(code, code')
         /\ ip \in DOMAIN code' /\ Here(code, ip) \in DOMAIN code'[ip]
         /\ code'[ip][Here(code, ip)] = Br(New(2))
         /\ New(1) \in DOMAIN code' /\ code'[New(1)] = <<Eval(Top), CondBr(New(2), New(3))>>
    <2>1. H \subseteq G /\ CurrentVisit(ts[1]) \in G
      BY <1>13
    <2>2. s[1] = Br(New(2))
      BY RowIs
    <2> QED BY <1>3, <1>12, <2>1, <2>2, TestKnown, ZenonT(40)
  <1>15. <<ts[1], New(2), 1>> \in KnownNext(tv, G)
    BY <1>13, <1>14
  <1>19. Advances(CurrentVisit(ts[1]), code', KnownNext(tv, G))
    BY <1>14, <1>15, ByCode, Zenon DEF CurrentVisit
  <1>20. Advances(<<ts[1], New(2), 1>>, code', KnownNext(tv, G))
    <2>1. ~Shows(ts[1]) /\ Quiet(ts[1]) = a
      BY <1>2, <1>3, <1>4, <1>8, <1>9, WhileIs
    <2> QED BY <1>14, <2>1, BySource, Zenon
  <1>21. Advances(<<M, New(1), 1>>, code', KnownNext(tv, G))
    <2>1. Evals(M, u.at, ts[1], ts[2])
      BY <1>2, <1>3, <1>8, MarkMoves
    <2>2. Evals(M, Top.at, ts[1], ts[2])
      BY <1>3, <2>1
    <2> QED BY <1>14, <1>15, <2>2, ByEval, Zenon
  <1>22. \A h \in G \ H : Advances(h, code', KnownNext(tv, G))
    BY <1>13, <1>19, <1>20, <1>21
  <1>23. H \subseteq G /\ CurrentVisit(ts[1]) \in G /\ <<M, f.blks[1], 1>> \in G
    BY <1>7, <1>13
  <1> QED BY <1>1, <1>3, <1>7, <1>10, <1>12, <1>14, <1>22, <1>23, SimBody

LEMMA SimIf ==
  ASSUME WhilesHaveBlocks, GenInv, NEW ts, NEW H, SimNow(ts, H),
         NEW s, NEW f, Tested(s, f), TestRow(s, f), Top.op = "if"
  PROVE  SimKept(ts, H)
  <1>1. work # <<>> /\ Top \in Stmt /\ Top.kids[1] \in Stmt /\ work' = <<Top.kids[1], f>> \o Under
    BY DEF Tested
  <1>2. PICK u : From(u, ts[1], ts[2]) /\ u.op = "if"
    BY <1>1, TopFrom DEF SimNow
  <1>3. /\ 2 \in DOMAIN work /\ ts[2] \in Todo /\ u \in Parsed /\ u \in Loops
        /\ ts[1] = Cons(u, ts[2]) /\ Top.at = u.at
    BY <1>1, <1>2, TopStands DEF SimNow, From, Loops, Shape
  <1>4. u.kids[1] \in Loops /\ Top.kids[1] = AsBlock(Built[u.kids[1]]) /\ u.kids[1] \in Parsed
    BY <1>2, ParsedForm DEF From, Shape, Bodied, Loops
  <1>5. Translates(Top.kids[1], u.kids[1])
    BY <1>4 DEF Translates
  <1>7. f \in Frames /\ f.op = "ConditionalEnd" /\ f.op \notin LoopEnds
    BY RowFrame, RowIs
  <1>9. PICK a : a = Cons(u.kids[1], ts[2])
    OBVIOUS
  <1>10. NewBody(Top.kids[1], f, a, ts[2], ts[1], ts[2])
    BY <1>3, <1>4, <1>5, <1>7, <1>9, ToBranch
  <1>11. a \in Todo
    BY <1>10 DEF NewBody
  <1>12. PICK X, Y, tv : OpensBody(Top.kids[1], f, a, ts[2], X, Y, ts, tv)
    BY <1>1, <1>3, <1>7, <1>11, BodyOpens
  <1>13. PICK G : G = H \union {CurrentVisit(ts[1]), <<ts[1], New(1), 1>>}
    OBVIOUS
  <1>14. /\ <<a, New(2), 1>> \in KnownNext(tv, G) /\ <<ts[2], New(3), 1>> \in KnownNext(tv, G)
         /\ G \subseteq KnownNext(tv, G) /\ Grows(code, code')
         /\ ip \in DOMAIN code' /\ Here(code, ip) \in DOMAIN code'[ip]
         /\ code'[ip][Here(code, ip)] = Br(New(1))
         /\ New(1) \in DOMAIN code' /\ code'[New(1)] = <<Eval(Top), CondBr(New(2), New(3))>>
    <2>1. H \subseteq G /\ CurrentVisit(ts[1]) \in G
      BY <1>13
    <2>2. s[1] = Br(New(1))
      BY RowIs
    <2> QED BY <1>3, <1>12, <2>1, <2>2, TestKnown
  <1>15. <<ts[1], New(1), 1>> \in KnownNext(tv, G)
    BY <1>13, <1>14
  <1>19. Advances(CurrentVisit(ts[1]), code', KnownNext(tv, G))
    BY <1>14, <1>15, ByCode, Zenon DEF CurrentVisit
  <1>20. Advances(<<ts[1], New(1), 1>>, code', KnownNext(tv, G))
    <2>1. Evals(ts[1], u.at, a, ts[2])
      BY <1>2, <1>3, <1>9, IfIs
    <2>2. Evals(ts[1], Top.at, a, ts[2])
      BY <1>3, <2>1
    <2> QED BY <1>14, <1>15, <2>2, ByEval, Zenon
  <1>22. \A h \in G \ H : Advances(h, code', KnownNext(tv, G))
    BY <1>13, <1>19, <1>20
  <1>23. H \subseteq G /\ CurrentVisit(ts[1]) \in G
    BY <1>13
  <1> QED BY <1>1, <1>3, <1>7, <1>10, <1>12, <1>14, <1>22, <1>23, SimBody

(* Loops over domains.                                                     *)
Enters(T, at, D) == Shows(T) /\ Observed(T) = <<"enter", at>> /\ Resumed(T, TRUE) = D

LEMMA ByEntering ==
  ASSUME NEW T, NEW b, NEW n, NEW d, NEW K, b \in DOMAIN d, n \in DOMAIN d[b],
         NEW t, d[b][n] = Enter(t), NEW D, Enters(T, t.at, D), <<D, b, n + 1>> \in K
  PROVE  Advances(<<T, b, n>>, d, K)
  <1>1. PICK i : i = Enter(t)
    OBVIOUS
  <1>2. i.op = "enter" /\ i.at = t.at
    BY <1>1 DEF Enter
  <1>3. i.op \in {"do", "enter"} /\ Shows(T) /\ Observed(T) = <<i.op, i.at>> /\ Resumed(T, TRUE) = D
    BY <1>2 DEF Enters
  <1> QED BY <1>1, <1>3, ByDoing, Zenon

LEMMA SimEnter ==
  ASSUME GenInv, NEW ts, NEW H, SimNow(ts, H), 2 \in DOMAIN work,
         NEW s, NEW f, Tested(s, f), TestRow(s, f), Top.op \in {"domain", "inner"},
         NEW a, NEW M, NEW D, NewBody(Top.kids[1], f, a, M, ts[1], ts[2]),
         Enters(ts[1], Top.at, D), Evals(D, Top.at, a, ts[2]), ~Shows(M), Quiet(M) = D
  PROVE  SimKept(ts, H)
  <1>1. work # <<>> /\ Top \in Stmt /\ Top.kids[1] \in Stmt /\ work' = <<Top.kids[1], f>> \o Under
    BY DEF Tested
  <1>7. f \in Frames /\ f.op \in LoopEnds /\ f.blks[1] = New(1)
    BY RowFrame, RowIs
  <1>11. a \in Todo /\ M \in Todo
    BY DEF NewBody
  <1>12. PICK X, Y, tv : OpensBody(Top.kids[1], f, a, M, X, Y, ts, tv)
    BY <1>1, <1>7, <1>11, BodyOpens
  <1>13. PICK G : G = H \union {CurrentVisit(ts[1]), <<D, ip, Here(code, ip) + 1>>,
                                <<D, New(1), 1>>, <<M, New(1), 1>>}
    OBVIOUS
  <1>14. /\ <<a, New(2), 1>> \in KnownNext(tv, G) /\ <<ts[2], New(3), 1>> \in KnownNext(tv, G)
         /\ G \subseteq KnownNext(tv, G) /\ Grows(code, code')
         /\ ip \in DOMAIN code' /\ Here(code, ip) \in DOMAIN code'[ip]
         /\ code'[ip][Here(code, ip)] = Enter(Top)
         /\ Here(code, ip) + 1 \in DOMAIN code'[ip] /\ code'[ip][Here(code, ip) + 1] = Br(New(1))
         /\ New(1) \in DOMAIN code' /\ code'[New(1)] = <<Eval(Top), CondBr(New(2), New(3))>>
    <2>1. H \subseteq G /\ CurrentVisit(ts[1]) \in G
      BY <1>13
    <2>2. Len(s) = 2 /\ s[1] = Enter(Top) /\ s[2] = Br(New(1))
      BY RowIs
    <2> QED BY <1>12, <2>1, <2>2, TestKnown, SMTT(30)
  <1>15. /\ <<D, ip, Here(code, ip) + 1>> \in KnownNext(tv, G) /\ <<D, New(1), 1>> \in KnownNext(tv, G)
    BY <1>13, <1>14
  <1>18. Advances(CurrentVisit(ts[1]), code', KnownNext(tv, G))
    BY <1>14, <1>15, ByEntering, Zenon DEF CurrentVisit
  <1>19. Advances(<<D, ip, Here(code, ip) + 1>>, code', KnownNext(tv, G))
    BY <1>14, <1>15, ByCode, Zenon
  <1>20. Advances(<<D, New(1), 1>>, code', KnownNext(tv, G))
    BY <1>14, ByEval, Zenon
  <1>21. Advances(<<M, New(1), 1>>, code', KnownNext(tv, G))
    BY <1>15, BySource, Zenon
  <1>22. \A h \in G \ H : Advances(h, code', KnownNext(tv, G))
    BY <1>13, <1>18, <1>19, <1>20, <1>21
  <1>23. H \subseteq G /\ CurrentVisit(ts[1]) \in G /\ <<M, f.blks[1], 1>> \in G
    BY <1>7, <1>13
  <1> QED BY <1>1, <1>7, <1>12, <1>14, <1>22, <1>23, SimBody

LEMMA SimDomain ==
  ASSUME WhilesHaveBlocks, GenInv, NEW ts, NEW H, SimNow(ts, H),
         NEW s, NEW f, Tested(s, f), TestRow(s, f), Top.op = "domain"
  PROVE  SimKept(ts, H)
  <1>1. work # <<>> /\ Top \in Stmt
    BY DEF Tested
  <1>2. PICK u : From(u, ts[1], ts[2]) /\ u.op \in {"domain", "domain2"}
    BY <1>1, TopFrom DEF SimNow
  <1>3. 2 \in DOMAIN work /\ ts[2] \in Todo /\ u \in Parsed /\ ts[1] = Cons(u, ts[2]) /\ Top.at = u.at
    BY <1>1, <1>2, TopStands DEF SimNow, From, Shape
  <1>a. u \in Loops
    BY <1>3 DEF Loops
  <1>4. PICK k \in Loops : k = IF u.op = "domain2" THEN Second(u) ELSE u.kids[1]
    BY <1>2, <1>3, ParsedForm DEF Loops
  <1>5. Translates(Top.kids[1], k)
    <2>1. CASE u.op = "domain2"
      <3>1. Top.kids[1] = AsBlock(InnerOf(u))
        BY <1>2, <2>1 DEF From, Shape
      <3> QED BY <1>3, <1>4, <2>1, <3>1 DEF Translates
    <2>2. CASE u.op = "domain"
      <3>1. Top.kids[1] = AsBlock(Built[u.kids[1]]) /\ u.kids[1] \in Parsed
        BY <1>2, <2>2, ParsedForm DEF From, Shape, Bodied
      <3> QED BY <1>4, <2>2, <3>1 DEF Translates
    <2> QED BY <1>2, <2>1, <2>2
  <1>7. f.op \in BreakEnds
    BY RowFrame
  <1>8. PICK M : M = Cons(Mark(u), ts[2])
    OBVIOUS
  <1>9. PICK D : D = Cons(Round(u), ts[2])
    OBVIOUS
  <1>10. NewBody(Top.kids[1], f, Cons(k, M), M, ts[1], ts[2])
    BY <1>3, <1>a, <1>5, <1>7, <1>8, ToLoop
  <1>11. Enters(ts[1], Top.at, D)
    <2>1. Shows(ts[1]) /\ Observed(ts[1]) = <<"enter", u.at>> /\ Resumed(ts[1], TRUE) = D
      BY <1>2, <1>3, <1>a, <1>9, EntersIs
    <2> QED BY <1>3, <2>1 DEF Enters
  <1>12. ~Shows(M) /\ Quiet(M) = D
    BY <1>2, <1>3, <1>a, <1>8, <1>9, MarkMoves
  <1>13. Evals(D, u.at, Cons(k, M), ts[2])
    <2>1. u.op # "domain2" => u.kids[1] \in Loops
      BY <1>4
    <2>2. u.op = "domain2" => Second(u) \in Loops
      BY <1>4
    <2> QED BY <1>2, <1>3, <1>a, <1>4, <1>8, <1>9, <2>1, <2>2, RoundMoves
  <1>14. Evals(D, Top.at, Cons(k, M), ts[2])
    BY <1>3, <1>13
  <1> QED BY <1>3, <1>10, <1>11, <1>12, <1>14, SimEnter

LEMMA SimInner ==
  ASSUME WhilesHaveBlocks, GenInv, NEW ts, NEW H, SimNow(ts, H),
         NEW s, NEW f, Tested(s, f), TestRow(s, f), Top.op = "inner"
  PROVE  SimKept(ts, H)
  <1>1. work # <<>> /\ Top \in Stmt
    BY DEF Tested
  <1>2. PICK v \in Parsed : v.op = "domain2" /\ Top = InnerOf(v) /\ ts[1] = Cons(Second(v), ts[2])
    BY <1>1, TopInner DEF SimNow
  <1>3. 2 \in DOMAIN work /\ ts[2] \in Todo
    BY <1>1, TopStands DEF SimNow
  <1>4. PICK u \in Loops : u = Second(v)
    BY DEF Loops
  <1>5. /\ u.op = "second" /\ Top.at = u.at /\ u.kids = v.kids
        /\ Top.kids[1] = AsBlock(Built[u.kids[1]])
    BY <1>2, <1>4, InnerIs
  <1>6. u.kids[1] \in Parsed /\ u.kids[1] \in Loops
    BY <1>2, <1>5, ParsedForm DEF Loops
  <1>a. PICK k \in Loops : k = u.kids[1] /\ Translates(Top.kids[1], k)
    BY <1>5, <1>6 DEF Translates
  <1>7. f.op \notin BreakEnds /\ f.op \in LoopEnds
    BY RowFrame, RowIs
  <1>8. PICK M : M = Cons(Around(u), ts[2])
    OBVIOUS
  <1>9. PICK D : D = Cons(Round(u), ts[2])
    OBVIOUS
  <1>b. ts[1] = Cons(u, ts[2])
    BY <1>2, <1>4
  <1>10. NewBody(Top.kids[1], f, Cons(k, M), M, ts[1], ts[2])
    BY <1>3, <1>a, <1>b, <1>5, <1>7, <1>8, ToInner
  <1>11. Enters(ts[1], Top.at, D)
    <2>1. Shows(ts[1]) /\ Observed(ts[1]) = <<"enter", u.at>> /\ Resumed(ts[1], TRUE) = D
      BY <1>3, <1>5, <1>9, <1>b, EntersIs
    <2> QED BY <1>5, <2>1 DEF Enters
  <1>12. ~Shows(M) /\ Quiet(M) = D
    BY <1>3, <1>5, <1>8, <1>9, AroundMoves
  <1>13. Evals(D, u.at, Cons(k, M), ts[2])
    BY <1>3, <1>5, <1>6, <1>a, <1>8, <1>9, RoundMoves
  <1>14. Evals(D, Top.at, Cons(k, M), ts[2])
    BY <1>5, <1>13
  <1> QED BY <1>3, <1>10, <1>11, <1>12, <1>14, SimEnter

LEMMA SimTest ==
  ASSUME WhilesHaveBlocks, GenInv, NEW ts, NEW H, SimNow(ts, H),
         visitWhile \/ visitDoWhile \/ visitBreakable \/ visitInner \/ visitConditional
  PROVE  SimKept(ts, H)
  <1>1. PICK s, f : Tested(s, f) /\ TestRow(s, f)
    BY TestStep
  <1>2. Top.op \in {"while", "dowhile", "domain", "inner", "if"}
    BY <1>1, RowIs
  <1> QED BY <1>1, <1>2, SimWhile, SimDoWhile, SimDomain, SimInner, SimIf

(* Both branches of a conditional go on after it.                          *)
OpensBoth(y, f, z, g, a, b, X, Y, ts, tv) ==
  /\ X \in Visits /\ Len(X) = 4 /\ X[1] = y /\ X[2] = f /\ X[3] = z /\ X[4] = g /\ work' = X \o Under
  /\ Y \in Seq(Todo) /\ Len(Y) = 4 /\ Y[1] = a /\ Y[2] = ts[2] /\ Y[3] = b
  /\ Y[4] = ts[2] /\ tv = Y \o Tail(ts)

LEMMA BothOpen ==
  ASSUME NEW y \in Stmt, NEW f \in Frames, NEW z \in Stmt, NEW g \in Frames,
         work' = <<y, f, z, g>> \o Under, NEW a \in Todo, NEW b \in Todo, NEW ts, ts[2] \in Todo
  PROVE  \E X, Y, tv : OpensBoth(y, f, z, g, a, b, X, Y, ts, tv)
  <1>1. PICK X : X = <<y, f, z, g>>
    OBVIOUS
  <1>2. PICK Y : Y = <<a, ts[2], b, ts[2]>>
    OBVIOUS
  <1>3. PICK tv : tv = Y \o Tail(ts)
    OBVIOUS
  <1>4. /\ X \in Visits /\ Len(X) = 4 /\ X[1] = y /\ X[2] = f /\ X[3] = z /\ X[4] = g
        /\ work' = X \o Under
    BY <1>1 DEF Visits
  <1>5. Y \in Seq(Todo) /\ Len(Y) = 4 /\ Y[1] = a /\ Y[2] = ts[2] /\ Y[3] = b /\ Y[4] = ts[2]
    BY <1>2
  <1>6. OpensBoth(y, f, z, g, a, b, X, Y, ts, tv)
    BY <1>3, <1>4, <1>5 DEF OpensBoth
  <1> QED BY <1>6

LEMMA BothBegin ==
  ASSUME GenInv, NEW ts, NEW H, SimNow(ts, H), work # <<>>, 2 \in DOMAIN work,
         NEW y, NEW f, NEW z, NEW g, NEW a, NEW b, NEW X, NEW Y, NEW tv,
         OpensBoth(y, f, z, g, a, b, X, Y, ts, tv)
  PROVE  /\ Begins(work, ts, X, Y, work', tv)
         /\ DOMAIN X = {1, 2, 3, 4} /\ X[1] = y /\ X[2] = f /\ X[3] = z /\ X[4] = g
         /\ Y[1] = a /\ Y[2] = ts[2] /\ Y[3] = b /\ Y[4] = ts[2]
         /\ \A i \in 1 .. 5 : i \in DOMAIN work'
         /\ work'[1] = y /\ work'[2] = f /\ work'[3] = z /\ work'[4] = g
         /\ tv[1] = a /\ tv[2] = ts[2] /\ tv[3] = b /\ tv[4] = ts[2] /\ tv[5] = ts[2]
  <1>1. /\ X \in Visits /\ Y \in Seq(Todo) /\ Len(X) = 4 /\ Len(Y) = 4
        /\ X[1] = y /\ X[2] = f /\ X[3] = z /\ X[4] = g
        /\ Y[1] = a /\ Y[2] = ts[2] /\ Y[3] = b /\ Y[4] = ts[2]
    BY DEF OpensBoth
  <1>0. DOMAIN X = {1, 2, 3, 4}
    BY <1>1 DEF Visits
  <1>2. work \in Visits /\ ts \in Seq(Todo) /\ Len(ts) = Len(work)
    BY WorkForm, SimForm
  <1>3. work' = X \o Tail(work) /\ tv = Y \o Tail(ts)
    BY DEF Under, OpensBoth
  <1>4. Begins(work, ts, X, Y, work', tv)
    BY <1>1, <1>2, <1>3 DEF Begins
  <1>6. \A i \in DOMAIN X : i \in DOMAIN work' /\ work'[i] = X[i] /\ tv[i] = Y[i]
    BY <1>4, ShiftIs
  <1>7. \A i \in DOMAIN work \ {1} : /\ i + Len(X) - 1 \in DOMAIN work'
                                     /\ work'[i + Len(X) - 1] = work[i] /\ tv[i + Len(X) - 1] = ts[i]
    BY <1>4, ShiftIs
  <1>8. 2 + Len(X) - 1 = 5 /\ 2 \in DOMAIN work \ {1}
    BY <1>1
  <1>9. 5 \in DOMAIN work' /\ tv[5] = ts[2]
    BY <1>7, <1>8
  <1>10. \A i \in 1 .. 5 : i \in DOMAIN X \/ i = 5
    BY <1>0
  <1>11. \A i \in 1 .. 5 : i \in DOMAIN work'
    BY <1>6, <1>9, <1>10
  <1>12. /\ work'[1] = y /\ work'[2] = f /\ work'[3] = z /\ work'[4] = g
         /\ tv[1] = a /\ tv[2] = ts[2] /\ tv[3] = b /\ tv[4] = ts[2]
    BY <1>0, <1>1, <1>6
  <1> QED BY <1>0, <1>1, <1>4, <1>9, <1>11, <1>12

LEMMA SimBoth ==
  ASSUME GenInv, NEW ts, NEW H, SimNow(ts, H), work # <<>>, 2 \in DOMAIN work, Top \in Stmt,
         NEW y \in Stmt, NEW f \in Frames, NEW z \in Stmt, NEW g \in Frames,
         f.op = "IfBranchEnd", g.op = "ElseBranchEnd",
         NEW a, NEW b, AsStands(y, a, ts[2]), AsStands(z, b, ts[2]),
         \A S : Within(ts[1], S) => Within(a, S) /\ Within(b, S) /\ Within(ts[2], S),
         NEW X, NEW Y, NEW tv, OpensBoth(y, f, z, g, a, b, X, Y, ts, tv),
         Grows(code, code'), NEW G, H \subseteq G, CurrentVisit(ts[1]) \in G,
         \A h \in G \ H : Advances(h, code', KnownNext(tv, G))
  PROVE  SimKept(ts, H)
  <1>2. /\ Begins(work, ts, X, Y, work', tv)
        /\ DOMAIN X = {1, 2, 3, 4} /\ X[1] = y /\ X[2] = f /\ X[3] = z /\ X[4] = g
        /\ Y[1] = a /\ Y[2] = ts[2] /\ Y[3] = b /\ Y[4] = ts[2]
        /\ \A i \in 1 .. 5 : i \in DOMAIN work'
        /\ work'[1] = y /\ work'[2] = f /\ work'[3] = z /\ work'[4] = g
        /\ tv[1] = a /\ tv[2] = ts[2] /\ tv[3] = b /\ tv[4] = ts[2] /\ tv[5] = ts[2]
    BY BothBegin
  <1>3. 2 \in DOMAIN work' /\ 3 \in DOMAIN work' /\ 4 \in DOMAIN work' /\ 5 \in DOMAIN work'
    BY <1>2
  <1>4. Stands(work', tv, 1)
    <2>1. 1 + 1 = 2
      OBVIOUS
    <2>2. \E u \in Loops : Translates(work'[1], u) /\ tv[1] = Cons(u, tv[2])
      BY <1>2 DEF AsStands
    <2>3. StandsStmt(work', tv, 1)
      BY <1>2, <1>3, <2>1, <2>2 DEF StandsStmt
    <2> QED BY <2>3 DEF Stands
  <1>5. Stands(work', tv, 3)
    <2>1. 3 + 1 = 4
      OBVIOUS
    <2>2. \E u \in Loops : Translates(work'[3], u) /\ tv[3] = Cons(u, tv[4])
      BY <1>2 DEF AsStands
    <2>3. StandsStmt(work', tv, 3)
      BY <1>2, <1>3, <2>1, <2>2 DEF StandsStmt
    <2> QED BY <2>3 DEF Stands
  <1>6. Stands(work', tv, 2)
    <2>1. 2 + 1 = 3 /\ 2 + 3 = 5
      OBVIOUS
    <2>2. work'[2] \in Frames /\ work'[2].op = "IfBranchEnd" /\ work'[2].op \notin LoopEnds
      BY <1>2 DEF LoopEnds
    <2>3. StandsFrame(work', tv, 2)
      BY <1>2, <1>3, <2>1, <2>2 DEF StandsFrame
    <2> QED BY <2>3 DEF Stands
  <1>7. Stands(work', tv, 4)
    <2>1. 4 + 1 = 5
      OBVIOUS
    <2>2. work'[4] \in Frames /\ work'[4].op = "ElseBranchEnd" /\ work'[4].op \notin LoopEnds
      BY <1>2 DEF LoopEnds
    <2>3. StandsFrame(work', tv, 4)
      BY <1>2, <1>3, <2>1, <2>2 DEF StandsFrame
    <2> QED BY <2>3 DEF Stands
  <1>8. \A i \in DOMAIN X : X[i].op \notin LoopEnds /\ X[i].op \notin BreakEnds
    <2>1. f.op \notin LoopEnds /\ g.op \notin LoopEnds /\ f.op \notin BreakEnds /\ g.op \notin BreakEnds
      BY DEF LoopEnds, BreakEnds
    <2>2. y.op \notin LoopEnds /\ z.op \notin LoopEnds /\ y.op \notin BreakEnds /\ z.op \notin BreakEnds
      BY StmtNoFrame
    <2> QED BY <1>2, <2>1, <2>2
  <1>9. NestsNew(X, Y, ts[1])
    <2>1. \A i \in DOMAIN X : \A S : Within(ts[1], S) => Within(Y[i], S)
      BY <1>2
    <2> QED BY <1>8, <2>1 DEF NestsNew
  <1>10. HeadersKnown(X, Y, G)
    BY <1>8 DEF HeadersKnown
  <1>11. \A i \in DOMAIN X : Stands(work', tv, i)
    BY <1>2, <1>4, <1>5, <1>6, <1>7
  <1>12. Adds(work, ts, X, Y, work', tv, H, G, code, ip, code', ip')
    <2>1. Owned(work[1]) = {} /\ work[1].op \notin BreakEnds
      BY StmtNoFrame DEF Top
    <2>3. <<ts[1], ip, Here(code, ip)>> \in Known(G, work', tv, code', ip')
      BY DEF CurrentVisit, Known
    <2>4. \A h \in G \ H : Advances(h, code', Known(G, work', tv, code', ip'))
      BY DEF KnownNext
    <2> QED BY <1>2, <1>9, <1>10, <1>11, <2>1, <2>3, <2>4 DEF Adds
  <1>13. /\ Sim(work', tv, G, code', ip')
         /\ Known(H, work, ts, code, ip) \subseteq Known(G, work', tv, code', ip')
    BY <1>12, SimVisit DEF SimNow
  <1> QED BY <1>13 DEF SimKept, SimNext, KnownNow, KnownNext

LEMMA SimElse ==
  ASSUME WhilesHaveBlocks, GenInv, NEW ts, NEW H, SimNow(ts, H), visitConditionalElse
  PROVE  SimKept(ts, H)
  <1>1. PICK f, g : /\ f = Frame("IfBranchEnd", <<New(3), New(4)>>)
                    /\ g = Frame("ElseBranchEnd", <<New(4)>>)
    OBVIOUS
  <1>2. /\ work # <<>> /\ Top \in Stmt /\ Top.op = "ifelse"
        /\ Top.kids[1] \in Stmt /\ Top.kids[2] \in Stmt
        /\ Wrote(4, <<Br(New(1))>>)
        /\ code'[New(1)] = <<Eval(Top), CondBr(New(2), New(3))>>
        /\ code'[New(2)] = <<>> /\ ip' = New(2)
        /\ work' = <<Top.kids[1], f, Top.kids[2], g>> \o Under
    BY <1>1, ElseStep
  <1>3. PICK u : From(u, ts[1], ts[2]) /\ u.op = "ifelse"
    BY <1>2, TopFrom DEF SimNow
  <1>4. 2 \in DOMAIN work /\ ts[2] \in Todo /\ u \in Parsed /\ ts[1] = Cons(u, ts[2]) /\ Top.at = u.at
    BY <1>2, <1>3, TopStands DEF SimNow, From, Shape
  <1>5. /\ u.kids[1] \in Parsed /\ Top.kids[1] = AsBlock(Built[u.kids[1]])
        /\ u.kids[2] \in Parsed /\ Top.kids[2] = AsBlock(Built[u.kids[2]])
    BY <1>3, ParsedForm DEF From, Shape, Bodied
  <1>6. u \in Loops /\ u.kids[1] \in Loops /\ u.kids[2] \in Loops
    BY <1>4, <1>5 DEF Loops
  <1>7. PICK a, b : a = Cons(u.kids[1], ts[2]) /\ b = Cons(u.kids[2], ts[2])
    OBVIOUS
  <1>8. a \in Todo /\ b \in Todo
    BY <1>4, <1>6, <1>7, LoopItems, ConsIs
  <1>9. AsStands(Top.kids[1], a, ts[2]) /\ AsStands(Top.kids[2], b, ts[2])
    <2>1. Translates(Top.kids[1], u.kids[1]) /\ Translates(Top.kids[2], u.kids[2])
      BY <1>5 DEF Translates
    <2> QED BY <1>6, <1>7, <2>1 DEF AsStands
  <1>10. ASSUME NEW S, Within(ts[1], S)
         PROVE  Within(a, S) /\ Within(b, S) /\ Within(ts[2], S)
    <2>1. Within(ts[2], S)
      BY <1>4, <1>6, <1>10, LoopsNoMarks, WithinCons
    <2>2. Within(a, S)
      BY <1>4, <1>6, <1>7, <2>1, LoopsNoMarks, WithinCons
    <2>3. Within(b, S)
      BY <1>4, <1>6, <1>7, <2>1, LoopsNoMarks, WithinCons
    <2> QED BY <2>1, <2>2, <2>3
  <1>11. /\ f \in Frames /\ f.op = "IfBranchEnd" /\ Owned(f) = {New(3)}
         /\ g \in Frames /\ g.op = "ElseBranchEnd"
    <2>1. Names(f, "IfBranchEnd", <<New(3), New(4)>>, New(3)) /\ Names(g, "ElseBranchEnd", <<New(4)>>, New(4))
      BY <1>1, ElseFrames
    <2> QED BY <2>1 DEF Names
  <1>12. PICK X, Y, tv : OpensBoth(Top.kids[1], f, Top.kids[2], g, a, b, X, Y, ts, tv)
    BY <1>2, <1>4, <1>8, <1>11, BothOpen
  <1>13. PICK G : G = H \union {CurrentVisit(ts[1]), <<ts[1], New(1), 1>>}
    OBVIOUS
  <1>14. /\ \A i \in 1 .. 5 : i \in DOMAIN work'
         /\ work'[2] = f /\ tv[1] = a /\ tv[3] = b
    BY <1>2, <1>4, <1>12, BothBegin
  <1>15. <<a, New(2), 1>> \in KnownNext(tv, G)
    <2>1. Here(code', ip') = 1
      BY <1>2 DEF Here
    <2>2. 1 \in DOMAIN work'
      BY <1>14
    <2>3. <<tv[1], ip', Here(code', ip')>> \in Waits(work', tv, code', ip')
      BY <2>2, WaitsHere
    <2> QED BY <1>2, <1>14, <2>1, <2>3 DEF KnownNext, Known
  <1>16. <<b, New(3), 1>> \in KnownNext(tv, G)
    <2>1. 2 + 1 = 3 /\ 2 \in DOMAIN work' /\ 3 \in DOMAIN work'
      BY <1>14
    <2>2. <<tv[2 + 1], New(3), 1>> \in Waits(work', tv, code', ip')
      <3>1. 2 + 1 \in DOMAIN work' /\ New(3) \in Owned(work'[2])
        BY <1>11, <1>14, <2>1
      <3> QED BY <2>1, <3>1, WaitsOwned
    <2> QED BY <1>14, <2>1, <2>2 DEF KnownNext, Known
  <1>17. PICK s : s = <<Br(New(1))>>
    OBVIOUS
  <1>18. Len(s) = 1 /\ s # <<>> /\ s[1] = Br(New(1)) /\ Wrote(4, s)
    BY <1>2, <1>17
  <1>19. /\ Grows(code, code') /\ ip \in DOMAIN code' /\ Here(code, ip) \in DOMAIN code'[ip]
         /\ code'[ip][Here(code, ip)] = Br(New(1))
    BY <1>18, WroteGrows
  <1>20. New(1) \in DOMAIN code'
    <2>1. 1 \in 1 .. 4
      OBVIOUS
    <2> QED BY <1>2, <2>1 DEF Wrote
  <1>21. <<ts[1], New(1), 1>> \in KnownNext(tv, G)
    BY <1>13 DEF KnownNext, Known
  <1>22. Advances(CurrentVisit(ts[1]), code', KnownNext(tv, G))
    BY <1>19, <1>21, ByCode, Zenon DEF CurrentVisit
  <1>23. Advances(<<ts[1], New(1), 1>>, code', KnownNext(tv, G))
    <2>1. Evals(ts[1], u.at, a, b)
      BY <1>3, <1>4, <1>7, IfIs
    <2>2. Evals(ts[1], Top.at, a, b)
      BY <1>4, <2>1
    <2> QED BY <1>2, <1>15, <1>16, <1>20, <2>2, ByEval, Zenon
  <1>24. \A h \in G \ H : Advances(h, code', KnownNext(tv, G))
    BY <1>13, <1>22, <1>23
  <1>25. H \subseteq G /\ CurrentVisit(ts[1]) \in G
    BY <1>13
  <1> QED BY <1>2, <1>4, <1>9, <1>10, <1>11, <1>12, <1>19, <1>24, <1>25, SimBoth
-----------------------------------------------------------------------------
(* A block: its statements one after the other.                            *)
Rest(s, i, R) == SubSeq(s, i, Len(s)) \o R

LEMMA ConsAt ==
  ASSUME NEW x \in Items, NEW b \in Seq(Items), NEW R \in Seq(Items)
  PROVE  /\ Cons(x, b) \in Seq(Items) /\ Len(Cons(x, b)) = 1 + Len(b) /\ Cons(x, b)[1] = x
         /\ \A k \in 1 .. Len(b) : Cons(x, b)[1 + k] = b[k]
         /\ Cons(x, b) \o R = Cons(x, b \o R)
  <1>1. PICK h : h = <<x>>
    OBVIOUS
  <1>2. h \in Seq(Items) /\ Len(h) = 1 /\ h[1] = x
    BY <1>1
  <1>6. h \in Seq(Items)
    BY <1>2
  <1>7. /\ h \o b \in Seq(Items) /\ Len(h \o b) = Len(h) + Len(b)
        /\ \A i \in 1 .. Len(h) + Len(b) : (h \o b)[i] = IF i <= Len(h) THEN h[i] ELSE b[i - Len(h)]
    BY <1>6, ConcatProperties
  <1>8. PICK n : n = Len(b)
    OBVIOUS
  <1>9. n \in Nat
    BY <1>8
  <1>10. \A i \in 1 .. 1 + n : (h \o b)[i] = IF i <= 1 THEN h[i] ELSE b[i - 1]
    BY <1>2, <1>7, <1>8
  <1>3. h \o b \in Seq(Items) /\ Len(h \o b) = 1 + Len(b) /\ (h \o b)[1] = x
    <2>1. 1 \in 1 .. 1 + n /\ 1 <= 1
      BY <1>9
    <2> QED BY <1>2, <1>7, <1>10, <2>1
  <1>4. \A k \in 1 .. Len(b) : (h \o b)[1 + k] = b[k]
    <2> SUFFICES ASSUME NEW k \in 1 .. Len(b)
                 PROVE  (h \o b)[1 + k] = b[k]
      OBVIOUS
    <2>1. PICK j : j = 1 + k
      OBVIOUS
    <2>2. j \in 1 .. 1 + n /\ ~(j <= 1) /\ j - 1 = k
      BY <1>8, <1>9, <2>1
    <2>3. (h \o b)[j] = IF j <= 1 THEN h[j] ELSE b[j - 1]
      BY <1>10, <2>2
    <2>4. (h \o b)[j] = b[j - 1]
      BY <2>2, <2>3, Zenon
    <2> QED BY <2>1, <2>2, <2>4
  <1>5. (h \o b) \o R = h \o (b \o R)
    BY <1>2, ConcatAssociative
  <1> QED BY <1>1, <1>3, <1>4, <1>5 DEF Cons

LEMMA RestIs ==
  ASSUME NEW s \in Todo, NEW R \in Todo
  PROVE  /\ Rest(s, 1, R) = s \o R /\ Rest(s, Len(s) + 1, R) = R
         /\ \A i \in 1 .. Len(s) + 1 : SubSeq(s, i, Len(s)) \in Todo /\ Rest(s, i, R) \in Todo
         /\ \A i \in 1 .. Len(s) : Rest(s, i, R) = Cons(s[i], Rest(s, i + 1, R))
  <1>1. s \in Seq(Items) /\ R \in Seq(Items) /\ Len(s) \in Nat
    BY DEF Todo
  <1>2. SubSeq(s, 1, Len(s)) = s
    BY <1>1
  <1>3. SubSeq(s, Len(s) + 1, Len(s)) = <<>>
    BY <1>1
  <1>4. <<>> \o R = R
    BY <1>1
  <1>5. ASSUME NEW i \in 1 .. Len(s) + 1
        PROVE  SubSeq(s, i, Len(s)) \in Seq(Items) /\ Rest(s, i, R) \in Todo
    <2>1. SubSeq(s, i, Len(s)) \in Seq(Items)
      BY <1>1, SubSeqProperties
    <2>2. PICK a : a = SubSeq(s, i, Len(s))
      OBVIOUS
    <2>3. a \o R \in Seq(Items)
      BY <1>1, <2>1, <2>2
    <2> QED BY <2>1, <2>2, <2>3 DEF Rest, Todo
  <1>6. ASSUME NEW i \in 1 .. Len(s)
        PROVE  Rest(s, i, R) = Cons(s[i], Rest(s, i + 1, R))
    <2>1. PICK a : a = SubSeq(s, i, Len(s))
      OBVIOUS
    <2>2. PICK b : b = SubSeq(s, i + 1, Len(s))
      OBVIOUS
    <2>3. i \in 1 .. Len(s) + 1 /\ i + 1 \in 1 .. Len(s) + 1 /\ s[i] \in Items
      BY <1>1
    <2>4. a \in Seq(Items) /\ b \in Seq(Items)
      BY <1>5, <2>1, <2>2, <2>3
    <2>5. Len(a) = Len(s) - i + 1 /\ \A k \in 1 .. Len(s) - i + 1 : a[k] = s[i + k - 1]
      BY <1>1, <2>1
    <2>6. Len(b) = Len(s) - i
      <3>1. Len(SubSeq(s, i + 1, Len(s))) = Len(s) - i
        BY <1>1, <2>3, SubSeqProperties
      <3> QED BY <2>2, <3>1
    <2>7. \A k \in 1 .. Len(s) - i : b[k] = s[i + k]
      BY <1>1, <2>2
    <2>8. PICK c : c = Cons(s[i], b)
      OBVIOUS
    <2>9. /\ c \in Seq(Items) /\ Len(c) = 1 + Len(b) /\ c[1] = s[i]
          /\ \A k \in 1 .. Len(b) : c[1 + k] = b[k]
          /\ c \o R = Cons(s[i], b \o R)
      <3>1. PICK x : x = s[i]
        OBVIOUS
      <3>2. x \in Items /\ b \in Seq(Items) /\ R \in Seq(Items)
        BY <1>1, <2>3, <2>4, <3>1
      <3>3. /\ Cons(x, b) \in Seq(Items) /\ Len(Cons(x, b)) = 1 + Len(b) /\ Cons(x, b)[1] = x
            /\ \A k \in 1 .. Len(b) : Cons(x, b)[1 + k] = b[k]
            /\ Cons(x, b) \o R = Cons(x, b \o R)
        BY <3>2, ConsAt, Zenon
      <3> QED BY <2>8, <3>1, <3>3
    <2>10. ASSUME NEW k \in 1 .. Len(a)
           PROVE  a[k] = c[k]
      <3>1. k \in 1 .. Len(s) - i + 1
        BY <2>5
      <3>2. a[k] = s[i + k - 1]
        BY <2>5, <3>1
      <3>3. CASE k = 1
        <4>1. i + k - 1 = i
          BY <3>3
        <4> QED BY <2>9, <3>2, <3>3, <4>1
      <3>4. CASE k # 1
        <4>1. PICK n : n = k - 1
          OBVIOUS
        <4>2. n \in 1 .. Len(s) - i /\ i + n = i + k - 1 /\ 1 + n = k
          BY <1>1, <3>1, <3>4, <4>1
        <4>3. c[1 + n] = b[n]
          BY <2>6, <2>9, <4>2
        <4> QED BY <2>7, <3>2, <4>2, <4>3
      <3> QED BY <3>3, <3>4
    <2>11. Len(a) = Len(c)
      <3>1. Len(s) - i + 1 = 1 + (Len(s) - i)
        BY <1>1
      <3> QED BY <2>5, <2>6, <2>9, <3>1
    <2>12. a = c
      BY <2>4, <2>9, <2>10, <2>11, SeqEqual
    <2> QED BY <2>1, <2>2, <2>9, <2>12 DEF Rest
  <1>7. Rest(s, 1, R) = s \o R /\ Rest(s, Len(s) + 1, R) = R
    BY <1>2, <1>3, <1>4 DEF Rest
  <1> QED BY <1>5, <1>6, <1>7 DEF Todo

LEMMA RestWithin ==
  ASSUME NEW u \in Parsed, NEW R \in Todo, NEW i \in 1 .. Len(u.kids) + 1, NEW S, Within(Cons(u, R), S)
  PROVE  Within(Rest(u.kids, i, R), S)
  <1>1. u \in Loops /\ u.kids \in Seq(Parsed) /\ \A t \in Parsed : t \in Loops
    BY ParsedForm DEF Loops
  <1>2. \A t \in Parsed : t \in Items /\ t.op # "mark"
    BY <1>1, LoopsNoMarks
  <1>3. u.kids \in Seq(Items)
    <2>1. Parsed \subseteq Items
      BY <1>2
    <2> QED BY <1>1, <2>1
  <1>4. PICK s : s = u.kids
    OBVIOUS
  <1>5. PICK q : q = SubSeq(s, i, Len(s))
    OBVIOUS
  <1>6. q \in Todo
    BY <1>3, <1>4, <1>5, RestIs DEF Todo
  <1>7. NoMarks(q)
    <2>1. SubSeq(s, i, Len(s)) \in Seq(Parsed)
      BY <1>1, <1>4, SubSeqProperties
    <2>2. \A k \in DOMAIN q : q[k] \in Parsed
      BY <1>5, <2>1
    <2> QED BY <1>2, <2>2 DEF NoMarks
  <1>8. Within(R, S)
    BY <1>1, LoopsNoMarks, WithinCons
  <1>9. Within(q \o R, S)
    BY <1>6, <1>7, <1>8, WithinMore
  <1> QED BY <1>4, <1>5, <1>9 DEF Rest

(* Statements whose visits follow, without any code.                       *)
LEMMA SimOpens ==
  ASSUME GenInv, NEW ts, NEW H, SimNow(ts, H), work # <<>>, Top \in Stmt, code' = code,
         NEW X, NEW Y, NEW tv, Begins(work, ts, X, Y, work', tv),
         \A i \in DOMAIN X : X[i] \in Stmt /\ Stands(work', tv, i),
         \A i \in DOMAIN X : \A S : Within(ts[1], S) => Within(Y[i], S),
         NEW G, H \subseteq G, CurrentVisit(ts[1]) \in KnownNext(tv, G),
         \A h \in G \ H : Advances(h, code', KnownNext(tv, G))
  PROVE  SimKept(ts, H)
  <1>1. \A i \in DOMAIN X : X[i].op \notin LoopEnds /\ X[i].op \notin BreakEnds
    BY StmtNoFrame
  <1>2. NestsNew(X, Y, ts[1])
    BY <1>1 DEF NestsNew
  <1>3. HeadersKnown(X, Y, G)
    BY <1>1 DEF HeadersKnown
  <1>4. Grows(code, code')
    BY DEF Grows
  <1>12. Adds(work, ts, X, Y, work', tv, H, G, code, ip, code', ip')
    <2>1. Owned(work[1]) = {} /\ work[1].op \notin BreakEnds
      BY StmtNoFrame DEF Top
    <2>3. <<ts[1], ip, Here(code, ip)>> \in Known(G, work', tv, code', ip')
      BY DEF CurrentVisit, KnownNext
    <2>4. \A h \in G \ H : Advances(h, code', Known(G, work', tv, code', ip'))
      BY DEF KnownNext
    <2> QED BY <1>2, <1>3, <1>4, <2>1, <2>3, <2>4 DEF Adds
  <1>13. /\ Sim(work', tv, G, code', ip')
         /\ Known(H, work, ts, code, ip) \subseteq Known(G, work', tv, code', ip')
    BY <1>12, SimVisit DEF SimNow
  <1> QED BY <1>13 DEF SimKept, SimNext, KnownNow, KnownNext

LEMMA ShiftTwo ==
  ASSUME NEW w, NEW ts, NEW X, NEW Y, NEW v, NEW tv, Begins(w, ts, X, Y, v, tv), 2 \in DOMAIN w
  PROVE  Len(X) + 1 \in DOMAIN v /\ tv[Len(X) + 1] = ts[2]
  <1>1. \A i \in DOMAIN w \ {1} : /\ i + Len(X) - 1 \in DOMAIN v
                                  /\ v[i + Len(X) - 1] = w[i] /\ tv[i + Len(X) - 1] = ts[i]
    BY ShiftIs
  <1>2. 2 \in DOMAIN w \ {1} /\ 2 + Len(X) - 1 = Len(X) + 1
    BY ShiftIs
  <1>3. 2 + Len(X) - 1 \in DOMAIN v /\ tv[2 + Len(X) - 1] = ts[2]
    BY <1>1, <1>2
  <1> QED BY <1>2, <1>3

(* The statements X of a block u, before R: all of them, and the return    *)
(* that is added to the body of a procedure.                               *)
Opens(u, R, X, ts) ==
  /\ u \in Parsed /\ u.op = "block" /\ R \in Todo /\ ts[1] = Cons(u, R)
  /\ X \in Seq(Stmt) /\ work' = X \o Under
  /\ \A i \in 1 .. Len(u.kids) : i \in DOMAIN X /\ X[i] = Built[u.kids[i]]
  /\ \/ Len(X) = Len(u.kids) /\ R = ts[2]
     \/ /\ Len(X) = Len(u.kids) + 1 /\ X[Len(u.kids) + 1] = AddedReturn
        /\ R = <<FallOff("procedure")>>

LEMMA BlockKids ==
  ASSUME NEW u \in Parsed
  PROVE  /\ u \in Items /\ u.kids \in Todo /\ Len(u.kids) \in Nat
         /\ \A i \in 1 .. Len(u.kids) : u.kids[i] \in Parsed
  <1>1. u.kids \in Seq(Parsed) /\ u \in Items
    BY ParsedForm, LoopItems DEF Loops
  <1>2. Parsed \subseteq Items
    BY LoopItems DEF Loops
  <1>3. u.kids \in Seq(Items)
    BY <1>1, <1>2
  <1>4. PICK s : s = u.kids
    OBVIOUS
  <1>5. s \in Seq(Parsed)
    BY <1>1, <1>4
  <1>6. Len(s) \in Nat /\ \A i \in 1 .. Len(s) : s[i] \in Parsed
    BY <1>5
  <1> QED BY <1>1, <1>3, <1>4, <1>6 DEF Todo

LEMMA BlockRests ==
  ASSUME NEW u \in Parsed, NEW R \in Todo, NEW n \in Nat, n \in {Len(u.kids), Len(u.kids) + 1}
  PROVE  \E Y : /\ Y \in Seq(Todo) /\ Len(Y) = n
                /\ \A i \in 1 .. n : Y[i] = Rest(u.kids, i, R) /\ Y[i] \in Todo
  <1>1. PICK s : s = u.kids
    OBVIOUS
  <1>2. s \in Todo /\ Len(s) \in Nat
    BY <1>1, BlockKids
  <1>3. \A i \in 1 .. n : Rest(s, i, R) \in Todo
    <2>1. \A i \in 1 .. n : i \in 1 .. Len(s) + 1
      BY <1>1, <1>2
    <2> QED BY <1>2, <2>1, RestIs
  <1>4. PICK Y : Y = [i \in 1 .. n |-> Rest(s, i, R)]
    OBVIOUS
  <1>5. Y \in Seq(Todo) /\ Len(Y) = n
    BY <1>3, <1>4
  <1>6. \A i \in 1 .. n : Y[i] = Rest(s, i, R) /\ Y[i] \in Todo
    BY <1>3, <1>4
  <1> QED BY <1>1, <1>5, <1>6

(* What remains at each of the statements, and after the last.             *)
Remains(u, R, X, ts, Y, tv) ==
  /\ Y \in Seq(Todo) /\ Len(Y) = Len(X) /\ tv = Y \o Tail(ts)
  /\ \A i \in 1 .. Len(X) : Y[i] = Rest(u.kids, i, R)

LEMMA OpensRests ==
  ASSUME GenInv, NEW ts, NEW H, SimNow(ts, H), work # <<>>, 2 \in DOMAIN work,
         NEW u, NEW R, NEW X, Opens(u, R, X, ts),
         NEW Y, NEW tv, Remains(u, R, X, ts, Y, tv)
  PROVE  /\ Begins(work, ts, X, Y, work', tv)
         /\ \A i \in 1 .. Len(u.kids) + 1 : i \in DOMAIN work' /\ tv[i] = Rest(u.kids, i, R)
         /\ Len(X) + 1 \in DOMAIN work'
  <1>1. work \in Visits /\ ts \in Seq(Todo) /\ Len(ts) = Len(work) /\ X \in Visits
    <2>1. work \in Visits /\ ts \in Seq(Todo) /\ Len(ts) = Len(work)
      BY WorkForm, SimForm
    <2>2. X \in Seq(Stmt)
      BY DEF Opens
    <2> QED BY <2>1, <2>2 DEF Visits
  <1>2. Begins(work, ts, X, Y, work', tv)
    BY <1>1 DEF Begins, Opens, Under, Remains
  <1>3. /\ Len(X) \in Nat /\ DOMAIN X = 1 .. Len(X)
        /\ \A i \in DOMAIN X : i \in DOMAIN work' /\ tv[i] = Y[i]
    BY <1>2, ShiftIs
  <1>4. Len(X) + 1 \in DOMAIN work' /\ tv[Len(X) + 1] = ts[2]
    BY <1>2, ShiftTwo, Zenon
  <1>5. u \in Parsed /\ R \in Todo /\ Len(u.kids) \in Nat /\ u.kids \in Todo
    BY BlockKids DEF Opens
  <1>6. Rest(u.kids, Len(u.kids) + 1, R) = R
    BY <1>5, RestIs
  <1>7. \/ Len(X) = Len(u.kids) /\ R = ts[2]
        \/ Len(X) = Len(u.kids) + 1
    BY DEF Opens
  <1>8. ASSUME NEW i \in 1 .. Len(u.kids) + 1
        PROVE  i \in DOMAIN work' /\ tv[i] = Rest(u.kids, i, R)
    <2>1. CASE i \in 1 .. Len(X)
      BY <1>3, <2>1 DEF Remains
    <2>2. CASE i \notin 1 .. Len(X)
      <3>1. PICK m, n : m = Len(X) /\ n = Len(u.kids)
        OBVIOUS
      <3>2. m \in Nat /\ n \in Nat /\ i \in 1 .. n + 1 /\ i \notin 1 .. m /\ m \in {n, n + 1}
        BY <1>3, <1>5, <1>7, <2>2, <3>1
      <3>3. m = n /\ i = n + 1
        BY <3>2
      <3>4. m # n + 1
        BY <3>2, <3>3
      <3>5. Len(X) = Len(u.kids) /\ R = ts[2] /\ i = Len(X) + 1
        BY <1>7, <3>1, <3>3, <3>4
      <3> QED BY <1>4, <1>6, <3>5
    <2> QED BY <2>1, <2>2
  <1> QED BY <1>2, <1>4, <1>8

LEMMA OpensStands ==
  ASSUME NEW u, NEW R, NEW X, NEW ts, Opens(u, R, X, ts), NEW tv,
         \A i \in 1 .. Len(u.kids) + 1 : i \in DOMAIN work' /\ tv[i] = Rest(u.kids, i, R),
         Len(X) + 1 \in DOMAIN work', \A i \in DOMAIN X : work'[i] = X[i],
         NEW i \in DOMAIN X
  PROVE  X[i] \in Stmt /\ Stands(work', tv, i)
  <1>1. X \in Seq(Stmt) /\ u \in Parsed /\ R \in Todo
    BY DEF Opens
  <1>2. X[i] \in Stmt /\ i \in 1 .. Len(X) /\ Len(X) \in Nat
    BY <1>1
  <1>3. Len(u.kids) \in Nat /\ u.kids \in Todo
    BY <1>1, BlockKids
  <1>4. CASE i \in 1 .. Len(u.kids)
    <2>1. u.kids[i] \in Parsed /\ X[i] = Built[u.kids[i]]
      BY <1>1, <1>4, BlockKids DEF Opens
    <2>2. Rest(u.kids, i, R) = Cons(u.kids[i], Rest(u.kids, i + 1, R))
      BY <1>1, <1>3, <1>4, RestIs
    <2>3. i \in 1 .. Len(u.kids) + 1 /\ i + 1 \in 1 .. Len(u.kids) + 1
      BY <1>3, <1>4
    <2>4. i + 1 \in DOMAIN work' /\ tv[i] = Cons(u.kids[i], tv[i + 1])
      BY <2>2, <2>3
    <2>5. u.kids[i] \in Loops /\ Translates(work'[i], u.kids[i])
      BY <2>1 DEF Loops, Translates
    <2>6. StandsStmt(work', tv, i)
      BY <1>2, <2>4, <2>5 DEF StandsStmt
    <2> QED BY <1>2, <2>6 DEF Stands
  <1>5. CASE i \notin 1 .. Len(u.kids)
    <2>1. /\ Len(X) = Len(u.kids) + 1 /\ X[Len(u.kids) + 1] = AddedReturn
          /\ R = <<FallOff("procedure")>>
      BY <1>2, <1>5 DEF Opens
    <2>2. i = Len(u.kids) + 1 /\ i \in 1 .. Len(u.kids) + 1 /\ i + 1 = Len(X) + 1
      BY <1>2, <1>3, <1>5, <2>1
    <2>3. Rest(u.kids, Len(u.kids) + 1, R) = R
      BY <1>1, <1>3, RestIs
    <2>4. tv[i] = <<FallOff("procedure")>> /\ work'[i] = AddedReturn /\ i + 1 \in DOMAIN work'
      BY <2>1, <2>2, <2>3
    <2> QED BY <1>2, <2>4 DEF Stands, StandsReturn
  <1> QED BY <1>4, <1>5

LEMMA SimAll ==
  ASSUME GenInv, NEW ts, NEW H, SimNow(ts, H), work # <<>>, 2 \in DOMAIN work, Top \in Stmt,
         code' = code, ip' = ip, NEW u, NEW R, NEW X, Opens(u, R, X, ts)
  PROVE  SimKept(ts, H)
  <1>1. u \in Parsed /\ u.op = "block" /\ R \in Todo /\ ts[1] = Cons(u, R) /\ X \in Seq(Stmt)
    BY DEF Opens
  <1>2. u \in Items /\ u.kids \in Todo /\ Len(u.kids) \in Nat
    BY <1>1, BlockKids
  <1>3. PICK n : n = Len(X)
    OBVIOUS
  <1>4. n \in Nat /\ n \in {Len(u.kids), Len(u.kids) + 1} /\ DOMAIN X = 1 .. n
    BY <1>1, <1>3 DEF Opens
  <1>5. PICK Y : /\ Y \in Seq(Todo) /\ Len(Y) = n
                 /\ \A i \in 1 .. n : Y[i] = Rest(u.kids, i, R) /\ Y[i] \in Todo
    BY <1>1, <1>4, BlockRests
  <1>6. PICK tv : tv = Y \o Tail(ts)
    OBVIOUS
  <1>7. /\ Begins(work, ts, X, Y, work', tv)
        /\ \A i \in 1 .. Len(u.kids) + 1 : i \in DOMAIN work' /\ tv[i] = Rest(u.kids, i, R)
        /\ Len(X) + 1 \in DOMAIN work'
    <2>1. Remains(u, R, X, ts, Y, tv)
      BY <1>3, <1>5, <1>6 DEF Remains
    <2> QED BY <2>1, OpensRests
  <1>8. \A i \in DOMAIN X : work'[i] = X[i]
    BY <1>7, ShiftIs
  <1>9. \A i \in DOMAIN X : X[i] \in Stmt /\ Stands(work', tv, i)
    BY <1>7, <1>8, OpensStands
  <1>10. \A i \in DOMAIN X : \A S : Within(ts[1], S) => Within(Y[i], S)
    <2> SUFFICES ASSUME NEW i \in DOMAIN X, NEW S, Within(ts[1], S)
                 PROVE  Within(Y[i], S)
      OBVIOUS
    <2>1. i \in 1 .. Len(u.kids) + 1
      BY <1>2, <1>4
    <2>2. Within(Rest(u.kids, i, R), S)
      BY <1>1, <2>1, RestWithin
    <2> QED BY <1>4, <1>5, <2>2
  <1>11. PICK G : G = H \union {CurrentVisit(ts[1])}
    OBVIOUS
  <1>12. CurrentVisit(ts[1]) \in KnownNext(tv, G)
    BY <1>11 DEF KnownNext, Known
  <1>13. 1 \in DOMAIN work' /\ tv[1] = u.kids \o R
    <2>1. 1 \in 1 .. Len(u.kids) + 1
      BY <1>2
    <2>2. Rest(u.kids, 1, R) = u.kids \o R
      BY <1>1, <1>2, RestIs
    <2> QED BY <1>7, <2>1, <2>2
  <1>14. <<tv[1], ip, Here(code, ip)>> \in KnownNext(tv, G)
    <2>1. <<tv[1], ip', Here(code', ip')>> \in Waits(work', tv, code', ip')
      BY <1>13, WaitsHere
    <2>2. <<tv[1], ip, Here(code, ip)>> \in Waits(work', tv, code', ip')
      BY <2>1
    <2> QED BY <2>2 DEF KnownNext, Known
  <1>15. ts[1][1] = u /\ Tail(ts[1]) = R
    BY <1>1, <1>2, ConsIs
  <1>16. ~Shows(ts[1]) /\ Quiet(ts[1]) = tv[1]
    <2>1. ts[1][1].op = "block"
      BY <1>1, <1>15
    <2>2. Quiet(ts[1]) = ts[1][1].kids \o Tail(ts[1])
      BY <2>1, QuietIs
    <2>3. ~Shows(ts[1])
      BY <2>1, ShowsIs DEF SeenOps
    <2> QED BY <1>13, <1>15, <2>2, <2>3
  <1>17. Advances(CurrentVisit(ts[1]), code', KnownNext(tv, G))
    BY <1>14, <1>16, BySource, Zenon DEF CurrentVisit
  <1>18. \A h \in G \ H : Advances(h, code', KnownNext(tv, G))
    BY <1>11, <1>17
  <1>19. H \subseteq G
    BY <1>11
  <1> QED BY <1>7, <1>9, <1>10, <1>12, <1>18, <1>19, SimOpens

(* A statement made a block begins with itself.                            *)
LEMMA SimWrapped ==
  ASSUME GenInv, NEW ts, NEW H, SimNow(ts, H), work # <<>>, 2 \in DOMAIN work, Top \in Stmt,
         code' = code, ip' = ip, NEW x \in Stmt, work' = <<x>> \o Under,
         AsStands(x, ts[1], ts[2])
  PROVE  SimKept(ts, H)
  <1>1. /\ work \in Visits /\ ts \in Seq(Todo) /\ Len(ts) = Len(work)
        /\ ts[1] \in Todo /\ 1 \in DOMAIN work
    BY WorkForm, SimForm
  <1>2. PICK X : X = <<x>>
    OBVIOUS
  <1>3. PICK T : T = ts[1]
    OBVIOUS
  <1>4. PICK Y : Y = <<T>>
    OBVIOUS
  <1>5. PICK tv : tv = Y \o Tail(ts)
    OBVIOUS
  <1>6. X \in Visits /\ Len(X) = 1 /\ DOMAIN X = {1} /\ X[1] = x
    BY <1>2 DEF Visits
  <1>7. T \in Todo /\ Y \in Seq(Todo) /\ Len(Y) = 1 /\ Y[1] = T
    BY <1>1, <1>3, <1>4
  <1>8. Begins(work, ts, X, Y, work', tv)
    BY <1>1, <1>2, <1>5, <1>6, <1>7 DEF Begins, Under
  <1>9. 1 \in DOMAIN work' /\ work'[1] = x /\ tv[1] = T
    BY <1>6, <1>7, <1>8, ShiftIs
  <1>10. 2 \in DOMAIN work' /\ tv[2] = ts[2]
    <2>1. Len(X) + 1 \in DOMAIN work' /\ tv[Len(X) + 1] = ts[2]
      BY <1>8, ShiftTwo, Zenon
    <2>2. Len(X) + 1 = 2
      BY <1>6
    <2> QED BY <2>1, <2>2
  <1>11. Stands(work', tv, 1)
    <2>1. PICK u \in Loops : Translates(x, u) /\ ts[1] = Cons(u, ts[2])
      BY DEF AsStands
    <2>2. 1 + 1 = 2
      OBVIOUS
    <2>3. StandsStmt(work', tv, 1)
      BY <1>3, <1>9, <1>10, <2>1, <2>2 DEF StandsStmt
    <2> QED BY <2>3 DEF Stands
  <1>12. \A i \in DOMAIN X : X[i] \in Stmt /\ Stands(work', tv, i)
    BY <1>6, <1>11
  <1>13. \A i \in DOMAIN X : \A S : Within(ts[1], S) => Within(Y[i], S)
    BY <1>3, <1>6, <1>7
  <1>14. CurrentVisit(ts[1]) \in KnownNext(tv, H)
    <2>1. <<tv[1], ip', Here(code', ip')>> \in Waits(work', tv, code', ip')
      BY <1>9, WaitsHere
    <2>2. <<ts[1], ip, Here(code, ip)>> \in Waits(work', tv, code', ip')
      BY <1>3, <1>9, <2>1
    <2> QED BY <2>2 DEF CurrentVisit, KnownNext, Known
  <1>15. \A h \in H \ H : Advances(h, code', KnownNext(tv, H))
    OBVIOUS
  <1> QED BY <1>8, <1>12, <1>13, <1>14, <1>15, SimOpens

LEMMA SimBlock ==
  ASSUME WhilesHaveBlocks, GenInv, NEW ts, NEW H, SimNow(ts, H), visitBlock
  PROVE  SimKept(ts, H)
  <1>1. /\ work # <<>> /\ Top \in Stmt /\ Top.op = "block"
        /\ code' = code /\ ip' = ip /\ work' = Top.kids \o Under
    BY StmtVisit DEF visitBlock, Ops
  <1>2. Top = work[1] /\ 1 \in DOMAIN work /\ Top.kids \in Seq(Stmt)
    BY <1>1, WorkForm, StmtIsNoFrame
  <1>3. 2 \in DOMAIN work /\ ts[1] \in Todo /\ ts[2] \in Todo
    BY <1>1, TopStands DEF SimNow
  <1>4. \/ AsStands(Top, ts[1], ts[2]) \/ StandsReturn(work, ts, 1) \/ StandsWhole(work, ts, 1)
    BY <1>1, TopStands DEF SimNow
  <1>5. ~StandsReturn(work, ts, 1)
    BY <1>1, <1>2 DEF StandsReturn, AddedReturn
  <1>6. ASSUME NEW x, AsBlock(x) = Top, x.op # "block", AsStands(x, ts[1], ts[2])
        PROVE  SimKept(ts, H)
    <2>1. Top.kids = <<x>>
      BY <1>6, AsBlockOp
    <2>2. x \in Stmt
      BY <1>2, <2>1
    <2>3. work' = <<x>> \o Under
      BY <1>1, <2>1
    <2> QED BY <1>1, <1>3, <1>6, <2>2, <2>3, SimWrapped
  <1>7. ASSUME NEW u \in Parsed, Top = Built[u], ts[1] = Cons(u, ts[2])
        PROVE  SimKept(ts, H)
    <2>1. Shape(u, Top)
      BY <1>7, ShapeIs
    <2>2. u.op = "block"
      BY <1>1, <2>1 DEF Shape
    <2>3. DOMAIN Top.kids = DOMAIN u.kids /\ \A i \in DOMAIN u.kids : Top.kids[i] = Built[u.kids[i]]
      BY <2>1, <2>2 DEF Shape
    <2>4. PICK X : X = Top.kids
      OBVIOUS
    <2>5. PICK s : s = u.kids
      OBVIOUS
    <2>6. s \in Seq(Parsed) /\ X \in Seq(Stmt)
      BY <1>2, <2>4, <2>5, ParsedForm
    <2>7. Len(X) = Len(s) /\ \A i \in 1 .. Len(s) : i \in DOMAIN X /\ X[i] = Built[s[i]]
      BY <2>3, <2>4, <2>5, <2>6
    <2>8. Opens(u, ts[2], X, ts)
      BY <1>1, <1>3, <1>7, <2>2, <2>4, <2>5, <2>6, <2>7 DEF Opens
    <2> QED BY <1>1, <1>3, <2>8, SimAll
  <1>8. CASE AsStands(Top, ts[1], ts[2])
    <2>1. PICK u \in Loops : Translates(Top, u) /\ ts[1] = Cons(u, ts[2])
      BY <1>8 DEF AsStands
    <2>2. CASE u \in Parsed /\ Top = Built[u]
      BY <1>7, <2>1, <2>2
    <2>3. CASE u \in Parsed /\ Top = AsBlock(Built[u])
      <3>1. CASE Built[u].op = "block"
        <4>1. Top = Built[u]
          BY <2>3, <3>1, AsBlockOp
        <4> QED BY <1>7, <2>1, <2>3, <4>1
      <3>2. CASE Built[u].op # "block"
        <4>1. Translates(Built[u], u)
          BY <2>3 DEF Translates
        <4>2. AsStands(Built[u], ts[1], ts[2])
          BY <2>1, <4>1 DEF AsStands
        <4> QED BY <1>6, <2>3, <3>2, <4>2
      <3> QED BY <3>1, <3>2
    <2>4. ASSUME NEW v \in Parsed, v.op = "domain2", u = Second(v),
                 Top = InnerOf(v) \/ Top = AsBlock(InnerOf(v))
          PROVE  SimKept(ts, H)
      <3>1. Top = AsBlock(InnerOf(v)) /\ InnerOf(v).op # "block"
        BY <1>1, <2>4, InnerIs
      <3>2. Translates(InnerOf(v), u)
        BY <2>4 DEF Translates
      <3>3. AsStands(InnerOf(v), ts[1], ts[2])
        BY <2>1, <3>2 DEF AsStands
      <3> QED BY <1>6, <3>1, <3>3
    <2> QED BY <2>1, <2>2, <2>3, <2>4 DEF Translates
  <1>9. CASE StandsWhole(work, ts, 1)
    <2>1. PICK u \in Parsed : /\ u.op = "block" /\ Top = EnsuredReturn("procedure", Built[u])
                              /\ ts[1] = Cons(u, <<FallOff("procedure")>>)
      BY <1>2, <1>9 DEF StandsWhole
    <2>2. Top.kids = Append(Built[u].kids, AddedReturn)
      BY <2>1, WholeIsBlock
    <2>3. Shape(u, Built[u])
      BY ShapeIs
    <2>4. DOMAIN Built[u].kids = DOMAIN u.kids /\ \A i \in DOMAIN u.kids : Built[u].kids[i] = Built[u.kids[i]]
      BY <2>1, <2>3 DEF Shape
    <2>5. PICK b : b = Built[u].kids
      OBVIOUS
    <2>6. PICK s : s = u.kids
      OBVIOUS
    <2>7. PICK X : X = Top.kids
      OBVIOUS
    <2>8. s \in Seq(Parsed) /\ X \in Seq(Stmt)
      BY <1>2, <2>6, <2>7, ParsedForm
    <2>9. b \in Seq(LoweredStmts)
      <3>1. OnKids(Built, u) \in Seq(LoweredStmts)
        BY BuiltKids
      <3> QED BY <2>1, <2>3, <2>5, <3>1 DEF Shape
    <2>10. X = Append(b, AddedReturn)
      BY <2>2, <2>5, <2>7
    <2>11. DOMAIN b = DOMAIN s /\ \A i \in DOMAIN s : b[i] = Built[s[i]]
      BY <2>4, <2>5, <2>6
    <2>12. Len(b) = Len(s) /\ DOMAIN s = 1 .. Len(s)
      BY <2>8, <2>9, <2>11
    <2>13. Len(X) = Len(b) + 1 /\ X[Len(b) + 1] = AddedReturn
           /\ \A i \in 1 .. Len(b) : i \in DOMAIN X /\ X[i] = b[i]
      BY <2>9, <2>10
    <2>14. \A i \in 1 .. Len(s) : i \in DOMAIN X /\ X[i] = Built[s[i]]
      BY <2>11, <2>12, <2>13
    <2>15. PICK F : F = <<FallOff("procedure")>>
      OBVIOUS
    <2>16. F \in Todo
      BY <2>15 DEF Todo, Items
    <2>17. Opens(u, F, X, ts)
      BY <1>1, <2>1, <2>6, <2>7, <2>8, <2>12, <2>13, <2>14, <2>15, <2>16 DEF Opens
    <2> QED BY <1>1, <1>3, <2>17, SimAll
  <1> QED BY <1>4, <1>5, <1>8, <1>9
-----------------------------------------------------------------------------
(* The end of the routine.                                                 *)
LEMMA NoWaits ==
  ASSUME NEW H, NEW ts, NEW c, NEW p
  PROVE  Known(H, <<>>, ts, c, p) = H
  <1>1. DOMAIN <<>> = {}
    OBVIOUS
  <1>2. Waits(<<>>, ts, c, p) = {}
    BY <1>1, WaitsOnly
  <1> QED BY <1>2 DEF Known

LEMMA EndOfRoutine ==
  ASSUME GenInv, NEW ts, NEW H, SimNow(ts, H), RoutineEnd
  PROVE  /\ KnownNow(ts, H) \subseteq H \union {CurrentVisit(ts[1])}
         /\ Shows(ts[1]) /\ Observed(ts[1]) = <<"unreachable", << 0 >>>>
  <1>1. work # <<>> /\ work[1].op = "RoutineEnd" /\ DOMAIN work = {1}
    BY LastStep
  <1>2. StandsFrame(work, ts, 1)
    <2>1. Top.op \in FrameOps
      BY <1>1 DEF Top, FrameOps
    <2> QED BY <1>1, <2>1, TopFrame
  <1>3. ts[1] = <<FallOff("function")>>
    BY <1>1, <1>2 DEF StandsFrame
  <1>4. ts[1][1].op = "end" /\ ts[1][1].at = << 0 >>
    BY <1>3 DEF FallOff
  <1>5. Shows(ts[1]) /\ Observed(ts[1]) = <<"unreachable", << 0 >>>>
    <2>1. PICK T : T = ts[1]
      OBVIOUS
    <2>2. T[1].op = "end" /\ T[1].at = << 0 >>
      BY <1>4, <2>1
    <2>3. Shows(T) /\ Observed(T) = <<Seen[T[1].op], T[1].at>>
      BY <2>2, ShowsIs DEF SeenOps
    <2>4. Seen["end"] = "unreachable"
      BY SeenIs
    <2> QED BY <2>1, <2>2, <2>3, <2>4
  <1>6. \A h \in Waits(work, ts, code, ip) : h = CurrentVisit(ts[1])
    <2>1. \A i \in DOMAIN work : i + 1 \notin DOMAIN work
      BY <1>1
    <2> QED BY <2>1, WaitsOnly DEF CurrentVisit
  <1> QED BY <1>5, <1>6 DEF KnownNow, Known

LEMMA SimLast ==
  ASSUME GenInv, NEW ts, NEW H, SimNow(ts, H), RoutineEnd, NEW T, <<T, Body, 1>> \in KnownNow(ts, H)
  PROVE  \E G : SimNext(<<>>, G) /\ <<T, Entry, 1>> \in G
  <1>1. /\ work' = <<>> /\ DOMAIN code' = DOMAIN code
        /\ Entry \in DOMAIN code /\ ip \in DOMAIN code /\ code \in Seq(Seq(Instr))
        /\ <<Unreachable>> \in Seq(Instr)
        /\ code'[ip] = code[ip] \o <<Unreachable>>
        /\ code'[Entry] = <<Br(Body)>> /\ code[Entry] = <<>>
        /\ \A b \in DOMAIN code : b \notin {ip, Entry} => code'[b] = code[b]
    <2>1. ip \in DOMAIN code /\ code \in Seq(Seq(Instr))
      BY DEF GenInv, BlockInv, TypeOK
    <2> QED BY <2>1, LastStep
  <1>2. PICK a, s, d : a = code[ip] /\ s = <<Unreachable>> /\ d = a \o s
    OBVIOUS
  <1>3. a \in Seq(Instr) /\ s \in Seq(Instr) /\ Len(s) = 1 /\ s[1] = Unreachable /\ code'[ip] = d
    BY <1>1, <1>2
  <1>4. /\ Here(code, ip) \in DOMAIN d /\ d[Here(code, ip)] = Unreachable
        /\ \A k \in DOMAIN a : k \in DOMAIN d /\ d[k] = a[k]
    <2>1. Len(d) = Len(a) + 1 /\ DOMAIN d = 1 .. Len(d) /\ Len(a) \in Nat /\ DOMAIN a = 1 .. Len(a)
      BY <1>2, <1>3
    <2>2. d[Len(a) + 1] = s[1]
      BY <1>2, <1>3
    <2>3. \A k \in DOMAIN a : k \in DOMAIN d /\ d[k] = a[k]
      BY <1>2, <1>3
    <2>4. Here(code, ip) = Len(a) + 1
      BY <1>2 DEF Here
    <2> QED BY <1>3, <2>1, <2>2, <2>3, <2>4
  <1>5. Grows(code, code')
    <2>1. ASSUME NEW b \in DOMAIN code
          PROVE  /\ b \in DOMAIN code'
                 /\ \A k \in DOMAIN code[b] : k \in DOMAIN code'[b] /\ code'[b][k] = code[b][k]
      <3>1. CASE b = ip
        BY <1>1, <1>2, <1>3, <1>4, <3>1
      <3>2. CASE b = Entry
        <4>1. DOMAIN code[b] = {}
          BY <1>1, <3>2
        <4> QED BY <1>1, <4>1
      <3>3. CASE b \notin {ip, Entry}
        BY <1>1, <3>3
      <3> QED BY <3>1, <3>2, <3>3
    <2> QED BY <2>1 DEF Grows
  <1>6. PICK G : G = H \union {CurrentVisit(ts[1]), <<T, Entry, 1>>}
    OBVIOUS
  <1>7. Known(G, work', <<>>, code', ip') = G
    BY <1>1, NoWaits
  <1>8. KnownNow(ts, H) \subseteq G
    BY <1>6, EndOfRoutine
  <1>9. ASSUME NEW h \in H
        PROVE  Advances(h, code', G)
    <2>1. Advances(h, code, KnownNow(ts, H))
      BY DEF SimNow, Sim, KnownNow
    <2> QED BY <1>5, <1>8, <2>1, AdvancesGrow
  <1>10. Advances(CurrentVisit(ts[1]), code', G)
    <2>1. PICK U : U = ts[1]
      OBVIOUS
    <2>2. Shows(U) /\ Observed(U) = <<"unreachable", << 0 >>>>
      BY <2>1, EndOfRoutine
    <2>3. /\ ip \in DOMAIN code' /\ Here(code, ip) \in DOMAIN code'[ip]
          /\ code'[ip][Here(code, ip)] = Unreachable
      BY <1>1, <1>3, <1>4
    <2>4. /\ Unreachable.op \in {"ret", "unreachable"}
          /\ Observed(U) = <<Unreachable.op, IF Unreachable.op = "unreachable" THEN << 0 >> ELSE Unreachable.at>>
      BY <2>2 DEF Unreachable
    <2> QED BY <2>1, <2>2, <2>3, <2>4, ByEnding, Zenon DEF CurrentVisit
  <1>11. Advances(<<T, Entry, 1>>, code', G)
    <2>1. Entry \in DOMAIN code' /\ 1 \in DOMAIN code'[Entry] /\ code'[Entry][1] = Br(Body)
      BY <1>1
    <2>2. <<T, Body, 1>> \in G
      BY <1>8
    <2> QED BY <2>1, <2>2, ByCode, Zenon
  <1>12. \A h \in G : Advances(h, code', Known(G, work', <<>>, code', ip'))
    BY <1>6, <1>7, <1>9, <1>10, <1>11
  <1>13. DOMAIN <<>> = {} /\ <<>> \in Seq(Todo) /\ Len(<<>>) = Len(<<>>)
    OBVIOUS
  <1>14. Sim(work', <<>>, G, code', ip')
    BY <1>1, <1>12, <1>13 DEF Sim, LoopsNest, HeadersKnown
  <1> QED BY <1>6, <1>14 DEF SimNext

(* Every step but the last.                                                *)
LEMMA SimStep ==
  ASSUME WhilesHaveBlocks, GenInv, Paired, NEW ts, NEW H, SimNow(ts, H), Next, ~RoutineEnd
  PROVE  SimKept(ts, H)
  <1>1. CASE visitBlock
    BY <1>1, SimBlock
  <1>2. CASE visitPlain
    BY <1>2, SimPlain
  <1>3. CASE visitReturn
    BY <1>3, SimReturn
  <1>4. CASE visitBreak
    BY <1>4, SimBreak
  <1>5. CASE visitContinue
    BY <1>5, SimContinue
  <1>6. CASE visitInfiniteLoop
    BY <1>6, SimLoop
  <1>7. CASE visitWhile \/ visitDoWhile \/ visitBreakable \/ visitInner \/ visitConditional
    BY <1>7, SimTest
  <1>8. CASE visitConditionalElse
    BY <1>8, SimElse
  <1>9. CASE \/ InfiniteLoopEnd \/ ConditionalLoopEnd \/ DomainLoopEnd \/ InnerLoopEnd
             \/ ConditionalEnd \/ IfBranchEnd \/ ElseBranchEnd
    <2>1. PICK target : Ended(target)
      BY <1>9, EndStep
    <2> QED BY <2>1, SimEnded
  <1> QED BY <1>1, <1>2, <1>3, <1>4, <1>5, <1>6, <1>7, <1>8, <1>9 DEF Next
-----------------------------------------------------------------------------
(* The run of the compiled code next to its source.  Each execution comes  *)
(* to where it is by steps that cannot be seen.                            *)
Settled(H) == \A h \in H : Advances(h, code, H)

ShownCode == {"do", "eval", "enter", "ret", "unreachable"}

CameBySource(tr, n) ==
  /\ n \in Nat /\ tr[n] = todo
  /\ \A i \in Nat : i < n => ~Shows(tr[i]) /\ tr[i + 1] = Quiet(tr[i])

CameByCode(pr, m) ==
  /\ m \in Nat /\ pr[m] = pc
  /\ \A j \in Nat : j < m =>
       /\ code[pr[j][1]][pr[j][2]].op \notin ShownCode
       /\ pr[j + 1] = <<code[pr[j][1]][pr[j][2]].to[1], 1>>

MetAt(H, tr, pr, i, j) == <<tr[i], pr[j][1], pr[j][2]>> \in H

Meets(H) ==
  \E tr, pr : \E n, m \in Nat : \E i \in 0 .. n, j \in 0 .. m :
    CameBySource(tr, n) /\ CameByCode(pr, m) /\ MetAt(H, tr, pr, i, j)

LEMMA MeetHere ==
  ASSUME NEW H, NEW b, NEW k, pc = <<b, k>>, <<todo, b, k>> \in H
  PROVE  Meets(H)
  <1>1. PICK tr : tr = [x \in Nat |-> todo]
    OBVIOUS
  <1>2. PICK pr : pr = [x \in Nat |-> pc]
    OBVIOUS
  <1>3. tr[0] = todo /\ pr[0] = pc
    BY <1>1, <1>2
  <1>4. CameBySource(tr, 0) /\ CameByCode(pr, 0)
    BY <1>3 DEF CameBySource, CameByCode
  <1>5. MetAt(H, tr, pr, 0, 0)
    BY <1>3 DEF MetAt
  <1>6. 0 \in Nat /\ 0 \in 0 .. 0
    OBVIOUS
  <1> QED BY <1>4, <1>5, <1>6 DEF Meets

(* A visit that is behind is followed by one that is less so: the last one *)
(* is where both executions are.                                           *)
LEMMA MeetNearer ==
  ASSUME NEW H, Settled(H), BothShow, NEW tr, NEW pr, NEW n \in Nat, NEW m \in Nat,
         CameBySource(tr, n), CameByCode(pr, m), NEW i \in 0 .. n, NEW j \in 0 .. m,
         MetAt(H, tr, pr, i, j)
  PROVE  \/ i = n /\ j = m
         \/ i # n /\ MetAt(H, tr, pr, i + 1, j)
         \/ j # m /\ MetAt(H, tr, pr, i, j + 1)
  <1>1. PICK T, b, k : T = tr[i] /\ b = pr[j][1] /\ k = pr[j][2]
    OBVIOUS
  <1>2. <<T, b, k>> \in H
    BY <1>1 DEF MetAt
  <1>3. Advances(<<T, b, k>>, code, H)
    BY <1>2 DEF Settled
  <1>4. AdvancesAt(T, b, k, code, H)
    BY <1>3 DEF Advances
  <1>5. /\ i # n => ~Shows(T) /\ tr[i + 1] = Quiet(T)
        /\ i = n => Shows(T)
    <2>1. i \in Nat /\ (i # n => i < n)
      OBVIOUS
    <2> QED BY <1>1, <2>1 DEF CameBySource, BothShow
  <1>6. /\ j # m => code[b][k].op \notin ShownCode /\ pr[j + 1] = <<code[b][k].to[1], 1>>
        /\ j = m => code[b][k].op \in ShownCode
    <2>1. j \in Nat /\ (j # m => j < m)
      OBVIOUS
    <2>2. j = m => code[b][k].op \in ShownCode
      BY <1>1 DEF CameByCode, BothShow, CodeShows, Current, ShownCode
    <2> QED BY <1>1, <2>1, <2>2 DEF CameByCode
  <1>7. CASE SourceMoves(T, k, b, H)
    <2>1. i # n
      BY <1>5, <1>7 DEF SourceMoves
    <2>2. <<tr[i + 1], b, k>> \in H
      BY <1>5, <1>7, <2>1 DEF SourceMoves
    <2> QED BY <1>1, <2>1, <2>2 DEF MetAt
  <1>8. CASE CodeMoves(T, code[b], k, H)
    <2>1. j # m
      BY <1>6, <1>8 DEF CodeMoves, ShownCode
    <2>2. pr[j + 1][1] = code[b][k].to[1] /\ pr[j + 1][2] = 1
      BY <1>6, <2>1
    <2>3. <<T, pr[j + 1][1], pr[j + 1][2]>> \in H
      BY <1>8, <2>2 DEF CodeMoves
    <2> QED BY <1>1, <2>1, <2>3 DEF MetAt
  <1>9. CASE SameShown(T, code[b], k, b, H)
    BY <1>5, <1>6, <1>9 DEF SameShown, ShownCode
  <1> QED BY <1>4, <1>7, <1>8, <1>9 DEF AdvancesAt

LEMMA MeetNow ==
  ASSUME NEW H, Settled(H), Meets(H), BothShow
  PROVE  <<todo, pc[1], pc[2]>> \in H
  <1>1. PICK tr, pr : \E n, m \in Nat : \E i \in 0 .. n, j \in 0 .. m :
          CameBySource(tr, n) /\ CameByCode(pr, m) /\ MetAt(H, tr, pr, i, j)
    BY DEF Meets
  <1>2. PICK n \in Nat, m \in Nat : \E i \in 0 .. n, j \in 0 .. m :
          CameBySource(tr, n) /\ CameByCode(pr, m) /\ MetAt(H, tr, pr, i, j)
    BY <1>1
  <1>3. CameBySource(tr, n) /\ CameByCode(pr, m)
    BY <1>2
  <1>4. PICK B : B = {d \in Nat : \E i \in 0 .. n, j \in 0 .. m :
                        d = (n - i) + (m - j) /\ MetAt(H, tr, pr, i, j)}
    OBVIOUS
  <1>5. B \subseteq Nat /\ B # {}
    <2>1. PICK i \in 0 .. n, j \in 0 .. m : MetAt(H, tr, pr, i, j)
      BY <1>2
    <2>2. (n - i) + (m - j) \in Nat
      OBVIOUS
    <2>3. (n - i) + (m - j) \in B
      BY <1>4, <2>1, <2>2
    <2> QED BY <1>4, <2>3
  <1>6. PICK d \in B : \A e \in B : d <= e
    BY <1>5, LeastNat
  <1>7. PICK i \in 0 .. n, j \in 0 .. m : d = (n - i) + (m - j) /\ MetAt(H, tr, pr, i, j)
    BY <1>4
  <1>8. ~(i # n /\ MetAt(H, tr, pr, i + 1, j))
    <2> SUFFICES ASSUME i # n, MetAt(H, tr, pr, i + 1, j) PROVE FALSE
      OBVIOUS
    <2>1. i + 1 \in 0 .. n /\ (n - (i + 1)) + (m - j) \in Nat /\ (n - (i + 1)) + (m - j) = d - 1
      BY <1>7
    <2>2. (n - (i + 1)) + (m - j) \in B
      BY <1>4, <2>1
    <2>3. d - 1 \in B /\ d \in Nat
      BY <1>5, <2>1, <2>2
    <2>4. d <= d - 1
      BY <1>6, <2>3
    <2> QED BY <2>3, <2>4
  <1>9. ~(j # m /\ MetAt(H, tr, pr, i, j + 1))
    <2> SUFFICES ASSUME j # m, MetAt(H, tr, pr, i, j + 1) PROVE FALSE
      OBVIOUS
    <2>1. j + 1 \in 0 .. m /\ (n - i) + (m - (j + 1)) \in Nat /\ (n - i) + (m - (j + 1)) = d - 1
      BY <1>7
    <2>2. (n - i) + (m - (j + 1)) \in B
      BY <1>4, <2>1
    <2>3. d - 1 \in B /\ d \in Nat
      BY <1>5, <2>1, <2>2
    <2>4. d <= d - 1
      BY <1>6, <2>3
    <2> QED BY <2>3, <2>4
  <1>10. i = n /\ j = m
    BY <1>3, <1>7, <1>8, <1>9, MeetNearer
  <1>11. tr[n] = todo /\ pr[m] = pc
    BY <1>3 DEF CameBySource, CameByCode
  <1> QED BY <1>7, <1>10, <1>11 DEF MetAt

LEMMA MeetShows ==
  ASSUME NEW H, Settled(H), Meets(H), BothShow
  PROVE  SameShown(todo, code[pc[1]], pc[2], pc[1], H)
  <1>1. PICK b, k : b = pc[1] /\ k = pc[2]
    OBVIOUS
  <1>2. <<todo, b, k>> \in H
    BY <1>1, MeetNow
  <1>3. Advances(<<todo, b, k>>, code, H)
    BY <1>2 DEF Settled
  <1>4. AdvancesAt(todo, b, k, code, H)
    BY <1>3 DEF Advances
  <1>5. ~SourceMoves(todo, k, b, H)
    BY DEF SourceMoves, BothShow
  <1>6. ~CodeMoves(todo, code[b], k, H)
    BY <1>1 DEF CodeMoves, BothShow, CodeShows, Current
  <1> QED BY <1>1, <1>4, <1>5, <1>6 DEF AdvancesAt

LEMMA MeetAgree ==
  ASSUME NEW H, Settled(H), Meets(H), BothShow
  PROVE  Agree
  <1>1. SameShown(todo, code[pc[1]], pc[2], pc[1], H)
    BY MeetShows
  <1> QED BY <1>1 DEF SameShown, Agree, CodeObserved, Current

(* The steps of a run.                                                     *)
LEMMA MeetPerform ==
  ASSUME NEW H, Settled(H), Meets(H), NEW outcome \in BOOLEAN, Perform(outcome)
  PROVE  Meets(H)'
  <1>1. BothShow /\ pc' = CodeResumed(outcome) /\ todo' = Resumed(todo, outcome)
        /\ (Current.op \in {"do", "enter"} => outcome)
        /\ Current.op \in {"do", "eval", "enter"}
    BY DEF Perform, BothShow, CodeShows
  <1>2. PICK b, k : b = pc[1] /\ k = pc[2]
    OBVIOUS
  <1>3. SameShown(todo, code[b], k, b, H) /\ Current = code[b][k]
    BY <1>1, <1>2, MeetShows DEF Current
  <1>4. \E d, l : pc' = <<d, l>> /\ <<todo', d, l>> \in H
    <2>1. CASE Current.op \in {"do", "enter"}
      <3>1. outcome = TRUE
        BY <1>1, <2>1
      <3>2. <<Resumed(todo, TRUE), b, k + 1>> \in H
        BY <1>3, <2>1 DEF SameShown
      <3>3. pc' = <<b, k + 1>>
        BY <1>1, <1>2, <2>1 DEF CodeResumed, Following
      <3> QED BY <1>1, <3>1, <3>2, <3>3
    <2>2. CASE Current.op = "eval"
      <3>1. /\ <<Resumed(todo, TRUE), code[b][k + 1].to[1], 1>> \in H
            /\ <<Resumed(todo, FALSE), code[b][k + 1].to[2], 1>> \in H
        BY <1>3, <2>2 DEF SameShown
      <3>2. pc' = <<code[b][k + 1].to[IF outcome THEN 1 ELSE 2], 1>>
        BY <1>1, <1>2, <2>2 DEF CodeResumed
      <3>3. CASE outcome = TRUE
        <4>1. pc' = <<code[b][k + 1].to[1], 1>>
          BY <3>2, <3>3
        <4> QED BY <1>1, <3>1, <3>3, <4>1
      <3>4. CASE outcome = FALSE
        <4>1. pc' = <<code[b][k + 1].to[2], 1>>
          BY <3>2, <3>4
        <4> QED BY <1>1, <3>1, <3>4, <4>1
      <3> QED BY <3>3, <3>4
    <2> QED BY <1>1, <2>1, <2>2
  <1>5. PICK d, l : pc' = <<d, l>> /\ <<todo', d, l>> \in H
    BY <1>4
  <1>6. ASSUME pc' = <<d, l>>, <<todo', d, l>> \in H
        PROVE  \E tr, pr : \E n, m \in Nat : \E i \in 0 .. n, j \in 0 .. m :
                 CameBySource(tr, n)' /\ CameByCode(pr, m)' /\ MetAt(H, tr, pr, i, j)
    <2>1. PICK tr : tr = [x \in Nat |-> todo']
      OBVIOUS
    <2>2. PICK pr : pr = [x \in Nat |-> pc']
      OBVIOUS
    <2>3. tr[0] = todo' /\ pr[0] = pc'
      BY <2>1, <2>2
    <2>4. CameBySource(tr, 0)' /\ CameByCode(pr, 0)'
      BY <2>3 DEF CameBySource, CameByCode
    <2>5. MetAt(H, tr, pr, 0, 0)
      BY <1>6, <2>3 DEF MetAt
    <2>6. 0 \in Nat /\ 0 \in 0 .. 0
      OBVIOUS
    <2> QED BY <2>4, <2>5, <2>6
  <1> QED BY <1>5, <1>6 DEF Meets, MetAt

LEMMA MeetApproach ==
  ASSUME NEW H, Meets(H), Approach
  PROVE  Meets(H)'
  <1>0. /\ ~BothShow /\ phase = "run" /\ code' = code
        /\ pc' = IF CodeShows THEN pc ELSE <<Current.to[1], 1>>
        /\ todo' = IF Shows(todo) THEN todo ELSE Quiet(todo)
    BY DEF Approach, gvars
  <1>1. PICK tr, pr : \E n, m \in Nat : \E i \in 0 .. n, j \in 0 .. m :
          CameBySource(tr, n) /\ CameByCode(pr, m) /\ MetAt(H, tr, pr, i, j)
    BY DEF Meets
  <1>2. PICK n \in Nat, m \in Nat : \E i \in 0 .. n, j \in 0 .. m :
          CameBySource(tr, n) /\ CameByCode(pr, m) /\ MetAt(H, tr, pr, i, j)
    BY <1>1
  <1>3. PICK i \in 0 .. n, j \in 0 .. m : MetAt(H, tr, pr, i, j)
    BY <1>2
  <1>4. CameBySource(tr, n) /\ CameByCode(pr, m)
    BY <1>2
  <1>5. \E ur, u : /\ u \in Nat /\ u >= n /\ CameBySource(ur, u)' /\ ur[i] = tr[i]
    <2>1. CASE Shows(todo)
      <3>1. CameBySource(tr, n)'
        BY <1>0, <1>4, <2>1 DEF CameBySource
      <3> QED BY <3>1
    <2>2. CASE ~Shows(todo)
      <3>1. PICK ur : ur = [x \in Nat |-> IF x <= n THEN tr[x] ELSE todo']
        OBVIOUS
      <3>2. \A x \in Nat : x <= n => ur[x] = tr[x]
        BY <3>1
      <3>3. ur[n + 1] = todo' /\ n + 1 \in Nat /\ n + 1 >= n
        BY <3>1
      <3>4. ASSUME NEW x \in Nat, x < n + 1
            PROVE  ~Shows(ur[x]) /\ ur[x + 1] = Quiet(ur[x])
        <4>1. CASE x < n
          <5>1. ur[x] = tr[x] /\ ur[x + 1] = tr[x + 1]
            BY <3>2, <4>1
          <5>2. ~Shows(tr[x]) /\ tr[x + 1] = Quiet(tr[x])
            BY <1>4, <4>1 DEF CameBySource
          <5> QED BY <5>1, <5>2
        <4>2. CASE x = n
          <5>1. ur[x] = todo
            BY <1>4, <3>2, <4>2 DEF CameBySource
          <5> QED BY <1>0, <2>2, <3>3, <4>2, <5>1
        <4> QED BY <3>4, <4>1, <4>2
      <3>5. CameBySource(ur, n + 1)'
        BY <3>3, <3>4 DEF CameBySource
      <3>6. ur[i] = tr[i]
        BY <3>2
      <3> QED BY <3>3, <3>5, <3>6
    <2> QED BY <2>1, <2>2
  <1>6. \E vr, v : /\ v \in Nat /\ v >= m /\ CameByCode(vr, v)' /\ vr[j] = pr[j]
    <2>1. CASE CodeShows
      <3>1. CameByCode(pr, m)'
        BY <1>0, <1>4, <2>1 DEF CameByCode
      <3> QED BY <3>1
    <2>2. CASE ~CodeShows
      <3>1. PICK vr : vr = [x \in Nat |-> IF x <= m THEN pr[x] ELSE pc']
        OBVIOUS
      <3>2. \A x \in Nat : x <= m => vr[x] = pr[x]
        BY <3>1
      <3>3. vr[m + 1] = pc' /\ m + 1 \in Nat /\ m + 1 >= m
        BY <3>1
      <3>4. ASSUME NEW x \in Nat, x < m + 1
            PROVE  /\ code[vr[x][1]][vr[x][2]].op \notin ShownCode
                   /\ vr[x + 1] = <<code[vr[x][1]][vr[x][2]].to[1], 1>>
        <4>1. CASE x < m
          <5>1. vr[x] = pr[x] /\ vr[x + 1] = pr[x + 1]
            BY <3>2, <4>1
          <5>2. /\ code[pr[x][1]][pr[x][2]].op \notin ShownCode
                /\ pr[x + 1] = <<code[pr[x][1]][pr[x][2]].to[1], 1>>
            BY <1>4, <4>1 DEF CameByCode
          <5> QED BY <5>1, <5>2
        <4>2. CASE x = m
          <5>1. vr[x] = pc
            BY <1>4, <3>2, <4>2 DEF CameByCode
          <5>2. Current.op \notin ShownCode /\ pc' = <<Current.to[1], 1>>
            BY <1>0, <2>2 DEF CodeShows, ShownCode
          <5> QED BY <3>3, <4>2, <5>1, <5>2 DEF Current
        <4> QED BY <3>4, <4>1, <4>2
      <3>5. CameByCode(vr, m + 1)'
        BY <1>0, <3>3, <3>4 DEF CameByCode
      <3>6. vr[j] = pr[j]
        BY <3>2
      <3> QED BY <3>3, <3>5, <3>6
    <2> QED BY <2>1, <2>2
  <1>7. PICK ur, u : /\ u \in Nat /\ u >= n /\ CameBySource(ur, u)' /\ ur[i] = tr[i]
    BY <1>5
  <1>8. PICK vr, v : /\ v \in Nat /\ v >= m /\ CameByCode(vr, v)' /\ vr[j] = pr[j]
    BY <1>6
  <1>9. i \in 0 .. u /\ j \in 0 .. v
    BY <1>7, <1>8
  <1>10. MetAt(H, ur, vr, i, j)
    BY <1>3, <1>7, <1>8 DEF MetAt
  <1>11. \E tr2, pr2 : \E n2, m2 \in Nat : \E i2 \in 0 .. n2, j2 \in 0 .. m2 :
           CameBySource(tr2, n2)' /\ CameByCode(pr2, m2)' /\ MetAt(H, tr2, pr2, i2, j2)
    BY <1>7, <1>8, <1>9, <1>10
  <1> QED BY <1>11 DEF Meets, MetAt
-----------------------------------------------------------------------------
(* From the start of code generation to the end of the run.                *)
SimInv ==
  /\ FormInv
  /\ phase = "codegen" =>
       /\ pc = <<Entry, 1>>
       /\ \/ work # <<>> /\ \E ts, H : SimNow(ts, H) /\ <<todo, Body, 1>> \in KnownNow(ts, H)
          \/ work = <<>> /\ \E H : Settled(H) /\ <<todo, Entry, 1>> \in H
  /\ phase = "run" => work = <<>> /\ \E H : Settled(H) /\ Meets(H)

LEMMA MeetKept ==
  ASSUME NEW H, Meets(H), code' = code, pc' = pc, todo' = todo
  PROVE  Meets(H)'
  <1>1. \A tr, n : CameBySource(tr, n) => CameBySource(tr, n)'
    BY DEF CameBySource
  <1>2. \A pr, m : CameByCode(pr, m) => CameByCode(pr, m)'
    BY DEF CameByCode
  <1>3. PICK tr, pr : \E n, m \in Nat : \E i \in 0 .. n, j \in 0 .. m :
          CameBySource(tr, n) /\ CameByCode(pr, m) /\ MetAt(H, tr, pr, i, j)
    BY DEF Meets
  <1>4. PICK n \in Nat, m \in Nat : \E i \in 0 .. n, j \in 0 .. m :
          CameBySource(tr, n) /\ CameByCode(pr, m) /\ MetAt(H, tr, pr, i, j)
    BY <1>3
  <1>5. PICK i \in 0 .. n, j \in 0 .. m :
          CameBySource(tr, n) /\ CameByCode(pr, m) /\ MetAt(H, tr, pr, i, j)
    BY <1>4
  <1>6. CameBySource(tr, n)' /\ CameByCode(pr, m)' /\ MetAt(H, tr, pr, i, j)
    BY <1>1, <1>2, <1>5
  <1>7. \E tr2, pr2 : \E n2, m2 \in Nat : \E i2 \in 0 .. n2, j2 \in 0 .. m2 :
          CameBySource(tr2, n2)' /\ CameByCode(pr2, m2)' /\ MetAt(H, tr2, pr2, i2, j2)
    BY <1>6
  <1> QED BY <1>7 DEF Meets, MetAt

LEMMA StartStands ==
  ASSUME WhilesHaveBlocks, NEW u \in Parsed, u.op = "block", NEW r \in {"procedure", "function"},
         NEW F, F = <<FallOff("function")>>, NEW T, T = <<u, FallOff(r)>>,
         NEW w, NEW ts, w[1] = EnsuredReturn(r, Built[u]), w[1] \in Stmt, 2 \in DOMAIN w,
         ts[1] = T, ts[2] = F
  PROVE  T \in Todo /\ F \in Todo /\ Stands(w, ts, 1)
  <1>1. u \in Loops /\ u \in Items /\ FallOff(r) \in Items /\ FallOff("function") \in Items
    <2>1. u \in Loops /\ u \in Items
      BY LoopItems DEF Loops
    <2> QED BY <2>1 DEF Items
  <1>2. PICK m : m = FallOff(r)
    OBVIOUS
  <1>3. PICK R : R = <<m>>
    OBVIOUS
  <1>4. T \in Todo /\ F \in Todo /\ R \in Todo
    BY <1>1, <1>2, <1>3 DEF Todo
  <1>5. T = Cons(u, R)
    <2>1. PICK N : N = <<>>
      OBVIOUS
    <2>2. N \in Todo
      BY <2>1 DEF Todo
    <2>3. <<u, m>> \o N = Cons(u, Cons(m, N))
      BY <1>1, <1>2, <2>2, ConsTwo
    <2>4. <<u, m>> \o N = <<u, m>>
      BY <2>1
    <2>5. Cons(m, N) = R
      BY <1>3, <2>1 DEF Cons
    <2> QED BY <1>2, <2>3, <2>4, <2>5
  <1>6. 1 + 1 = 2
    OBVIOUS
  <1>7. CASE r = "procedure"
    <2>1. R = <<FallOff("procedure")>>
      BY <1>2, <1>3, <1>7
    <2>2. StandsWhole(w, ts, 1)
      BY <1>5, <1>6, <1>7, <2>1 DEF StandsWhole
    <2> QED BY <1>4, <2>2 DEF Stands
  <1>8. CASE r = "function"
    <2>1. w[1] = Built[u]
      BY <1>8 DEF EnsuredReturn
    <2>2. R = ts[2]
      BY <1>2, <1>3, <1>8
    <2>3. Translates(w[1], u)
      BY <2>1 DEF Translates
    <2>4. StandsStmt(w, ts, 1)
      BY <1>1, <1>5, <1>6, <2>2, <2>3 DEF StandsStmt
    <2> QED BY <1>4, <2>4 DEF Stands
  <1> QED BY <1>7, <1>8

LEMMA SimInit ==
  ASSUME WhilesHaveBlocks, InitRoutine
  PROVE  SimInv
  <1>1. FormInv /\ GenInv
    BY LiveInit DEF LiveInv, FormInv
  <1>2. PICK f : f = Frame("RoutineEnd", <<>>)
    OBVIOUS
  <1>3. /\ work = <<ast, f>> /\ DOMAIN work = {1, 2} /\ work[1] = ast /\ work[2] = f /\ work # <<>>
        /\ Len(work) = 2
        /\ code = <<<<>>, <<>>>> /\ code[2] = <<>>
        /\ ip = Body /\ Body = 2 /\ pc = <<Entry, 1>> /\ phase \in {"codegen", "rejected"}
        /\ ast \in Stmt
    BY <1>2, StmtAssumption DEF InitRoutine, Init, RunInit, Body
  <1>4. /\ src[1] \in {"procedure", "function"} /\ src[2] \in Parsed /\ src[2].op = "block"
        /\ ast = EnsuredReturn(src[1], Built[src[2]]) /\ todo = <<src[2], FallOff(src[1])>>
    <2>1. src \in Source /\ todo = <<src[2], FallOff(src[1])>>
      BY DEF InitRoutine, RunInit
    <2>2. ast = EnsuredReturn(src[1], Built[src[2]])
      BY DEF InitRoutine, Compiled
    <2> QED BY <2>1, <2>2, SourceAssumption
  <1>5. PICK F : F = <<FallOff("function")>>
    OBVIOUS
  <1>6. PICK T : T = todo
    OBVIOUS
  <1>7. PICK ts : ts = <<T, F>>
    OBVIOUS
  <1>8. ts[1] = T /\ ts[2] = F /\ Len(ts) = 2
    BY <1>7
  <1>9. T \in Todo /\ F \in Todo /\ Stands(work, ts, 1)
    <2>1. PICK u, r : u = src[2] /\ r = src[1]
      OBVIOUS
    <2>2. u \in Parsed /\ u.op = "block" /\ r \in {"procedure", "function"} /\ T = <<u, FallOff(r)>>
      BY <1>4, <1>6, <2>1
    <2>3. PICK w : w = work
      OBVIOUS
    <2>4. w[1] = EnsuredReturn(r, Built[u]) /\ w[1] \in Stmt /\ 2 \in DOMAIN w
      BY <1>3, <1>4, <2>1, <2>3
    <2> QED BY <1>5, <1>8, <2>2, <2>3, <2>4, StartStands
  <1>10. ts \in Seq(Todo)
    BY <1>7, <1>9
  <1>11. f \in Frames /\ f.op = "RoutineEnd"
    BY <1>2 DEF Frame, Frames, FrameOps
  <1>12. Stands(work, ts, 2)
    <2>1. StandsFrame(work, ts, 2)
      BY <1>3, <1>5, <1>8, <1>11 DEF StandsFrame, LoopEnds
    <2> QED BY <2>1 DEF Stands
  <1>13. \A i \in DOMAIN work : Stands(work, ts, i)
    BY <1>3, <1>9, <1>12
  <1>14. \A i \in DOMAIN work : work[i].op \notin LoopEnds /\ work[i].op \notin BreakEnds
    <2>1. ast.op \notin LoopEnds /\ ast.op \notin BreakEnds
      BY <1>3, StmtNoFrame
    <2>2. f.op \notin LoopEnds /\ f.op \notin BreakEnds
      BY <1>11 DEF LoopEnds, BreakEnds
    <2> QED BY <1>3, <2>1, <2>2
  <1>15. LoopsNest(work, ts) /\ HeadersKnown(work, ts, {})
    BY <1>14 DEF LoopsNest, HeadersKnown
  <1>16. SimNow(ts, {})
    BY <1>3, <1>8, <1>10, <1>13, <1>15 DEF SimNow, Sim
  <1>17. <<todo, Body, 1>> \in KnownNow(ts, {})
    <2>1. Here(code, ip) = 1
      <3>1. PICK e : e = code[2]
        OBVIOUS
      <3>2. Len(e) = 0 /\ Here(code, ip) = Len(e) + 1
        BY <1>3, <3>1 DEF Here
      <3> QED BY <3>2
    <2>2. <<ts[1], ip, Here(code, ip)>> \in Waits(work, ts, code, ip)
      BY <1>3, WaitsHere
    <2>3. <<ts[1], Body, 1>> \in Waits(work, ts, code, ip)
      BY <1>3, <2>1, <2>2
    <2> QED BY <1>6, <1>8, <2>3 DEF KnownNow, Known
  <1>18. phase # "run"
    BY <1>3
  <1> QED BY <1>1, <1>3, <1>16, <1>17, <1>18 DEF SimInv

LEMMA SimGenerate ==
  ASSUME WhilesHaveBlocks, SimInv, Generate
  PROVE  SimInv'
  <1>1. FormInv /\ GenInv /\ Paired /\ Next /\ phase = "codegen" /\ phase' = "codegen"
        /\ todo' = todo /\ pc' = pc
    BY DEF SimInv, FormInv, Generate, rvars
  <1>2. FormInv'
    BY <1>1, FormStep
  <1>3. pc' = <<Entry, 1>>
    BY <1>1 DEF SimInv
  <1>4. work # <<>>
    BY <1>1, NextStarts DEF Starts
  <1>5. PICK ts, H : SimNow(ts, H) /\ <<todo, Body, 1>> \in KnownNow(ts, H)
    BY <1>1, <1>4 DEF SimInv
  <1>6. CASE RoutineEnd
    <2>1. PICK T : T = todo
      OBVIOUS
    <2>2. <<T, Body, 1>> \in KnownNow(ts, H)
      BY <1>5, <2>1
    <2>3. PICK G : SimNext(<<>>, G) /\ <<T, Entry, 1>> \in G
      BY <1>1, <1>5, <1>6, <2>2, SimLast
    <2>4. work' = <<>>
      BY <1>1, <1>6, LastStep
    <2>5. Known(G, work', <<>>, code', ip') = G
      BY <2>4, NoWaits
    <2>6. \A h \in G : Advances(h, code', G)
      BY <2>3, <2>5 DEF SimNext, Sim
    <2>7. work' = <<>> /\ \E K : Settled(K)' /\ <<todo', Entry, 1>> \in K
      BY <1>1, <2>1, <2>3, <2>4, <2>6 DEF Settled
    <2> QED BY <1>1, <1>2, <1>3, <2>7 DEF SimInv
  <1>7. CASE ~RoutineEnd
    <2>1. PICK tv, G : SimNext(tv, G) /\ KnownNow(ts, H) \subseteq KnownNext(tv, G)
      BY <1>1, <1>5, <1>7, SimStep DEF SimKept
    <2>2. work' # <<>>
      BY <1>1, <1>7, NextLeavesWork
    <2>3. SimNow(tv, G)' /\ <<todo', Body, 1>> \in KnownNow(tv, G)'
      BY <1>1, <1>5, <2>1 DEF SimNow, SimNext, KnownNow, KnownNext
    <2>4. work' # <<>> /\ \E us, K : SimNow(us, K)' /\ <<todo', Body, 1>> \in KnownNow(us, K)'
      BY <2>2, <2>3
    <2> QED BY <1>1, <1>2, <1>3, <2>4 DEF SimInv
  <1> QED BY <1>6, <1>7

LEMMA SimInvStep ==
  ASSUME WhilesHaveBlocks, SimInv, [NextRoutine]_vars
  PROVE  SimInv'
  <1>1. CASE Generate
    BY <1>1, SimGenerate
  <1>2. ASSUME UNCHANGED gvars
        PROVE  /\ FormInv' /\ work' = work
               /\ \A H : Settled(H)' <=> Settled(H)
               /\ \A ts, H : SimNow(ts, H) => SimNow(ts, H)' /\ KnownNow(ts, H)' = KnownNow(ts, H)
    <2>1. GenInv <=> GenInv'
      BY <1>2 DEF gvars, GenInv, BlockInv, TypeOK, WorkInv, WaitingInv, SealedInv, PlacedInv,
                  LoopInv, IsLoopStack
    <2>2. FormInv'
      BY <1>2, <2>1 DEF SimInv, FormInv, CodeForm, Paired, gvars
    <2> QED BY <1>2, <2>2 DEF Settled, SimNow, KnownNow, gvars
  <1>3. CASE Start
    <2>1. UNCHANGED gvars /\ phase = "codegen" /\ work = <<>> /\ phase' = "run"
          /\ pc' = pc /\ todo' = todo
      BY <1>3 DEF Start, Done
    <2>2. PICK H : Settled(H) /\ <<todo, Entry, 1>> \in H
      BY <2>1 DEF SimInv
    <2>3. pc = <<Entry, 1>>
      BY <2>1 DEF SimInv
    <2>4. Meets(H)
      BY <2>2, <2>3, MeetHere
    <2>5. Meets(H)'
      BY <2>1, <2>4, MeetKept DEF gvars
    <2>6. work' = <<>> /\ Settled(H)'
      BY <1>2, <2>1, <2>2
    <2> QED BY <1>2, <2>1, <2>5, <2>6 DEF SimInv
  <1>4. CASE Approach \/ \E outcome \in BOOLEAN : Perform(outcome)
    <2>1. UNCHANGED gvars /\ phase = "run" /\ phase' = "run"
      BY <1>4 DEF Approach, Perform, BothShow
    <2>2. PICK H : work = <<>> /\ Settled(H) /\ Meets(H)
      BY <2>1 DEF SimInv
    <2>3. Meets(H)'
      BY <1>4, <2>2, MeetApproach, MeetPerform
    <2>4. work' = <<>> /\ Settled(H)'
      BY <1>2, <2>1, <2>2
    <2> QED BY <1>2, <2>1, <2>3, <2>4 DEF SimInv
  <1>5. CASE Leave
    <2>1. UNCHANGED gvars /\ phase' = "returned"
      BY <1>5 DEF Leave
    <2> QED BY <1>2, <2>1 DEF SimInv
  <1>6. CASE UNCHANGED vars
    <2>1. UNCHANGED gvars /\ phase' = phase /\ pc' = pc /\ todo' = todo
      BY <1>6 DEF vars, rvars
    <2>2. \A H : Meets(H) => Meets(H)'
      BY <2>1, MeetKept DEF gvars
    <2>3. phase' = "run" => work' = <<>> /\ \E H : Settled(H)' /\ Meets(H)'
      BY <1>2, <2>1, <2>2 DEF SimInv
    <2>4. phase' = "codegen" =>
            /\ pc' = <<Entry, 1>>
            /\ \/ work' # <<>> /\ \E ts, H : SimNow(ts, H)' /\ <<todo', Body, 1>> \in KnownNow(ts, H)'
               \/ work' = <<>> /\ \E H : Settled(H)' /\ <<todo', Entry, 1>> \in H
      BY <1>2, <2>1 DEF SimInv
    <2>5. FormInv'
      BY <1>2, <2>1
    <2> QED BY <2>3, <2>4, <2>5 DEF SimInv
  <1> QED BY <1>1, <1>3, <1>4, <1>5, <1>6 DEF NextRoutine

(* Whatever the conditions turn out to be, the code generated for a        *)
(* routine does what its source means, step by step: when both can be seen *)
(* to do something they do the same.  A while or do-while whose body is no *)
(* block loses its loop when the tree is built, so those are excluded.     *)
THEOREM CodeDoesAsSource ==
  ASSUME WhilesHaveBlocks
  PROVE  SpecRoutine => []SameBehaviour
  <1>1. InitRoutine => SimInv
    BY SimInit
  <1>2. SimInv /\ [NextRoutine]_vars => SimInv'
    BY SimInvStep
  <1>3. SimInv => SameBehaviour
    <2> SUFFICES ASSUME SimInv, BothShow PROVE Agree
      BY DEF SameBehaviour
    <2>1. PICK H : Settled(H) /\ Meets(H)
      BY DEF SimInv, BothShow
    <2> QED BY <2>1, MeetAgree
  <1> QED BY <1>1, <1>2, <1>3, PTL DEF SpecRoutine
=============================================================================
