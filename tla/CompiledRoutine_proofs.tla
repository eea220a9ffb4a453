----------------------- MODULE CompiledRoutine_proofs -----------------------
(***************************************************************************)
(* Theorems about BlockCodegen, for every set of statements and routines,  *)
(* and about CompiledRoutine, which runs the code it generates.            *)
(***************************************************************************)
EXTENDS CompiledRoutine, TLAPS, SequenceTheorems, WellFoundedInduction, NaturalsInduction

(* Adding instructions to a block changes that block only.                 *)
Emitted(c, b, s, r) ==
  /\ r \in Seq(Seq(Instr))
  /\ Len(r) = Len(c)
  /\ DOMAIN r = DOMAIN c
  /\ r[b] = c[b] \o s
  /\ \A d \in DOMAIN c : d # b => r[d] = c[d]

LEMMA EmitType ==
  ASSUME NEW c \in Seq(Seq(Instr)), NEW b \in DOMAIN c, NEW s \in Seq(Instr)
  PROVE  Emitted(c, b, s, Emit(c, b, s))
  <1>1. c[b] \in Seq(Instr) /\ c[b] \o s \in Seq(Instr)
    OBVIOUS
  <1> QED BY <1>1 DEF Emit, Emitted

(* Creating n blocks leaves the others alone; the new ones are empty.      *)
LEMMA CreateType ==
  ASSUME NEW c \in Seq(Seq(Instr)), NEW n \in Nat
  PROVE  /\ Create(c, n) \in Seq(Seq(Instr))
         /\ Len(Create(c, n)) = Len(c) + n
         /\ DOMAIN Create(c, n) = 1 .. Len(c) + n
         /\ \A d \in DOMAIN c : d \in DOMAIN Create(c, n) /\ Create(c, n)[d] = c[d]
         /\ \A i \in 1 .. n : Create(c, n)[Len(c) + i] = <<>>
  <1> DEFINE e == [i \in 1 .. n |-> <<>>]
  <1>1. e \in Seq(Seq(Instr)) /\ Len(e) = n
    <2>1. <<>> \in Seq(Instr)
      OBVIOUS
    <2> QED BY <2>1
  <1>2. \A i \in 1 .. n : e[i] = <<>>
    OBVIOUS
  <1> HIDE DEF e
  <1>3. Create(c, n) = c \o e
    BY DEF Create, e
  <1>4. Create(c, n) \in Seq(Seq(Instr)) /\ Len(Create(c, n)) = Len(c) + n
    BY <1>1, <1>3, ConcatProperties, Zenon
  <1>5. \A d \in DOMAIN c : Create(c, n)[d] = c[d]
    BY <1>1, <1>3
  <1>6. \A i \in 1 .. n : Create(c, n)[Len(c) + i] = <<>>
    <2> TAKE i \in 1 .. n
    <2>1. (c \o e)[Len(c) + i] = e[i]
      BY <1>1
    <2> QED BY <2>1, <1>2, <1>3
  <1>7. DOMAIN Create(c, n) = 1 .. Len(c) + n
    BY <1>4
  <1> QED BY <1>4, <1>5, <1>6, <1>7

LEMMA SealedAppend ==
  ASSUME NEW s \in Seq(Instr), NEW r \in Seq(Instr), Running(s), Sealed(r)
  PROVE  Sealed(s \o r)
  <1>1. r # <<>> /\ Len(r) > 0
    BY DEF Sealed
  <1>2. s \o r # <<>> /\ Len(s \o r) = Len(s) + Len(r)
    BY <1>1
  <1>3. ASSUME NEW i \in DOMAIN (s \o r)
        PROVE  IsTerminator((s \o r)[i]) <=> i = Len(s \o r)
    <2>1. CASE i <= Len(s)
      <3>1. (s \o r)[i] = s[i] /\ i \in DOMAIN s
        BY <2>1
      <3> QED BY <3>1, <2>1, <1>1, <1>2 DEF Running
    <2>2. CASE i > Len(s)
      <3>1. (s \o r)[i] = r[i - Len(s)] /\ i - Len(s) \in DOMAIN r
        BY <2>2, <1>2
      <3> QED BY <3>1, <2>2, <1>2 DEF Sealed
    <2> QED BY <2>1, <2>2
  <1> QED BY <1>2, <1>3 DEF Sealed

LEMMA RunningAppend ==
  ASSUME NEW s \in Seq(Instr), NEW r \in Seq(Instr), Running(s), Running(r)
  PROVE  Running(s \o r)
  <1> SUFFICES ASSUME NEW i \in DOMAIN (s \o r) PROVE ~IsTerminator((s \o r)[i])
    BY DEF Running
  <1>1. CASE i <= Len(s)
    <2>1. (s \o r)[i] = s[i] /\ i \in DOMAIN s
      BY <1>1
    <2> QED BY <2>1 DEF Running
  <1>2. CASE i > Len(s)
    <2>1. (s \o r)[i] = r[i - Len(s)] /\ i - Len(s) \in DOMAIN r
      BY <1>2
    <2> QED BY <2>1 DEF Running
  <1> QED BY <1>1, <1>2

(* The instructions the visitors emit.                                     *)
LEMMA InstrType ==
  /\ \A b \in Nat : Br(b) \in Instr /\ Br(b).to = <<b>> /\ IsTerminator(Br(b))
  /\ \A b, c \in Nat : CondBr(b, c) \in Instr /\ CondBr(b, c).to = <<b, c>> /\ IsTerminator(CondBr(b, c))
  /\ Unreachable \in Instr /\ Unreachable.to = <<>> /\ IsTerminator(Unreachable)
  /\ \A t \in Stmt :
       /\ Ret(t) \in Instr /\ Ret(t).to = <<>> /\ IsTerminator(Ret(t))
       /\ Do(t) \in Instr /\ Do(t).to = <<>> /\ ~IsTerminator(Do(t))
       /\ Eval(t) \in Instr /\ Eval(t).to = <<>> /\ ~IsTerminator(Eval(t))
       /\ Enter(t) \in Instr /\ Enter(t).to = <<>> /\ ~IsTerminator(Enter(t))
  <1> USE DEF Instr, At, Terminators, IsTerminator
  <1>1. \A b \in Nat : Br(b) \in Instr /\ Br(b).to = <<b>> /\ IsTerminator(Br(b))
    BY DEF Br
  <1>2. \A b, c \in Nat : CondBr(b, c) \in Instr /\ CondBr(b, c).to = <<b, c>> /\ IsTerminator(CondBr(b, c))
    BY DEF CondBr
  <1>3. Unreachable \in Instr /\ Unreachable.to = <<>> /\ IsTerminator(Unreachable)
    BY DEF Unreachable
  <1>4. ASSUME NEW t \in Stmt
        PROVE  Ret(t) \in Instr /\ Ret(t).to = <<>> /\ IsTerminator(Ret(t))
    BY DEF Ret
  <1>5. ASSUME NEW t \in Stmt
        PROVE  Do(t) \in Instr /\ Do(t).to = <<>> /\ ~IsTerminator(Do(t))
    BY DEF Do
  <1>6. ASSUME NEW t \in Stmt
        PROVE  Eval(t) \in Instr /\ Eval(t).to = <<>> /\ ~IsTerminator(Eval(t))
    BY DEF Eval
  <1>7. ASSUME NEW t \in Stmt
        PROVE  Enter(t) \in Instr /\ Enter(t).to = <<>> /\ ~IsTerminator(Enter(t))
    BY DEF Enter
  <1> QED BY <1>1, <1>2, <1>3, <1>4, <1>5, <1>6, <1>7

LEMMA BranchesAppend ==
  ASSUME NEW D, NEW s \in Seq(Instr), NEW r \in Seq(Instr),
         BranchesInto(s, D), BranchesInto(r, D)
  PROVE  BranchesInto(s \o r, D)
  <1> SUFFICES ASSUME NEW i \in DOMAIN (s \o r), NEW k \in DOMAIN (s \o r)[i].to
               PROVE  (s \o r)[i].to[k] \in D
    BY DEF BranchesInto
  <1>1. CASE i <= Len(s)
    <2>1. (s \o r)[i] = s[i] /\ i \in DOMAIN s
      BY <1>1
    <2> QED BY <2>1 DEF BranchesInto
  <1>2. CASE i > Len(s)
    <2>1. (s \o r)[i] = r[i - Len(s)] /\ i - Len(s) \in DOMAIN r
      BY <1>2
    <2> QED BY <2>1 DEF BranchesInto
  <1> QED BY <1>1, <1>2

(* A statement is no frame, and opens no block.                            *)
LEMMA StmtIsNoFrame ==
  ASSUME NEW t \in Stmt
  PROVE  t.op \notin FrameOps /\ Owned(t) = {} /\ t.kids \in Seq(Stmt)
  BY StmtAssumption DEF Ops, FrameOps, LoopEnds, CondEnds, Owned

(* The visits that a step leaves are those it starts, then the older ones. *)
LEMMA NextVisits ==
  ASSUME NEW S, NEW w \in Seq(S), w # <<>>, NEW X \in Seq(S), NEW i \in DOMAIN (X \o Tail(w))
  PROVE  \/ i \in DOMAIN X /\ (X \o Tail(w))[i] = X[i]
         \/ /\ i > Len(X) /\ i - Len(X) + 1 \in DOMAIN w \ {1}
            /\ (X \o Tail(w))[i] = w[i - Len(X) + 1]
  OBVIOUS

LEMMA OlderVisits ==
  ASSUME NEW S, NEW w \in Seq(S), w # <<>>, NEW X \in Seq(S), NEW i \in DOMAIN w \ {1}
  PROVE  /\ i + Len(X) - 1 \in DOMAIN (X \o Tail(w))
         /\ (X \o Tail(w))[i + Len(X) - 1] = w[i]
  OBVIOUS

(* Both together, for the lemmas about steps.                              *)
Shifted(v, X, w) ==
  /\ \A i \in DOMAIN v :
       \/ i \in DOMAIN X /\ v[i] = X[i]
       \/ /\ i > Len(X) /\ i - Len(X) + 1 \in DOMAIN w \ {1}
          /\ v[i] = w[i - Len(X) + 1]
  /\ \A i \in DOMAIN w \ {1} : i + Len(X) - 1 \in DOMAIN v /\ v[i + Len(X) - 1] = w[i]

LEMMA VisitsShift ==
  ASSUME NEW S, NEW w \in Seq(S), w # <<>>, NEW X \in Seq(S), NEW v, v = X \o Tail(w)
  PROVE  Shifted(v, X, w)
  <1>1. ASSUME NEW i \in DOMAIN v
        PROVE  \/ i \in DOMAIN X /\ v[i] = X[i]
               \/ /\ i > Len(X) /\ i - Len(X) + 1 \in DOMAIN w \ {1}
                  /\ v[i] = w[i - Len(X) + 1]
    BY NextVisits
  <1>2. ASSUME NEW i \in DOMAIN w \ {1}
        PROVE  i + Len(X) - 1 \in DOMAIN v /\ v[i + Len(X) - 1] = w[i]
    BY OlderVisits
  <1> QED BY <1>1, <1>2 DEF Shifted

LEMMA NewVisits ==
  ASSUME NEW S, NEW w \in Seq(S), w # <<>>, NEW X \in Seq(S), NEW i \in DOMAIN X
  PROVE  i \in DOMAIN (X \o Tail(w)) /\ (X \o Tail(w))[i] = X[i]
  OBVIOUS
-----------------------------------------------------------------------------
(* A visit of a statement: it writes the current block and blocks it       *)
(* creates, and starts the visits X.                                       *)
VisitOf(X) ==
  /\ work # <<>> /\ Top \in Stmt
  /\ X \in Seq(Stmt \union Frames)
  /\ work' = X \o Under
  /\ ast' = ast
  /\ code' \in Seq(Seq(Instr))
  /\ Len(code') >= Len(code)
  /\ \A b \in DOMAIN code : b # ip => code'[b] = code[b]
  /\ ip' \in DOMAIN code'
  /\ \/ ip' = ip /\ Running(code'[ip])
     \/ ip' \notin DOMAIN code /\ code'[ip'] = <<>> /\ Sealed(code'[ip])
  /\ placed \subseteq placed' /\ placed' \subseteq DOMAIN code'
  /\ LoopBeginBlocks' \in Seq(DOMAIN code') /\ LoopEndBlocks' \in Seq(DOMAIN code')

Fresh == DOMAIN code' \ DOMAIN code

(* The frames among X name blocks of the function; the blocks they own are *)
(* fresh, empty and owned once.                                            *)
FramesOf(X) ==
  \A i \in DOMAIN X :
    /\ X[i].op # "RoutineEnd"
    /\ X[i].op \in FrameOps => X[i].blks \in Seq(DOMAIN code')
    /\ X[i].op \in LoopEnds \union {"IfBranchEnd"} => Len(X[i].blks) = 2
    /\ X[i].op \in {"ConditionalEnd", "ElseBranchEnd"} => Len(X[i].blks) = 1
    /\ \A b \in Owned(X[i]) :
         /\ b \in Fresh /\ b # ip' /\ code'[b] = <<>>
         /\ \A j \in DOMAIN X : b \in Owned(X[j]) => i = j

(* Each fresh block is finished, current or owned, and in the function or  *)
(* waiting for a ConditionalEnd; the branches written stay inside.         *)
FreshOf(X) ==
  /\ \A b \in Fresh :
       /\ Sealed(code'[b]) \/ b = ip' \/ \E i \in DOMAIN X : b \in Owned(X[i])
       /\ b \in placed' \/ \E i \in DOMAIN X : X[i].op = "ConditionalEnd" /\ X[i].blks[1] = b
       /\ BranchesInto(code'[b], DOMAIN code')
  /\ BranchesInto(code'[ip], DOMAIN code')

LEMMA VisitKeepsInv ==
  ASSUME BlockInv, NEW X, VisitOf(X), FramesOf(X), FreshOf(X)
  PROVE  BlockInv'
  <1>0. /\ work \in Seq(Stmt \union Frames) /\ work # <<>> /\ Top = work[1]
        /\ X \in Seq(Stmt \union Frames) /\ work' = X \o Tail(work)
        /\ code \in Seq(Seq(Instr)) /\ code' \in Seq(Seq(Instr))
        /\ ip \in DOMAIN code
    BY DEF BlockInv, VisitOf, TypeOK, Top, Under
  <1>w. /\ work \in Seq(Stmt \union Frames) /\ work # <<>>
        /\ X \in Seq(Stmt \union Frames)
    BY <1>0
  <1>1. work' \in Seq(Stmt \union Frames) /\ Len(work') = Len(X) + Len(work) - 1
    BY <1>0
  <1>2. DOMAIN code \subseteq DOMAIN code'
    BY <1>0 DEF VisitOf
  <1>3. Top.op \notin FrameOps /\ Owned(Top) = {}
    BY StmtIsNoFrame DEF VisitOf
  <1>s. Shifted(work', X, work)
    BY <1>0, <1>w, VisitsShift
  <1>4. \A i \in DOMAIN work' :
          \/ i \in DOMAIN X /\ work'[i] = X[i]
          \/ i > Len(X) /\ i - Len(X) + 1 \in DOMAIN work \ {1} /\ work'[i] = work[i - Len(X) + 1]
    BY <1>s DEF Shifted
  <1>5. \A i \in DOMAIN work \ {1} :
          i + Len(X) - 1 \in DOMAIN work' /\ work'[i + Len(X) - 1] = work[i]
    BY <1>s DEF Shifted
  <1>6. \A i \in DOMAIN X : i \in DOMAIN work' /\ work'[i] = X[i]
    BY <1>0, <1>w, NewVisits
  <1>7. /\ Len(X) \in Nat /\ Len(work) \in Nat /\ Len(work) > 0
        /\ DOMAIN X = 1 .. Len(X) /\ DOMAIN work = 1 .. Len(work) /\ DOMAIN work' = 1 .. Len(work')
    BY <1>0, <1>1
  <1>8. Len(work) > 1
    <2>1. work[1].op # "RoutineEnd"
      BY <1>0, <1>3 DEF FrameOps
    <2>2. Len(work) # 1
      BY <1>7, <2>1 DEF WorkInv, BlockInv
    <2> QED BY <1>7, <2>2
  <1>9. TypeOK'
    BY <1>1 DEF VisitOf, TypeOK, BlockInv
  <1>10. WorkInv'
    <2> SUFFICES ASSUME NEW i \in DOMAIN work'
        PROVE  /\ work'[i].op = "RoutineEnd" <=> i = Len(work')
               /\ work'[i].op \in FrameOps => work'[i].blks \in Seq(DOMAIN code')
               /\ work'[i].op \in LoopEnds \union {"IfBranchEnd"} => Len(work'[i].blks) = 2
               /\ work'[i].op \in {"ConditionalEnd", "ElseBranchEnd"} => Len(work'[i].blks) = 1
      BY DEF WorkInv
    <2>1. CASE i \in DOMAIN X /\ work'[i] = X[i]
      BY <1>1, <1>7, <1>8, <2>1 DEF FramesOf
    <2>2. CASE i > Len(X) /\ i - Len(X) + 1 \in DOMAIN work \ {1} /\ work'[i] = work[i - Len(X) + 1]
      <3> DEFINE k == i - Len(X) + 1
      <3>1. k \in DOMAIN work /\ work'[i] = work[k]
        BY <2>2
      <3>2. k = Len(work) <=> i = Len(work')
        BY <1>1, <1>7
      <3> HIDE DEF k
      <3>3. work[k].op \in FrameOps => work[k].blks \in Seq(DOMAIN code')
        BY <3>1, <1>2, SeqMonotonic DEF WorkInv, BlockInv
      <3> QED BY <3>1, <3>2, <3>3 DEF WorkInv, BlockInv
    <2> QED BY <1>4, <2>1, <2>2
  <1>11. WaitingInv'
    <2> SUFFICES ASSUME NEW i \in DOMAIN work', NEW b \in Owned(work'[i])
        PROVE  /\ b \in DOMAIN code' /\ b # ip' /\ code'[b] = <<>>
               /\ \A j \in DOMAIN work' : b \in Owned(work'[j]) => i = j
      BY DEF WaitingInv
    <2>1. CASE i \in DOMAIN X /\ work'[i] = X[i]
      <3>1. b \in Fresh /\ b # ip' /\ code'[b] = <<>>
        BY <2>1 DEF FramesOf
      <3>2. ASSUME NEW j \in DOMAIN work', b \in Owned(work'[j]) PROVE i = j
        <4>1. CASE j \in DOMAIN X /\ work'[j] = X[j]
          BY <2>1, <3>2, <4>1 DEF FramesOf
        <4>2. CASE j - Len(X) + 1 \in DOMAIN work \ {1} /\ work'[j] = work[j - Len(X) + 1]
          BY <3>1, <3>2, <4>2 DEF WaitingInv, BlockInv, Fresh
        <4> QED BY <1>4, <4>1, <4>2
      <3> QED BY <3>1, <3>2 DEF Fresh
    <2>2. CASE i > Len(X) /\ i - Len(X) + 1 \in DOMAIN work \ {1} /\ work'[i] = work[i - Len(X) + 1]
      <3>1. b \in DOMAIN code /\ b # ip /\ code[b] = <<>>
        BY <2>2 DEF WaitingInv, BlockInv
      <3>2. b \in DOMAIN code' /\ b # ip' /\ code'[b] = <<>>
        BY <1>2, <3>1 DEF VisitOf
      <3>3. ASSUME NEW j \in DOMAIN work', b \in Owned(work'[j]) PROVE i = j
        <4>1. CASE j \in DOMAIN X /\ work'[j] = X[j]
          BY <3>1, <3>3, <4>1 DEF FramesOf, Fresh
        <4>2. CASE j > Len(X) /\ j - Len(X) + 1 \in DOMAIN work \ {1} /\ work'[j] = work[j - Len(X) + 1]
          <5>1. i - Len(X) + 1 = j - Len(X) + 1
            BY <2>2, <3>3, <4>2 DEF WaitingInv, BlockInv
          <5> QED BY <1>7, <5>1
        <4> QED BY <1>4, <4>1, <4>2
      <3> QED BY <3>2, <3>3
    <2> QED BY <1>4, <2>1, <2>2
  <1>12. SealedInv'
    <2>1. work' # <<>>
      BY <1>1, <1>7, <1>8
    <2>2. Running(code'[ip'])
      BY DEF VisitOf, Running
    <2> SUFFICES ASSUME NEW b \in DOMAIN code'
        PROVE  \/ Sealed(code'[b])
               \/ work' # <<>> /\ b = ip'
               \/ \E i \in DOMAIN work' : b \in Owned(work'[i])
      BY <2>2 DEF SealedInv
    <2>3. CASE b \in Fresh
      BY <1>6, <2>1, <2>3 DEF FreshOf
    <2>4. CASE b = ip
      BY <2>1, <2>4 DEF VisitOf
    <2>5. CASE b \in DOMAIN code /\ b # ip
      <3>1. code'[b] = code[b]
        BY <2>5 DEF VisitOf
      <3>2. CASE Sealed(code[b])
        BY <3>1, <3>2
      <3>3. ASSUME NEW i \in DOMAIN work, b \in Owned(work[i])
            PROVE  \E j \in DOMAIN work' : b \in Owned(work'[j])
        <4>1. i # 1
          BY <1>0, <1>3, <3>3
        <4> QED BY <1>5, <3>3, <4>1
      <3> QED BY <2>5, <3>2, <3>3 DEF SealedInv, BlockInv
    <2> QED BY <2>3, <2>4, <2>5 DEF Fresh
  <1>13. PlacedInv'
    <2>1. ASSUME NEW b \in DOMAIN code' \ placed'
          PROVE  \E i \in DOMAIN work' : work'[i].op = "ConditionalEnd" /\ work'[i].blks[1] = b
      <3>1. CASE b \in Fresh
        BY <1>6, <2>1, <3>1 DEF FreshOf
      <3>2. CASE b \in DOMAIN code \ placed
        <4>1. PICK i \in DOMAIN work : work[i].op = "ConditionalEnd" /\ work[i].blks[1] = b
          BY <3>2 DEF PlacedInv, BlockInv
        <4>2. i # 1
          BY <1>0, <1>3, <4>1 DEF FrameOps, CondEnds
        <4> QED BY <1>5, <4>1, <4>2
      <3> QED BY <2>1, <3>1, <3>2 DEF Fresh, VisitOf
    <2>2. ASSUME NEW b \in DOMAIN code' PROVE BranchesInto(code'[b], DOMAIN code')
      <3>1. CASE b \in Fresh \/ b = ip
        BY <3>1 DEF FreshOf
      <3>2. CASE b \in DOMAIN code /\ b # ip
        <4>1. code'[b] = code[b] /\ BranchesInto(code[b], DOMAIN code)
          BY <3>2 DEF VisitOf, PlacedInv, BlockInv
        <4> QED BY <1>2, <4>1 DEF BranchesInto
      <3> QED BY <3>1, <3>2 DEF Fresh
    <2> QED BY <2>1, <2>2 DEF PlacedInv
  <1> QED BY <1>9, <1>10, <1>11, <1>12, <1>13 DEF BlockInv
-----------------------------------------------------------------------------
(* The end of a visit: a branch ends the current block, and writing goes   *)
(* on in the block the visit had opened.                                   *)
LeaveTo(target) ==
  /\ work # <<>> /\ Top.op \in LoopEnds \union CondEnds
  /\ work' = Under /\ ast' = ast
  /\ target \in DOMAIN code /\ code' = Emit(code, ip, <<Br(target)>>)
  /\ Owned(Top) = {ip'}
  /\ placed' = placed \/ placed' = placed \union {ip'}
  /\ Top.op = "ConditionalEnd" => ip' \in placed' /\ Top.blks[1] = ip'
  /\ LoopBeginBlocks' \in Seq(DOMAIN code) /\ LoopEndBlocks' \in Seq(DOMAIN code)

LEMMA BrSealed ==
  ASSUME NEW b \in Nat
  PROVE  <<Br(b)>> \in Seq(Instr) /\ Sealed(<<Br(b)>>)
         /\ \A D : b \in D => BranchesInto(<<Br(b)>>, D)
  BY InstrType DEF Sealed, BranchesInto

LEMMA LeaveKeepsInv ==
  ASSUME BlockInv, NEW target, LeaveTo(target)
  PROVE  BlockInv'
  <1>0. /\ work \in Seq(Stmt \union Frames) /\ work # <<>> /\ Top = work[1]
        /\ work' = Tail(work)
        /\ code \in Seq(Seq(Instr)) /\ ip \in DOMAIN code /\ target \in DOMAIN code
        /\ target \in Nat /\ placed \subseteq DOMAIN code
    <2>1. work \in Seq(Stmt \union Frames) /\ code \in Seq(Seq(Instr)) /\ ip \in DOMAIN code
          /\ placed \subseteq DOMAIN code
      BY DEF BlockInv, TypeOK
    <2>2. work # <<>> /\ Top = work[1] /\ work' = Tail(work) /\ target \in DOMAIN code
      BY DEF LeaveTo, Top, Under
    <2>3. target \in Nat
      BY <2>1, <2>2
    <2> QED BY <2>1, <2>2, <2>3
  <1>1. /\ work' \in Seq(Stmt \union Frames) /\ Len(work') = Len(work) - 1
        /\ Len(work) \in Nat /\ Len(work) > 0
        /\ DOMAIN work = 1 .. Len(work) /\ DOMAIN work' = 1 .. Len(work')
        /\ \A i \in DOMAIN work' : i + 1 \in DOMAIN work \ {1} /\ work'[i] = work[i + 1]
        /\ \A i \in DOMAIN work \ {1} : i - 1 \in DOMAIN work' /\ work'[i - 1] = work[i]
    BY <1>0
  <1>2. /\ <<Br(target)>> \in Seq(Instr) /\ Sealed(<<Br(target)>>)
        /\ BranchesInto(<<Br(target)>>, DOMAIN code)
    BY <1>0, BrSealed
  <1>3. /\ code' \in Seq(Seq(Instr)) /\ DOMAIN code' = DOMAIN code
        /\ code'[ip] = code[ip] \o <<Br(target)>>
        /\ \A b \in DOMAIN code : b # ip => code'[b] = code[b]
    <2> DEFINE r == <<Br(target)>>
    <2>1. code' = Emit(code, ip, r) /\ r \in Seq(Instr)
      BY <1>2 DEF LeaveTo
    <2> HIDE DEF r
    <2>2. code'[ip] = code[ip] \o r /\ code' \in Seq(Seq(Instr)) /\ DOMAIN code' = DOMAIN code
          /\ \A b \in DOMAIN code : b # ip => code'[b] = code[b]
      <3>1. Emitted(code, ip, r, code')
        BY <1>0, <2>1, EmitType
      <3> QED BY <3>1 DEF Emitted
    <2> QED BY <2>2 DEF r
  <1>4. ip' \in Owned(work[1]) /\ Owned(work[1]) = {ip'} /\ work[1].op # "RoutineEnd"
    BY <1>0 DEF LeaveTo, LoopEnds, CondEnds
  <1>5. /\ ip' \in DOMAIN code /\ ip' # ip /\ code[ip'] = <<>>
        /\ \A j \in DOMAIN work : ip' \in Owned(work[j]) => j = 1
    <2>1. 1 \in DOMAIN work
      BY <1>1
    <2>2. \A b \in Owned(work[1]) :
            /\ b \in DOMAIN code /\ b # ip /\ code[b] = <<>>
            /\ \A j \in DOMAIN work : b \in Owned(work[j]) => 1 = j
      BY <2>1 DEF WaitingInv, BlockInv
    <2> QED BY <1>4, <2>2
  <1>6. Running(code'[ip'])
    BY <1>3, <1>5 DEF Running
  <1>7. Len(work) > 1
    BY <1>1, <1>4 DEF WorkInv, BlockInv
  <1>8. Sealed(code'[ip])
    <2>1. Running(code[ip]) /\ code[ip] \in Seq(Instr)
      BY <1>0 DEF SealedInv, BlockInv
    <2> DEFINE r == <<Br(target)>>
    <2>2. r \in Seq(Instr) /\ Sealed(r) /\ code'[ip] = code[ip] \o r
      BY <1>2, <1>3
    <2> HIDE DEF r
    <2> QED BY <2>1, <2>2, SealedAppend
  <1>9. TypeOK'
    <2>1. placed' \subseteq DOMAIN code'
      BY <1>0, <1>3, <1>5 DEF LeaveTo
    <2>2. LoopBeginBlocks' \in Seq(DOMAIN code') /\ LoopEndBlocks' \in Seq(DOMAIN code')
      BY <1>3 DEF LeaveTo
    <2> QED BY <1>1, <1>3, <1>5, <2>1, <2>2 DEF TypeOK, BlockInv, LeaveTo
  <1>10. WorkInv'
    BY <1>1, <1>3, <1>7 DEF WorkInv, BlockInv
  <1>11. WaitingInv'
    <2> SUFFICES ASSUME NEW i \in DOMAIN work', NEW b \in Owned(work'[i])
        PROVE  /\ b \in DOMAIN code' /\ b # ip' /\ code'[b] = <<>>
               /\ \A j \in DOMAIN work' : b \in Owned(work'[j]) => i = j
      BY DEF WaitingInv
    <2>1. i + 1 \in DOMAIN work \ {1} /\ b \in Owned(work[i + 1])
      BY <1>1
    <2>2. b \in DOMAIN code /\ b # ip /\ code[b] = <<>>
          /\ \A j \in DOMAIN work : b \in Owned(work[j]) => i + 1 = j
      BY <2>1 DEF WaitingInv, BlockInv
    <2>3. b # ip'
      BY <1>5, <2>1
    <2>4. ASSUME NEW j \in DOMAIN work', b \in Owned(work'[j]) PROVE i = j
      <3>1. j + 1 \in DOMAIN work /\ b \in Owned(work[j + 1])
        BY <1>1, <2>4
      <3>2. i + 1 = j + 1
        BY <2>2, <3>1
      <3> QED BY <1>1, <3>2
    <2> QED BY <1>3, <2>2, <2>3, <2>4
  <1>12. SealedInv'
    <2> SUFFICES ASSUME NEW b \in DOMAIN code'
        PROVE  \/ Sealed(code'[b])
               \/ work' # <<>> /\ b = ip'
               \/ \E i \in DOMAIN work' : b \in Owned(work'[i])
      BY <1>6 DEF SealedInv
    <2>1. work' # <<>>
      BY <1>1, <1>7
    <2>2. CASE b = ip
      BY <1>8, <2>2
    <2>3. CASE b # ip /\ Sealed(code[b])
      BY <1>3, <2>3
    <2>4. ASSUME NEW i \in DOMAIN work, b \in Owned(work[i])
          PROVE  b = ip' \/ \E j \in DOMAIN work' : b \in Owned(work'[j])
      <3>1. CASE i = 1
        BY <1>4, <2>4, <3>1
      <3>2. CASE i # 1
        <4>1. i - 1 \in DOMAIN work' /\ work'[i - 1] = work[i]
          BY <1>1, <3>2
        <4> QED BY <2>4, <4>1
      <3> QED BY <3>1, <3>2
    <2> QED BY <1>3, <2>1, <2>2, <2>3, <2>4 DEF SealedInv, BlockInv
  <1>13. PlacedInv'
    <2>1. ASSUME NEW b \in DOMAIN code' \ placed'
          PROVE  \E i \in DOMAIN work' : work'[i].op = "ConditionalEnd" /\ work'[i].blks[1] = b
      <3>1. b \in DOMAIN code \ placed
        BY <1>3, <2>1 DEF LeaveTo
      <3>2. PICK i \in DOMAIN work : work[i].op = "ConditionalEnd" /\ work[i].blks[1] = b
        BY <3>1 DEF PlacedInv, BlockInv
      <3>3. i # 1
        BY <1>0, <2>1, <3>2 DEF LeaveTo
      <3>4. i - 1 \in DOMAIN work' /\ work'[i - 1] = work[i]
        BY <1>1, <3>3
      <3> QED BY <3>2, <3>4
    <2>2. ASSUME NEW b \in DOMAIN code' PROVE BranchesInto(code'[b], DOMAIN code')
      <3>1. BranchesInto(code[b], DOMAIN code) /\ code[b] \in Seq(Instr)
        BY <1>0, <1>3 DEF PlacedInv, BlockInv
      <3>2. CASE b # ip
        BY <1>3, <3>1, <3>2
      <3>3. CASE b = ip
        BY <1>2, <1>3, <3>1, <3>3, BranchesAppend
      <3> QED BY <3>2, <3>3
    <2> QED BY <2>1, <2>2 DEF PlacedInv
  <1> QED BY <1>9, <1>10, <1>11, <1>12, <1>13 DEF BlockInv
-----------------------------------------------------------------------------
(* The loop stacks follow the breakable loops in progress.                 *)
LEMMA LoopsKept ==
  ASSUME TypeOK, LoopInv, work # <<>>, Top.op \notin BreakEnds,
         NEW X \in Seq(Stmt \union Frames), work' = X \o Under,
         \A i \in DOMAIN X : X[i].op \notin BreakEnds,
         UNCHANGED <<LoopBeginBlocks, LoopEndBlocks>>
  PROVE  LoopInv'
  <1> DEFINE n == Len(LoopBeginBlocks)
             shift == Len(X) - 1
  <1>0. /\ work \in Seq(Stmt \union Frames) /\ work' = X \o Tail(work) /\ n \in Nat
        /\ DOMAIN work \subseteq Nat /\ shift \in Int
        /\ work[1].op \notin BreakEnds
    BY DEF TypeOK, Top, Under
  <1>w. /\ work \in Seq(Stmt \union Frames) /\ work # <<>>
        /\ X \in Seq(Stmt \union Frames)
    BY <1>0
  <1>s. Shifted(work', X, work)
    BY <1>0, <1>w, VisitsShift
  <1>n. DOMAIN work' \subseteq Int /\ DOMAIN work \subseteq Int /\ Len(X) \in Int
    BY <1>0, <1>w
  <1>1. \A i \in DOMAIN work' :
          \/ i \in DOMAIN X /\ work'[i] = X[i]
          \/ i - shift \in DOMAIN work \ {1} /\ work'[i] = work[i - shift]
    <2> TAKE i \in DOMAIN work'
    <2>1. i - shift = i - Len(X) + 1
      BY <1>n
    <2> QED BY <1>s, <2>1 DEF Shifted
  <1>2. \A i \in DOMAIN work \ {1} : i + shift \in DOMAIN work' /\ work'[i + shift] = work[i]
    <2> TAKE i \in DOMAIN work \ {1}
    <2>1. i + shift = i + Len(X) - 1
      BY <1>n
    <2> QED BY <1>s, <2>1 DEF Shifted
  <1>3. PICK f \in [1 .. n -> DOMAIN work] : IsLoopStack(f)
    BY DEF LoopInv
  <1> HIDE DEF n, shift
  <1>4. \A k \in 1 .. n : f[k] \in DOMAIN work \ {1}
    BY <1>0, <1>3 DEF IsLoopStack
  <1>5. PICK g : /\ g \in [1 .. n -> DOMAIN work']
                 /\ \A k \in 1 .. n : g[k] = f[k] + shift /\ work'[g[k]] = work[f[k]]
    <2> WITNESS [k \in 1 .. n |-> f[k] + shift]
    <2> QED BY <1>2, <1>4
  <1>6. \A j, k \in DOMAIN g : j < k => g[j] < g[k]
    <2> TAKE j, k \in DOMAIN g
    <2> HAVE j < k
    <2>1. f[j] < f[k] /\ f[j] \in Int /\ f[k] \in Int
      BY <1>0, <1>3, <1>5 DEF IsLoopStack
    <2> QED BY <1>0, <1>5, <2>1
  <1>7. ASSUME NEW i \in DOMAIN work'
        PROVE  work'[i].op \in BreakEnds <=> \E k \in DOMAIN g : g[k] = i
    <2>1. ASSUME work'[i].op \in BreakEnds PROVE \E k \in DOMAIN g : g[k] = i
      <3>1. i - shift \in DOMAIN work /\ work[i - shift].op \in BreakEnds
        BY <1>1, <2>1
      <3>2. PICK k \in DOMAIN f : f[k] = i - shift
        BY <1>3, <3>1 DEF IsLoopStack
      <3>3. i \in Int
        BY <1>0
      <3> QED BY <1>0, <1>5, <3>2, <3>3
    <2>2. ASSUME NEW k \in DOMAIN g, g[k] = i PROVE work'[i].op \in BreakEnds
      <3>1. work[f[k]].op \in BreakEnds
        BY <1>3, <1>5 DEF IsLoopStack
      <3> QED BY <1>5, <2>2, <3>1
    <2> QED BY <2>1, <2>2
  <1>8. \A k \in DOMAIN g : /\ LoopBeginBlocks'[k] = work'[g[k]].blks[1]
                            /\ LoopEndBlocks'[k] = work'[g[k]].blks[2]
    BY <1>3, <1>5 DEF IsLoopStack
  <1>9. IsLoopStack(g)'
    BY <1>6, <1>7, <1>8 DEF IsLoopStack
  <1>10. /\ Len(LoopBeginBlocks') = n /\ Len(LoopEndBlocks') = Len(LoopBeginBlocks')
         /\ g \in [1 .. Len(LoopBeginBlocks') -> DOMAIN work']
    BY <1>5 DEF LoopInv, n
  <1> QED BY <1>9, <1>10 DEF LoopInv

LEMMA PrependType ==
  ASSUME NEW S, NEW s \in Seq(S), NEW x \in S
  PROVE  /\ <<x>> \o s \in Seq(S)
         /\ Len(<<x>> \o s) = Len(s) + 1
         /\ (<<x>> \o s)[1] = x
         /\ \A k \in 1 .. Len(s) : (<<x>> \o s)[k + 1] = s[k]
  OBVIOUS

LEMMA TwoVisits ==
  ASSUME NEW S, NEW w \in Seq(S), w # <<>>, NEW a \in S, NEW b \in S,
         NEW v, v = <<a, b>> \o Tail(w)
  PROVE  /\ DOMAIN v = 1 .. Len(w) + 1
         /\ v[1] = a /\ v[2] = b
         /\ \A i \in DOMAIN w \ {1} : i + 1 \in DOMAIN v /\ v[i + 1] = w[i]
         /\ \A i \in DOMAIN v \ {1, 2} : i - 1 \in DOMAIN w \ {1} /\ v[i] = w[i - 1]
  <1>1. /\ Tail(w) \in Seq(S) /\ Len(Tail(w)) = Len(w) - 1 /\ Len(w) \in Nat /\ Len(w) > 0
        /\ DOMAIN w = 1 .. Len(w)
        /\ \A i \in 1 .. Len(w) - 1 : Tail(w)[i] = w[i + 1]
    OBVIOUS
  <1>2. PICK r \in Seq(S) : r = Tail(w)
    BY <1>1
  <1>3. /\ Len(v) = Len(r) + 2 /\ DOMAIN v = 1 .. Len(r) + 2
        /\ v[1] = a /\ v[2] = b
        /\ \A i \in 1 .. Len(r) : v[i + 2] = r[i]
    BY <1>2
  <1>4. ASSUME NEW i \in DOMAIN w \ {1} PROVE i + 1 \in DOMAIN v /\ v[i + 1] = w[i]
    <2>1. i - 1 \in 1 .. Len(r) /\ (i - 1) + 2 = i + 1 /\ (i - 1) + 1 = i
      BY <1>1, <1>2
    <2> QED BY <1>1, <1>2, <1>3, <2>1
  <1>5. ASSUME NEW i \in DOMAIN v \ {1, 2} PROVE i - 1 \in DOMAIN w \ {1} /\ v[i] = w[i - 1]
    <2>1. PICK j \in 1 .. Len(r) : i = j + 2
      <3>0. Len(r) \in Nat
        BY <1>2
      <3>1. i \in 1 .. Len(r) + 2 /\ i # 1 /\ i # 2
        BY <1>3, Zenon
      <3>2. i - 2 \in 1 .. Len(r) /\ i = (i - 2) + 2
        BY <3>0, <3>1
      <3> QED BY <3>2
    <2>2. i - 1 = j + 1 /\ j \in 1 .. Len(w) - 1
      BY <1>1, <1>2, <2>1
    <2>3. v[i] = r[j]
      BY <1>3, <2>1
    <2>5. r[j] = w[j + 1]
      BY <1>1, <1>2, <2>2
    <2>4. j + 1 \in DOMAIN w \ {1}
      BY <1>1, <2>2
    <2> QED BY <2>2, <2>3, <2>4, <2>5, Zenon
  <1>6. DOMAIN v = 1 .. Len(w) + 1
    <2>1. Len(r) + 2 = Len(w) + 1
      BY <1>1, <1>2
    <2> QED BY <1>3, <2>1, Zenon
  <1> QED BY <1>3, <1>4, <1>5, <1>6, Zenon

LEMMA LoopsPushed ==
  ASSUME TypeOK, LoopInv, work # <<>>, Top.op \notin BreakEnds,
         NEW kid \in Stmt, NEW frame \in Frames, work' = <<kid, frame>> \o Under,
         frame.op \in BreakEnds, Push(frame.blks[1], frame.blks[2])
  PROVE  LoopInv'
  <1> DEFINE n == Len(LoopBeginBlocks)
  <1>0. /\ work \in Seq(Stmt \union Frames) /\ n \in Nat /\ DOMAIN work \subseteq Nat
        /\ work[1].op \notin BreakEnds /\ DOMAIN work = 1 .. Len(work) /\ Len(work) \in Nat
    BY DEF TypeOK, Top, Under
  <1>1. /\ DOMAIN work' = 1 .. Len(work) + 1
        /\ work'[1] = kid /\ work'[2] = frame
        /\ \A i \in DOMAIN work \ {1} : i + 1 \in DOMAIN work' /\ work'[i + 1] = work[i]
        /\ \A i \in DOMAIN work' \ {1, 2} : i - 1 \in DOMAIN work \ {1} /\ work'[i] = work[i - 1]
    <2>1. kid \in Stmt \union Frames /\ frame \in Stmt \union Frames
      OBVIOUS
    <2>2. work' = <<kid, frame>> \o Tail(work)
      BY DEF Under
    <2> QED BY <1>0, <2>1, <2>2, TwoVisits, SMTT(30)
  <1>2. kid.op \notin BreakEnds
    BY StmtIsNoFrame DEF BreakEnds, FrameOps
  <1>3. PICK f \in [1 .. n -> DOMAIN work] : IsLoopStack(f)
    BY DEF LoopInv
  <1>4. /\ Len(LoopBeginBlocks') = n + 1 /\ Len(LoopEndBlocks') = n + 1
        /\ LoopBeginBlocks'[1] = frame.blks[1] /\ LoopEndBlocks'[1] = frame.blks[2]
        /\ \A k \in 1 .. n : /\ LoopBeginBlocks'[k + 1] = LoopBeginBlocks[k]
                             /\ LoopEndBlocks'[k + 1] = LoopEndBlocks[k]
    <2>1. /\ LoopBeginBlocks \in Seq(DOMAIN code \union {frame.blks[1]})
          /\ LoopEndBlocks \in Seq(DOMAIN code \union {frame.blks[2]})
          /\ Len(LoopEndBlocks) = n
      BY SeqMonotonic DEF LoopInv, TypeOK
    <2>2. /\ LoopBeginBlocks' = <<frame.blks[1]>> \o LoopBeginBlocks
          /\ LoopEndBlocks' = <<frame.blks[2]>> \o LoopEndBlocks
      BY DEF Push
    <2> QED BY <2>1, <2>2, PrependType
  <1> HIDE DEF n
  <1>5. \A k \in 1 .. n : f[k] \in DOMAIN work \ {1}
    BY <1>0, <1>3 DEF IsLoopStack
  <1>6. PICK g : /\ g \in [1 .. n + 1 -> DOMAIN work'] /\ g[1] = 2
                 /\ \A k \in 1 .. n : g[k + 1] = f[k] + 1 /\ work'[g[k + 1]] = work[f[k]]
    <2> WITNESS [k \in 1 .. n + 1 |-> IF k = 1 THEN 2 ELSE f[k - 1] + 1]
    <2>1. 2 \in DOMAIN work' /\ 1 \in 1 .. n + 1
      BY <1>0, <1>1
    <2>2. \A k \in 1 .. n : k + 1 \in 1 .. n + 1 /\ k + 1 # 1 /\ (k + 1) - 1 = k
      BY <1>0
    <2>3. \A k \in 1 .. n + 1 : k # 1 => k - 1 \in 1 .. n
      BY <1>0
    <2>4. \A k \in 1 .. n : f[k] + 1 \in DOMAIN work' /\ work'[f[k] + 1] = work[f[k]]
      BY <1>1, <1>5
    <2> QED BY <2>1, <2>2, <2>3, <2>4
  <1>7. \A k \in 1 .. n + 1 : k = 1 \/ (k - 1 \in 1 .. n /\ k = (k - 1) + 1)
    BY <1>0
  <1>8. ASSUME NEW j \in DOMAIN g, NEW k \in DOMAIN g, j < k PROVE g[j] < g[k]
    <2>0. j \in 1 .. n + 1 /\ k \in 1 .. n + 1 /\ k # 1
      BY <1>0, <1>6, <1>8
    <2>1. k - 1 \in 1 .. n /\ g[k] = f[k - 1] + 1 /\ f[k - 1] \in Nat /\ f[k - 1] > 1
      <3>1. k - 1 \in 1 .. n /\ g[(k - 1) + 1] = f[k - 1] + 1 /\ k = (k - 1) + 1
        BY <1>6, <1>7, <2>0
      <3>2. f[k - 1] \in DOMAIN work \ {1}
        BY <1>5, <3>1
      <3> QED BY <1>0, <3>1, <3>2
    <2>2. CASE j = 1
      BY <1>6, <2>1, <2>2
    <2>3. CASE j # 1
      <3>1. j - 1 \in 1 .. n /\ g[j] = f[j - 1] + 1 /\ j - 1 < k - 1
        <4>1. j - 1 \in 1 .. n /\ g[(j - 1) + 1] = f[j - 1] + 1 /\ j = (j - 1) + 1
          BY <1>6, <1>7, <2>0, <2>3
        <4> QED BY <1>0, <1>8, <2>0, <4>1
      <3>2. f[j - 1] < f[k - 1] /\ f[j - 1] \in Nat
        BY <1>0, <1>3, <2>1, <3>1 DEF IsLoopStack
      <3> QED BY <2>1, <3>1, <3>2
    <2> QED BY <2>2, <2>3
  <1>9. ASSUME NEW i \in DOMAIN work'
        PROVE  work'[i].op \in BreakEnds <=> \E k \in DOMAIN g : g[k] = i
    <2>1. 1 \in DOMAIN g /\ DOMAIN g = 1 .. n + 1
      BY <1>0, <1>6
    <2>2. ASSUME work'[i].op \in BreakEnds PROVE \E k \in DOMAIN g : g[k] = i
      <3>1. CASE i = 2
        BY <1>6, <2>1, <3>1
      <3>2. CASE i # 2
        <4>1. i - 1 \in DOMAIN work /\ work[i - 1].op \in BreakEnds
          BY <1>1, <1>2, <2>2, <3>2
        <4>2. PICK k \in 1 .. n : f[k] = i - 1
          BY <1>3, <4>1 DEF IsLoopStack
        <4>3. g[k + 1] = i /\ k + 1 \in DOMAIN g
          BY <1>0, <1>1, <1>6, <4>2
        <4> QED BY <4>3
      <3> QED BY <3>1, <3>2
    <2>3. ASSUME NEW k \in DOMAIN g, g[k] = i PROVE work'[i].op \in BreakEnds
      <3>1. CASE k = 1
        BY <1>1, <1>6, <2>3, <3>1
      <3>2. CASE k # 1
        <4>1. k - 1 \in 1 .. n /\ work'[g[k]] = work[f[k - 1]]
          BY <1>0, <1>6, <1>7, <3>2
        <4>2. work[f[k - 1]].op \in BreakEnds
          BY <1>3, <4>1 DEF IsLoopStack
        <4> QED BY <2>3, <4>1, <4>2
      <3> QED BY <3>1, <3>2
    <2> QED BY <2>2, <2>3
  <1>10. ASSUME NEW k \in DOMAIN g
         PROVE  /\ LoopBeginBlocks'[k] = work'[g[k]].blks[1]
                /\ LoopEndBlocks'[k] = work'[g[k]].blks[2]
    <2>1. CASE k = 1
      BY <1>1, <1>4, <1>6, <2>1
    <2>2. CASE k # 1
      <3>1. PICK j \in 1 .. n : k = j + 1
        <4>1. k \in 1 .. n + 1
          BY <1>6
        <4>2. k - 1 \in 1 .. n /\ k = (k - 1) + 1
          BY <1>7, <2>2, <4>1
        <4> QED BY <4>2
      <3>2. work'[g[k]] = work[f[j]]
        BY <1>6, <3>1
      <3>3. LoopBeginBlocks'[k] = LoopBeginBlocks[j] /\ LoopEndBlocks'[k] = LoopEndBlocks[j]
        BY <1>4, <3>1
      <3>4. j \in DOMAIN f
        BY <3>1
      <3>5. LoopBeginBlocks[j] = work[f[j]].blks[1] /\ LoopEndBlocks[j] = work[f[j]].blks[2]
        BY <1>3, <3>4 DEF IsLoopStack
      <3> QED BY <3>2, <3>3, <3>5
    <2> QED BY <2>1, <2>2
  <1>11. IsLoopStack(g)'
    BY <1>8, <1>9, <1>10 DEF IsLoopStack
  <1> QED BY <1>4, <1>6, <1>11 DEF LoopInv

LEMMA LoopsPopped ==
  ASSUME TypeOK, LoopInv, work # <<>>, Top.op \in BreakEnds, work' = Under, Pop
  PROVE  LoopInv'
  <1> DEFINE n == Len(LoopBeginBlocks)
  <1>0. /\ work \in Seq(Stmt \union Frames) /\ n \in Nat
        /\ work[1].op \in BreakEnds /\ DOMAIN work = 1 .. Len(work) /\ Len(work) \in Nat
        /\ Len(work) > 0
    BY DEF TypeOK, Top, Under
  <1>1. /\ DOMAIN work' = 1 .. Len(work) - 1
        /\ \A i \in DOMAIN work \ {1} : i - 1 \in DOMAIN work' /\ work'[i - 1] = work[i]
        /\ \A i \in DOMAIN work' : i + 1 \in DOMAIN work \ {1} /\ work'[i] = work[i + 1]
    BY <1>0 DEF Under
  <1>2. PICK f \in [1 .. n -> DOMAIN work] : IsLoopStack(f)
    BY DEF LoopInv
  <1>3. n > 0 /\ f[1] = 1
    <2>1. PICK k \in 1 .. n : f[k] = 1
      BY <1>0, <1>2 DEF IsLoopStack
    <2>2. CASE k = 1
      BY <1>0, <2>1, <2>2
    <2>3. CASE k # 1
      <3>1. 1 \in 1 .. n /\ 1 < k
        BY <1>0, <2>1, <2>3
      <3>2. f[1] < f[k] /\ f[1] \in 1 .. Len(work)
        BY <1>0, <1>2, <2>1, <3>1 DEF IsLoopStack
      <3> QED BY <2>1, <3>2, <1>0
    <2> QED BY <2>2, <2>3
  <1>4. /\ Len(LoopBeginBlocks') = n - 1 /\ Len(LoopEndBlocks') = n - 1
        /\ \A k \in 1 .. n - 1 : /\ LoopBeginBlocks'[k] = LoopBeginBlocks[k + 1]
                                 /\ LoopEndBlocks'[k] = LoopEndBlocks[k + 1]
    <2>1. LoopBeginBlocks \in Seq(DOMAIN code) /\ LoopEndBlocks \in Seq(DOMAIN code)
          /\ Len(LoopEndBlocks) = n
      BY DEF TypeOK, LoopInv
    <2>2. LoopBeginBlocks # <<>> /\ LoopEndBlocks # <<>>
      BY <1>3, <2>1
    <2> QED BY <1>0, <1>3, <2>1, <2>2 DEF Pop
  <1> HIDE DEF n
  <1>5. \A k \in 1 .. n - 1 : k + 1 \in 1 .. n /\ f[k + 1] \in DOMAIN work \ {1}
    <2> TAKE k \in 1 .. n - 1
    <2>1. k + 1 \in 1 .. n /\ 1 \in 1 .. n /\ 1 < k + 1
      BY <1>0, <1>3
    <2>2. f[1] < f[k + 1] /\ f[k + 1] \in DOMAIN work
      BY <1>2, <2>1 DEF IsLoopStack
    <2> QED BY <1>0, <1>3, <2>1, <2>2
  <1>6. PICK g : /\ g \in [1 .. n - 1 -> DOMAIN work']
                 /\ \A k \in 1 .. n - 1 : g[k] = f[k + 1] - 1 /\ work'[g[k]] = work[f[k + 1]]
    <2> WITNESS [k \in 1 .. n - 1 |-> f[k + 1] - 1]
    <2> QED BY <1>1, <1>5
  <1>7. ASSUME NEW j \in DOMAIN g, NEW k \in DOMAIN g, j < k PROVE g[j] < g[k]
    <2>1. j + 1 \in 1 .. n /\ k + 1 \in 1 .. n /\ j + 1 < k + 1
      BY <1>0, <1>6, <1>7
    <2>2. f[j + 1] < f[k + 1] /\ f[j + 1] \in 1 .. Len(work) /\ f[k + 1] \in 1 .. Len(work)
      BY <1>0, <1>2, <2>1 DEF IsLoopStack
    <2> QED BY <1>0, <1>6, <2>2
  <1>8. ASSUME NEW i \in DOMAIN work'
        PROVE  work'[i].op \in BreakEnds <=> \E k \in DOMAIN g : g[k] = i
    <2>1. ASSUME work'[i].op \in BreakEnds PROVE \E k \in DOMAIN g : g[k] = i
      <3>1. i + 1 \in DOMAIN work /\ work[i + 1].op \in BreakEnds /\ i \in 1 .. Len(work) - 1
        BY <1>1, <2>1
      <3>2. PICK k \in 1 .. n : f[k] = i + 1
        BY <1>2, <3>1 DEF IsLoopStack
      <3>3. k # 1
        BY <1>0, <1>3, <3>1, <3>2
      <3>4. k - 1 \in 1 .. n - 1 /\ (k - 1) + 1 = k
        BY <1>0, <3>2, <3>3
      <3>5. g[k - 1] = i
        BY <1>0, <1>6, <3>1, <3>2, <3>4
      <3> QED BY <1>6, <3>4, <3>5
    <2>2. ASSUME NEW k \in DOMAIN g, g[k] = i PROVE work'[i].op \in BreakEnds
      <3>1. k + 1 \in DOMAIN f /\ work'[i] = work[f[k + 1]] /\ f[k + 1] \in DOMAIN work
        BY <1>5, <1>6, <2>2
      <3> QED BY <1>2, <3>1 DEF IsLoopStack
    <2> QED BY <2>1, <2>2
  <1>9. ASSUME NEW k \in DOMAIN g
        PROVE  /\ LoopBeginBlocks'[k] = work'[g[k]].blks[1]
               /\ LoopEndBlocks'[k] = work'[g[k]].blks[2]
    <2>1. k \in 1 .. n - 1 /\ k + 1 \in DOMAIN f
      BY <1>5, <1>6
    <2> QED BY <1>2, <1>4, <1>6, <2>1 DEF IsLoopStack
  <1>10. IsLoopStack(g)'
    BY <1>7, <1>8, <1>9 DEF IsLoopStack
  <1> QED BY <1>4, <1>6, <1>10 DEF LoopInv
-----------------------------------------------------------------------------
(* What the visitors write.                                                *)
LEMMA OneInstr ==
  ASSUME NEW i \in Instr
  PROVE  /\ <<i>> \in Seq(Instr)
         /\ IsTerminator(i) => Sealed(<<i>>)
         /\ ~IsTerminator(i) => Running(<<i>>)
         /\ i.to = <<>> => \A D : BranchesInto(<<i>>, D)
  BY DEF Sealed, Running, BranchesInto

LEMMA TwoInstrs ==
  ASSUME NEW i \in Instr, NEW j \in Instr, ~IsTerminator(i), IsTerminator(j), i.to = <<>>
  PROVE  /\ <<i, j>> \in Seq(Instr)
         /\ Sealed(<<i, j>>)
         /\ \A D : (\A k \in DOMAIN j.to : j.to[k] \in D) => BranchesInto(<<i, j>>, D)
  BY DEF Sealed, BranchesInto

Opened(n, s, c, D) ==
  /\ c \in Seq(Seq(Instr))
  /\ Len(c) = Len(code) + n /\ DOMAIN c = 1 .. Len(code) + n
  /\ \A b \in DOMAIN code : b # ip => c[b] = code[b]
  /\ \A i \in 1 .. n : New(i) \in DOMAIN c \ DOMAIN code /\ c[New(i)] = <<>>
  /\ Sealed(s) => Sealed(c[ip])
  /\ Running(s) => Running(c[ip])
  /\ BranchesInto(c[ip], D)

LEMMA OpenCode ==
  ASSUME BlockInv, work # <<>>, NEW n \in Nat, NEW s \in Seq(Instr),
         NEW c, c = Emit(Create(code, n), ip, s),
         NEW D, BranchesInto(s, D), DOMAIN code \subseteq D
  PROVE  Opened(n, s, c, D)
  <1>0. /\ code \in Seq(Seq(Instr)) /\ ip \in DOMAIN code /\ code[ip] \in Seq(Instr)
        /\ DOMAIN code = 1 .. Len(code) /\ Len(code) \in Nat
        /\ Running(code[ip])
        /\ BranchesInto(code[ip], DOMAIN code)
    BY DEF BlockInv, TypeOK, SealedInv, PlacedInv
  <1>a. PICK e : e = Create(code, n)
    OBVIOUS
  <1>1. /\ e \in Seq(Seq(Instr)) /\ Len(e) = Len(code) + n /\ DOMAIN e = 1 .. Len(code) + n
        /\ \A d \in DOMAIN code : d \in DOMAIN e /\ e[d] = code[d]
        /\ \A i \in 1 .. n : e[Len(code) + i] = <<>>
    BY <1>0, <1>a, CreateType
  <1>2. ip \in DOMAIN e /\ c = Emit(e, ip, s)
    BY <1>0, <1>1, <1>a
  <1>3. /\ c \in Seq(Seq(Instr)) /\ Len(c) = Len(e) /\ DOMAIN c = DOMAIN e
        /\ c[ip] = e[ip] \o s
        /\ \A d \in DOMAIN e : d # ip => c[d] = e[d]
    <2>1. Emitted(e, ip, s, c)
      BY <1>1, <1>2, EmitType
    <2> QED BY <2>1 DEF Emitted
  <1>4. c[ip] = code[ip] \o s
    BY <1>0, <1>1, <1>3
  <1>5. \A i \in 1 .. n : New(i) \in DOMAIN c \ DOMAIN code /\ c[New(i)] = <<>>
    <2> TAKE i \in 1 .. n
    <2>1. New(i) \in DOMAIN e /\ New(i) \notin DOMAIN code /\ New(i) # ip
      BY <1>0, <1>1 DEF New
    <2>2. e[New(i)] = <<>>
      BY <1>1 DEF New
    <2> QED BY <1>3, <2>1, <2>2
  <1>6. BranchesInto(code[ip], D)
    BY <1>0 DEF BranchesInto
  <1>7. /\ Sealed(s) => Sealed(c[ip])
        /\ Running(s) => Running(c[ip])
        /\ BranchesInto(c[ip], D)
    BY <1>0, <1>4, <1>6, SealedAppend, RunningAppend, BranchesAppend
  <1> QED BY <1>0, <1>1, <1>3, <1>5, <1>7 DEF Opened

(* The first of the blocks created is a header that tests a condition.     *)
HeaderOpened(n, c, D) ==
  /\ c \in Seq(Seq(Instr))
  /\ Len(c) = Len(code) + n /\ DOMAIN c = 1 .. Len(code) + n
  /\ \A b \in DOMAIN code : b # ip => c[b] = code[b]
  /\ \A i \in 1 .. n : New(i) \in DOMAIN c \ DOMAIN code
  /\ \A i \in 2 .. n : c[New(i)] = <<>>
  /\ Sealed(c[ip]) /\ BranchesInto(c[ip], D)
  /\ Sealed(c[New(1)]) /\ BranchesInto(c[New(1)], D)

LEMMA OpenHeader ==
  ASSUME BlockInv, work # <<>>, NEW n \in Nat, n > 0,
         NEW s \in Seq(Instr), NEW h \in Seq(Instr), Sealed(s), Sealed(h),
         NEW c, c = Emit(Emit(Create(code, n), ip, s), New(1), h),
         NEW D, BranchesInto(s, D), BranchesInto(h, D), DOMAIN code \subseteq D
  PROVE  HeaderOpened(n, c, D)
  <1>0. ip \in DOMAIN code /\ Len(code) \in Nat
    BY DEF BlockInv, TypeOK
  <1>1. PICK e : e = Emit(Create(code, n), ip, s)
    OBVIOUS
  <1>2. /\ e \in Seq(Seq(Instr))
        /\ Len(e) = Len(code) + n /\ DOMAIN e = 1 .. Len(code) + n
        /\ \A b \in DOMAIN code : b # ip => e[b] = code[b]
        /\ \A i \in 1 .. n : New(i) \in DOMAIN e \ DOMAIN code /\ e[New(i)] = <<>>
        /\ Sealed(e[ip]) /\ BranchesInto(e[ip], D)
    <2>1. Opened(n, s, e, D)
      BY <1>1, OpenCode
    <2> QED BY <2>1 DEF Opened
  <1>3. c = Emit(e, New(1), h) /\ New(1) \in DOMAIN e /\ New(1) # ip /\ e[New(1)] = <<>>
    BY <1>0, <1>1, <1>2
  <1>4. /\ c \in Seq(Seq(Instr)) /\ Len(c) = Len(e) /\ DOMAIN c = DOMAIN e
        /\ c[New(1)] = e[New(1)] \o h
        /\ \A d \in DOMAIN e : d # New(1) => c[d] = e[d]
    <2>1. Emitted(e, New(1), h, c)
      BY <1>2, <1>3, EmitType
    <2> QED BY <2>1 DEF Emitted
  <1>5. c[New(1)] = h
    BY <1>3, <1>4
  <1>6. \A b \in DOMAIN code : b \in DOMAIN e /\ b # New(1)
    <2>1. DOMAIN code \subseteq DOMAIN e /\ New(1) \notin DOMAIN code
      <3>1. DOMAIN code = 1 .. Len(code) /\ New(1) = Len(code) + 1
        BY DEF BlockInv, TypeOK, New
      <3>2. DOMAIN e = 1 .. Len(code) + n
        BY <1>2
      <3> QED BY <1>0, <3>1, <3>2
    <2> QED BY <2>1
  <1>7. \A i \in 2 .. n : New(i) \in DOMAIN e /\ New(i) # New(1)
    <2> TAKE i \in 2 .. n
    <2>1. DOMAIN e = 1 .. Len(code) + n
      BY <1>2
    <2> QED BY <1>0, <2>1 DEF New
  <1>8. \A i \in 2 .. n : c[New(i)] = <<>>
    <2> TAKE i \in 2 .. n
    <2>1. i \in 1 .. n
      OBVIOUS
    <2> QED BY <1>2, <1>4, <1>7, <2>1
  <1> QED BY <1>0, <1>2, <1>4, <1>5, <1>6, <1>8 DEF HeaderOpened
-----------------------------------------------------------------------------
(* Statements and frames are told apart by their op.                       *)
LEMMA TopKind ==
  ASSUME BlockInv, work # <<>>
  PROVE  /\ Top.op \in Ops => Top \in Stmt
         /\ Top.op \in FrameOps => Top \in Frames
  <1>1. Top \in Stmt \union Frames
    BY DEF BlockInv, TypeOK, Top
  <1>2. \A f \in Frames : f.op \in FrameOps
    BY DEF Frames
  <1>3. \A t \in Stmt : t.op \in Ops
    BY StmtAssumption
  <1>4. Ops \intersect FrameOps = {}
    BY DEF Ops, FrameOps, LoopEnds, CondEnds
  <1> QED BY <1>1, <1>2, <1>3, <1>4

LEMMA StacksGrow ==
  ASSUME BlockInv, KeepLoops, DOMAIN code \subseteq DOMAIN code'
  PROVE  LoopBeginBlocks' \in Seq(DOMAIN code') /\ LoopEndBlocks' \in Seq(DOMAIN code')
  BY SeqMonotonic DEF BlockInv, TypeOK, KeepLoops

LEMMA KeepsLoopInv ==
  ASSUME GenInv, work # <<>>, Top \in Stmt, NEW X \in Seq(Stmt \union Frames),
         work' = X \o Under, \A i \in DOMAIN X : X[i].op \notin BreakEnds, KeepLoops
  PROVE  LoopInv'
  <1>1. Top.op \notin BreakEnds
    BY StmtIsNoFrame DEF BreakEnds, FrameOps
  <1> QED BY <1>1, LoopsKept DEF GenInv, BlockInv, KeepLoops

LEMMA NoVisit ==
  ASSUME NEW S, NEW w \in Seq(S), w # <<>>
  PROVE  Tail(w) = <<>> \o Tail(w) /\ <<>> \in Seq(S)
  OBVIOUS

LEMMA EndsAtOnce ==
  ASSUME GenInv, work # <<>>, Top \in Stmt, work' = Under, KeepLoops
  PROVE  LoopInv'
  <1>1. PICK X \in Seq(Stmt \union Frames) : X = <<>>
    BY EmptySeq
  <1>2. work' = X \o Under
    BY <1>1, NoVisit DEF GenInv, BlockInv, TypeOK, Under
  <1>3. \A i \in DOMAIN X : X[i].op \notin BreakEnds
    BY <1>1
  <1> QED BY <1>2, <1>3, KeepsLoopInv

(* A visit that ends at once, in the block it was writing.                 *)
LEMMA PlainKeepsInv ==
  ASSUME GenInv, visitPlain PROVE GenInv'
  <1> DEFINE s == <<Do(Top)>>
  <1>1. work # <<>> /\ Top \in Stmt /\ ast' = ast /\ code' = Emit(code, ip, s) /\ work' = Under
        /\ ip' = ip /\ placed' = placed /\ KeepLoops
    BY TopKind DEF visitPlain, Visiting, Ops, GenInv
  <1>2. s \in Seq(Instr) /\ Running(s) /\ BranchesInto(s, DOMAIN code)
    BY <1>1, InstrType, OneInstr
  <1> HIDE DEF s
  <1>3. /\ code \in Seq(Seq(Instr)) /\ ip \in DOMAIN code /\ code[ip] \in Seq(Instr)
        /\ Running(code[ip]) /\ BranchesInto(code[ip], DOMAIN code)
        /\ placed \subseteq DOMAIN code
    BY <1>1 DEF GenInv, BlockInv, TypeOK, SealedInv, PlacedInv
  <1>4. Emitted(code, ip, s, code')
    BY <1>1, <1>2, <1>3, EmitType
  <1>5. /\ code' \in Seq(Seq(Instr)) /\ Len(code') = Len(code) /\ DOMAIN code' = DOMAIN code
        /\ \A b \in DOMAIN code : b # ip => code'[b] = code[b]
        /\ code'[ip] = code[ip] \o s
    BY <1>4 DEF Emitted
  <1>6. Running(code'[ip]) /\ BranchesInto(code'[ip], DOMAIN code')
    BY <1>2, <1>3, <1>5, RunningAppend, BranchesAppend
  <1>7. work' = <<>> \o Under /\ <<>> \in Seq(Stmt \union Frames)
    BY <1>1, NoVisit DEF GenInv, BlockInv, TypeOK, Under
  <1>8. VisitOf(<<>>)
    <2>1. LoopBeginBlocks' \in Seq(DOMAIN code') /\ LoopEndBlocks' \in Seq(DOMAIN code')
      BY <1>1, <1>5, StacksGrow DEF GenInv
    <2>2. Len(code') >= Len(code)
      BY <1>3, <1>5
    <2> QED BY <1>1, <1>3, <1>5, <1>6, <1>7, <2>1, <2>2 DEF VisitOf
  <1>9. FramesOf(<<>>) /\ FreshOf(<<>>)
    BY <1>5, <1>6 DEF FramesOf, FreshOf, Fresh
  <1>10. LoopInv'
    BY <1>1, EndsAtOnce
  <1> QED BY <1>8, <1>9, <1>10, VisitKeepsInv DEF GenInv

(* A visit of a block leaves its statements to be visited.                 *)
LEMMA BlockKeepsInv ==
  ASSUME GenInv, visitBlock PROVE GenInv'
  <1>1. work # <<>> /\ Top \in Stmt /\ UNCHANGED <<ast, code, placed, ip>>
        /\ work' = Top.kids \o Under /\ KeepLoops
    BY TopKind DEF visitBlock, Visiting, Ops, GenInv
  <1>2. Top.kids \in Seq(Stmt) /\ Top.kids \in Seq(Stmt \union Frames)
    BY <1>1, StmtIsNoFrame, SeqMonotonic
  <1>3. \A i \in DOMAIN Top.kids : Top.kids[i] \in Stmt
    BY <1>2
  <1>4. \A i \in DOMAIN Top.kids : Top.kids[i].op \notin FrameOps /\ Owned(Top.kids[i]) = {}
    BY <1>3, StmtIsNoFrame
  <1>5. VisitOf(Top.kids)
    <2>1. LoopBeginBlocks' \in Seq(DOMAIN code') /\ LoopEndBlocks' \in Seq(DOMAIN code')
      BY <1>1, StacksGrow DEF GenInv
    <2>2. code \in Seq(Seq(Instr)) /\ ip \in DOMAIN code /\ placed \subseteq DOMAIN code
          /\ Running(code[ip])
      BY <1>1 DEF GenInv, BlockInv, TypeOK, SealedInv
    <2>3. Len(code') >= Len(code)
      BY <1>1, <2>2
    <2> QED BY <1>1, <1>2, <2>1, <2>2, <2>3 DEF VisitOf
  <1>6. FramesOf(Top.kids)
    BY <1>4 DEF FramesOf, FrameOps, LoopEnds, CondEnds
  <1>7. FreshOf(Top.kids)
    BY <1>1 DEF FreshOf, Fresh, GenInv, BlockInv, PlacedInv, TypeOK
  <1>8. LoopInv'
    BY <1>1, <1>2, <1>4, KeepsLoopInv DEF BreakEnds, FrameOps
  <1> QED BY <1>5, <1>6, <1>7, <1>8, VisitKeepsInv DEF GenInv

(* return, break and continue end the block and start another.             *)
LEMMA JumpKeepsInv ==
  ASSUME GenInv, work # <<>>, Top \in Stmt, ast' = ast,
         NEW i \in Instr, IsTerminator(i), BranchesInto(<<i>>, DOMAIN code),
         code' = Emit(Create(code, 1), ip, <<i>>),
         placed' = placed \union {New(1)}, ip' = New(1), work' = Under, KeepLoops
  PROVE  GenInv'
  <1> DEFINE s == <<i>>
             D == DOMAIN code'
  <1>1. s \in Seq(Instr) /\ Sealed(s)
    BY OneInstr
  <1>2. /\ code \in Seq(Seq(Instr)) /\ placed \subseteq DOMAIN code /\ Len(code) \in Nat
        /\ DOMAIN code = 1 .. Len(code)
    BY DEF GenInv, BlockInv, TypeOK
  <1> DEFINE E == 1 .. Len(code) + 1
  <1>3. DOMAIN code \subseteq E
    BY <1>2
  <1>4. BranchesInto(s, E)
    BY <1>3 DEF BranchesInto
  <1>5. Opened(1, s, code', E)
    <2> HIDE DEF s, E
    <2> QED BY <1>1, <1>3, <1>4, OpenCode DEF GenInv, s
  <1>6. /\ code' \in Seq(Seq(Instr)) /\ Len(code') = Len(code) + 1 /\ D = E
        /\ \A b \in DOMAIN code : b # ip => code'[b] = code[b]
        /\ New(1) \in D \ DOMAIN code /\ code'[New(1)] = <<>>
        /\ Sealed(code'[ip]) /\ BranchesInto(code'[ip], D)
    <2>1. 1 \in 1 .. 1
      OBVIOUS
    <2>2. D = E
      BY <1>5 DEF Opened
    <2> HIDE DEF s, E, D
    <2>3. New(1) \in DOMAIN code' \ DOMAIN code /\ code'[New(1)] = <<>>
      BY <1>5, <2>1 DEF Opened
    <2> QED BY <1>1, <1>5, <2>2, <2>3 DEF Opened, D
  <1>7. Fresh = {New(1)}
    <2>1. Fresh = E \ (1 .. Len(code))
      BY <1>2, <1>6 DEF Fresh
    <2>2. E \ (1 .. Len(code)) = {Len(code) + 1}
      BY <1>2
    <2> HIDE DEF E, D, s
    <2> QED BY <2>1, <2>2 DEF New
  <1>8. work' = <<>> \o Under /\ <<>> \in Seq(Stmt \union Frames)
    BY NoVisit DEF GenInv, BlockInv, TypeOK, Under
  <1>9. VisitOf(<<>>)
    <2>1. LoopBeginBlocks' \in Seq(DOMAIN code') /\ LoopEndBlocks' \in Seq(DOMAIN code')
      BY <1>3, <1>6, StacksGrow DEF GenInv
    <2>2. Len(code') >= Len(code)
      BY <1>2, <1>6
    <2>3. placed \subseteq placed' /\ placed' \subseteq D
      BY <1>2, <1>3, <1>6
    <2> HIDE DEF E, s
    <2> QED BY <1>6, <1>8, <2>1, <2>2, <2>3 DEF VisitOf
  <1>10. FramesOf(<<>>)
    BY DEF FramesOf
  <1>11. FreshOf(<<>>)
    <2>1. BranchesInto(code'[New(1)], D)
      BY <1>6 DEF BranchesInto
    <2> QED BY <1>6, <1>7, <2>1 DEF FreshOf
  <1>12. LoopInv'
    BY EndsAtOnce
  <1> QED BY <1>9, <1>10, <1>11, <1>12, VisitKeepsInv DEF GenInv

(* A visit that opens blocks, starts the visit of one statement and leaves *)
(* a frame that owns the block o.                                          *)
BodyOf(kid, frame, o) ==
  /\ work # <<>> /\ Top \in Stmt /\ ast' = ast
  /\ work' = <<kid, frame>> \o Under
  /\ kid \in Stmt /\ frame \in Frames /\ frame.op # "RoutineEnd"
  /\ frame.op \in LoopEnds \union {"IfBranchEnd"} => Len(frame.blks) = 2
  /\ frame.op \in {"ConditionalEnd", "ElseBranchEnd"} => Len(frame.blks) = 1
  /\ Owned(frame) = {o}
  /\ \/ KeepLoops /\ frame.op \notin BreakEnds
     \/ Push(frame.blks[1], frame.blks[2]) /\ frame.op \in BreakEnds

BlocksOf(frame, o) ==
  /\ frame.blks \in Seq(DOMAIN code')
  /\ code' \in Seq(Seq(Instr)) /\ Len(code') >= Len(code)
  /\ \A b \in DOMAIN code : b # ip => code'[b] = code[b]
  /\ Sealed(code'[ip]) /\ BranchesInto(code'[ip], DOMAIN code')
  /\ ip' \in Fresh /\ code'[ip'] = <<>>
  /\ o \in Fresh /\ o # ip' /\ code'[o] = <<>>
  /\ \A b \in Fresh :
       /\ b = ip' \/ b = o \/ (Sealed(code'[b]) /\ BranchesInto(code'[b], DOMAIN code'))
       /\ b \in placed' \/ (b = o /\ frame.op = "ConditionalEnd" /\ frame.blks[1] = o)
  /\ placed \subseteq placed' /\ placed' \subseteq DOMAIN code'

LEMMA BodyStacks ==
  ASSUME BlockInv, NEW kid, NEW frame, NEW o, BodyOf(kid, frame, o), BlocksOf(frame, o)
  PROVE  LoopBeginBlocks' \in Seq(DOMAIN code') /\ LoopEndBlocks' \in Seq(DOMAIN code')
  <1>1. DOMAIN code \subseteq DOMAIN code'
    BY DEF BlocksOf, BlockInv, TypeOK
  <1>2. CASE KeepLoops
    BY <1>1, <1>2, StacksGrow
  <1>3. CASE Push(frame.blks[1], frame.blks[2]) /\ frame.op \in BreakEnds
    <2>1. frame.blks \in Seq(DOMAIN code') /\ Len(frame.blks) = 2
      BY <1>3 DEF BodyOf, BlocksOf, BreakEnds
    <2>2. frame.blks[1] \in DOMAIN code' /\ frame.blks[2] \in DOMAIN code'
      BY <2>1
    <2>3. LoopBeginBlocks \in Seq(DOMAIN code') /\ LoopEndBlocks \in Seq(DOMAIN code')
      BY <1>1, SeqMonotonic DEF BlockInv, TypeOK
    <2> QED BY <1>3, <2>2, <2>3, PrependType DEF Push
  <1> QED BY <1>2, <1>3 DEF BodyOf

LEMMA BodyKeepsInv ==
  ASSUME GenInv, NEW kid, NEW frame, NEW o, BodyOf(kid, frame, o), BlocksOf(frame, o)
  PROVE  GenInv'
  <1>0. BlockInv /\ LoopInv
    BY DEF GenInv
  <1>1. PICK X \in Seq(Stmt \union Frames) : X = <<kid, frame>>
    <2>1. kid \in Stmt \union Frames /\ frame \in Stmt \union Frames
      BY DEF BodyOf
    <2>2. <<kid, frame>> \in Seq(Stmt \union Frames)
      BY <2>1
    <2> QED BY <2>2
  <1>2. DOMAIN X = {1, 2} /\ X[1] = kid /\ X[2] = frame
    BY <1>1
  <1>3. kid.op \notin FrameOps /\ Owned(kid) = {}
    BY StmtIsNoFrame DEF BodyOf
  <1>4. VisitOf(X)
    <2>1. LoopBeginBlocks' \in Seq(DOMAIN code') /\ LoopEndBlocks' \in Seq(DOMAIN code')
      BY <1>0, BodyStacks
    <2> QED BY <1>1, <2>1 DEF VisitOf, BodyOf, BlocksOf, Fresh
  <1>5. FramesOf(X)
    BY <1>2, <1>3 DEF FramesOf, FrameOps, LoopEnds, CondEnds, BodyOf, BlocksOf
  <1>6. FreshOf(X)
    <2>1. 2 \in DOMAIN X /\ o \in Owned(X[2])
      BY <1>2 DEF BodyOf
    <2>2. BranchesInto(<<>>, DOMAIN code')
      BY DEF BranchesInto
    <2> QED BY <1>2, <2>1, <2>2 DEF FreshOf, BlocksOf
  <1>7. LoopInv'
    <2>1. CASE KeepLoops /\ frame.op \notin BreakEnds
      <3>1. \A i \in DOMAIN X : X[i].op \notin BreakEnds
        BY <1>2, <1>3, <2>1 DEF BreakEnds, FrameOps
      <3> QED BY <1>1, <2>1, <3>1, KeepsLoopInv DEF BodyOf
    <2>2. CASE Push(frame.blks[1], frame.blks[2]) /\ frame.op \in BreakEnds
      <3>1. Top.op \notin BreakEnds
        BY StmtIsNoFrame DEF BodyOf, BreakEnds, FrameOps
      <3> QED BY <1>0, <2>2, <3>1, LoopsPushed DEF BodyOf, BlockInv
    <2> QED BY <2>1, <2>2 DEF BodyOf
  <1> QED BY <1>0, <1>4, <1>5, <1>6, <1>7, VisitKeepsInv DEF GenInv

(* What a frame names, and the block it owns.                              *)
Names(f, op, blks, o) == f \in Frames /\ f.op = op /\ f.blks = blks /\ Owned(f) = {o}

LEMMA LoopFrame ==
  ASSUME NEW op \in LoopEnds, NEW b \in Nat, NEW c \in Nat
  PROVE  Names(Frame(op, <<b, c>>), op, <<b, c>>, c)
  BY DEF Names, Frame, Frames, Owned, FrameOps, LoopEnds, CondEnds

LEMMA IfFrame ==
  ASSUME NEW b \in Nat, NEW c \in Nat
  PROVE  /\ Names(Frame("ConditionalEnd", <<b>>), "ConditionalEnd", <<b>>, b)
         /\ Names(Frame("IfBranchEnd", <<b, c>>), "IfBranchEnd", <<b, c>>, b)
         /\ Names(Frame("ElseBranchEnd", <<c>>), "ElseBranchEnd", <<c>>, c)
  BY DEF Names, Frame, Frames, Owned, FrameOps, LoopEnds, CondEnds

LEMMA BlockLists ==
  ASSUME NEW D, NEW b \in D, NEW c \in D
  PROVE  /\ <<b>> \in Seq(D) /\ Len(<<b>>) = 1 /\ <<b>>[1] = b
         /\ <<b, c>> \in Seq(D) /\ Len(<<b, c>>) = 2 /\ <<b, c>>[1] = b /\ <<b, c>>[2] = c
  OBVIOUS

LEMMA BranchTo ==
  ASSUME NEW D, D \subseteq Nat, NEW b \in D
  PROVE  <<Br(b)>> \in Seq(Instr) /\ Sealed(<<Br(b)>>) /\ BranchesInto(<<Br(b)>>, D)
  BY BrSealed

LEMMA TestTo ==
  ASSUME NEW t \in Stmt, NEW D, D \subseteq Nat, NEW b \in D, NEW c \in D
  PROVE  /\ <<Eval(t), CondBr(b, c)>> \in Seq(Instr)
         /\ Sealed(<<Eval(t), CondBr(b, c)>>)
         /\ BranchesInto(<<Eval(t), CondBr(b, c)>>, D)
  <1>1. /\ Eval(t) \in Instr /\ ~IsTerminator(Eval(t)) /\ Eval(t).to = <<>>
        /\ CondBr(b, c) \in Instr /\ IsTerminator(CondBr(b, c)) /\ CondBr(b, c).to = <<b, c>>
    BY InstrType
  <1>2. \A k \in DOMAIN CondBr(b, c).to : CondBr(b, c).to[k] \in D
    BY <1>1
  <1> QED BY <1>1, <1>2, TwoInstrs

LEMMA EnterThen ==
  ASSUME NEW t \in Stmt, NEW D, D \subseteq Nat, NEW b \in D
  PROVE  /\ <<Enter(t), Br(b)>> \in Seq(Instr)
         /\ Sealed(<<Enter(t), Br(b)>>)
         /\ BranchesInto(<<Enter(t), Br(b)>>, D)
  <1>1. /\ Enter(t) \in Instr /\ ~IsTerminator(Enter(t)) /\ Enter(t).to = <<>>
        /\ Br(b) \in Instr /\ IsTerminator(Br(b)) /\ Br(b).to = <<b>>
    BY InstrType
  <1>2. \A k \in DOMAIN Br(b).to : Br(b).to[k] \in D
    BY <1>1
  <1> QED BY <1>1, <1>2, TwoInstrs

(* The statement that is the body of another.                              *)
LEMMA KidOf ==
  ASSUME NEW t \in Stmt
  PROVE  /\ t.op \in {"if", "loop", "while", "dowhile", "domain", "inner", "ifelse"} => t.kids[1] \in Stmt
         /\ t.op = "ifelse" => t.kids[2] \in Stmt
  BY StmtAssumption

LEMMA NewBlocks ==
  ASSUME BlockInv, NEW n \in Nat, NEW D, D = 1 .. Len(code) + n
  PROVE  /\ Len(code) \in Nat /\ DOMAIN code = 1 .. Len(code) /\ placed \subseteq DOMAIN code
         /\ DOMAIN code \subseteq D /\ D \subseteq Nat
         /\ \A i \in 1 .. n : New(i) \in D \ DOMAIN code
         /\ \A b \in D \ DOMAIN code : \E i \in 1 .. n : b = New(i)
         /\ \A i, j \in 1 .. n : New(i) = New(j) => i = j
  <1>1. Len(code) \in Nat /\ DOMAIN code = 1 .. Len(code) /\ placed \subseteq DOMAIN code
    BY DEF BlockInv, TypeOK
  <1>2. ASSUME NEW b \in D \ DOMAIN code PROVE \E i \in 1 .. n : b = New(i)
    <2>1. b - Len(code) \in 1 .. n /\ b = Len(code) + (b - Len(code))
      BY <1>1, <1>2
    <2> QED BY <2>1 DEF New
  <1> QED BY <1>1, <1>2 DEF New

LEMMA ThreeBlocks ==
  ASSUME BlockInv, NEW D, D = 1 .. Len(code) + 3
  PROVE  /\ Len(code) \in Nat /\ DOMAIN code \subseteq D /\ D \subseteq Nat
         /\ placed \subseteq DOMAIN code
         /\ New(1) \in D \ DOMAIN code /\ New(2) \in D \ DOMAIN code /\ New(3) \in D \ DOMAIN code
         /\ New(1) # New(2) /\ New(2) # New(3) /\ New(1) # New(3)
         /\ \A b \in D \ DOMAIN code : b \in {New(1), New(2), New(3)}
  <1>1. 1 .. 3 = {1, 2, 3} /\ 3 \in Nat
    OBVIOUS
  <1> QED BY <1>1, NewBlocks

(* A header that tests and chooses between the body and the way out.       *)
LEMMA HeaderKeepsInv ==
  ASSUME GenInv, NEW t \in Stmt, NEW s \in Seq(Instr), Sealed(s),
         BranchesInto(s, 1 .. Len(code) + 3),
         code' = Emit(Emit(Create(code, 3), ip, s), New(1), <<Eval(t), CondBr(New(2), New(3))>>),
         ip' = New(2), NEW frame,
         BodyOf(t.kids[1], frame, New(3)), frame.blks \in Seq(1 .. Len(code) + 3),
         \/ placed' = placed \union {New(1), New(2), New(3)}
         \/ /\ placed' = placed \union {New(1), New(2)}
            /\ frame.op = "ConditionalEnd" /\ frame.blks[1] = New(3)
  PROVE  GenInv'
  <1> DEFINE D == 1 .. Len(code) + 3
             h == <<Eval(t), CondBr(New(2), New(3))>>
  <1>0. BlockInv /\ work # <<>>
    BY DEF GenInv, BodyOf
  <1>1. /\ Len(code) \in Nat /\ DOMAIN code \subseteq D /\ D \subseteq Nat /\ placed \subseteq DOMAIN code
        /\ New(1) \in D /\ New(2) \in D /\ New(3) \in D
        /\ New(1) # New(2) /\ New(2) # New(3) /\ New(1) # New(3)
        /\ \A b \in D \ DOMAIN code : b \in {New(1), New(2), New(3)}
    <2> HIDE DEF h
    <2> QED BY <1>0, ThreeBlocks
  <1>2. h \in Seq(Instr) /\ Sealed(h) /\ BranchesInto(h, D)
    <2> HIDE DEF D
    <2> QED BY <1>1, TestTo
  <1>3. HeaderOpened(3, code', D)
    <2>1. code' = Emit(Emit(Create(code, 3), ip, s), New(1), h) /\ BranchesInto(s, D)
      OBVIOUS
    <2> HIDE DEF h, D
    <2> QED BY <1>0, <1>1, <1>2, <2>1, OpenHeader
  <1>4. /\ code' \in Seq(Seq(Instr)) /\ Len(code') = Len(code) + 3 /\ DOMAIN code' = D
        /\ \A b \in DOMAIN code : b # ip => code'[b] = code[b]
        /\ New(1) \in D \ DOMAIN code /\ New(2) \in D \ DOMAIN code /\ New(3) \in D \ DOMAIN code
        /\ code'[New(2)] = <<>> /\ code'[New(3)] = <<>>
        /\ Sealed(code'[ip]) /\ BranchesInto(code'[ip], D)
        /\ Sealed(code'[New(1)]) /\ BranchesInto(code'[New(1)], D)
    <2>1. 1 \in 1 .. 3 /\ 2 \in 2 .. 3 /\ 3 \in 2 .. 3 /\ 2 \in 1 .. 3 /\ 3 \in 1 .. 3
      OBVIOUS
    <2>2. DOMAIN code' = D
      BY <1>3 DEF HeaderOpened
    <2> HIDE DEF D
    <2> QED BY <1>3, <2>1, <2>2 DEF HeaderOpened
  <1> HIDE DEF D, h
  <1>5. BlocksOf(frame, New(3))
    <2>1. Len(code') >= Len(code)
      BY <1>1, <1>4
    <2>2. placed \subseteq placed' /\ placed' \subseteq DOMAIN code'
      BY <1>1, <1>4
    <2>3. ASSUME NEW b \in Fresh
          PROVE  /\ b = ip' \/ b = New(3) \/ (Sealed(code'[b]) /\ BranchesInto(code'[b], DOMAIN code'))
                 /\ b \in placed' \/ (b = New(3) /\ frame.op = "ConditionalEnd" /\ frame.blks[1] = New(3))
      BY <1>1, <1>4 DEF Fresh
    <2>4. frame.blks \in Seq(DOMAIN code')
      BY <1>4 DEF D
    <2> QED BY <1>1, <1>4, <2>1, <2>2, <2>3, <2>4 DEF BlocksOf, Fresh
  <1> QED BY <1>5, BodyKeepsInv
-----------------------------------------------------------------------------
LEMMA ConditionalLoopKeepsInv ==
  ASSUME GenInv, NEW op \in {"while", "dowhile"}, visitConditionalLoop(op)
  PROVE  GenInv'
  <1> DEFINE frame == Frame("ConditionalLoopEnd", <<New(1), New(3)>>)
             s == <<Br(IF op = "while" THEN New(1) ELSE New(2))>>
             D == 1 .. Len(code) + 3
  <1>1. work # <<>> /\ Top.op = op /\ Top \in Stmt /\ ast' = ast
    BY TopKind DEF visitConditionalLoop, Visiting, Ops, GenInv
  <1>2. /\ D \subseteq Nat /\ New(1) \in D /\ New(2) \in D /\ New(3) \in D
    <2> HIDE DEF frame, s
    <2> QED BY ThreeBlocks DEF GenInv
  <1>3. s \in Seq(Instr) /\ Sealed(s) /\ BranchesInto(s, D)
    <2> HIDE DEF D
    <2> QED BY <1>2, BranchTo
  <1>4. /\ frame \in Frames /\ frame.op = "ConditionalLoopEnd" /\ frame.blks = <<New(1), New(3)>>
        /\ Owned(frame) = {New(3)}
    <2>1. New(1) \in Nat /\ New(3) \in Nat /\ "ConditionalLoopEnd" \in LoopEnds
      BY <1>2 DEF LoopEnds
    <2>2. Names(frame, "ConditionalLoopEnd", <<New(1), New(3)>>, New(3))
      BY <2>1, LoopFrame
    <2> HIDE DEF frame
    <2> QED BY <2>2 DEF Names
  <1> HIDE DEF frame, s
  <1>5. frame.blks \in Seq(D) /\ Len(frame.blks) = 2
        /\ frame.blks[1] = New(1) /\ frame.blks[2] = New(3)
    <2> HIDE DEF D
    <2> QED BY <1>2, <1>4, BlockLists
  <1>6. BodyOf(Top.kids[1], frame, New(3))
    <2>1. Top.kids[1] \in Stmt
      BY <1>1, KidOf
    <2>2. work' = <<Top.kids[1], frame>> \o Under /\ Push(New(1), New(3))
      BY DEF visitConditionalLoop, frame
    <2> QED BY <1>1, <1>4, <1>5, <2>1, <2>2 DEF BodyOf, LoopEnds, BreakEnds
  <1>7. /\ code' = Emit(Emit(Create(code, 3), ip, s), New(1), <<Eval(Top), CondBr(New(2), New(3))>>)
        /\ ip' = New(2) /\ placed' = placed \union {New(1), New(2), New(3)}
    BY DEF visitConditionalLoop, s
  <1> QED BY <1>1, <1>3, <1>5, <1>6, <1>7, HeaderKeepsInv

LEMMA DomainLoopKeepsInv ==
  ASSUME GenInv, NEW op \in {"domain", "inner"}, visitDomainLoop(op)
  PROVE  GenInv'
  <1> DEFINE end == IF op = "domain" THEN "DomainLoopEnd" ELSE "InnerLoopEnd"
             frame == Frame(end, <<New(1), New(3)>>)
             s == <<Enter(Top), Br(New(1))>>
             D == 1 .. Len(code) + 3
  <1>1. work # <<>> /\ Top.op = op /\ Top \in Stmt /\ ast' = ast
    BY TopKind DEF visitDomainLoop, Visiting, Ops, GenInv
  <1>2. /\ D \subseteq Nat /\ New(1) \in D /\ New(2) \in D /\ New(3) \in D
    <2> HIDE DEF frame, s
    <2> QED BY ThreeBlocks DEF GenInv
  <1>3. s \in Seq(Instr) /\ Sealed(s) /\ BranchesInto(s, D)
    <2> HIDE DEF D
    <2> QED BY <1>1, <1>2, EnterThen
  <1>4. /\ frame \in Frames /\ frame.op = end /\ frame.blks = <<New(1), New(3)>>
        /\ Owned(frame) = {New(3)}
    <2>1. end \in FrameOps /\ end \in LoopEnds
      BY DEF FrameOps, LoopEnds
    <2>2. New(1) \in Nat /\ New(3) \in Nat
      BY <1>2
    <2>3. Names(frame, end, <<New(1), New(3)>>, New(3))
      <3> HIDE DEF end
      <3> QED BY <2>1, <2>2, LoopFrame
    <2> HIDE DEF frame, end
    <2> QED BY <2>3 DEF Names
  <1> HIDE DEF frame, s
  <1>5. frame.blks \in Seq(D) /\ Len(frame.blks) = 2
        /\ frame.blks[1] = New(1) /\ frame.blks[2] = New(3)
    <2> HIDE DEF D
    <2> QED BY <1>2, <1>4, BlockLists
  <1>6. BodyOf(Top.kids[1], frame, New(3))
    <2>1. Top.kids[1] \in Stmt
      BY <1>1, KidOf
    <2>2. /\ work' = <<Top.kids[1], frame>> \o Under
          /\ IF op = "domain" THEN Push(New(1), New(3)) ELSE KeepLoops
      BY DEF visitDomainLoop, frame
    <2>3. \/ KeepLoops /\ end \notin BreakEnds
          \/ Push(New(1), New(3)) /\ end \in BreakEnds
      BY <2>2 DEF BreakEnds, LoopEnds
    <2>4. end # "RoutineEnd" /\ end \notin {"ConditionalEnd", "ElseBranchEnd"}
      OBVIOUS
    <2> HIDE DEF end
    <2> QED BY <1>1, <1>4, <1>5, <2>1, <2>2, <2>3, <2>4 DEF BodyOf
  <1>7. /\ code' = Emit(Emit(Create(code, 3), ip, s), New(1), <<Eval(Top), CondBr(New(2), New(3))>>)
        /\ ip' = New(2) /\ placed' = placed \union {New(1), New(2), New(3)}
    BY DEF visitDomainLoop, s
  <1> QED BY <1>1, <1>3, <1>5, <1>6, <1>7, HeaderKeepsInv

LEMMA ConditionalKeepsInv ==
  ASSUME GenInv, visitConditional
  PROVE  GenInv'
  <1> DEFINE frame == Frame("ConditionalEnd", <<New(3)>>)
             s == <<Br(New(1))>>
             D == 1 .. Len(code) + 3
  <1>1. work # <<>> /\ Top.op = "if" /\ Top \in Stmt /\ ast' = ast
    BY TopKind DEF visitConditional, Visiting, Ops, GenInv
  <1>2. /\ D \subseteq Nat /\ New(1) \in D /\ New(2) \in D /\ New(3) \in D
    <2> HIDE DEF frame, s
    <2> QED BY ThreeBlocks DEF GenInv
  <1>3. s \in Seq(Instr) /\ Sealed(s) /\ BranchesInto(s, D)
    <2> HIDE DEF D
    <2> QED BY <1>2, BranchTo
  <1>4. /\ frame \in Frames /\ frame.op = "ConditionalEnd" /\ frame.blks = <<New(3)>>
        /\ Owned(frame) = {New(3)}
    <2>1. New(3) \in Nat
      BY <1>2
    <2>2. Names(frame, "ConditionalEnd", <<New(3)>>, New(3))
      BY <2>1, IfFrame
    <2> HIDE DEF frame
    <2> QED BY <2>2 DEF Names
  <1> HIDE DEF frame, s
  <1>5. frame.blks \in Seq(D) /\ Len(frame.blks) = 1 /\ frame.blks[1] = New(3)
    <2> HIDE DEF D
    <2> QED BY <1>2, <1>4, BlockLists
  <1>6. BodyOf(Top.kids[1], frame, New(3))
    <2>1. Top.kids[1] \in Stmt
      BY <1>1, KidOf
    <2>2. work' = <<Top.kids[1], frame>> \o Under /\ KeepLoops
      BY DEF visitConditional, frame
    <2> QED BY <1>1, <1>4, <1>5, <2>1, <2>2 DEF BodyOf, LoopEnds, BreakEnds
  <1>7. /\ code' = Emit(Emit(Create(code, 3), ip, s), New(1), <<Eval(Top), CondBr(New(2), New(3))>>)
        /\ ip' = New(2) /\ placed' = placed \union {New(1), New(2)}
    BY DEF visitConditional, s
  <1> QED BY <1>1, <1>3, <1>4, <1>5, <1>6, <1>7, HeaderKeepsInv

LEMMA InfiniteLoopKeepsInv ==
  ASSUME GenInv, visitInfiniteLoop
  PROVE  GenInv'
  <1> DEFINE frame == Frame("InfiniteLoopEnd", <<New(1), New(2)>>)
             s == <<Br(New(1))>>
             D == 1 .. Len(code) + 2
  <1>1. work # <<>> /\ Top.op = "loop" /\ Top \in Stmt /\ ast' = ast /\ BlockInv
    BY TopKind DEF visitInfiniteLoop, Visiting, Ops, GenInv
  <1>2. /\ D \subseteq Nat /\ New(1) \in D /\ New(2) \in D /\ DOMAIN code \subseteq D
        /\ placed \subseteq DOMAIN code /\ New(1) # New(2) /\ Len(code) \in Nat
        /\ \A b \in D \ DOMAIN code : b \in {New(1), New(2)}
    <2>1. 1 .. 2 = {1, 2} /\ 2 \in Nat
      OBVIOUS
    <2> HIDE DEF frame, s
    <2> QED BY <1>1, <2>1, NewBlocks
  <1>3. s \in Seq(Instr) /\ Sealed(s) /\ BranchesInto(s, D)
    <2> HIDE DEF D
    <2> QED BY <1>2, BranchTo
  <1>4. /\ frame \in Frames /\ frame.op = "InfiniteLoopEnd" /\ frame.blks = <<New(1), New(2)>>
        /\ Owned(frame) = {New(2)}
    <2>1. New(1) \in Nat /\ New(2) \in Nat /\ "InfiniteLoopEnd" \in LoopEnds
      BY <1>2 DEF LoopEnds
    <2>2. Names(frame, "InfiniteLoopEnd", <<New(1), New(2)>>, New(2))
      BY <2>1, LoopFrame
    <2> HIDE DEF frame
    <2> QED BY <2>2 DEF Names
  <1> HIDE DEF frame, s
  <1>5. frame.blks \in Seq(D) /\ Len(frame.blks) = 2
        /\ frame.blks[1] = New(1) /\ frame.blks[2] = New(2)
    <2> HIDE DEF D
    <2> QED BY <1>2, <1>4, BlockLists
  <1>6. BodyOf(Top.kids[1], frame, New(2))
    <2>1. Top.kids[1] \in Stmt
      BY <1>1, KidOf
    <2>2. work' = <<Top.kids[1], frame>> \o Under /\ Push(New(1), New(2))
      BY DEF visitInfiniteLoop, frame
    <2> QED BY <1>1, <1>4, <1>5, <2>1, <2>2 DEF BodyOf, LoopEnds, BreakEnds
  <1>7. /\ code' = Emit(Create(code, 2), ip, s)
        /\ ip' = New(1) /\ placed' = placed \union {New(1), New(2)}
    BY DEF visitInfiniteLoop, s
  <1>8. Opened(2, s, code', D)
    <2> HIDE DEF D
    <2> QED BY <1>1, <1>2, <1>3, <1>7, OpenCode
  <1>9. /\ code' \in Seq(Seq(Instr)) /\ Len(code') = Len(code) + 2 /\ DOMAIN code' = D
        /\ \A b \in DOMAIN code : b # ip => code'[b] = code[b]
        /\ New(1) \in D \ DOMAIN code /\ New(2) \in D \ DOMAIN code
        /\ code'[New(1)] = <<>> /\ code'[New(2)] = <<>>
        /\ Sealed(code'[ip]) /\ BranchesInto(code'[ip], D)
    <2>1. 1 \in 1 .. 2 /\ 2 \in 1 .. 2
      OBVIOUS
    <2>2. DOMAIN code' = D
      BY <1>8 DEF Opened
    <2> HIDE DEF D
    <2> QED BY <1>3, <1>8, <2>1, <2>2 DEF Opened
  <1> HIDE DEF D
  <1>10. BlocksOf(frame, New(2))
    <2>1. Len(code') >= Len(code)
      BY <1>2, <1>9
    <2> QED BY <1>2, <1>5, <1>7, <1>9, <2>1 DEF BlocksOf, Fresh
  <1> QED BY <1>6, <1>10, BodyKeepsInv

LEMMA ReturnKeepsInv ==
  ASSUME GenInv, visitReturn
  PROVE  GenInv'
  <1>1. work # <<>> /\ Top \in Stmt /\ ast' = ast
    BY TopKind DEF visitReturn, Visiting, Ops, GenInv
  <1>2. Ret(Top) \in Instr /\ IsTerminator(Ret(Top)) /\ BranchesInto(<<Ret(Top)>>, DOMAIN code)
    BY <1>1, InstrType, OneInstr
  <1>3. /\ code' = Emit(Create(code, 1), ip, <<Ret(Top)>>)
        /\ placed' = placed \union {New(1)} /\ ip' = New(1) /\ work' = Under /\ KeepLoops
    BY DEF visitReturn
  <1> QED BY <1>1, <1>2, <1>3, JumpKeepsInv

LEMMA LoopJumpKeepsInv ==
  ASSUME GenInv, NEW op \in {"break", "continue"},
         NEW stack \in Seq(DOMAIN code), Jump(op, stack)
  PROVE  GenInv'
  <1>1. work # <<>> /\ Top \in Stmt /\ ast' = ast
    BY TopKind DEF Jump, Visiting, Ops, GenInv
  <1>2. stack[1] \in DOMAIN code /\ stack[1] \in Nat
    BY DEF Jump, GenInv, BlockInv, TypeOK
  <1>3. Br(stack[1]) \in Instr /\ IsTerminator(Br(stack[1]))
        /\ BranchesInto(<<Br(stack[1])>>, DOMAIN code)
    BY <1>2, InstrType, BrSealed
  <1>4. /\ code' = Emit(Create(code, 1), ip, <<Br(stack[1])>>)
        /\ placed' = placed \union {New(1)} /\ ip' = New(1) /\ work' = Under /\ KeepLoops
    BY DEF Jump
  <1> QED BY <1>1, <1>3, <1>4, JumpKeepsInv

(* Two bodies, each with a frame of its own, and four blocks.              *)
LEMMA FourVisits ==
  ASSUME NEW S, NEW a \in S, NEW b \in S, NEW c \in S, NEW d \in S
  PROVE  <<a, b, c, d>> \in Seq(S)
  OBVIOUS

LEMMA FourBlocks ==
  ASSUME BlockInv, NEW D, D = 1 .. Len(code) + 4
  PROVE  /\ Len(code) \in Nat /\ DOMAIN code \subseteq D /\ D \subseteq Nat
         /\ placed \subseteq DOMAIN code
         /\ New(1) \in D \ DOMAIN code /\ New(2) \in D \ DOMAIN code
         /\ New(3) \in D \ DOMAIN code /\ New(4) \in D \ DOMAIN code
         /\ New(1) # New(2) /\ New(1) # New(3) /\ New(1) # New(4)
         /\ New(2) # New(3) /\ New(2) # New(4) /\ New(3) # New(4)
         /\ \A b \in D \ DOMAIN code : b \in {New(1), New(2), New(3), New(4)}
  <1>1. 1 .. 4 = {1, 2, 3, 4} /\ 4 \in Nat
    OBVIOUS
  <1>2. /\ Len(code) \in Nat /\ DOMAIN code \subseteq D /\ D \subseteq Nat
        /\ placed \subseteq DOMAIN code
        /\ \A i \in 1 .. 4 : New(i) \in D \ DOMAIN code
        /\ \A b \in D \ DOMAIN code : \E i \in 1 .. 4 : b = New(i)
    <2>1. \A m \in Nat : D = 1 .. Len(code) + m =>
            /\ Len(code) \in Nat /\ DOMAIN code \subseteq D /\ D \subseteq Nat
            /\ placed \subseteq DOMAIN code
            /\ \A i \in 1 .. m : New(i) \in D \ DOMAIN code
            /\ \A b \in D \ DOMAIN code : \E i \in 1 .. m : b = New(i)
      BY NewBlocks
    <2> QED BY <1>1, <2>1
  <1>3. /\ New(1) # New(2) /\ New(1) # New(3) /\ New(1) # New(4)
        /\ New(2) # New(3) /\ New(2) # New(4) /\ New(3) # New(4)
    BY <1>2 DEF New
  <1>4. \A b \in D \ DOMAIN code : b \in {New(1), New(2), New(3), New(4)}
    BY <1>1, <1>2
  <1> QED BY <1>1, <1>2, <1>3, <1>4

LEMMA ConditionalElseKeepsInv ==
  ASSUME GenInv, visitConditionalElse
  PROVE  GenInv'
  <1> DEFINE f == Frame("IfBranchEnd", <<New(3), New(4)>>)
             g == Frame("ElseBranchEnd", <<New(4)>>)
             s == <<Br(New(1))>>
             h == <<Eval(Top), CondBr(New(2), New(3))>>
             D == 1 .. Len(code) + 4
  <1>1. work # <<>> /\ Top.op = "ifelse" /\ Top \in Stmt /\ ast' = ast /\ BlockInv
    BY TopKind DEF visitConditionalElse, Visiting, Ops, GenInv
  <1>2. /\ Len(code) \in Nat /\ DOMAIN code \subseteq D /\ D \subseteq Nat
        /\ placed \subseteq DOMAIN code
        /\ New(1) \in D \ DOMAIN code /\ New(2) \in D \ DOMAIN code
        /\ New(3) \in D \ DOMAIN code /\ New(4) \in D \ DOMAIN code
        /\ New(1) # New(2) /\ New(1) # New(3) /\ New(1) # New(4)
        /\ New(2) # New(3) /\ New(2) # New(4) /\ New(3) # New(4)
        /\ \A b \in D \ DOMAIN code : b \in {New(1), New(2), New(3), New(4)}
    <2> HIDE DEF f, g, s, h
    <2> QED BY <1>1, FourBlocks
  <1>3. s \in Seq(Instr) /\ Sealed(s) /\ BranchesInto(s, D)
    <2> HIDE DEF D
    <2> QED BY <1>2, BranchTo
  <1>4. h \in Seq(Instr) /\ Sealed(h) /\ BranchesInto(h, D)
    <2> HIDE DEF D
    <2> QED BY <1>1, <1>2, TestTo
  <1>5. /\ Names(f, "IfBranchEnd", <<New(3), New(4)>>, New(3))
        /\ Names(g, "ElseBranchEnd", <<New(4)>>, New(4))
    BY <1>2, IfFrame
  <1>6. /\ <<New(3), New(4)>> \in Seq(D) /\ Len(<<New(3), New(4)>>) = 2
        /\ <<New(4)>> \in Seq(D) /\ Len(<<New(4)>>) = 1
    <2> HIDE DEF D
    <2> QED BY <1>2, BlockLists
  <1>7. /\ code' = Emit(Emit(Create(code, 4), ip, s), New(1), h)
        /\ ip' = New(2) /\ placed' = placed \union {New(1), New(2), New(3), New(4)}
        /\ work' = <<Top.kids[1], f, Top.kids[2], g>> \o Under /\ KeepLoops
    BY DEF visitConditionalElse
  <1> HIDE DEF f, g, s, h
  <1>8. HeaderOpened(4, code', D)
    <2> HIDE DEF D
    <2> QED BY <1>1, <1>2, <1>3, <1>4, <1>7, OpenHeader
  <1>9. /\ code' \in Seq(Seq(Instr)) /\ Len(code') = Len(code) + 4 /\ DOMAIN code' = D
        /\ \A b \in DOMAIN code : b # ip => code'[b] = code[b]
        /\ code'[New(2)] = <<>> /\ code'[New(3)] = <<>> /\ code'[New(4)] = <<>>
        /\ Sealed(code'[ip]) /\ BranchesInto(code'[ip], D)
        /\ Sealed(code'[New(1)]) /\ BranchesInto(code'[New(1)], D)
    <2>1. 2 \in 2 .. 4 /\ 3 \in 2 .. 4 /\ 4 \in 2 .. 4
      OBVIOUS
    <2>2. DOMAIN code' = D
      BY <1>8 DEF HeaderOpened
    <2> HIDE DEF D
    <2> QED BY <1>8, <2>1, <2>2 DEF HeaderOpened
  <1> HIDE DEF D
  <1>10. Top.kids[1] \in Stmt /\ Top.kids[2] \in Stmt
    BY <1>1, KidOf
  <1>11. /\ f \in Frames /\ f.op = "IfBranchEnd" /\ f.blks \in Seq(D) /\ Len(f.blks) = 2
         /\ Owned(f) = {New(3)}
         /\ g \in Frames /\ g.op = "ElseBranchEnd" /\ g.blks \in Seq(D) /\ Len(g.blks) = 1
         /\ Owned(g) = {New(4)}
    BY <1>5, <1>6 DEF Names
  <1>12. PICK X \in Seq(Stmt \union Frames) : X = <<Top.kids[1], f, Top.kids[2], g>>
    <2>1. /\ Top.kids[1] \in Stmt \union Frames /\ Top.kids[2] \in Stmt \union Frames
          /\ f \in Stmt \union Frames /\ g \in Stmt \union Frames
      BY <1>10, <1>11
    <2> QED BY <2>1, FourVisits
  <1>13. DOMAIN X = {1, 2, 3, 4} /\ X[1] = Top.kids[1] /\ X[2] = f /\ X[3] = Top.kids[2] /\ X[4] = g
    BY <1>12
  <1>14. /\ X[1].op \notin FrameOps /\ Owned(X[1]) = {}
         /\ X[3].op \notin FrameOps /\ Owned(X[3]) = {}
    BY <1>10, <1>13, StmtIsNoFrame
  <1>15. Fresh = {New(1), New(2), New(3), New(4)}
    BY <1>2, <1>9 DEF Fresh
  <1>16. VisitOf(X)
    <2>1. LoopBeginBlocks' \in Seq(DOMAIN code') /\ LoopEndBlocks' \in Seq(DOMAIN code')
      BY <1>1, <1>2, <1>7, <1>9, StacksGrow
    <2>2. Len(code') >= Len(code)
      BY <1>2, <1>9
    <2>3. placed \subseteq placed' /\ placed' \subseteq DOMAIN code'
      BY <1>2, <1>7, <1>9
    <2>4. work' = X \o Under
      BY <1>7, <1>12
    <2>5. Sealed(code'[ip]) /\ ip' \in DOMAIN code' /\ ip' \notin DOMAIN code /\ code'[ip'] = <<>>
      BY <1>2, <1>7, <1>9
    <2> QED BY <1>1, <1>9, <2>1, <2>2, <2>3, <2>4, <2>5 DEF VisitOf
  <1>17. FramesOf(X)
    <2>1. f.op \in FrameOps /\ g.op \in FrameOps
      BY <1>11 DEF FrameOps, CondEnds
    <2>2. ASSUME NEW i \in DOMAIN X
          PROVE  /\ X[i].op # "RoutineEnd"
                 /\ X[i].op \in FrameOps => X[i].blks \in Seq(DOMAIN code')
                 /\ X[i].op \in LoopEnds \union {"IfBranchEnd"} => Len(X[i].blks) = 2
                 /\ X[i].op \in {"ConditionalEnd", "ElseBranchEnd"} => Len(X[i].blks) = 1
      BY <1>9, <1>11, <1>13, <1>14 DEF FrameOps, LoopEnds, CondEnds
    <2>3. ASSUME NEW i \in DOMAIN X, NEW b \in Owned(X[i])
          PROVE  /\ b \in Fresh /\ b # ip' /\ code'[b] = <<>>
                 /\ \A j \in DOMAIN X : b \in Owned(X[j]) => i = j
      <3>1. (i = 2 /\ b = New(3)) \/ (i = 4 /\ b = New(4))
        BY <1>11, <1>13, <1>14, <2>3
      <3>2. \A j \in DOMAIN X : b \in Owned(X[j]) =>
                 (j = 2 /\ b = New(3)) \/ (j = 4 /\ b = New(4))
        BY <1>11, <1>13, <1>14
      <3> QED BY <1>2, <1>7, <1>9, <1>15, <3>1, <3>2
    <2> QED BY <2>2, <2>3 DEF FramesOf
  <1>18. FreshOf(X)
    <2>1. BranchesInto(<<>>, DOMAIN code')
      BY DEF BranchesInto
    <2>2. ASSUME NEW b \in Fresh
          PROVE  /\ Sealed(code'[b]) \/ b = ip' \/ \E i \in DOMAIN X : b \in Owned(X[i])
                 /\ b \in placed' /\ BranchesInto(code'[b], DOMAIN code')
      BY <1>7, <1>9, <1>11, <1>13, <1>15, <2>1
    <2> QED BY <1>9, <2>2 DEF FreshOf
  <1>19. LoopInv'
    <2>1. \A i \in DOMAIN X : X[i].op \notin BreakEnds
      BY <1>11, <1>13, <1>14 DEF BreakEnds, FrameOps, LoopEnds, CondEnds
    <2>2. work' = X \o Under
      BY <1>7, <1>12
    <2> QED BY <1>1, <1>7, <2>1, <2>2, KeepsLoopInv
  <1> QED BY <1>1, <1>16, <1>17, <1>18, <1>19, VisitKeepsInv DEF GenInv
-----------------------------------------------------------------------------
(* The ends of visits.                                                     *)
LEMMA FrameOnTop ==
  ASSUME BlockInv, work # <<>>, Top.op \in FrameOps
  PROVE  /\ Top.blks \in Seq(DOMAIN code)
         /\ Top.op \in LoopEnds \union {"IfBranchEnd"} => Len(Top.blks) = 2
         /\ Top.op \in {"ConditionalEnd", "ElseBranchEnd"} => Len(Top.blks) = 1
  <1>1. 1 \in DOMAIN work /\ Top = work[1]
    BY DEF BlockInv, TypeOK, Top
  <1> QED BY <1>1 DEF BlockInv, WorkInv

LEMMA TailType ==
  ASSUME NEW S, NEW s \in Seq(S), s # <<>>
  PROVE  Tail(s) \in Seq(S)
  OBVIOUS

(* A loop that is in progress is on the stacks.                            *)
LEMMA StacksNotEmpty ==
  ASSUME GenInv, work # <<>>, Top.op \in BreakEnds
  PROVE  LoopBeginBlocks # <<>> /\ LoopEndBlocks # <<>>
  <1>1. 1 \in DOMAIN work /\ work[1].op \in BreakEnds
    BY DEF GenInv, BlockInv, TypeOK, Top
  <1>2. PICK f \in [1 .. Len(LoopBeginBlocks) -> DOMAIN work] : IsLoopStack(f)
    BY DEF GenInv, LoopInv
  <1>3. \E k \in DOMAIN f : f[k] = 1
    BY <1>1, <1>2 DEF IsLoopStack
  <1>4. Len(LoopBeginBlocks) > 0 /\ Len(LoopEndBlocks) = Len(LoopBeginBlocks)
    BY <1>2, <1>3 DEF GenInv, LoopInv, BlockInv, TypeOK
  <1> QED BY <1>4 DEF GenInv, BlockInv, TypeOK

LEMMA LeavesLoop ==
  ASSUME GenInv, NEW op \in LoopEnds, LoopDone(op), KeepLoops \/ (Pop /\ op \in BreakEnds)
  PROVE  BlockInv'
  <1>1. /\ work # <<>> /\ Top.op = op /\ Top.op \in FrameOps /\ BlockInv
    BY DEF GenInv, LoopDone, Visiting, FrameOps
  <1>2. Top.blks \in Seq(DOMAIN code) /\ Len(Top.blks) = 2
    BY <1>1, FrameOnTop
  <1>3. Top.blks[1] \in DOMAIN code
    BY <1>2
  <1>4. LoopBeginBlocks' \in Seq(DOMAIN code) /\ LoopEndBlocks' \in Seq(DOMAIN code)
    <2>1. CASE KeepLoops
      BY <2>1 DEF KeepLoops, GenInv, BlockInv, TypeOK
    <2>2. CASE Pop /\ op \in BreakEnds
      <3>1. LoopBeginBlocks # <<>> /\ LoopEndBlocks # <<>>
        BY <1>1, <2>2, StacksNotEmpty
      <3> QED BY <2>2, <3>1, TailType DEF Pop, GenInv, BlockInv, TypeOK
    <2> QED BY <2>1, <2>2
  <1>5. LeaveTo(Top.blks[1])
    <2>1. Owned(Top) = {Top.blks[2]}
      BY <1>1 DEF Owned
    <2>2. Top.op # "ConditionalEnd"
      BY <1>1 DEF LoopEnds
    <2> QED BY <1>1, <1>3, <1>4, <2>1, <2>2 DEF LeaveTo, LoopDone, Visiting
  <1> QED BY <1>1, <1>5, LeaveKeepsInv

LEMMA LoopEndKeepsInv ==
  ASSUME GenInv, InfiniteLoopEnd \/ ConditionalLoopEnd \/ DomainLoopEnd
  PROVE  GenInv'
  <1>1. PICK op \in BreakEnds : LoopDone(op)
    BY DEF InfiniteLoopEnd, ConditionalLoopEnd, DomainLoopEnd, BreakEnds, LoopEnds
  <1>2. Pop /\ op \in LoopEnds
    BY DEF InfiniteLoopEnd, ConditionalLoopEnd, DomainLoopEnd, BreakEnds
  <1>3. BlockInv'
    BY <1>1, <1>2, LeavesLoop
  <1>4. LoopInv'
    BY <1>1, <1>2, LoopsPopped DEF GenInv, BlockInv, LoopDone, Visiting
  <1> QED BY <1>3, <1>4 DEF GenInv

(* A frame that is not on the loop stacks leaves them as they are.         *)
LEMMA LeavesLoopsAlone ==
  ASSUME GenInv, work # <<>>, Top.op \notin BreakEnds, work' = Under, KeepLoops
  PROVE  LoopInv'
  <1>1. PICK X \in Seq(Stmt \union Frames) : X = <<>>
    BY EmptySeq
  <1>2. work' = X \o Under
    BY <1>1, NoVisit DEF GenInv, BlockInv, TypeOK, Under
  <1>3. \A i \in DOMAIN X : X[i].op \notin BreakEnds
    BY <1>1
  <1> QED BY <1>2, <1>3, LoopsKept DEF GenInv, BlockInv, KeepLoops

LEMMA InnerLoopEndKeepsInv ==
  ASSUME GenInv, InnerLoopEnd
  PROVE  GenInv'
  <1>1. "InnerLoopEnd" \in LoopEnds \ BreakEnds /\ LoopDone("InnerLoopEnd") /\ KeepLoops
    BY DEF InnerLoopEnd, LoopEnds, BreakEnds
  <1>2. BlockInv'
    BY <1>1, LeavesLoop
  <1>3. LoopInv'
    BY <1>1, LeavesLoopsAlone DEF LoopDone, Visiting
  <1> QED BY <1>2, <1>3 DEF GenInv

LEMMA BranchEndKeepsInv ==
  ASSUME GenInv, ConditionalEnd \/ IfBranchEnd \/ ElseBranchEnd
  PROVE  GenInv'
  <1>1. work # <<>> /\ Top.op \in CondEnds /\ work' = Under /\ ast' = ast /\ KeepLoops
    BY DEF ConditionalEnd, IfBranchEnd, ElseBranchEnd, Visiting, CondEnds
  <1>2. BlockInv /\ Top.op \in FrameOps /\ Top.op \notin LoopEnds
    BY <1>1 DEF GenInv, FrameOps, CondEnds, LoopEnds
  <1>3. Owned(Top) = {Top.blks[1]}
    BY <1>1, <1>2 DEF Owned
  <1>4. Top.blks \in Seq(DOMAIN code) /\ (Top.op = "IfBranchEnd" => Len(Top.blks) = 2)
        /\ (Top.op # "IfBranchEnd" => Len(Top.blks) = 1)
    BY <1>1, <1>2, FrameOnTop DEF CondEnds
  <1>5. Top.blks[1] \in DOMAIN code /\ (Top.op = "IfBranchEnd" => Top.blks[2] \in DOMAIN code)
    BY <1>4
  <1>6. LoopBeginBlocks' \in Seq(DOMAIN code) /\ LoopEndBlocks' \in Seq(DOMAIN code)
    BY <1>1 DEF KeepLoops, GenInv, BlockInv, TypeOK
  <1>7. BlockInv'
    <2>1. CASE IfBranchEnd
      <3>1. LeaveTo(Top.blks[2])
        BY <1>1, <1>3, <1>5, <1>6, <2>1 DEF LeaveTo, IfBranchEnd, Visiting
      <3> QED BY <1>2, <3>1, LeaveKeepsInv
    <2>2. CASE ConditionalEnd \/ ElseBranchEnd
      <3>1. LeaveTo(Top.blks[1])
        BY <1>1, <1>3, <1>5, <1>6, <2>2 DEF LeaveTo, ConditionalEnd, ElseBranchEnd, Visiting
      <3> QED BY <1>2, <3>1, LeaveKeepsInv
    <2> QED BY <2>1, <2>2
  <1>8. LoopInv'
    BY <1>1, <1>2, LeavesLoopsAlone DEF BreakEnds
  <1> QED BY <1>7, <1>8 DEF GenInv

(* The routine's own visit is the last one, and nothing waits under it.    *)
LEMMA RoutineEndKeepsInv ==
  ASSUME GenInv, RoutineEnd
  PROVE  GenInv'
  <1>1. /\ BlockInv /\ work # <<>> /\ Top.op = "RoutineEnd" /\ ast' = ast
        /\ work \in Seq(Stmt \union Frames) /\ Top = work[1]
        /\ code \in Seq(Seq(Instr)) /\ ip \in DOMAIN code
    BY DEF GenInv, RoutineEnd, Visiting, BlockInv, TypeOK, Top
  <1>2. DOMAIN work = {1} /\ work' = <<>>
    <2>1. 1 \in DOMAIN work /\ Len(work) \in Nat
      BY <1>1
    <2>2. Len(work) = 1
      BY <1>1, <2>1 DEF BlockInv, WorkInv
    <2> QED BY <1>1, <2>2, SMTT(30) DEF RoutineEnd, Under
  <1>3. Owned(work[1]) = {Entry} /\ work[1].op = "RoutineEnd"
    BY <1>1 DEF Owned, LoopEnds, CondEnds
  <1>4. Entry \in DOMAIN code /\ Entry # ip /\ code[Entry] = <<>>
    BY <1>1, <1>2, <1>3 DEF BlockInv, WaitingInv
  <1>5. Body \in DOMAIN code /\ Body \in Nat
    BY <1>1, <1>4 DEF Entry, Body
  <1>6. /\ <<Unreachable>> \in Seq(Instr) /\ Sealed(<<Unreachable>>)
        /\ BranchesInto(<<Unreachable>>, DOMAIN code)
        /\ <<Br(Body)>> \in Seq(Instr) /\ Sealed(<<Br(Body)>>)
        /\ BranchesInto(<<Br(Body)>>, DOMAIN code)
    BY <1>5, InstrType, OneInstr, BrSealed
  <1>7. PICK s \in Seq(Instr) : s = <<Unreachable>>
    BY <1>6
  <1>8. PICK r \in Seq(Instr) : r = <<Br(Body)>>
    BY <1>6
  <1>9. PICK e : e = Emit(code, ip, s)
    OBVIOUS
  <1>10. Emitted(code, ip, s, e)
    BY <1>1, <1>9, EmitType
  <1>11. code' = Emit(e, Entry, r)
    BY <1>7, <1>8, <1>9 DEF RoutineEnd
  <1>12. Emitted(e, Entry, r, code')
    <2>1. e \in Seq(Seq(Instr)) /\ Entry \in DOMAIN e
      BY <1>4, <1>10 DEF Emitted
    <2>2. Emitted(e, Entry, r, Emit(e, Entry, r))
      BY <2>1, EmitType
    <2> QED BY <1>11, <2>2
  <1>13. /\ code' \in Seq(Seq(Instr)) /\ DOMAIN code' = DOMAIN code
         /\ code'[ip] = code[ip] \o s /\ code'[Entry] = code[Entry] \o r
         /\ \A b \in DOMAIN code \ {ip, Entry} : code'[b] = code[b]
    <2>1. /\ DOMAIN e = DOMAIN code /\ e[ip] = code[ip] \o s
          /\ \A b \in DOMAIN code : b # ip => e[b] = code[b]
      BY <1>10 DEF Emitted
    <2>2. /\ code' \in Seq(Seq(Instr)) /\ DOMAIN code' = DOMAIN e
          /\ code'[Entry] = e[Entry] \o r
          /\ \A b \in DOMAIN e : b # Entry => code'[b] = e[b]
      BY <1>12 DEF Emitted
    <2>3. ip \in DOMAIN code /\ Entry \in DOMAIN code /\ Entry # ip
      BY <1>1, <1>4
    <2>4. code'[ip] = code[ip] \o s
      BY <2>1, <2>2, <2>3
    <2>5. code'[Entry] = code[Entry] \o r
      BY <2>1, <2>2, <2>3
    <2>6. \A b \in DOMAIN code \ {ip, Entry} : code'[b] = code[b]
      BY <2>1, <2>2
    <2> QED BY <2>1, <2>2, <2>4, <2>5, <2>6
  <1>14. code[ip] \in Seq(Instr) /\ Running(code[ip]) /\ BranchesInto(code[ip], DOMAIN code)
    BY <1>1 DEF BlockInv, SealedInv, PlacedInv
  <1>15. code'[Entry] = r
    BY <1>4, <1>13
  <1>16. /\ Sealed(code'[ip]) /\ Sealed(code'[Entry])
         /\ BranchesInto(code'[ip], DOMAIN code) /\ BranchesInto(code'[Entry], DOMAIN code)
    BY <1>6, <1>7, <1>8, <1>13, <1>14, <1>15, SealedAppend, BranchesAppend
  <1>17. \A b \in DOMAIN code : Sealed(code'[b]) /\ BranchesInto(code'[b], DOMAIN code)
    <2> TAKE b \in DOMAIN code
    <2>1. CASE b \in {ip, Entry}
      BY <1>16, <2>1
    <2>2. CASE b \notin {ip, Entry}
      <3>1. Sealed(code[b]) /\ BranchesInto(code[b], DOMAIN code)
        BY <1>1, <1>2, <1>3, <2>2 DEF BlockInv, SealedInv, PlacedInv
      <3> QED BY <1>13, <2>2, <3>1
    <2> QED BY <2>1, <2>2
  <1>18. DOMAIN code \ placed = {}
    BY <1>1, <1>2, <1>3 DEF BlockInv, PlacedInv
  <1>19. TypeOK'
    <2>1. /\ ast' \in Routine /\ placed' \subseteq DOMAIN code' /\ ip' \in DOMAIN code'
          /\ LoopBeginBlocks' \in Seq(DOMAIN code') /\ LoopEndBlocks' \in Seq(DOMAIN code')
      BY <1>1, <1>4, <1>13 DEF TypeOK, BlockInv, RoutineEnd, KeepLoops
    <2>2. work' \in Seq(Stmt \union Frames)
      BY <1>2
    <2> QED BY <1>13, <2>1, <2>2 DEF TypeOK
  <1>20. WorkInv' /\ WaitingInv'
    BY <1>2 DEF WorkInv, WaitingInv
  <1>21. SealedInv'
    BY <1>2, <1>13, <1>17 DEF SealedInv
  <1>22. PlacedInv'
    BY <1>13, <1>17, <1>18 DEF PlacedInv, RoutineEnd
  <1>23. LoopInv'
    <2>1. Top.op \notin BreakEnds
      BY <1>1 DEF BreakEnds, LoopEnds
    <2> QED BY <1>1, <2>1, LeavesLoopsAlone DEF RoutineEnd
  <1> QED BY <1>19, <1>20, <1>21, <1>22, <1>23 DEF GenInv, BlockInv

LEMMA InitInv ==
  ASSUME Init
  PROVE  GenInv
  <1>1. ast \in Stmt /\ ast \in Routine /\ ast.op \notin FrameOps /\ Owned(ast) = {}
    BY StmtAssumption, StmtIsNoFrame DEF Init
  <1>2. PICK f : f = Frame("RoutineEnd", <<>>)
    OBVIOUS
  <1>3. f \in Frames /\ f.op = "RoutineEnd" /\ Owned(f) = {Entry} /\ f.blks = <<>>
    BY <1>2 DEF Frame, Frames, FrameOps, LoopEnds, CondEnds, Owned
  <1>4. /\ work = <<ast, f>> /\ DOMAIN work = {1, 2} /\ Len(work) = 2
        /\ work[1] = ast /\ work[2] = f
        /\ code = <<<<>>, <<>>>> /\ DOMAIN code = {1, 2} /\ code[1] = <<>> /\ code[2] = <<>>
        /\ placed = {1, 2} /\ ip = 2 /\ LoopBeginBlocks = <<>> /\ LoopEndBlocks = <<>>
    BY <1>2 DEF Init, Entry, Body
  <1>5. TypeOK
    <2>1. work \in Seq(Stmt \union Frames)
      BY <1>1, <1>3, <1>4
    <2>2. code \in Seq(Seq(Instr))
      BY <1>4
    <2> QED BY <1>1, <1>4, <2>1, <2>2 DEF TypeOK
  <1>6. WorkInv
    <2>1. work[1].op # "RoutineEnd" /\ work[1].op \notin LoopEnds \union {"IfBranchEnd"}
          /\ work[1].op \notin {"ConditionalEnd", "ElseBranchEnd"} /\ work[1].op \notin FrameOps
      BY <1>1, <1>4 DEF FrameOps, CondEnds
    <2>2. work[2].blks \in Seq(DOMAIN code)
      BY <1>3, <1>4, EmptySeq
    <2>3. /\ work[2].op \notin LoopEnds \union {"IfBranchEnd"}
          /\ work[2].op = "RoutineEnd"
      BY <1>3, <1>4 DEF LoopEnds
    <2> QED BY <1>4, <2>1, <2>2, <2>3 DEF WorkInv
  <1>7. WaitingInv
    BY <1>1, <1>3, <1>4 DEF WaitingInv, Entry
  <1>8. SealedInv
    BY <1>3, <1>4 DEF SealedInv, Running, Entry
  <1>9. PlacedInv
    BY <1>4 DEF PlacedInv, BranchesInto
  <1>10. LoopInv
    <2>1. PICK g \in [1 .. 0 -> DOMAIN work] : TRUE
      <3>1. [i \in 1 .. 0 |-> 1] \in [1 .. 0 -> DOMAIN work]
        BY <1>4
      <3> QED BY <3>1
    <2>2. work[1].op \notin BreakEnds /\ work[2].op \notin BreakEnds
      BY <1>1, <1>3, <1>4 DEF BreakEnds, FrameOps, LoopEnds
    <2>3. IsLoopStack(g)
      BY <1>4, <2>1, <2>2 DEF IsLoopStack
    <2> QED BY <1>4, <2>1, <2>3 DEF LoopInv
  <1> QED BY <1>5, <1>6, <1>7, <1>8, <1>9, <1>10 DEF GenInv, BlockInv
-----------------------------------------------------------------------------
(* Every visitor of CodeGenPass keeps the invariant.                       *)
LEMMA NextInv ==
  ASSUME GenInv, [Next]_gvars
  PROVE  GenInv'
  <1>1. CASE UNCHANGED gvars
    <2>1. TypeOK' /\ WorkInv' /\ WaitingInv'
      BY <1>1 DEF gvars, GenInv, BlockInv, TypeOK, WorkInv, WaitingInv
    <2>2. SealedInv' /\ PlacedInv'
      BY <1>1 DEF gvars, GenInv, BlockInv, SealedInv, PlacedInv
    <2>3. LoopInv'
      BY <1>1 DEF gvars, GenInv, LoopInv, IsLoopStack
    <2> QED BY <2>1, <2>2, <2>3 DEF GenInv, BlockInv
  <1>2. CASE RoutineEnd
    BY <1>2, RoutineEndKeepsInv
  <1>3. CASE visitBlock
    BY <1>3, BlockKeepsInv
  <1>4. CASE visitPlain
    BY <1>4, PlainKeepsInv
  <1>5. CASE visitReturn
    BY <1>5, ReturnKeepsInv
  <1>6. CASE visitBreak
    BY <1>6, LoopJumpKeepsInv DEF visitBreak, GenInv, BlockInv, TypeOK
  <1>7. CASE visitContinue
    BY <1>7, LoopJumpKeepsInv DEF visitContinue, GenInv, BlockInv, TypeOK
  <1>8. CASE visitInfiniteLoop
    BY <1>8, InfiniteLoopKeepsInv
  <1>9. CASE visitWhile \/ visitDoWhile
    BY <1>9, ConditionalLoopKeepsInv DEF visitWhile, visitDoWhile
  <1>10. CASE visitBreakable \/ visitInner
    BY <1>10, DomainLoopKeepsInv DEF visitBreakable, visitInner
  <1>11. CASE InfiniteLoopEnd \/ ConditionalLoopEnd \/ DomainLoopEnd
    BY <1>11, LoopEndKeepsInv
  <1>12. CASE InnerLoopEnd
    BY <1>12, InnerLoopEndKeepsInv
  <1>13. CASE visitConditional
    BY <1>13, ConditionalKeepsInv
  <1>14. CASE visitConditionalElse
    BY <1>14, ConditionalElseKeepsInv
  <1>15. CASE ConditionalEnd \/ IfBranchEnd \/ ElseBranchEnd
    BY <1>15, BranchEndKeepsInv
  <1> QED
    BY <1>1, <1>2, <1>3, <1>4, <1>5, <1>6, <1>7, <1>8, <1>9, <1>10, <1>11, <1>12, <1>13,
       <1>14, <1>15 DEF Next

(* The invariant of code generation holds whatever routine is compiled,    *)
(* however deep its statements nest.                                       *)
THEOREM GenInvariant == Spec => []GenInv
  <1>1. Init => GenInv
    BY InitInv
  <1>2. GenInv /\ [Next]_gvars => GenInv'
    BY NextInv
  <1> QED BY <1>1, <1>2, PTL DEF Spec

(* The visitors keep their stacks, blocks and insertion point within the   *)
(* blocks of the function.                                                 *)
THEOREM GenTypes == Spec => []TypeOK
  <1>1. GenInv => TypeOK
    BY DEF GenInv, BlockInv
  <1> QED BY <1>1, GenInvariant, PTL

(* Blocks are finished, current or waiting for exactly one visit.          *)
THEOREM GenBlocks == Spec => []BlockInv
  <1>1. GenInv => BlockInv
    BY DEF GenInv
  <1> QED BY <1>1, GenInvariant, PTL

(* The loop stacks are the breakable loops in progress.                    *)
THEOREM GenLoops == Spec => []LoopInv
  <1>1. GenInv => LoopInv
    BY DEF GenInv
  <1> QED BY <1>1, GenInvariant, PTL

(* break and continue target the innermost breakable loop in progress.     *)
THEOREM GenJumps == Spec => []JumpsToInnermostLoop
  <1>1. ASSUME GenInv PROVE JumpsToInnermostLoop
    <2>1. SUFFICES ASSUME NEW i \in DOMAIN work, InnermostLoop(i)
                   PROVE  /\ LoopBeginBlocks[1] = work[i].blks[1]
                          /\ LoopEndBlocks[1] = work[i].blks[2]
      BY DEF JumpsToInnermostLoop
    <2>2. PICK f \in [1 .. Len(LoopBeginBlocks) -> DOMAIN work] : IsLoopStack(f)
      BY <1>1 DEF GenInv, LoopInv
    <2>3. Len(LoopBeginBlocks) \in Nat /\ DOMAIN work \subseteq Nat /\ DOMAIN work = 1 .. Len(work)
          /\ Len(work) \in Nat
      BY <1>1 DEF GenInv, BlockInv, TypeOK
    <2>4. PICK k \in DOMAIN f : f[k] = i
      BY <2>1, <2>2 DEF IsLoopStack, InnermostLoop
    <2>5. 1 \in DOMAIN f /\ k >= 1 /\ k \in Nat
      BY <2>2, <2>3, <2>4
    <2>6. f[1] = i
      <3>1. work[f[1]].op \in BreakEnds /\ f[1] \in DOMAIN work
        BY <2>2, <2>5 DEF IsLoopStack
      <3>2. ~(f[1] < i)
        BY <2>1, <2>3, <3>1 DEF InnermostLoop
      <3>3. 1 < k => f[1] < f[k]
        BY <2>2, <2>5 DEF IsLoopStack
      <3> QED BY <2>4, <2>5, <3>2, <3>3
    <2> QED BY <2>2, <2>5, <2>6 DEF IsLoopStack
  <1> QED BY <1>1, GenInvariant, PTL

(* The function handed to LLVM is well formed, for every routine.          *)
THEOREM GenWellFormed == Spec => []WellFormedFunction
  <1>1. ASSUME GenInv PROVE WellFormedFunction
    <2>1. SUFFICES ASSUME work = <<>>
                   PROVE  /\ placed = DOMAIN code
                          /\ \A b \in DOMAIN code : Sealed(code[b]) /\ BranchesInto(code[b], placed)
      BY DEF WellFormedFunction, Done
    <2>2. DOMAIN work = {}
      BY <2>1
    <2>3. placed = DOMAIN code
      BY <1>1, <2>2 DEF GenInv, BlockInv, TypeOK, PlacedInv
    <2> QED BY <1>1, <2>1, <2>2, <2>3 DEF GenInv, BlockInv, SealedInv, PlacedInv
  <1> QED BY <1>1, GenInvariant, PTL
-----------------------------------------------------------------------------
(* From here on, what the code of a routine does when it is run.           *)
(* The passes are recursive functions: they exist, because trees are       *)
(* finite.  Shown once for the three of them.                              *)
PassDomain(pass) == IF pass = "built" THEN Parsed ELSE Stmt

PassStep(pass, t, below) ==
  CASE pass = "built"   -> BuildNode(t, below)
    [] pass = "stray"   -> StrayAt(t, below)
    [] pass = "returns" -> ReturnsAt(t, below)

OnKids(f, t) == Listed([i \in DOMAIN t.kids |-> f[t.kids[i]]])

Solves(pass, D, f) == f = [t \in D |-> PassStep(pass, t, OnKids(f, t))]

Lower(pass, n) == {t \in PassDomain(pass) : Height[t] < n}

LESS == {ss \in Nat \X Nat : ss[1] < ss[2]}

LEMMA LeastNat ==
  ASSUME NEW B, B \subseteq Nat, B # {}
  PROVE  \E i \in B : \A j \in B : i <= j
  <1>1. IsWellFoundedOn(LESS, Nat)
    BY NatLessThanWellFounded DEF OpToRel, LESS
  <1>2. PICK i \in B : \A j \in B : <<j, i>> \notin LESS
    BY <1>1, WFMin
  <1>3. ASSUME NEW j \in B, j < i PROVE FALSE
    BY <1>2, <1>3 DEF LESS
  <1> QED BY <1>3

LEMMA KidsLower ==
  ASSUME NEW pass, NEW t \in PassDomain(pass), NEW i \in DOMAIN t.kids
  PROVE  /\ t.kids[i] \in PassDomain(pass)
         /\ Height[t] \in Nat /\ Height[t.kids[i]] \in Nat
         /\ Height[t.kids[i]] < Height[t]
  <1>1. t.kids \in Seq(PassDomain(pass))
    BY ParsedAssumption, StmtAssumption DEF PassDomain
  <1>2. t \in Parsed \union Stmt /\ t.kids[i] \in PassDomain(pass)
    BY <1>1 DEF PassDomain
  <1>3. t.kids[i] \in Parsed \union Stmt
    BY <1>2 DEF PassDomain
  <1> QED BY <1>2, <1>3, HeightAssumption

LEMMA SameOnKids ==
  ASSUME NEW f, NEW g, NEW t, \A i \in DOMAIN t.kids : f[t.kids[i]] = g[t.kids[i]]
  PROVE  OnKids(f, t) = OnKids(g, t)
  <1>1. [i \in DOMAIN t.kids |-> f[t.kids[i]]] = [i \in DOMAIN t.kids |-> g[t.kids[i]]]
    OBVIOUS
  <1> QED BY <1>1 DEF OnKids

LEMMA PassUnique ==
  ASSUME NEW pass, NEW n \in Nat, NEW m \in Nat, NEW f, NEW g,
         Solves(pass, Lower(pass, n), f), Solves(pass, Lower(pass, m), g),
         NEW t \in Lower(pass, n) \intersect Lower(pass, m)
  PROVE  f[t] = g[t]
  <1> DEFINE D == Lower(pass, n) \intersect Lower(pass, m)
             B == {Height[u] : u \in {v \in D : f[v] # g[v]}}
  <1>0. \A u \in D : Height[u] \in Nat /\ u \in PassDomain(pass)
    BY HeightAssumption DEF Lower, PassDomain
  <1>1. SUFFICES ASSUME B # {} PROVE FALSE
    BY <1>1
  <1>2. B \subseteq Nat
    BY <1>0
  <1>3. PICK h \in B : \A k \in B : h <= k
    BY <1>1, <1>2, LeastNat
  <1>4. PICK u \in D : f[u] # g[u] /\ h = Height[u]
    BY <1>3
  <1>5. ASSUME NEW i \in DOMAIN u.kids PROVE f[u.kids[i]] = g[u.kids[i]]
    <2>1. /\ u.kids[i] \in PassDomain(pass) /\ Height[u] \in Nat
          /\ Height[u.kids[i]] \in Nat /\ Height[u.kids[i]] < Height[u]
      BY <1>0, KidsLower
    <2>2. u.kids[i] \in D
      BY <2>1 DEF Lower
    <2>3. Height[u.kids[i]] \notin B
      BY <2>1, <1>3, <1>4
    <2> QED BY <2>2, <2>3
  <1>6. OnKids(f, u) = OnKids(g, u)
    BY <1>5, SameOnKids
  <1>7. f[u] = PassStep(pass, u, OnKids(f, u)) /\ g[u] = PassStep(pass, u, OnKids(g, u))
    BY <1>4 DEF Solves
  <1> QED BY <1>4, <1>6, <1>7

LEMMA PassBelow ==
  ASSUME NEW pass, NEW n \in Nat
  PROVE  \E f : Solves(pass, Lower(pass, n), f)
  <1> DEFINE B == {k \in Nat : ~ \E f : Solves(pass, Lower(pass, k), f)}
  <1>1. SUFFICES ASSUME B # {} PROVE FALSE
    OBVIOUS
  <1>2. PICK k \in B : \A j \in B : k <= j
    BY <1>1, LeastNat
  <1>3. k # 0
    <2>0. \A t \in PassDomain(pass) : Height[t] \in Nat
      BY HeightAssumption DEF PassDomain
    <2>1. Lower(pass, 0) = {}
      BY <2>0 DEF Lower
    <2>2. PICK f : f = [t \in {} |-> 0]
      OBVIOUS
    <2>3. f = [t \in {} |-> PassStep(pass, t, OnKids(f, t))]
      BY <2>2
    <2> QED BY <1>2, <2>1, <2>3 DEF Solves
  <1>4. k - 1 \in Nat /\ k - 1 \notin B
    BY <1>2, <1>3
  <1>5. PICK f : Solves(pass, Lower(pass, k - 1), f)
    BY <1>4
  <1>6. PICK g : g = [t \in Lower(pass, k) |-> PassStep(pass, t, OnKids(f, t))]
    OBVIOUS
  <1>7. ASSUME NEW t \in Lower(pass, k) PROVE OnKids(f, t) = OnKids(g, t)
    <2>1. ASSUME NEW i \in DOMAIN t.kids PROVE f[t.kids[i]] = g[t.kids[i]]
      <3>1. t \in PassDomain(pass) /\ Height[t] < k
        BY DEF Lower
      <3>2. /\ t.kids[i] \in PassDomain(pass) /\ Height[t] \in Nat
            /\ Height[t.kids[i]] \in Nat /\ Height[t.kids[i]] < Height[t]
        BY <3>1, KidsLower
      <3>3. t.kids[i] \in Lower(pass, k - 1) /\ t.kids[i] \in Lower(pass, k)
        BY <3>1, <3>2, <1>4 DEF Lower
      <3> QED BY <3>3, <1>5, <1>6 DEF Solves
    <2> QED BY <2>1, SameOnKids
  <1>8. g = [t \in Lower(pass, k) |-> PassStep(pass, t, OnKids(g, t))]
    BY <1>6, <1>7
  <1> QED BY <1>2, <1>8 DEF Solves

LEMMA PassExists ==
  ASSUME NEW pass
  PROVE  \E f : Solves(pass, PassDomain(pass), f)
  <1> DEFINE Sol(t) == CHOOSE f : Solves(pass, Lower(pass, Height[t] + 1), f)
  <1>1. PICK F : F = [t \in PassDomain(pass) |-> Sol(t)[t]]
    OBVIOUS
  <1>2. ASSUME NEW t \in PassDomain(pass)
        PROVE  /\ Height[t] \in Nat
               /\ t \in Lower(pass, Height[t] + 1)
               /\ Solves(pass, Lower(pass, Height[t] + 1), Sol(t))
    <2>1. Height[t] \in Nat
      BY HeightAssumption DEF PassDomain
    <2>2. Height[t] + 1 \in Nat
      BY <2>1
    <2>3. \E f : Solves(pass, Lower(pass, Height[t] + 1), f)
      BY <2>2, PassBelow
    <2>4. Solves(pass, Lower(pass, Height[t] + 1), Sol(t))
      <3> HIDE DEF Solves, Lower
      <3> QED BY <2>3, Zenon
    <2>5. t \in Lower(pass, Height[t] + 1)
      BY <2>1 DEF Lower
    <2> QED BY <2>1, <2>4, <2>5
  <1>3. ASSUME NEW t \in PassDomain(pass)
        PROVE  F[t] = PassStep(pass, t, OnKids(F, t))
    <2>1. Sol(t)[t] = PassStep(pass, t, OnKids(Sol(t), t))
      BY <1>2 DEF Solves
    <2>2. ASSUME NEW i \in DOMAIN t.kids PROVE Sol(t)[t.kids[i]] = F[t.kids[i]]
      <3> DEFINE u == t.kids[i]
      <3>1. u \in PassDomain(pass) /\ Height[t] \in Nat /\ Height[u] \in Nat /\ Height[u] < Height[t]
        BY KidsLower
      <3>2. u \in Lower(pass, Height[u] + 1) \intersect Lower(pass, Height[t] + 1)
        BY <3>1 DEF Lower
      <3>3. /\ Solves(pass, Lower(pass, Height[u] + 1), Sol(u))
            /\ Solves(pass, Lower(pass, Height[t] + 1), Sol(t))
        BY <3>1, <1>2
      <3>4. Height[u] + 1 \in Nat /\ Height[t] + 1 \in Nat
        BY <3>1
      <3> HIDE DEF u, Sol
      <3>5. Sol(t)[u] = Sol(u)[u]
        BY <3>2, <3>3, <3>4, PassUnique
      <3>6. F[u] = Sol(u)[u]
        BY <3>1, <1>1
      <3> QED BY <3>5, <3>6 DEF u
    <2>3. OnKids(Sol(t), t) = OnKids(F, t)
      <3> HIDE DEF Sol
      <3> QED BY <2>2, SameOnKids
    <2> HIDE DEF Sol
    <2> QED BY <1>1, <2>1, <2>3
  <1> HIDE DEF Sol
  <1>4. F = [t \in PassDomain(pass) |-> PassStep(pass, t, OnKids(F, t))]
    BY <1>1, <1>3
  <1> QED BY <1>4 DEF Solves

LEMMA BuiltIs ==
  ASSUME NEW t \in Parsed
  PROVE  Built[t] = BuildNode(t, OnKids(Built, t))
  <1>1. PICK f : Solves("built", Parsed, f)
    BY PassExists DEF PassDomain
  <1>2. f = [u \in Parsed |-> BuildNode(u, OnKids(f, u))]
    BY <1>1 DEF Solves, PassStep
  <1>3. Built = [u \in Parsed |-> BuildNode(u, OnKids(Built, u))]
    BY <1>2 DEF Built, OnKids
  <1> QED BY <1>3

LEMMA HasStrayIs ==
  ASSUME NEW t \in Stmt
  PROVE  HasStray[t] = StrayAt(t, OnKids(HasStray, t))
  <1>1. PICK f : Solves("stray", Stmt, f)
    BY PassExists DEF PassDomain
  <1>2. f = [u \in Stmt |-> StrayAt(u, OnKids(f, u))]
    BY <1>1 DEF Solves, PassStep
  <1>3. HasStray = [u \in Stmt |-> StrayAt(u, OnKids(HasStray, u))]
    BY <1>2 DEF HasStray, OnKids
  <1> QED BY <1>3

LEMMA ReturnsIs ==
  ASSUME NEW t \in Stmt
  PROVE  Returns[t] = ReturnsAt(t, OnKids(Returns, t))
  <1>1. PICK f : Solves("returns", Stmt, f)
    BY PassExists DEF PassDomain
  <1>2. f = [u \in Stmt |-> ReturnsAt(u, OnKids(f, u))]
    BY <1>1 DEF Solves, PassStep
  <1>3. Returns = [u \in Stmt |-> ReturnsAt(u, OnKids(Returns, u))]
    BY <1>2 DEF Returns, OnKids
  <1> QED BY <1>3
-----------------------------------------------------------------------------
(* What the passes make of a statement.                                    *)
LEMMA ListedIs ==
  ASSUME NEW S, NEW s \in Seq(S)
  PROVE  Listed(s) = s
  BY DEF Listed

Each(f, s) == Listed([i \in DOMAIN s |-> f[s[i]]])

LEMMA EachIs ==
  ASSUME NEW S, NEW s \in Seq(S), NEW f, NEW V, \A u \in S : f[u] \in V
  PROVE  /\ Each(f, s) \in Seq(V)
         /\ DOMAIN Each(f, s) = DOMAIN s
         /\ \A i \in DOMAIN s : Each(f, s)[i] = f[s[i]]
  <1> DEFINE q == [i \in DOMAIN s |-> f[s[i]]]
  <1>1. q \in Seq(V)
    <2>1. DOMAIN s = 1 .. Len(s) /\ Len(s) \in Nat
      OBVIOUS
    <2>2. \A i \in DOMAIN s : f[s[i]] \in V
      OBVIOUS
    <2> QED BY <2>1, <2>2
  <1>2. \A i \in DOMAIN s : q[i] = f[s[i]]
    OBVIOUS
  <1>3. Each(f, s) = Listed(q) /\ DOMAIN q = DOMAIN s
    BY DEF Each
  <1> HIDE DEF q
  <1>4. Listed(q) = q
    BY <1>1, ListedIs
  <1> QED BY <1>1, <1>2, <1>3, <1>4

LEMMA OnKidsEach ==
  ASSUME NEW f, NEW t
  PROVE  OnKids(f, t) = Each(f, t.kids)
  BY DEF OnKids, Each

LEMMA EachAt ==
  ASSUME NEW S, NEW s \in Seq(S), NEW f
  PROVE  /\ DOMAIN Each(f, s) = DOMAIN s
         /\ \A i \in DOMAIN s : Each(f, s)[i] = f[s[i]]
  <1>1. PICK W : \A u \in S : f[u] \in W
    <2>1. \A u \in S : f[u] \in {f[v] : v \in S}
      OBVIOUS
    <2> QED BY <2>1
  <1> QED BY <1>1, EachIs

LoweredStmts == {Built[u] : u \in Parsed}

LEMMA BuiltKids ==
  ASSUME NEW t \in Parsed
  PROVE  /\ OnKids(Built, t) \in Seq(LoweredStmts)
         /\ DOMAIN OnKids(Built, t) = DOMAIN t.kids
         /\ \A i \in DOMAIN t.kids : OnKids(Built, t)[i] = Built[t.kids[i]]
  <1>1. \A u \in Parsed : Built[u] \in LoweredStmts
    BY DEF LoweredStmts
  <1>2. t.kids \in Seq(Parsed)
    BY ParsedAssumption
  <1>3. /\ Each(Built, t.kids) \in Seq(LoweredStmts)
        /\ DOMAIN Each(Built, t.kids) = DOMAIN t.kids
        /\ \A i \in DOMAIN t.kids : Each(Built, t.kids)[i] = Built[t.kids[i]]
    <2> DEFINE s == t.kids
    <2>1. s \in Seq(Parsed)
      BY <1>2
    <2> HIDE DEF s
    <2>2. Each(Built, s) \in Seq(LoweredStmts)
      BY <1>1, <2>1, EachIs
    <2>3. /\ DOMAIN Each(Built, s) = DOMAIN s
          /\ \A i \in DOMAIN s : Each(Built, s)[i] = Built[s[i]]
      BY <2>1, EachAt
    <2> QED BY <2>2, <2>3 DEF s
  <1>4. OnKids(Built, t) = Each(Built, t.kids)
    BY OnKidsEach
  <1> QED BY <1>3, <1>4

Blocks(s) == Listed([i \in DOMAIN s |-> AsBlock(s[i])])

LEMMA BlocksAre ==
  ASSUME NEW S, NEW s \in Seq(S)
  PROVE  /\ DOMAIN Blocks(s) = DOMAIN s
         /\ \A i \in DOMAIN s : Blocks(s)[i] = AsBlock(s[i])
  <1> DEFINE V == {AsBlock(u) : u \in S}
             q == [i \in DOMAIN s |-> AsBlock(s[i])]
  <1>1. q \in Seq(V) /\ DOMAIN q = DOMAIN s
    <2>1. DOMAIN s = 1 .. Len(s) /\ Len(s) \in Nat
      OBVIOUS
    <2>2. \A i \in DOMAIN s : AsBlock(s[i]) \in V
      OBVIOUS
    <2> QED BY <2>1, <2>2
  <1>2. \A i \in DOMAIN s : q[i] = AsBlock(s[i])
    OBVIOUS
  <1>3. Blocks(s) = Listed(q)
    BY DEF Blocks
  <1> HIDE DEF q, V
  <1>4. Listed(q) = q
    BY <1>1, ListedIs
  <1> QED BY <1>1, <1>2, <1>3, <1>4

Bodied == {"if", "ifelse", "loop", "while", "dowhile", "domain"}

(* The inner loop of a loop over two domains.                              *)
InnerOf(t) == InnerLoop(t, Built[t.kids[1]])

Shape(t, b) ==
  /\ b.op = IF t.op = "domain2" THEN "domain" ELSE t.op
  /\ b.at = t.at
  /\ DOMAIN b.kids = DOMAIN t.kids
  /\ t.op \in Leaf => b = t
  /\ t.op = "block" => /\ b.kids = OnKids(Built, t)
                       /\ \A i \in DOMAIN t.kids : b.kids[i] = Built[t.kids[i]]
  /\ t.op \in Bodied => \A i \in DOMAIN t.kids : b.kids[i] = AsBlock(Built[t.kids[i]])
  /\ t.op = "domain2" => b.kids[1] = AsBlock(InnerOf(t))

LEMMA ParsedForm ==
  ASSUME NEW t \in Parsed
  PROVE  /\ t.op \in Leaf \union Bodied \union {"block", "domain2"}
         /\ DOMAIN t = {"op", "at", "kids"}
         /\ t.kids \in Seq(Parsed)
         /\ t.op \in {"if", "loop", "while", "dowhile", "domain", "domain2"} =>
              Len(t.kids) = 1 /\ DOMAIN t.kids = {1} /\ t.kids[1] \in Parsed
         /\ t.op = "ifelse" =>
              Len(t.kids) = 2 /\ DOMAIN t.kids = {1, 2} /\ t.kids[1] \in Parsed /\ t.kids[2] \in Parsed
         /\ t.op \in Leaf => t.kids = <<>>
  <1>1. /\ t.op \in Leaf \union Unary \union {"block", "ifelse"}
        /\ DOMAIN t = {"op", "at", "kids"}
        /\ t.kids \in Seq(Parsed)
        /\ Fits(t)
    BY ParsedAssumption
  <1>2. Len(t.kids) = 1 => DOMAIN t.kids = {1} /\ t.kids[1] \in Parsed
    BY <1>1
  <1>3. Len(t.kids) = 2 => DOMAIN t.kids = {1, 2} /\ t.kids[1] \in Parsed /\ t.kids[2] \in Parsed
    BY <1>1
  <1>4. Len(t.kids) = 0 => t.kids = <<>>
    BY <1>1
  <1> QED BY <1>1, <1>2, <1>3, <1>4 DEF Leaf, Unary, Bodied, Fits

(* A node, or for a while loop whose body is no block, that body.          *)
LEMMA BuiltNode ==
  ASSUME NEW t \in Parsed
  PROVE  \/ Shape(t, Built[t])
         \/ /\ t.op \in {"while", "dowhile"}
            /\ Built[t.kids[1]].op # "block"
            /\ Built[t] = AsBlock(Built[t.kids[1]])
  <1> DEFINE k == OnKids(Built, t)
             blocks == Blocks(k)
  <1>1. /\ k \in Seq(LoweredStmts)
        /\ DOMAIN k = DOMAIN t.kids
        /\ \A i \in DOMAIN t.kids : k[i] = Built[t.kids[i]]
    BY BuiltKids
  <1>2. /\ DOMAIN blocks = DOMAIN k
        /\ \A i \in DOMAIN k : blocks[i] = AsBlock(k[i])
    BY <1>1, BlocksAre
  <1>3. Built[t] =
          CASE t.op \in Leaf -> t
            [] t.op = "block" -> [t EXCEPT !.kids = k]
            [] t.op \in {"while", "dowhile"} ->
                 IF k[1].op = "block" THEN [t EXCEPT !.kids = k] ELSE blocks[1]
            [] t.op \in {"if", "ifelse", "loop", "domain"} -> [t EXCEPT !.kids = blocks]
            [] t.op = "domain2" ->
                 [op |-> "domain", at |-> t.at, kids |-> <<AsBlock(InnerLoop(t, k[1]))>>]
    BY BuiltIs DEF BuildNode, Blocks
  <1> HIDE DEF k, blocks
  <1>f. /\ DOMAIN t = {"op", "at", "kids"}
        /\ t.op \in Leaf \union Bodied \union {"block", "domain2"}
        /\ t.op \in {"while", "dowhile", "domain2"} => DOMAIN t.kids = {1}
    BY ParsedForm
  <1>4. CASE t.op \in Leaf
    <2>1. Built[t] = t
      BY <1>3, <1>4 DEF Leaf
    <2> QED BY <1>4, <2>1 DEF Shape, Leaf, Bodied
  <1>5. CASE t.op = "block"
    <2>1. Built[t] = [t EXCEPT !.kids = k]
      BY <1>3, <1>5 DEF Leaf
    <2>2. /\ Built[t].op = t.op /\ Built[t].at = t.at /\ Built[t].kids = k
      BY <1>f, <2>1
    <2>3. k = OnKids(Built, t)
      BY DEF k
    <2> QED BY <1>1, <1>5, <2>2, <2>3 DEF Shape, Leaf, Bodied
  <1>6. CASE t.op \in {"while", "dowhile"}
    <2>1. Built[t] = IF k[1].op = "block" THEN [t EXCEPT !.kids = k] ELSE blocks[1]
      BY <1>3, <1>6 DEF Leaf
    <2>2. k[1] = Built[t.kids[1]] /\ blocks[1] = AsBlock(k[1])
      BY <1>f, <1>1, <1>2, <1>6
    <2>3. CASE k[1].op = "block"
      <3>1. Built[t] = [t EXCEPT !.kids = k]
        BY <2>1, <2>3
      <3>2. /\ Built[t].op = t.op /\ Built[t].at = t.at /\ Built[t].kids = k
        BY <1>f, <3>1
      <3>3. AsBlock(Built[t.kids[1]]) = k[1]
        BY <2>2, <2>3 DEF AsBlock
      <3>4. \A i \in DOMAIN t.kids : i = 1
        BY <1>f, <1>6
      <3> QED BY <1>1, <1>6, <3>2, <3>3, <3>4 DEF Shape, Leaf
    <2>4. CASE k[1].op # "block"
      BY <1>6, <2>1, <2>2, <2>4
    <2> QED BY <2>3, <2>4
  <1>7. CASE t.op \in {"if", "ifelse", "loop", "domain"}
    <2>1. Built[t] = [t EXCEPT !.kids = blocks]
      BY <1>3, <1>7 DEF Leaf
    <2>2. /\ Built[t].op = t.op /\ Built[t].at = t.at /\ Built[t].kids = blocks
      BY <1>f, <2>1
    <2> QED BY <1>1, <1>2, <1>7, <2>2 DEF Shape, Leaf
  <1>8. CASE t.op = "domain2"
    <2>1. Built[t] = [op |-> "domain", at |-> t.at, kids |-> <<AsBlock(InnerLoop(t, k[1]))>>]
      BY <1>3, <1>8 DEF Leaf
    <2>2. k[1] = Built[t.kids[1]]
      BY <1>f, <1>1, <1>8
    <2> QED BY <1>f, <1>8, <2>1, <2>2 DEF Shape, Leaf, Bodied, InnerOf
  <1> QED BY <1>f, <1>4, <1>5, <1>6, <1>7, <1>8 DEF Bodied
-----------------------------------------------------------------------------
(* break and continue find a loop on the stacks: a visit in progress has a *)
(* stray break in it only if a breakable loop is in progress further out.  *)
Kid(x, y) == \E k \in DOMAIN x.kids : y = x.kids[k]

(* What a statement visited was made of.                                   *)
OriginOf(x) ==
  \/ x = AddedReturn
  \/ \E t \in Parsed :
       \/ x = Built[t]
       \/ x = AsBlock(Built[t])
       \/ t.op = "block" /\ x = EnsuredReturn("procedure", Built[t])

InnerNode(x) ==
  \E t \in Parsed : t.op = "domain2" /\ (x = InnerOf(t) \/ x = AsBlock(InnerOf(t)))

LEMMA OneKid ==
  ASSUME NEW b, NEW y, b.op # "block", Kid(AsBlock(b), y)
  PROVE  y = b
  BY DEF AsBlock, Kid

LEMMA KidsOfBuilt ==
  ASSUME NEW t \in Parsed, NEW y, Kid(Built[t], y)
  PROVE  \/ OriginOf(y)
         \/ InnerNode(y) /\ Built[t].op = "domain"
  <1>1. CASE Shape(t, Built[t])
    <2>1. PICK k \in DOMAIN t.kids : y = Built[t].kids[k]
      BY <1>1 DEF Kid, Shape
    <2>2. CASE t.op = "domain2"
      <3>1. k = 1
        BY <2>2, ParsedForm
      <3>2. y = AsBlock(InnerOf(t)) /\ Built[t].op = "domain"
        BY <1>1, <2>1, <2>2, <3>1 DEF Shape
      <3> QED BY <2>2, <3>2 DEF InnerNode
    <2>3. CASE t.op # "domain2"
      <3>1. t.kids[k] \in Parsed
        BY ParsedForm
      <3>2. t.op \in Leaf => t.kids = <<>>
        BY ParsedForm
      <3>3. t.op \in Bodied \union {"block"}
        BY <2>3, <3>2, ParsedForm
      <3>4. y = Built[t.kids[k]] \/ y = AsBlock(Built[t.kids[k]])
        BY <1>1, <2>1, <3>3 DEF Shape
      <3> QED BY <3>1, <3>4 DEF OriginOf
    <2> QED BY <2>2, <2>3
  <1>2. CASE /\ t.op \in {"while", "dowhile"}
             /\ Built[t.kids[1]].op # "block"
             /\ Built[t] = AsBlock(Built[t.kids[1]])
    <2>1. y = Built[t.kids[1]]
      BY <1>2, OneKid
    <2>2. t.kids[1] \in Parsed
      BY <1>2, ParsedForm
    <2> QED BY <2>1, <2>2 DEF OriginOf
  <1> QED BY <1>1, <1>2, BuiltNode

LEMMA OriginKids ==
  ASSUME NEW x \in Stmt, NEW y, Kid(x, y)
  PROVE  /\ OriginOf(x) => OriginOf(y) \/ (InnerNode(y) /\ x.op = "domain")
         /\ InnerNode(x) => OriginOf(y) \/ InnerNode(y)
  <1>1. CASE x = AddedReturn
    BY <1>1 DEF AddedReturn, Kid
  <1>2. ASSUME NEW t \in Parsed, x = Built[t]
        PROVE  OriginOf(y) \/ (InnerNode(y) /\ x.op = "domain")
    BY <1>2, KidsOfBuilt
  <1>3. ASSUME NEW t \in Parsed, x = AsBlock(Built[t]), Built[t].op # "block"
        PROVE  OriginOf(y)
    <2>1. y = Built[t]
      BY <1>3, OneKid
    <2> QED BY <2>1 DEF OriginOf
  <1>4. ASSUME NEW t \in Parsed, t.op = "block", x = EnsuredReturn("procedure", Built[t])
        PROVE  OriginOf(y)
    <2>1. Shape(t, Built[t])
      BY <1>4, BuiltNode
    <2>3. /\ Built[t].kids \in Seq(LoweredStmts)
          /\ DOMAIN Built[t] = {"op", "at", "kids"}
      <3>1. OnKids(Built, t) \in Seq(LoweredStmts)
        BY BuiltKids
      <3>2. Built[t].kids = OnKids(Built, t)
        BY <1>4, <2>1 DEF Shape
      <3>3. Built[t] = [t EXCEPT !.kids = OnKids(Built, t)]
        <4>1. t.op \notin Leaf
          BY <1>4 DEF Leaf
        <4>2. BuildNode(t, OnKids(Built, t)) = [t EXCEPT !.kids = OnKids(Built, t)]
          BY <1>4, <4>1 DEF BuildNode
        <4> QED BY <4>2, BuiltIs
      <3>4. DOMAIN t = {"op", "at", "kids"}
        BY ParsedForm
      <3> QED BY <3>1, <3>2, <3>3, <3>4
    <2>4. x.kids = Append(Built[t].kids, AddedReturn)
      BY <1>4, <2>3 DEF EnsuredReturn
    <2>5. y = AddedReturn \/ \E k \in DOMAIN Built[t].kids : y = Built[t].kids[k]
      BY <2>3, <2>4 DEF Kid
    <2>6. Built[t].op # "domain"
      BY <1>4, <2>1 DEF Shape
    <2> QED BY <2>5, <2>6, KidsOfBuilt DEF Kid, OriginOf
  <1>5. ASSUME NEW t \in Parsed, t.op = "domain2", x = InnerOf(t)
        PROVE  OriginOf(y)
    <2>1. t.kids[1] \in Parsed
      BY <1>5, ParsedForm
    <2>2. y = AsBlock(Built[t.kids[1]])
      BY <1>5 DEF Kid, InnerOf, InnerLoop
    <2> QED BY <2>1, <2>2 DEF OriginOf
  <1>6. ASSUME NEW t \in Parsed, t.op = "domain2", x = AsBlock(InnerOf(t))
        PROVE  InnerNode(y)
    <2>1. InnerOf(t).op # "block"
      BY DEF InnerOf, InnerLoop
    <2>2. y = InnerOf(t)
      BY <1>6, <2>1, OneKid
    <2> QED BY <1>6, <2>2 DEF InnerNode
  <1>7. ASSUME NEW t \in Parsed, x = AsBlock(Built[t]), Built[t].op = "block"
        PROVE  OriginOf(y) \/ (InnerNode(y) /\ x.op = "domain")
    <2>1. x = Built[t]
      BY <1>7 DEF AsBlock
    <2> QED BY <2>1, <1>2
  <1> QED BY <1>1, <1>2, <1>3, <1>4, <1>5, <1>6, <1>7 DEF OriginOf, InnerNode

(* A step leaves the visits it starts, and the older ones: of statements,  *)
(* it visits children; of the body of a breakable loop, above its frame.   *)
Starts(X) ==
  /\ X \in Seq(Stmt \union Frames)
  /\ work # <<>>
  /\ work' = X \o Under
  /\ \A i \in DOMAIN X :
       \/ X[i] \in Frames
       \/ /\ Top \in Stmt /\ Kid(Top, X[i])
          /\ Top.op \in LoopNodes \ {"inner"} =>
               \E j \in DOMAIN X : j > i /\ X[j].op \in BreakEnds

LEMMA StartsNone ==
  ASSUME BlockInv, work # <<>>, work' = Under
  PROVE  \E X : Starts(X)
  <1>1. work' = <<>> \o Under
    BY NoVisit DEF BlockInv, TypeOK, Under
  <1>2. <<>> \in Seq(Stmt \union Frames) /\ DOMAIN <<>> = {}
    OBVIOUS
  <1> QED BY <1>1, <1>2 DEF Starts

LEMMA StartsBody ==
  ASSUME BlockInv, work # <<>>, Top \in Stmt, Top.op \in Bodied \union {"inner"},
         NEW f \in Frames, work' = <<Top.kids[1], f>> \o Under,
         Top.op \in LoopNodes \ {"inner"} => f.op \in BreakEnds
  PROVE  \E X : Starts(X)
  <1> DEFINE X == <<Top.kids[1], f>>
  <1>1. Top.kids[1] \in Stmt /\ 1 \in DOMAIN Top.kids
    BY StmtAssumption DEF Bodied
  <1>2. X \in Seq(Stmt \union Frames) /\ DOMAIN X = {1, 2} /\ X[1] = Top.kids[1] /\ X[2] = f
    BY <1>1
  <1>3. work' = X \o Under
    OBVIOUS
  <1> HIDE DEF X
  <1>4. Kid(Top, X[1])
    BY <1>1, <1>2 DEF Kid
  <1>5. ASSUME NEW i \in DOMAIN X
        PROVE  \/ X[i] \in Frames
               \/ /\ Top \in Stmt /\ Kid(Top, X[i])
                  /\ Top.op \in LoopNodes \ {"inner"} =>
                       \E j \in DOMAIN X : j > i /\ X[j].op \in BreakEnds
    BY <1>2, <1>4
  <1>6. Starts(X)
    BY <1>2, <1>3, <1>5 DEF Starts
  <1> QED BY <1>6

LEMMA FrameType ==
  ASSUME NEW op \in FrameOps, NEW b \in Nat, NEW c \in Nat
  PROVE  Frame(op, <<b>>) \in Frames /\ Frame(op, <<b, c>>) \in Frames
  BY DEF Frame, Frames

LEMMA NextStarts ==
  ASSUME GenInv, Next
  PROVE  \E X : Starts(X)
  <1>0. /\ BlockInv /\ Len(code) \in Nat
        /\ New(1) \in Nat /\ New(2) \in Nat /\ New(3) \in Nat /\ New(4) \in Nat
    BY DEF GenInv, BlockInv, TypeOK, New
  <1>1. CASE \/ RoutineEnd \/ visitPlain \/ visitReturn \/ visitBreak \/ visitContinue
             \/ InfiniteLoopEnd \/ ConditionalLoopEnd \/ DomainLoopEnd \/ InnerLoopEnd
             \/ ConditionalEnd \/ IfBranchEnd \/ ElseBranchEnd
    <2>1. work # <<>> /\ work' = Under
      BY <1>1 DEF RoutineEnd, visitPlain, visitReturn, visitBreak, visitContinue, Jump,
                  InfiniteLoopEnd, ConditionalLoopEnd, DomainLoopEnd, InnerLoopEnd, LoopDone,
                  ConditionalEnd, IfBranchEnd, ElseBranchEnd, Visiting
    <2> QED BY <1>0, <2>1, StartsNone
  <1>2. CASE visitBlock
    <2>1. work # <<>> /\ Top \in Stmt /\ Top.op = "block" /\ work' = Top.kids \o Under
      BY <1>0, <1>2, TopKind DEF visitBlock, Visiting, Ops
    <2>2. Top.kids \in Seq(Stmt)
      BY <2>1, StmtAssumption
    <2>3. Top.kids \in Seq(Stmt \union Frames)
      BY <2>2
    <2>4. Top.op \notin LoopNodes
      BY <2>1 DEF LoopNodes
    <2>5. \A i \in DOMAIN Top.kids : Kid(Top, Top.kids[i])
      BY DEF Kid
    <2> QED BY <2>1, <2>3, <2>4, <2>5 DEF Starts
  <1>3. CASE visitInfiniteLoop
    <2>1. Frame("InfiniteLoopEnd", <<New(1), New(2)>>) \in Frames
      BY <1>0, FrameType DEF FrameOps, LoopEnds
    <2>2. work # <<>> /\ Top \in Stmt /\ Top.op = "loop"
      BY <1>0, <1>3, TopKind DEF visitInfiniteLoop, Visiting, Ops
    <2>3. work' = <<Top.kids[1], Frame("InfiniteLoopEnd", <<New(1), New(2)>>)>> \o Under
      BY <1>3 DEF visitInfiniteLoop
    <2>4. Frame("InfiniteLoopEnd", <<New(1), New(2)>>).op \in BreakEnds
      BY DEF Frame, BreakEnds, LoopEnds
    <2> QED BY <1>0, <2>1, <2>2, <2>3, <2>4, StartsBody DEF Bodied
  <1>4. CASE visitWhile \/ visitDoWhile
    <2>1. Frame("ConditionalLoopEnd", <<New(1), New(3)>>) \in Frames
      BY <1>0, FrameType DEF FrameOps, LoopEnds
    <2>2. work # <<>> /\ Top \in Stmt /\ Top.op \in {"while", "dowhile"}
      BY <1>0, <1>4, TopKind DEF visitWhile, visitDoWhile, visitConditionalLoop, Visiting, Ops
    <2>3. work' = <<Top.kids[1], Frame("ConditionalLoopEnd", <<New(1), New(3)>>)>> \o Under
      BY <1>4 DEF visitWhile, visitDoWhile, visitConditionalLoop
    <2>4. Frame("ConditionalLoopEnd", <<New(1), New(3)>>).op \in BreakEnds
      BY DEF Frame, BreakEnds, LoopEnds
    <2> QED BY <1>0, <2>1, <2>2, <2>3, <2>4, StartsBody DEF Bodied
  <1>5. CASE visitBreakable
    <2>1. Frame("DomainLoopEnd", <<New(1), New(3)>>) \in Frames
      BY <1>0, FrameType DEF FrameOps, LoopEnds
    <2>2. work # <<>> /\ Top \in Stmt /\ Top.op = "domain"
      BY <1>0, <1>5, TopKind DEF visitBreakable, visitDomainLoop, Visiting, Ops
    <2>3. work' = <<Top.kids[1], Frame("DomainLoopEnd", <<New(1), New(3)>>)>> \o Under
      BY <1>5 DEF visitBreakable, visitDomainLoop
    <2>4. Frame("DomainLoopEnd", <<New(1), New(3)>>).op \in BreakEnds
      BY DEF Frame, BreakEnds, LoopEnds
    <2> QED BY <1>0, <2>1, <2>2, <2>3, <2>4, StartsBody DEF Bodied
  <1>6. CASE visitInner
    <2>1. Frame("InnerLoopEnd", <<New(1), New(3)>>) \in Frames
      BY <1>0, FrameType DEF FrameOps, LoopEnds
    <2>2. work # <<>> /\ Top \in Stmt /\ Top.op = "inner"
      BY <1>0, <1>6, TopKind DEF visitInner, visitDomainLoop, Visiting, Ops
    <2>3. work' = <<Top.kids[1], Frame("InnerLoopEnd", <<New(1), New(3)>>)>> \o Under
      BY <1>6 DEF visitInner, visitDomainLoop
    <2> QED BY <1>0, <2>1, <2>2, <2>3, StartsBody
  <1>7. CASE visitConditional
    <2>1. Frame("ConditionalEnd", <<New(3)>>) \in Frames
      BY <1>0, FrameType DEF FrameOps, CondEnds
    <2>2. work # <<>> /\ Top \in Stmt /\ Top.op = "if"
      BY <1>0, <1>7, TopKind DEF visitConditional, Visiting, Ops
    <2>3. work' = <<Top.kids[1], Frame("ConditionalEnd", <<New(3)>>)>> \o Under
      BY <1>7 DEF visitConditional
    <2> QED BY <1>0, <2>1, <2>2, <2>3, StartsBody DEF Bodied, LoopNodes
  <1>8. CASE visitConditionalElse
    <2> DEFINE f == Frame("IfBranchEnd", <<New(3), New(4)>>)
               g == Frame("ElseBranchEnd", <<New(4)>>)
               X == <<Top.kids[1], f, Top.kids[2], g>>
    <2>1. f \in Frames /\ g \in Frames
      BY <1>0, FrameType DEF FrameOps, CondEnds
    <2>2. work # <<>> /\ Top \in Stmt /\ Top.op = "ifelse"
      BY <1>0, <1>8, TopKind DEF visitConditionalElse, Visiting, Ops
    <2>3. work' = X \o Under
      BY <1>8 DEF visitConditionalElse
    <2>4. Top.kids[1] \in Stmt /\ Top.kids[2] \in Stmt /\ DOMAIN Top.kids = {1, 2}
      BY <2>2, StmtAssumption
    <2> HIDE DEF f, g
    <2>5. /\ X \in Seq(Stmt \union Frames) /\ DOMAIN X = {1, 2, 3, 4}
          /\ X[1] = Top.kids[1] /\ X[2] = f /\ X[3] = Top.kids[2] /\ X[4] = g
      BY <2>1, <2>4
    <2> HIDE DEF X
    <2>6. Top.op \notin LoopNodes
      BY <2>2 DEF LoopNodes
    <2> QED BY <2>1, <2>2, <2>3, <2>4, <2>5, <2>6, ZenonT(40) DEF Starts, Kid
  <1> QED BY <1>1, <1>2, <1>3, <1>4, <1>5, <1>6, <1>7, <1>8 DEF Next

(* A breakable loop is in progress further out.                            *)
InLoop(w, i) == \E j \in DOMAIN w : j > i /\ w[j].op \in BreakEnds

StrayInv ==
  \A i \in DOMAIN work : work[i] \in Stmt =>
    /\ HasStray[work[i]] => InLoop(work, i)
    /\ OriginOf(work[i]) \/ (InnerNode(work[i]) /\ InLoop(work, i))

LEMMA OnStmtKids ==
  ASSUME NEW x \in Stmt, NEW f
  PROVE  /\ DOMAIN OnKids(f, x) = DOMAIN x.kids
         /\ \A k \in DOMAIN x.kids : OnKids(f, x)[k] = f[x.kids[k]]
  <1>1. x.kids \in Seq(Stmt)
    BY StmtAssumption
  <1>2. OnKids(f, x) = Each(f, x.kids)
    BY OnKidsEach
  <1>3. /\ DOMAIN Each(f, x.kids) = DOMAIN x.kids
        /\ \A k \in DOMAIN x.kids : Each(f, x.kids)[k] = f[x.kids[k]]
    BY <1>1, EachAt
  <1> QED BY <1>2, <1>3

LEMMA StrayKid ==
  ASSUME NEW x \in Stmt, NEW y, Kid(x, y), HasStray[y], x.op \notin LoopNodes
  PROVE  HasStray[x]
  <1>2. PICK k \in DOMAIN x.kids : y = x.kids[k]
    BY DEF Kid
  <1>a. k \in DOMAIN OnKids(HasStray, x) /\ OnKids(HasStray, x)[k] = HasStray[x.kids[k]]
    BY <1>2, OnStmtKids, Zenon
  <1>3. k \in DOMAIN OnKids(HasStray, x) /\ OnKids(HasStray, x)[k]
    BY <1>a, <1>2, Zenon
  <1>4. StrayAt(x, OnKids(HasStray, x))
    BY <1>3 DEF StrayAt
  <1> QED BY <1>4, HasStrayIs

LEMMA OriginNotInner ==
  ASSUME NEW x, OriginOf(x)
  PROVE  x.op # "inner"
  <1>1. \A t \in Parsed : Built[t].op # "inner"
    <2> TAKE t \in Parsed
    <2>1. t.op # "inner"
      BY ParsedForm DEF Leaf, Bodied
    <2>2. Shape(t, Built[t]) => Built[t].op # "inner"
      BY <2>1 DEF Shape
    <2>3. AsBlock(Built[t.kids[1]]).op = "block"
      BY DEF AsBlock
    <2> QED BY <2>2, <2>3, BuiltNode
  <1>2. \A b : AsBlock(b).op = "block"
    BY DEF AsBlock
  <1>3. ASSUME NEW t \in Parsed, t.op = "block"
        PROVE  EnsuredReturn("procedure", Built[t]).op # "inner"
    <2>1. BuildNode(t, OnKids(Built, t)) = [t EXCEPT !.kids = OnKids(Built, t)]
      BY <1>3 DEF BuildNode, Leaf
    <2>2. Built[t] = [t EXCEPT !.kids = OnKids(Built, t)] /\ DOMAIN t = {"op", "at", "kids"}
      BY <2>1, BuiltIs, ParsedForm
    <2> QED BY <1>3, <2>2 DEF EnsuredReturn
  <1> QED BY <1>1, <1>2, <1>3 DEF OriginOf, AddedReturn

LEMMA InnerIsLoop ==
  ASSUME NEW x \in Stmt, x.op = "domain"
  PROVE  x.op \in LoopNodes \ {"inner"}
  BY DEF LoopNodes

LEMMA StrayStep ==
  ASSUME GenInv, StrayInv, NEW X, Starts(X)
  PROVE  StrayInv'
  <1>0. /\ work \in Seq(Stmt \union Frames) /\ work # <<>> /\ Top = work[1] /\ 1 \in DOMAIN work
        /\ X \in Seq(Stmt \union Frames) /\ work' = X \o Tail(work)
        /\ Len(X) \in Nat /\ DOMAIN X = 1 .. Len(X) /\ DOMAIN work = 1 .. Len(work) /\ Len(work) \in Nat
    BY DEF GenInv, BlockInv, TypeOK, Starts, Top, Under
  <1>1. Shifted(work', X, work)
    BY <1>0, VisitsShift
  <1>2. DOMAIN work' \subseteq Nat
    BY <1>0
  <1>3. ASSUME NEW i \in DOMAIN work \ {1}, InLoop(work, i)
        PROVE  InLoop(work', i + Len(X) - 1)
    <2>1. PICK j \in DOMAIN work : j > i /\ work[j].op \in BreakEnds
      BY <1>3 DEF InLoop
    <2>2. j \in DOMAIN work \ {1}
      BY <1>0, <2>1
    <2>3. j + Len(X) - 1 \in DOMAIN work' /\ work'[j + Len(X) - 1] = work[j]
      BY <1>1, <2>2 DEF Shifted
    <2>4. j + Len(X) - 1 > i + Len(X) - 1
      BY <1>0, <2>1
    <2> QED BY <2>1, <2>3, <2>4 DEF InLoop
  <1>4. ASSUME NEW i \in DOMAIN X, InLoop(work, 1)
        PROVE  InLoop(work', i)
    <2>1. PICK j \in DOMAIN work : j > 1 /\ work[j].op \in BreakEnds
      BY <1>4 DEF InLoop
    <2>2. j \in DOMAIN work \ {1}
      BY <2>1
    <2>3. j + Len(X) - 1 \in DOMAIN work' /\ work'[j + Len(X) - 1] = work[j]
      BY <1>1, <2>2 DEF Shifted
    <2>4. j + Len(X) - 1 > i
      BY <1>0, <2>1
    <2> QED BY <2>1, <2>3, <2>4 DEF InLoop
  <1>5. ASSUME NEW i \in DOMAIN X, NEW j \in DOMAIN X, j > i, X[j].op \in BreakEnds
        PROVE  InLoop(work', i)
    <2>1. j \in DOMAIN work' /\ work'[j] = X[j]
      BY <1>0, NewVisits
    <2> QED BY <1>5, <2>1 DEF InLoop
  <1>6. ASSUME NEW i \in DOMAIN X, work'[i] = X[i], X[i] \in Stmt
        PROVE  /\ HasStray[X[i]] => InLoop(work', i)
               /\ OriginOf(X[i]) \/ (InnerNode(X[i]) /\ InLoop(work', i))
    <2>1. X[i] \notin Frames
      BY <1>6, StmtIsNoFrame DEF Frames
    <2>2. /\ Top \in Stmt /\ Kid(Top, X[i])
          /\ Top.op \in LoopNodes \ {"inner"} =>
               \E j \in DOMAIN X : j > i /\ X[j].op \in BreakEnds
      BY <2>1 DEF Starts
    <2>3. /\ HasStray[Top] => InLoop(work, 1)
          /\ OriginOf(Top) \/ (InnerNode(Top) /\ InLoop(work, 1))
      BY <1>0, <2>2 DEF StrayInv
    <2>4. Top.op \in LoopNodes \ {"inner"} => InLoop(work', i)
      BY <2>2, <1>5
    <2>5. InnerNode(Top) /\ ~OriginOf(Top) => InLoop(work', i)
      BY <2>3, <1>4
    <2>6. OriginOf(X[i]) \/ (InnerNode(X[i]) /\ InLoop(work', i))
      <3>1. CASE OriginOf(Top)
        <4>1. OriginOf(X[i]) \/ (InnerNode(X[i]) /\ Top.op = "domain")
          BY <3>1, <2>2, OriginKids
        <4>2. Top.op = "domain" => InLoop(work', i)
          BY <2>2, <2>4, InnerIsLoop
        <4> QED BY <4>1, <4>2
      <3>2. CASE InnerNode(Top) /\ ~OriginOf(Top)
        BY <3>2, <2>2, <2>5, OriginKids
      <3> QED BY <3>1, <3>2, <2>3
    <2>7. ASSUME HasStray[X[i]] PROVE InLoop(work', i)
      <3>1. CASE Top.op \notin LoopNodes
        BY <3>1, <2>2, <2>3, <2>7, <1>4, StrayKid
      <3>2. CASE Top.op = "inner"
        BY <3>2, <2>3, <2>5, OriginNotInner
      <3> QED BY <3>1, <3>2, <2>4
    <2> QED BY <2>6, <2>7
  <1>7. ASSUME NEW i \in DOMAIN work', work'[i] \in Stmt
        PROVE  /\ HasStray[work'[i]] => InLoop(work', i)
               /\ OriginOf(work'[i]) \/ (InnerNode(work'[i]) /\ InLoop(work', i))
    <2>1. CASE i \in DOMAIN X /\ work'[i] = X[i]
      BY <2>1, <1>6, <1>7
    <2>2. CASE i > Len(X) /\ i - Len(X) + 1 \in DOMAIN work \ {1} /\ work'[i] = work[i - Len(X) + 1]
      <3> DEFINE k == i - Len(X) + 1
      <3>1. k \in DOMAIN work \ {1} /\ work'[i] = work[k] /\ i = k + Len(X) - 1
        BY <1>0, <1>2, <2>2
      <3>2. /\ HasStray[work[k]] => InLoop(work, k)
            /\ OriginOf(work[k]) \/ (InnerNode(work[k]) /\ InLoop(work, k))
        BY <1>7, <3>1 DEF StrayInv
      <3>3. InLoop(work, k) => InLoop(work', i)
        BY <3>1, <1>3
      <3> HIDE DEF k
      <3> QED BY <3>1, <3>2, <3>3
    <2> QED BY <2>1, <2>2, <1>1 DEF Shifted
  <1> QED BY <1>7 DEF StrayInv

JumpInv ==
  /\ GenInv
  /\ src \in Source
  /\ phase = "codegen" => StrayInv

LEMMA JumpInit ==
  ASSUME InitRoutine
  PROVE  JumpInv
  <1>1. GenInv /\ src \in Source
    BY InitInv DEF InitRoutine, RunInit
  <1>2. /\ src[1] \in {"procedure", "function"}
        /\ src[2] \in Parsed /\ src[2].op = "block"
    BY <1>1, SourceAssumption
  <1>3. OriginOf(ast)
    <2>1. ast = EnsuredReturn(src[1], Built[src[2]])
      BY DEF InitRoutine, Compiled
    <2>2. CASE src[1] = "procedure"
      BY <1>2, <2>1, <2>2 DEF OriginOf
    <2>3. CASE src[1] = "function"
      <3>1. ast = Built[src[2]]
        BY <2>1, <2>3 DEF EnsuredReturn
      <3> QED BY <1>2, <3>1 DEF OriginOf
    <2> QED BY <1>2, <2>2, <2>3
  <1>4. ASSUME phase = "codegen" PROVE StrayInv
    <2>1. ~HasStray[ast]
      <3>1. Accepted(src[1], src[2])
        BY <1>4 DEF InitRoutine
      <3> QED BY <3>1 DEF Accepted, InitRoutine, Compiled
    <2>2. PICK f : f = Frame("RoutineEnd", <<>>)
      OBVIOUS
    <2>3. /\ work = <<ast, f>>
          /\ DOMAIN work = {1, 2} /\ work[1] = ast /\ work[2] = f
      BY <2>2 DEF InitRoutine, Init
    <2>4. f \notin Stmt
      BY <2>2, StmtIsNoFrame DEF Frame, FrameOps
    <2> QED BY <1>3, <2>1, <2>3, <2>4 DEF StrayInv
  <1> QED BY <1>1, <1>4 DEF JumpInv

LEMMA JumpStep ==
  ASSUME JumpInv, [NextRoutine]_vars
  PROVE  JumpInv'
  <1>1. CASE Generate
    <2>1. GenInv /\ Next /\ phase = "codegen" /\ UNCHANGED rvars
      BY <1>1 DEF Generate, JumpInv
    <2>2. GenInv'
      BY <2>1, NextInv
    <2>3. StrayInv'
      <3>1. PICK X : Starts(X)
        BY <2>1, NextStarts
      <3> QED BY <2>1, <3>1, StrayStep DEF JumpInv
    <2> QED BY <2>1, <2>2, <2>3 DEF JumpInv, rvars
  <1>2. CASE ~Generate
    <2>1. UNCHANGED gvars /\ src' = src /\ (phase' = "codegen" => phase = "codegen")
      BY <1>2 DEF NextRoutine, Start, Approach, Leave, Perform, BothShow, vars, rvars
    <2>2. GenInv'
      BY <2>1, NextInv DEF JumpInv
    <2>3. StrayInv => StrayInv'
      BY <2>1 DEF StrayInv, gvars, InLoop
    <2> QED BY <2>1, <2>2, <2>3 DEF JumpInv
  <1> QED BY <1>1, <1>2

LEMMA BreakEndHasStacks ==
  ASSUME GenInv, NEW j \in DOMAIN work, work[j].op \in BreakEnds
  PROVE  LoopBeginBlocks # <<>> /\ LoopEndBlocks # <<>>
  <1>1. PICK f \in [1 .. Len(LoopBeginBlocks) -> DOMAIN work] : IsLoopStack(f)
    BY DEF GenInv, LoopInv
  <1>2. PICK k \in DOMAIN f : f[k] = j
    BY <1>1 DEF IsLoopStack
  <1>3. Len(LoopBeginBlocks) # 0 /\ Len(LoopEndBlocks) = Len(LoopBeginBlocks)
    BY <1>1, <1>2 DEF GenInv, LoopInv, BlockInv, TypeOK
  <1> QED BY <1>3

(* The loop stacks are never empty where visitBreak and visitContinue take *)
(* their top: ContinueAndBreakCheckPass has rejected every routine in      *)
(* which they could be, inner loops and while loops without a block        *)
(* included, however the statements nest.                                  *)
THEOREM JumpsHaveTargets == SpecRoutine => []JumpHasTarget
  <1>1. InitRoutine => JumpInv
    BY JumpInit
  <1>2. JumpInv /\ [NextRoutine]_vars => JumpInv'
    BY JumpStep
  <1>3. JumpInv => JumpHasTarget
    <2> SUFFICES ASSUME JumpInv, phase = "codegen", work # <<>>, Top.op \in {"break", "continue"}
                 PROVE  LoopBeginBlocks # <<>> /\ LoopEndBlocks # <<>>
      BY DEF JumpHasTarget, Done
    <2>1. Top \in Stmt /\ 1 \in DOMAIN work /\ Top = work[1]
      BY TopKind DEF JumpInv, GenInv, BlockInv, TypeOK, Ops, Top
    <2>2. HasStray[Top]
      BY <2>1, HasStrayIs DEF StrayAt
    <2>3. InLoop(work, 1)
      BY <2>1, <2>2 DEF JumpInv, StrayInv
    <2> QED BY <2>3, BreakEndHasStacks DEF JumpInv, InLoop
  <1> QED BY <1>1, <1>2, <1>3, PTL DEF SpecRoutine
-----------------------------------------------------------------------------
(* What a step of code generation writes: s at the end of the current      *)
(* block, n blocks, the first of which may be a header that tests.         *)
Wrote(n, s) ==
  /\ s \in Seq(Instr)
  /\ code' \in Seq(Seq(Instr))
  /\ DOMAIN code' = 1 .. Len(code) + n
  /\ code'[ip] = code[ip] \o s
  /\ \A b \in DOMAIN code : b \in DOMAIN code' /\ (b # ip => code'[b] = code[b])
  /\ \A i \in 1 .. n : New(i) \in DOMAIN code' \ DOMAIN code

LEMMA NewAre ==
  ASSUME BlockInv, NEW n \in Nat
  PROVE  \A i \in 1 .. n : New(i) \in (1 .. Len(code) + n) \ DOMAIN code
  BY DEF New, BlockInv, TypeOK

LEMMA WroteOpen ==
  ASSUME BlockInv, NEW n \in Nat, NEW s \in Seq(Instr), code' = Emit(Create(code, n), ip, s)
  PROVE  Wrote(n, s) /\ \A i \in 1 .. n : code'[New(i)] = <<>>
  <1>0. /\ code \in Seq(Seq(Instr)) /\ ip \in DOMAIN code
        /\ DOMAIN code = 1 .. Len(code) /\ Len(code) \in Nat
    BY DEF BlockInv, TypeOK
  <1>a. PICK e : e = Create(code, n)
    OBVIOUS
  <1>1. /\ e \in Seq(Seq(Instr)) /\ Len(e) = Len(code) + n /\ DOMAIN e = 1 .. Len(code) + n
        /\ \A d \in DOMAIN code : d \in DOMAIN e /\ e[d] = code[d]
        /\ \A i \in 1 .. n : e[Len(code) + i] = <<>>
    BY <1>0, <1>a, CreateType
  <1>2. /\ code' \in Seq(Seq(Instr)) /\ Len(code') = Len(e) /\ DOMAIN code' = DOMAIN e
        /\ code'[ip] = e[ip] \o s
        /\ \A d \in DOMAIN e : d # ip => code'[d] = e[d]
    <2>1. Emitted(e, ip, s, code')
      BY <1>0, <1>1, <1>a, EmitType
    <2> QED BY <2>1 DEF Emitted
  <1>3. \A i \in 1 .. n : New(i) \in DOMAIN code' \ DOMAIN code /\ New(i) # ip
    <2>1. \A i \in 1 .. n : New(i) \in (1 .. Len(code) + n) \ DOMAIN code
      BY NewAre, Zenon
    <2> QED BY <1>0, <1>1, <1>2, <2>1
  <1>4. \A i \in 1 .. n : code'[New(i)] = <<>>
    BY <1>1, <1>2, <1>3 DEF New
  <1>5. \A b \in DOMAIN code : b \in DOMAIN code' /\ (b # ip => code'[b] = code[b])
    BY <1>1, <1>2
  <1>6. code'[ip] = code[ip] \o s
    BY <1>0, <1>1, <1>2
  <1> QED BY <1>1, <1>2, <1>3, <1>4, <1>5, <1>6 DEF Wrote

LEMMA WroteHere ==
  ASSUME BlockInv, NEW s \in Seq(Instr), code' = Emit(code, ip, s)
  PROVE  Wrote(0, s)
  <1>0. /\ code \in Seq(Seq(Instr)) /\ ip \in DOMAIN code
        /\ DOMAIN code = 1 .. Len(code) /\ Len(code) \in Nat
    BY DEF BlockInv, TypeOK
  <1>1. Emitted(code, ip, s, code')
    BY <1>0, EmitType
  <1> QED BY <1>0, <1>1 DEF Emitted, Wrote

LEMMA WroteHeader ==
  ASSUME BlockInv, NEW n \in Nat, n > 0, NEW s \in Seq(Instr), NEW h \in Seq(Instr),
         code' = Emit(Emit(Create(code, n), ip, s), New(1), h)
  PROVE  Wrote(n, s) /\ code'[New(1)] = h /\ \A i \in 2 .. n : code'[New(i)] = <<>>
  <1>0. /\ code \in Seq(Seq(Instr)) /\ ip \in DOMAIN code
        /\ DOMAIN code = 1 .. Len(code) /\ Len(code) \in Nat
    BY DEF BlockInv, TypeOK
  <1>a. PICK e : e = Create(code, n)
    OBVIOUS
  <1>b. PICK c : c = Emit(e, ip, s)
    OBVIOUS
  <1>1. /\ e \in Seq(Seq(Instr)) /\ Len(e) = Len(code) + n /\ DOMAIN e = 1 .. Len(code) + n
        /\ \A d \in DOMAIN code : d \in DOMAIN e /\ e[d] = code[d]
        /\ \A i \in 1 .. n : e[Len(code) + i] = <<>>
    BY <1>0, <1>a, CreateType
  <1>2. /\ c \in Seq(Seq(Instr)) /\ Len(c) = Len(e) /\ DOMAIN c = DOMAIN e
        /\ c[ip] = e[ip] \o s
        /\ \A d \in DOMAIN e : d # ip => c[d] = e[d]
    <2>1. Emitted(e, ip, s, c)
      BY <1>0, <1>1, <1>b, EmitType
    <2> QED BY <2>1 DEF Emitted
  <1>3. \A i \in 1 .. n : New(i) \in DOMAIN c \ DOMAIN code /\ New(i) # ip /\ c[New(i)] = <<>>
    <2>1. \A i \in 1 .. n : New(i) \in (1 .. Len(code) + n) \ DOMAIN code
      BY NewAre, Zenon
    <2>2. \A i \in 1 .. n : e[New(i)] = <<>>
      BY <1>1 DEF New
    <2> QED BY <1>0, <1>1, <1>2, <2>1, <2>2
  <1>4. 1 \in 1 .. n
    OBVIOUS
  <1>5. /\ code' \in Seq(Seq(Instr)) /\ DOMAIN code' = DOMAIN c
        /\ code'[New(1)] = c[New(1)] \o h
        /\ \A d \in DOMAIN c : d # New(1) => code'[d] = c[d]
    <2>1. Emitted(c, New(1), h, code')
      BY <1>a, <1>b, <1>2, <1>3, <1>4, EmitType
    <2> QED BY <2>1 DEF Emitted
  <1>6. code'[New(1)] = h
    <2>1. c[New(1)] = <<>>
      BY <1>3, <1>4
    <2>2. <<>> \o h = h
      OBVIOUS
    <2> QED BY <1>5, <2>1, <2>2
  <1>7. \A i \in 2 .. n : code'[New(i)] = <<>>
    <2> TAKE i \in 2 .. n
    <2>1. i \in 1 .. n /\ New(i) # New(1)
      BY <1>0 DEF New
    <2> QED BY <1>3, <1>5, <2>1
  <1>8. \A b \in DOMAIN code : b \in DOMAIN c /\ b # New(1)
    BY <1>0, <1>1, <1>2, <1>3, <1>4
  <1>9. \A b \in DOMAIN code : b \in DOMAIN code' /\ (b # ip => code'[b] = code[b])
    BY <1>1, <1>2, <1>5, <1>8
  <1>10. code'[ip] = code[ip] \o s
    BY <1>0, <1>1, <1>2, <1>5, <1>8
  <1> QED BY <1>1, <1>2, <1>3, <1>5, <1>6, <1>7, <1>9, <1>10 DEF Wrote

(* Each visitor, by what it writes and which visits it leaves.             *)
Moved(s) ==
  /\ work # <<>> /\ Top \in Stmt
  /\ Wrote(1, s) /\ code'[New(1)] = <<>>
  /\ ip' = New(1) /\ work' = Under

Tested(s, f) ==
  /\ work # <<>> /\ Top \in Stmt /\ Top.kids[1] \in Stmt
  /\ Wrote(3, s)
  /\ code'[New(1)] = <<Eval(Top), CondBr(New(2), New(3))>>
  /\ code'[New(2)] = <<>> /\ code'[New(3)] = <<>>
  /\ ip' = New(2) /\ work' = <<Top.kids[1], f>> \o Under

TestRow(s, f) ==
  \/ /\ Top.op = "while" /\ s = <<Br(New(1))>>
     /\ f = Frame("ConditionalLoopEnd", <<New(1), New(3)>>)
  \/ /\ Top.op = "dowhile" /\ s = <<Br(New(2))>>
     /\ f = Frame("ConditionalLoopEnd", <<New(1), New(3)>>)
  \/ /\ Top.op = "domain" /\ s = <<Enter(Top), Br(New(1))>>
     /\ f = Frame("DomainLoopEnd", <<New(1), New(3)>>)
  \/ /\ Top.op = "inner" /\ s = <<Enter(Top), Br(New(1))>>
     /\ f = Frame("InnerLoopEnd", <<New(1), New(3)>>)
  \/ /\ Top.op = "if" /\ s = <<Br(New(1))>>
     /\ f = Frame("ConditionalEnd", <<New(3)>>)

Ended(target) ==
  /\ work # <<>> /\ Top \in Frames /\ Top.op \in LoopEnds \union CondEnds
  /\ target \in DOMAIN code /\ Wrote(0, <<Br(target)>>)
  /\ Owned(Top) = {ip'} /\ work' = Under
  /\ target = Top.blks[IF Top.op = "IfBranchEnd" THEN 2 ELSE 1]

LEMMA StmtVisit ==
  ASSUME GenInv, NEW op \in Ops, Visiting(op)
  PROVE  work # <<>> /\ Top \in Stmt /\ Top.op = op
  BY TopKind DEF GenInv, Visiting

LEMMA PlainStep ==
  ASSUME GenInv, visitPlain
  PROVE  /\ work # <<>> /\ Top \in Stmt /\ Top.op = "act"
         /\ Wrote(0, <<Do(Top)>>) /\ ip' = ip /\ work' = Under
  <1>1. work # <<>> /\ Top \in Stmt /\ Top.op = "act"
    BY StmtVisit DEF visitPlain, Ops
  <1>2. <<Do(Top)>> \in Seq(Instr)
    BY <1>1, InstrType, OneInstr
  <1> QED BY <1>1, <1>2, WroteHere DEF visitPlain, GenInv

LEMMA OneMoved ==
  ASSUME GenInv, work # <<>>, Top \in Stmt, NEW s \in Seq(Instr),
         code' = Emit(Create(code, 1), ip, s), ip' = New(1), work' = Under
  PROVE  Moved(s)
  <1>1. Wrote(1, s) /\ \A i \in 1 .. 1 : code'[New(i)] = <<>>
    BY WroteOpen DEF GenInv
  <1> QED BY <1>1 DEF Moved

LEMMA ReturnStep ==
  ASSUME GenInv, visitReturn
  PROVE  Top.op = "return" /\ Moved(<<Ret(Top)>>)
  <1>1. work # <<>> /\ Top \in Stmt /\ Top.op = "return"
    BY StmtVisit DEF visitReturn, Ops
  <1>2. <<Ret(Top)>> \in Seq(Instr)
    BY <1>1, InstrType, OneInstr
  <1> QED BY <1>1, <1>2, OneMoved DEF visitReturn

(* The top of the stacks is the innermost breakable loop.                  *)
LEMMA StackTop ==
  ASSUME GenInv, LoopBeginBlocks # <<>> \/ LoopEndBlocks # <<>>
  PROVE  \E j \in DOMAIN work :
           /\ InnermostLoop(j)
           /\ LoopBeginBlocks[1] = work[j].blks[1] /\ LoopEndBlocks[1] = work[j].blks[2]
  <1>1. PICK f \in [1 .. Len(LoopBeginBlocks) -> DOMAIN work] : IsLoopStack(f)
    BY DEF GenInv, LoopInv
  <1>2. Len(LoopBeginBlocks) \in Nat /\ DOMAIN work \subseteq Nat
    BY DEF GenInv, BlockInv, TypeOK
  <1>3. Len(LoopBeginBlocks) # 0
    BY DEF GenInv, LoopInv, BlockInv, TypeOK
  <1>4. 1 \in DOMAIN f /\ f[1] \in DOMAIN work
    BY <1>1, <1>2, <1>3
  <1>5. work[f[1]].op \in BreakEnds
    BY <1>1, <1>4 DEF IsLoopStack
  <1>6. ASSUME NEW i \in 1 .. f[1] - 1, work[i].op \in BreakEnds PROVE FALSE
    <2>1. i \in DOMAIN work /\ i < f[1]
      BY <1>2, <1>4, SMTT(30) DEF GenInv, BlockInv, TypeOK
    <2>2. PICK k \in DOMAIN f : f[k] = i
      BY <1>1, <1>6, <2>1 DEF IsLoopStack
    <2>3. k # 1 /\ k >= 1 /\ k \in Nat
      BY <1>1, <1>2, <2>1, <2>2
    <2>4. f[1] < f[k]
      BY <1>1, <1>4, <2>3 DEF IsLoopStack
    <2> QED BY <1>2, <1>4, <2>1, <2>2, <2>4
  <1>7. InnermostLoop(f[1])
    BY <1>4, <1>5, <1>6 DEF InnermostLoop
  <1> QED BY <1>1, <1>4, <1>7 DEF IsLoopStack

LEMMA JumpsTo ==
  ASSUME GenInv, NEW op \in {"break", "continue"}, NEW stack \in Seq(DOMAIN code), Jump(op, stack)
  PROVE  Top.op = op /\ Moved(<<Br(stack[1])>>)
  <1>1. work # <<>> /\ Top \in Stmt /\ Top.op = op
    BY StmtVisit DEF Jump, Ops
  <1>2. stack[1] \in Nat
    BY DEF Jump, GenInv, BlockInv, TypeOK
  <1>3. <<Br(stack[1])>> \in Seq(Instr)
    BY <1>2, BrSealed
  <1> QED BY <1>1, <1>3, OneMoved DEF Jump

LEMMA BreakStep ==
  ASSUME GenInv, visitBreak
  PROVE  \E j \in DOMAIN work :
           Top.op = "break" /\ InnermostLoop(j) /\ Moved(<<Br(work[j].blks[2])>>)
  <1>1. LoopEndBlocks # <<>> /\ LoopEndBlocks \in Seq(DOMAIN code)
    BY DEF visitBreak, Jump, GenInv, BlockInv, TypeOK
  <1>2. Top.op = "break" /\ Moved(<<Br(LoopEndBlocks[1])>>)
    BY <1>1, JumpsTo DEF visitBreak
  <1> QED BY <1>1, <1>2, StackTop

LEMMA ContinueStep ==
  ASSUME GenInv, visitContinue
  PROVE  \E j \in DOMAIN work :
           Top.op = "continue" /\ InnermostLoop(j) /\ Moved(<<Br(work[j].blks[1])>>)
  <1>1. LoopBeginBlocks # <<>> /\ LoopBeginBlocks \in Seq(DOMAIN code)
    BY DEF visitContinue, Jump, GenInv, BlockInv, TypeOK
  <1>2. Top.op = "continue" /\ Moved(<<Br(LoopBeginBlocks[1])>>)
    BY <1>1, JumpsTo DEF visitContinue
  <1> QED BY <1>1, <1>2, StackTop

LEMMA LoopStep ==
  ASSUME GenInv, visitInfiniteLoop
  PROVE  /\ work # <<>> /\ Top \in Stmt /\ Top.op = "loop" /\ Top.kids[1] \in Stmt
         /\ Wrote(2, <<Br(New(1))>>) /\ code'[New(1)] = <<>> /\ code'[New(2)] = <<>>
         /\ New(1) # New(2)
         /\ ip' = New(1)
         /\ work' = <<Top.kids[1], Frame("InfiniteLoopEnd", <<New(1), New(2)>>)>> \o Under
  <1>1. work # <<>> /\ Top \in Stmt /\ Top.op = "loop"
    BY StmtVisit DEF visitInfiniteLoop, Ops
  <1>2. New(1) \in Nat /\ New(1) # New(2)
    BY DEF New, GenInv, BlockInv, TypeOK
  <1>3. <<Br(New(1))>> \in Seq(Instr)
    BY <1>2, BrSealed
  <1>4. Wrote(2, <<Br(New(1))>>) /\ \A i \in 1 .. 2 : code'[New(i)] = <<>>
    BY <1>3, WroteOpen DEF visitInfiniteLoop, GenInv
  <1> QED BY <1>1, <1>2, <1>4, KidOf DEF visitInfiniteLoop

LEMMA OneTested ==
  ASSUME GenInv, work # <<>>, Top \in Stmt, Top.kids[1] \in Stmt,
         NEW s \in Seq(Instr), NEW f,
         code' = Emit(Emit(Create(code, 3), ip, s), New(1), <<Eval(Top), CondBr(New(2), New(3))>>),
         ip' = New(2), work' = <<Top.kids[1], f>> \o Under
  PROVE  Tested(s, f)
  <1>1. PICK h : h = <<Eval(Top), CondBr(New(2), New(3))>>
    OBVIOUS
  <1>2. h \in Seq(Instr)
    <2>1. New(2) \in Nat /\ New(3) \in Nat
      BY DEF New, GenInv, BlockInv, TypeOK
    <2>2. <<Eval(Top), CondBr(New(2), New(3))>> \in Seq(Instr)
      BY <2>1, TestTo
    <2> QED BY <1>1, <2>2
  <1>3. Wrote(3, s) /\ code'[New(1)] = h /\ \A i \in 2 .. 3 : code'[New(i)] = <<>>
    <2>1. code' = Emit(Emit(Create(code, 3), ip, s), New(1), h) /\ BlockInv
      BY <1>1 DEF GenInv
    <2>2. 3 \in Nat /\ 3 > 0
      OBVIOUS
    <2> QED BY <1>2, <2>1, <2>2, WroteHeader, Zenon
  <1>4. code'[New(2)] = <<>> /\ code'[New(3)] = <<>>
    <2>1. 2 \in 2 .. 3 /\ 3 \in 2 .. 3
      OBVIOUS
    <2> QED BY <1>3, <2>1
  <1>5. code'[New(1)] = <<Eval(Top), CondBr(New(2), New(3))>>
    BY ONLY <1>1, <1>3
  <1>6. /\ work # <<>> /\ Top \in Stmt /\ Top.kids[1] \in Stmt
        /\ ip' = New(2) /\ work' = <<Top.kids[1], f>> \o Under
    OBVIOUS
  <1> QED BY ONLY <1>3, <1>4, <1>5, <1>6, Zenon DEF Tested

LEMMA TestStep ==
  ASSUME GenInv,
         visitWhile \/ visitDoWhile \/ visitBreakable \/ visitInner \/ visitConditional
  PROVE  \E s, f : Tested(s, f) /\ TestRow(s, f)
  <1>0. New(1) \in Nat /\ New(2) \in Nat
    BY DEF New, GenInv, BlockInv, TypeOK
  <1>b. <<Br(New(1))>> \in Seq(Instr) /\ <<Br(New(2))>> \in Seq(Instr)
    BY <1>0, BrSealed
  <1>1. CASE visitWhile
    <2>1. work # <<>> /\ Top \in Stmt /\ Top.op = "while"
      BY <1>1, StmtVisit DEF visitWhile, visitConditionalLoop, Ops
    <2>2. Top.kids[1] \in Stmt
      BY <2>1, KidOf
    <2>3. Tested(<<Br(New(1))>>, Frame("ConditionalLoopEnd", <<New(1), New(3)>>))
      BY <1>1, <1>b, <2>1, <2>2, OneTested DEF visitWhile, visitConditionalLoop
    <2> QED BY <2>1, <2>3 DEF TestRow
  <1>2. CASE visitDoWhile
    <2>1. work # <<>> /\ Top \in Stmt /\ Top.op = "dowhile"
      BY <1>2, StmtVisit DEF visitDoWhile, visitConditionalLoop, Ops
    <2>2. Top.kids[1] \in Stmt
      BY <2>1, KidOf
    <2>3. Tested(<<Br(New(2))>>, Frame("ConditionalLoopEnd", <<New(1), New(3)>>))
      BY <1>2, <1>b, <2>1, <2>2, OneTested DEF visitDoWhile, visitConditionalLoop
    <2> QED BY <2>1, <2>3 DEF TestRow
  <1>3. CASE visitBreakable
    <2>1. work # <<>> /\ Top \in Stmt /\ Top.op = "domain"
      BY <1>3, StmtVisit DEF visitBreakable, visitDomainLoop, Ops
    <2>2. Top.kids[1] \in Stmt /\ <<Enter(Top), Br(New(1))>> \in Seq(Instr)
      BY <1>0, <2>1, KidOf, EnterThen
    <2>3. Tested(<<Enter(Top), Br(New(1))>>, Frame("DomainLoopEnd", <<New(1), New(3)>>))
      BY <1>3, <2>1, <2>2, OneTested DEF visitBreakable, visitDomainLoop
    <2> QED BY <2>1, <2>3 DEF TestRow
  <1>4. CASE visitInner
    <2>1. work # <<>> /\ Top \in Stmt /\ Top.op = "inner"
      BY <1>4, StmtVisit DEF visitInner, visitDomainLoop, Ops
    <2>2. Top.kids[1] \in Stmt /\ <<Enter(Top), Br(New(1))>> \in Seq(Instr)
      BY <1>0, <2>1, KidOf, EnterThen
    <2>3. Tested(<<Enter(Top), Br(New(1))>>, Frame("InnerLoopEnd", <<New(1), New(3)>>))
      BY <1>4, <2>1, <2>2, OneTested DEF visitInner, visitDomainLoop
    <2> QED BY <2>1, <2>3 DEF TestRow
  <1>5. CASE visitConditional
    <2>1. work # <<>> /\ Top \in Stmt /\ Top.op = "if"
      BY <1>5, StmtVisit DEF visitConditional, Ops
    <2>2. Top.kids[1] \in Stmt
      BY <2>1, KidOf
    <2>3. Tested(<<Br(New(1))>>, Frame("ConditionalEnd", <<New(3)>>))
      BY <1>5, <1>b, <2>1, <2>2, OneTested DEF visitConditional
    <2> QED BY <2>1, <2>3 DEF TestRow
  <1> QED BY <1>1, <1>2, <1>3, <1>4, <1>5

LEMMA ElseStep ==
  ASSUME GenInv, visitConditionalElse
  PROVE  /\ work # <<>> /\ Top \in Stmt /\ Top.op = "ifelse"
         /\ Top.kids[1] \in Stmt /\ Top.kids[2] \in Stmt
         /\ Wrote(4, <<Br(New(1))>>)
         /\ code'[New(1)] = <<Eval(Top), CondBr(New(2), New(3))>>
         /\ code'[New(2)] = <<>> /\ code'[New(3)] = <<>> /\ code'[New(4)] = <<>>
         /\ ip' = New(2)
         /\ work' = <<Top.kids[1], Frame("IfBranchEnd", <<New(3), New(4)>>),
                      Top.kids[2], Frame("ElseBranchEnd", <<New(4)>>)>> \o Under
  <1>1. work # <<>> /\ Top \in Stmt /\ Top.op = "ifelse"
    BY StmtVisit DEF visitConditionalElse, Ops
  <1>2. Top.kids[1] \in Stmt /\ Top.kids[2] \in Stmt
    BY <1>1, KidOf
  <1>3. New(1) \in Nat /\ New(2) \in Nat /\ New(3) \in Nat
    BY DEF New, GenInv, BlockInv, TypeOK
  <1>4. <<Br(New(1))>> \in Seq(Instr) /\ <<Eval(Top), CondBr(New(2), New(3))>> \in Seq(Instr)
    BY <1>1, <1>3, BrSealed, TestTo
  <1>5. PICK s \in Seq(Instr) : s = <<Br(New(1))>>
    BY <1>4
  <1>6. PICK h \in Seq(Instr) : h = <<Eval(Top), CondBr(New(2), New(3))>>
    BY <1>4
  <1>7. Wrote(4, s) /\ code'[New(1)] = h /\ \A i \in 2 .. 4 : code'[New(i)] = <<>>
    <2>1. code' = Emit(Emit(Create(code, 4), ip, s), New(1), h) /\ BlockInv
      BY <1>5, <1>6 DEF GenInv, visitConditionalElse
    <2> QED BY <2>1, WroteHeader
  <1>8. code'[New(2)] = <<>> /\ code'[New(3)] = <<>> /\ code'[New(4)] = <<>>
    <2>1. 2 \in 2 .. 4 /\ 3 \in 2 .. 4 /\ 4 \in 2 .. 4
      OBVIOUS
    <2> QED BY <1>7, <2>1
  <1> QED BY <1>1, <1>2, <1>5, <1>6, <1>7, <1>8, Zenon DEF visitConditionalElse

LEMMA EndStep ==
  ASSUME GenInv,
         \/ InfiniteLoopEnd \/ ConditionalLoopEnd \/ DomainLoopEnd \/ InnerLoopEnd
         \/ ConditionalEnd \/ IfBranchEnd \/ ElseBranchEnd
  PROVE  \E target : Ended(target)
  <1> DEFINE b == Top.blks[IF Top.op = "IfBranchEnd" THEN 2 ELSE 1]
  <1>1. /\ work # <<>> /\ Top.op \in LoopEnds \union CondEnds /\ work' = Under
        /\ code' = Emit(code, ip, <<Br(b)>>)
        /\ ip' = Top.blks[IF Top.op \in LoopEnds THEN 2 ELSE 1]
    <2>1. CASE InfiniteLoopEnd \/ ConditionalLoopEnd \/ DomainLoopEnd \/ InnerLoopEnd
      BY <2>1 DEF InfiniteLoopEnd, ConditionalLoopEnd, DomainLoopEnd, InnerLoopEnd, LoopDone,
                  Visiting, LoopEnds
    <2>2. CASE ConditionalEnd \/ IfBranchEnd \/ ElseBranchEnd
      BY <2>2 DEF ConditionalEnd, IfBranchEnd, ElseBranchEnd, Visiting, LoopEnds, CondEnds
    <2> QED BY <2>1, <2>2
  <1>2. Top \in Frames /\ BlockInv /\ Top.op \in FrameOps
    BY <1>1, TopKind DEF GenInv, FrameOps
  <1>3. /\ Top.blks \in Seq(DOMAIN code)
        /\ Top.op \in LoopEnds \union {"IfBranchEnd"} => Len(Top.blks) = 2
        /\ Top.op \in {"ConditionalEnd", "ElseBranchEnd"} => Len(Top.blks) = 1
    BY <1>1, <1>2, FrameOnTop
  <1>4. b \in DOMAIN code
    BY <1>1, <1>3 DEF CondEnds
  <1>5. Owned(Top) = {ip'}
    BY <1>1 DEF Owned
  <1> HIDE DEF b
  <1>6. Wrote(0, <<Br(b)>>)
    <2>1. b \in Nat
      BY <1>2, <1>4 DEF BlockInv, TypeOK
    <2>2. <<Br(b)>> \in Seq(Instr)
      BY <2>1, BrSealed
    <2> QED BY <1>1, <1>2, <2>2, WroteHere
  <1>7. Ended(b)
    BY <1>1, <1>2, <1>4, <1>5, <1>6 DEF Ended, b
  <1> QED BY <1>7
-----------------------------------------------------------------------------
(* A branch says where it goes, a condition is followed by the branch that *)
(* tests it, and the ends of the two branches of a conditional meet.       *)
Formed(s) ==
  \A k \in DOMAIN s :
    /\ s[k].op = "br" => 1 \in DOMAIN s[k].to
    /\ s[k].op = "condbr" => 1 \in DOMAIN s[k].to /\ 2 \in DOMAIN s[k].to
    /\ s[k].op = "eval" => k + 1 \in DOMAIN s /\ s[k + 1].op = "condbr"

CodeForm == \A b \in DOMAIN code : Formed(code[b])

Paired ==
  \A i \in DOMAIN work : work[i].op = "IfBranchEnd" =>
    /\ i + 2 \in DOMAIN work /\ work[i + 2].op = "ElseBranchEnd"
    /\ work[i + 2].blks[1] = work[i].blks[2]

FormInv == GenInv /\ CodeForm /\ Paired

LEMMA FormedAppend ==
  ASSUME NEW s \in Seq(Instr), NEW r \in Seq(Instr), Formed(s), Formed(r)
  PROVE  Formed(s \o r)
  <1>1. ASSUME NEW k \in DOMAIN (s \o r)
        PROVE  /\ (s \o r)[k].op = "br" => 1 \in DOMAIN (s \o r)[k].to
               /\ (s \o r)[k].op = "condbr" => 1 \in DOMAIN (s \o r)[k].to /\ 2 \in DOMAIN (s \o r)[k].to
               /\ (s \o r)[k].op = "eval" => k + 1 \in DOMAIN (s \o r) /\ (s \o r)[k + 1].op = "condbr"
    <2>1. CASE k <= Len(s)
      <3>1. (s \o r)[k] = s[k] /\ k \in DOMAIN s
        BY <2>1
      <3>2. k + 1 \in DOMAIN s => k + 1 \in DOMAIN (s \o r) /\ (s \o r)[k + 1] = s[k + 1]
        BY <2>1
      <3> QED BY <3>1, <3>2 DEF Formed
    <2>2. CASE k > Len(s)
      <3>1. (s \o r)[k] = r[k - Len(s)] /\ k - Len(s) \in DOMAIN r
        BY <2>2
      <3>2. k - Len(s) + 1 \in DOMAIN r =>
              k + 1 \in DOMAIN (s \o r) /\ (s \o r)[k + 1] = r[k - Len(s) + 1]
        BY <2>2
      <3> QED BY <3>1, <3>2 DEF Formed
    <2> QED BY <2>1, <2>2
  <1> QED BY <1>1 DEF Formed

LEMMA FormedWritten ==
  ASSUME NEW b, NEW c, NEW t
  PROVE  /\ Formed(<<>>) /\ Formed(<<Do(t)>>) /\ Formed(<<Ret(t)>>) /\ Formed(<<Unreachable>>)
         /\ Formed(<<Br(b)>>) /\ Formed(<<Enter(t), Br(b)>>)
         /\ Formed(<<Eval(t), CondBr(b, c)>>)
  BY DEF Formed, Do, Ret, Unreachable, Br, Enter, Eval, CondBr

LEMMA FormKept ==
  ASSUME GenInv, CodeForm, NEW n \in Nat, NEW s, Wrote(n, s), Formed(s),
         \A i \in 1 .. n : Formed(code'[New(i)])
  PROVE  CodeForm'
  <1>0. /\ code \in Seq(Seq(Instr)) /\ ip \in DOMAIN code /\ code[ip] \in Seq(Instr)
        /\ DOMAIN code = 1 .. Len(code) /\ Len(code) \in Nat
    BY DEF GenInv, BlockInv, TypeOK
  <1>1. Formed(code'[ip])
    BY <1>0, FormedAppend DEF CodeForm, Wrote
  <1>2. ASSUME NEW b \in DOMAIN code' PROVE Formed(code'[b])
    <2>1. CASE b \in DOMAIN code
      BY <1>1, <2>1 DEF CodeForm, Wrote
    <2>2. CASE b \notin DOMAIN code
      <3>1. DOMAIN code' = 1 .. Len(code) + n
        BY DEF Wrote
      <3>2. b - Len(code) \in 1 .. n /\ b = Len(code) + (b - Len(code))
        BY <1>0, <2>2, <3>1
      <3> QED BY <3>2 DEF New
    <2> QED BY <2>1, <2>2
  <1> QED BY <1>2 DEF CodeForm

LEMMA PairsKept ==
  ASSUME GenInv, Paired, work # <<>>, NEW X \in Seq(Stmt \union Frames), work' = X \o Under,
         \A i \in DOMAIN X : X[i].op = "IfBranchEnd" =>
           /\ i + 2 \in DOMAIN X /\ X[i + 2].op = "ElseBranchEnd"
           /\ X[i + 2].blks[1] = X[i].blks[2]
  PROVE  Paired'
  <1>0. /\ work \in Seq(Stmt \union Frames) /\ work' = X \o Tail(work)
        /\ Len(X) \in Nat /\ DOMAIN X = 1 .. Len(X) /\ DOMAIN work = 1 .. Len(work) /\ Len(work) \in Nat
    BY DEF GenInv, BlockInv, TypeOK, Under
  <1>1. Shifted(work', X, work)
    BY <1>0, VisitsShift
  <1>2. \A i \in DOMAIN X : i \in DOMAIN work' /\ work'[i] = X[i]
    BY <1>0, NewVisits
  <1>3. ASSUME NEW i \in DOMAIN work', work'[i].op = "IfBranchEnd"
        PROVE  /\ i + 2 \in DOMAIN work' /\ work'[i + 2].op = "ElseBranchEnd"
               /\ work'[i + 2].blks[1] = work'[i].blks[2]
    <2>1. CASE i \in DOMAIN X /\ work'[i] = X[i]
      BY <1>2, <1>3, <2>1
    <2>2. CASE i > Len(X) /\ i - Len(X) + 1 \in DOMAIN work \ {1} /\ work'[i] = work[i - Len(X) + 1]
      <3>1. PICK k \in DOMAIN work \ {1} : k = i - Len(X) + 1
        BY <2>2
      <3>2. i \in Nat
        BY <1>0
      <3>3. /\ k + 2 \in DOMAIN work \ {1} /\ work[k + 2].op = "ElseBranchEnd"
            /\ work[k + 2].blks[1] = work[k].blks[2]
        BY <1>0, <1>3, <2>2, <3>1, SMTT(30) DEF Paired
      <3>4. k + 2 + Len(X) - 1 \in DOMAIN work' /\ work'[k + 2 + Len(X) - 1] = work[k + 2]
        BY <1>1, <3>3 DEF Shifted
      <3>5. k + 2 + Len(X) - 1 = i + 2
        BY <1>0, <3>1, <3>2
      <3> QED BY <2>2, <3>1, <3>3, <3>4, <3>5
    <2> QED BY <2>1, <2>2, <1>1 DEF Shifted
  <1> QED BY <1>3 DEF Paired

(* Most steps leave no more than a body and the frame that follows it.     *)
LEMMA PairsUnder ==
  ASSUME GenInv, Paired, work # <<>>, work' = Under
  PROVE  Paired'
  <1>1. PICK X \in Seq(Stmt \union Frames) : X = <<>>
    BY EmptySeq
  <1>2. work' = X \o Under
    BY <1>1, NoVisit DEF GenInv, BlockInv, TypeOK, Under
  <1>3. DOMAIN X = {}
    BY <1>1
  <1> QED BY <1>2, <1>3, PairsKept

LEMMA PairsBody ==
  ASSUME GenInv, Paired, work # <<>>, NEW y \in Stmt, NEW f \in Frames, f.op # "IfBranchEnd",
         work' = <<y, f>> \o Under
  PROVE  Paired'
  <1>0. <<y, f>> \in Seq(Stmt \union Frames)
    OBVIOUS
  <1>1. PICK X \in Seq(Stmt \union Frames) : X = <<y, f>>
    BY <1>0
  <1>2. DOMAIN X = {1, 2} /\ X[1] = y /\ X[2] = f
    BY <1>1
  <1>3. y.op # "IfBranchEnd"
    BY StmtIsNoFrame DEF FrameOps, CondEnds
  <1>4. work' = X \o Under
    BY <1>1
  <1> QED BY <1>2, <1>3, <1>4, PairsKept

LEMMA LastStep ==
  ASSUME GenInv, RoutineEnd
  PROVE  /\ work # <<>> /\ work[1].op = "RoutineEnd" /\ Len(work) = 1 /\ DOMAIN work = {1} /\ work' = <<>>
         /\ code' \in Seq(Seq(Instr)) /\ DOMAIN code' = DOMAIN code
         /\ Entry \in DOMAIN code /\ Entry # ip /\ Body \in DOMAIN code
         /\ <<Unreachable>> \in Seq(Instr)
         /\ code'[ip] = code[ip] \o <<Unreachable>>
         /\ code'[Entry] = <<Br(Body)>> /\ code[Entry] = <<>>
         /\ \A b \in DOMAIN code : b \notin {ip, Entry} => code'[b] = code[b]
  <1>1. /\ BlockInv /\ work # <<>> /\ Top.op = "RoutineEnd"
        /\ work \in Seq(Stmt \union Frames) /\ Top = work[1]
        /\ code \in Seq(Seq(Instr)) /\ ip \in DOMAIN code
    BY DEF GenInv, RoutineEnd, Visiting, BlockInv, TypeOK, Top
  <1>2. Len(work) = 1 /\ DOMAIN work = {1} /\ work' = <<>>
    <2>1. 1 \in DOMAIN work /\ Len(work) \in Nat
      BY <1>1
    <2>2. Len(work) = 1
      BY <1>1, <2>1 DEF BlockInv, WorkInv
    <2> QED BY <1>1, <2>2, SMTT(30) DEF RoutineEnd, Under
  <1>3. Entry \in Owned(work[1]) /\ 1 \in DOMAIN work
    BY <1>1, <1>2 DEF Owned, LoopEnds, CondEnds
  <1>4. Entry \in DOMAIN code /\ Entry # ip /\ code[Entry] = <<>>
    BY <1>1, <1>3 DEF BlockInv, WaitingInv
  <1>5. Body \in DOMAIN code /\ Body \in Nat
    BY <1>1, <1>4 DEF Entry, Body
  <1>6. <<Unreachable>> \in Seq(Instr) /\ <<Br(Body)>> \in Seq(Instr)
    BY <1>5, InstrType, OneInstr, BrSealed
  <1>7. PICK s \in Seq(Instr) : s = <<Unreachable>>
    BY <1>6
  <1>8. PICK r \in Seq(Instr) : r = <<Br(Body)>>
    BY <1>6
  <1>9. PICK e : e = Emit(code, ip, s)
    OBVIOUS
  <1>10. /\ e \in Seq(Seq(Instr)) /\ DOMAIN e = DOMAIN code /\ e[ip] = code[ip] \o s
         /\ \A b \in DOMAIN code : b # ip => e[b] = code[b]
    <2>1. Emitted(code, ip, s, e)
      BY <1>1, <1>9, EmitType
    <2> QED BY <2>1 DEF Emitted
  <1>11. code' = Emit(e, Entry, r)
    BY <1>7, <1>8, <1>9 DEF RoutineEnd
  <1>12. /\ code' \in Seq(Seq(Instr)) /\ DOMAIN code' = DOMAIN e
         /\ code'[Entry] = e[Entry] \o r
         /\ \A b \in DOMAIN e : b # Entry => code'[b] = e[b]
    <2>1. Entry \in DOMAIN e
      BY <1>4, <1>10
    <2>2. Emitted(e, Entry, r, Emit(e, Entry, r))
      BY <1>10, <2>1, EmitType
    <2> QED BY <1>11, <2>2 DEF Emitted
  <1>13. code'[Entry] = <<Br(Body)>>
    <2>1. e[Entry] = <<>>
      BY <1>4, <1>10
    <2>2. <<>> \o r = r
      OBVIOUS
    <2> QED BY <1>8, <1>12, <2>1, <2>2
  <1>14. code'[ip] = code[ip] \o <<Unreachable>>
    BY <1>1, <1>4, <1>7, <1>10, <1>12
  <1>15. \A b \in DOMAIN code : b \notin {ip, Entry} => code'[b] = code[b]
    BY <1>10, <1>12
  <1> QED BY <1>1, <1>2, <1>4, <1>5, <1>6, <1>10, <1>12, <1>13, <1>14, <1>15

LEMMA RowFrame ==
  ASSUME GenInv, NEW s, NEW f, TestRow(s, f)
  PROVE  /\ f \in Frames /\ f.op # "IfBranchEnd" /\ Owned(f) = {New(3)}
         /\ f.op \in LoopEnds => f.blks = <<New(1), New(3)>>
         /\ f.op \in BreakEnds <=> Top.op \in {"while", "dowhile", "domain"}
         /\ f.op \in LoopEnds \/ f.op = "ConditionalEnd"
         /\ Formed(s)
  <1>1. New(1) \in Nat /\ New(3) \in Nat
    BY DEF New, GenInv, BlockInv, TypeOK
  <1>2. /\ \A op \in LoopEnds : Names(Frame(op, <<New(1), New(3)>>), op, <<New(1), New(3)>>, New(3))
        /\ Names(Frame("ConditionalEnd", <<New(3)>>), "ConditionalEnd", <<New(3)>>, New(3))
    BY <1>1, LoopFrame, IfFrame
  <1>3. \/ f.op \in LoopEnds /\ Names(f, f.op, <<New(1), New(3)>>, New(3))
        \/ Names(f, "ConditionalEnd", <<New(3)>>, New(3))
    BY <1>2 DEF TestRow, Frame, LoopEnds
  <1>4. f.op \in BreakEnds <=> Top.op \in {"while", "dowhile", "domain"}
    BY DEF TestRow, Frame, LoopEnds, BreakEnds
  <1>5. Formed(s)
    BY FormedWritten DEF TestRow
  <1> QED BY <1>3, <1>4, <1>5 DEF Names, LoopEnds

LEMMA ElseFrames ==
  ASSUME GenInv
  PROVE  /\ Names(Frame("IfBranchEnd", <<New(3), New(4)>>), "IfBranchEnd", <<New(3), New(4)>>, New(3))
         /\ Names(Frame("ElseBranchEnd", <<New(4)>>), "ElseBranchEnd", <<New(4)>>, New(4))
  <1>1. New(3) \in Nat /\ New(4) \in Nat
    BY DEF New, GenInv, BlockInv, TypeOK
  <1> QED BY <1>1, IfFrame

LEMMA FormKeptHere ==
  ASSUME GenInv, CodeForm, NEW s, Wrote(0, s), Formed(s)
  PROVE  CodeForm'
  <1>1. \A i \in 1 .. 0 : Formed(code'[New(i)])
    OBVIOUS
  <1> QED BY <1>1, FormKept

LEMMA FormStep ==
  ASSUME FormInv, Next
  PROVE  FormInv'
  <1>0. GenInv /\ CodeForm /\ Paired /\ BlockInv
    BY DEF FormInv, GenInv
  <1>1. GenInv'
    BY <1>0, NextInv
  <1>2. CASE RoutineEnd
    <2>1. /\ DOMAIN code' = DOMAIN code /\ work' = <<>>
          /\ <<Unreachable>> \in Seq(Instr)
          /\ code'[ip] = code[ip] \o <<Unreachable>>
          /\ code'[Entry] = <<Br(Body)>>
          /\ \A b \in DOMAIN code : b \notin {ip, Entry} => code'[b] = code[b]
      BY <1>0, <1>2, LastStep
    <2>a. ip \in DOMAIN code /\ code[ip] \in Seq(Instr)
      BY <1>0 DEF BlockInv, TypeOK
    <2>b. Formed(code[ip]) /\ Formed(<<Unreachable>>)
      BY <1>0, <2>a, FormedWritten DEF CodeForm
    <2>2. Formed(code'[ip])
      BY <2>1, <2>a, <2>b, FormedAppend
    <2>3. Formed(code'[Entry])
      BY <2>1, FormedWritten
    <2>4. CodeForm'
      BY <1>0, <2>1, <2>2, <2>3 DEF CodeForm
    <2>5. Paired'
      BY <2>1 DEF Paired
    <2> QED BY <1>1, <2>4, <2>5 DEF FormInv
  <1>3. CASE visitBlock
    <2>1. /\ work # <<>> /\ Top \in Stmt /\ code' = code /\ work' = Top.kids \o Under
      BY <1>0, <1>3, StmtVisit DEF visitBlock, Ops
    <2>2. Top.kids \in Seq(Stmt) /\ Top.kids \in Seq(Stmt \union Frames)
      BY <2>1, StmtIsNoFrame, SeqMonotonic
    <2>3. \A i \in DOMAIN Top.kids : Top.kids[i] \in Stmt
      BY <2>2
    <2>4. \A i \in DOMAIN Top.kids : Top.kids[i].op # "IfBranchEnd"
      BY <2>3, StmtIsNoFrame DEF FrameOps, CondEnds
    <2>5. Paired'
      BY <1>0, <2>1, <2>2, <2>4, PairsKept
    <2>6. CodeForm'
      BY <1>0, <2>1 DEF CodeForm
    <2> QED BY <1>1, <2>5, <2>6 DEF FormInv
  <1>4. CASE visitPlain
    <2>1. work # <<>> /\ Wrote(0, <<Do(Top)>>) /\ work' = Under
      BY <1>0, <1>4, PlainStep
    <2>2. CodeForm'
      BY <1>0, <2>1, FormedWritten, FormKeptHere
    <2> QED BY <1>0, <1>1, <2>1, <2>2, PairsUnder DEF FormInv
  <1>5. CASE visitReturn \/ visitBreak \/ visitContinue
    <2>1. PICK s : Moved(s) /\ Formed(s)
      <3>1. CASE visitReturn
        BY <1>0, <3>1, ReturnStep, FormedWritten
      <3>2. CASE visitBreak
        BY <1>0, <3>2, BreakStep, FormedWritten
      <3>3. CASE visitContinue
        BY <1>0, <3>3, ContinueStep, FormedWritten
      <3> QED BY <1>5, <3>1, <3>2, <3>3
    <2>2. work # <<>> /\ Wrote(1, s) /\ work' = Under /\ Formed(s) /\ Formed(code'[New(1)])
      BY <2>1, FormedWritten DEF Moved
    <2>3. \A i \in 1 .. 1 : Formed(code'[New(i)])
      BY <2>2
    <2>4. CodeForm'
      BY <1>0, <2>2, <2>3, FormKept
    <2> QED BY <1>0, <1>1, <2>2, <2>4, PairsUnder DEF FormInv
  <1>6. CASE visitInfiniteLoop
    <2> DEFINE f == Frame("InfiniteLoopEnd", <<New(1), New(2)>>)
    <2>1. /\ work # <<>> /\ Top.kids[1] \in Stmt
          /\ Wrote(2, <<Br(New(1))>>) /\ code'[New(1)] = <<>> /\ code'[New(2)] = <<>>
          /\ work' = <<Top.kids[1], f>> \o Under
      BY <1>0, <1>6, LoopStep
    <2>2. f \in Frames /\ f.op # "IfBranchEnd"
      <3>1. New(1) \in Nat /\ New(2) \in Nat
        BY <1>0 DEF New, BlockInv, TypeOK
      <3>2. Names(f, "InfiniteLoopEnd", <<New(1), New(2)>>, New(2))
        BY <3>1, LoopFrame DEF LoopEnds
      <3> QED BY <3>2 DEF Names
    <2> HIDE DEF f
    <2>a. Formed(code'[New(1)]) /\ Formed(code'[New(2)])
      BY <2>1, FormedWritten
    <2>3. \A i \in 1 .. 2 : Formed(code'[New(i)])
      BY <2>a
    <2>4. CodeForm'
      BY <1>0, <2>1, <2>3, FormKept, FormedWritten
    <2>5. Paired'
      BY <1>0, <2>1, <2>2, PairsBody
    <2> QED BY <1>1, <2>4, <2>5 DEF FormInv
  <1>7. CASE visitWhile \/ visitDoWhile \/ visitBreakable \/ visitInner \/ visitConditional
    <2>1. PICK s, f : Tested(s, f) /\ TestRow(s, f)
      BY <1>0, <1>7, TestStep
    <2>2. f \in Frames /\ f.op # "IfBranchEnd" /\ Formed(s)
      BY <1>0, <2>1, RowFrame
    <2>3. /\ work # <<>> /\ Top.kids[1] \in Stmt /\ Wrote(3, s) /\ work' = <<Top.kids[1], f>> \o Under
          /\ Formed(code'[New(1)]) /\ Formed(code'[New(2)]) /\ Formed(code'[New(3)])
      BY <2>1, FormedWritten DEF Tested
    <2>4. \A i \in 1 .. 3 : Formed(code'[New(i)])
      BY <2>3
    <2>5. CodeForm'
      BY <1>0, <2>2, <2>3, <2>4, FormKept
    <2>6. Paired'
      BY <1>0, <2>2, <2>3, PairsBody
    <2> QED BY <1>1, <2>5, <2>6 DEF FormInv
  <1>8. CASE visitConditionalElse
    <2> DEFINE f == Frame("IfBranchEnd", <<New(3), New(4)>>)
               g == Frame("ElseBranchEnd", <<New(4)>>)
               X == <<Top.kids[1], f, Top.kids[2], g>>
    <2>1. /\ work # <<>> /\ Top.kids[1] \in Stmt /\ Top.kids[2] \in Stmt
          /\ Wrote(4, <<Br(New(1))>>) /\ work' = X \o Under
          /\ Formed(code'[New(1)]) /\ Formed(code'[New(2)])
          /\ Formed(code'[New(3)]) /\ Formed(code'[New(4)])
      BY <1>0, <1>8, ElseStep, FormedWritten
    <2>2. Names(f, "IfBranchEnd", <<New(3), New(4)>>, New(3)) /\ Names(g, "ElseBranchEnd", <<New(4)>>, New(4))
      BY <1>0, ElseFrames
    <2> HIDE DEF f, g
    <2>3. /\ X \in Seq(Stmt \union Frames) /\ DOMAIN X = {1, 2, 3, 4}
          /\ X[1] = Top.kids[1] /\ X[2] = f /\ X[3] = Top.kids[2] /\ X[4] = g
      BY <2>1, <2>2 DEF Names
    <2> HIDE DEF X
    <2>4. Top.kids[1].op # "IfBranchEnd" /\ Top.kids[2].op # "IfBranchEnd"
      BY <2>1, StmtIsNoFrame DEF FrameOps, CondEnds
    <2>5. f.blks[2] = New(4) /\ g.blks[1] = New(4) /\ f.op = "IfBranchEnd" /\ g.op = "ElseBranchEnd"
      BY <2>2 DEF Names
    <2>6. \A i \in DOMAIN X : X[i].op = "IfBranchEnd" =>
            /\ i + 2 \in DOMAIN X /\ X[i + 2].op = "ElseBranchEnd"
            /\ X[i + 2].blks[1] = X[i].blks[2]
      BY <2>3, <2>4, <2>5
    <2>7. Paired'
      BY <1>0, <2>1, <2>3, <2>6, PairsKept
    <2>8. \A i \in 1 .. 4 : Formed(code'[New(i)])
      BY <2>1
    <2>9. CodeForm'
      BY <1>0, <2>1, <2>8, FormKept, FormedWritten
    <2> QED BY <1>1, <2>7, <2>9 DEF FormInv
  <1>9. CASE \/ InfiniteLoopEnd \/ ConditionalLoopEnd \/ DomainLoopEnd \/ InnerLoopEnd
             \/ ConditionalEnd \/ IfBranchEnd \/ ElseBranchEnd
    <2>1. PICK target : Ended(target)
      BY <1>0, <1>9, EndStep
    <2>2. work # <<>> /\ Wrote(0, <<Br(target)>>) /\ work' = Under
      BY <2>1 DEF Ended
    <2>3. CodeForm'
      BY <1>0, <2>2, FormedWritten, FormKeptHere
    <2> QED BY <1>0, <1>1, <2>2, <2>3, PairsUnder DEF FormInv
  <1> QED BY <1>2, <1>3, <1>4, <1>5, <1>6, <1>7, <1>8, <1>9 DEF Next
-----------------------------------------------------------------------------
(* Control never gets to the end of a routine.  What must return, and the  *)
(* visits that control passes through before it does: the end of the first *)
(* branch of a conditional skips the second one.                           *)
Must(t) == t.op = "return" \/ (t.op \in {"block", "ifelse"} /\ Returns[t])

Safe(w, i) ==
  \E j \in DOMAIN w :
    /\ i <= j /\ Must(w[j])
    /\ \A k \in DOMAIN w : i <= k /\ k < j /\ w[k].op = "IfBranchEnd" => k + 3 <= j

Visits == Seq(Stmt \union Frames)

LEMMA FrameIsNoMust ==
  ASSUME NEW f \in Frames
  PROVE  ~Must(f)
  BY DEF Must, Frames, FrameOps, LoopEnds, CondEnds

LEMMA SafeHere ==
  ASSUME NEW w \in Visits, NEW i \in DOMAIN w, Must(w[i])
  PROVE  Safe(w, i)
  <1>1. \A k \in DOMAIN w : ~(i <= k /\ k < i)
    BY DEF Visits
  <1>2. i <= i
    BY DEF Visits
  <1> QED BY <1>1, <1>2 DEF Safe

LEMMA SafeBefore ==
  ASSUME NEW w \in Visits, NEW i \in DOMAIN w, Safe(w, i + 1), w[i].op # "IfBranchEnd"
  PROVE  Safe(w, i)
  <1>1. PICK j \in DOMAIN w :
          /\ i + 1 <= j /\ Must(w[j])
          /\ \A k \in DOMAIN w : i + 1 <= k /\ k < j /\ w[k].op = "IfBranchEnd" => k + 3 <= j
    BY DEF Safe
  <1>2. i <= j /\ \A k \in DOMAIN w : i <= k => k = i \/ i + 1 <= k
    BY <1>1 DEF Visits
  <1> QED BY <1>1, <1>2 DEF Safe

LEMMA SafeAfter ==
  ASSUME NEW w \in Visits, NEW i \in DOMAIN w, Safe(w, i), ~Must(w[i])
  PROVE  Safe(w, i + 1)
  <1>1. PICK j \in DOMAIN w :
          /\ i <= j /\ Must(w[j])
          /\ \A k \in DOMAIN w : i <= k /\ k < j /\ w[k].op = "IfBranchEnd" => k + 3 <= j
    BY DEF Safe
  <1>2. j # i
    BY <1>1
  <1>3. i + 1 <= j /\ \A k \in DOMAIN w : i + 1 <= k => i <= k
    BY <1>1, <1>2 DEF Visits
  <1> QED BY <1>1, <1>3 DEF Safe

LEMMA SafeAfterElse ==
  ASSUME NEW w \in Visits, NEW i \in DOMAIN w, Safe(w, i), w[i].op = "IfBranchEnd", ~Must(w[i])
  PROVE  Safe(w, i + 3)
  <1>1. PICK j \in DOMAIN w :
          /\ i <= j /\ Must(w[j])
          /\ \A k \in DOMAIN w : i <= k /\ k < j /\ w[k].op = "IfBranchEnd" => k + 3 <= j
    BY DEF Safe
  <1>2. j # i
    BY <1>1
  <1>3. i <= i /\ i < j
    BY <1>1, <1>2 DEF Visits
  <1>4. i + 3 <= j
    BY <1>1, <1>3
  <1>5. \A k \in DOMAIN w : i + 3 <= k => i <= k
    BY DEF Visits
  <1> QED BY <1>1, <1>4, <1>5 DEF Safe

LEMMA SafeBeforeElse ==
  ASSUME NEW w \in Visits, NEW i \in DOMAIN w, Safe(w, i + 3),
         \A k \in DOMAIN w : k = i + 1 \/ k = i + 2 => w[k].op # "IfBranchEnd"
  PROVE  Safe(w, i)
  <1>1. PICK j \in DOMAIN w :
          /\ i + 3 <= j /\ Must(w[j])
          /\ \A k \in DOMAIN w : i + 3 <= k /\ k < j /\ w[k].op = "IfBranchEnd" => k + 3 <= j
    BY DEF Safe
  <1>2. i <= j /\ \A k \in DOMAIN w : i <= k => k = i \/ k = i + 1 \/ k = i + 2 \/ i + 3 <= k
    BY <1>1 DEF Visits
  <1> QED BY <1>1, <1>2 DEF Safe

(* A step keeps what the visits further out promise.                       *)
LEMMA SafeShift ==
  ASSUME NEW w \in Visits, w # <<>>, NEW X \in Visits, NEW v, v = X \o Tail(w),
         NEW i \in Nat, i >= 2, Safe(w, i)
  PROVE  Safe(v, i + Len(X) - 1)
  <1>0. DOMAIN w \subseteq Nat /\ DOMAIN v \subseteq Nat /\ Len(X) \in Nat /\ DOMAIN X = 1 .. Len(X)
    BY DEF Visits
  <1>1. Shifted(v, X, w)
    BY VisitsShift DEF Visits
  <1>2. PICK j \in DOMAIN w :
          /\ i <= j /\ Must(w[j])
          /\ \A k \in DOMAIN w : i <= k /\ k < j /\ w[k].op = "IfBranchEnd" => k + 3 <= j
    BY DEF Safe
  <1>3. j \in DOMAIN w \ {1}
    BY <1>0, <1>2
  <1>4. PICK m \in DOMAIN v : m = j + Len(X) - 1 /\ v[m] = w[j]
    BY <1>1, <1>3 DEF Shifted
  <1>5. ASSUME NEW k \in DOMAIN v, i + Len(X) - 1 <= k, k < m, v[k].op = "IfBranchEnd"
        PROVE  k + 3 <= m
    <2>1. k \notin DOMAIN X
      BY <1>0, <1>5
    <2>2. PICK h \in DOMAIN w \ {1} : h = k - Len(X) + 1 /\ v[k] = w[h]
      BY <1>1, <2>1 DEF Shifted
    <2>3. i <= h /\ h < j
      BY <1>0, <1>4, <1>5, <2>2
    <2>4. h + 3 <= j
      BY <1>2, <1>5, <2>2, <2>3
    <2> QED BY <1>0, <1>4, <2>2, <2>4
  <1>a. i + Len(X) - 1 <= m
    BY <1>0, <1>2, <1>4
  <1>b. Must(v[m])
    BY <1>2, <1>4, Zenon
  <1>6. i + Len(X) - 1 <= m /\ Must(v[m])
    BY <1>a, <1>b
  <1>7. PICK h : h = i + Len(X) - 1
    OBVIOUS
  <1>8. Safe(v, h)
    BY <1>5, <1>6, <1>7 DEF Safe
  <1> QED BY <1>7, <1>8

(* Visits without branches that end: all of them come before what is safe. *)
LEMMA SafeOver ==
  ASSUME NEW w \in Visits, w # <<>>, NEW X \in Visits, NEW v, v = X \o Tail(w),
         \A k \in DOMAIN X : X[k].op # "IfBranchEnd",
         Safe(w, 2), NEW i \in 1 .. Len(X) + 1
  PROVE  Safe(v, i)
  <1>0. DOMAIN v \subseteq Nat /\ Len(X) \in Nat /\ DOMAIN X = 1 .. Len(X)
    BY DEF Visits
  <1>1. Safe(v, Len(X) + 1)
    <2>0. 2 \in Nat /\ 2 >= 2
      OBVIOUS
    <2>1. Safe(v, 2 + Len(X) - 1)
      BY <2>0, SafeShift
    <2>2. 2 + Len(X) - 1 = Len(X) + 1
      BY <1>0
    <2> QED BY <2>1, <2>2
  <1>2. PICK j \in DOMAIN v :
          /\ Len(X) + 1 <= j /\ Must(v[j])
          /\ \A k \in DOMAIN v : Len(X) + 1 <= k /\ k < j /\ v[k].op = "IfBranchEnd" => k + 3 <= j
    BY <1>1 DEF Safe
  <1>3. \A k \in DOMAIN X : v[k] = X[k]
    BY NewVisits DEF Visits
  <1>4. ASSUME NEW k \in DOMAIN v, i <= k, k < j, v[k].op = "IfBranchEnd" PROVE k + 3 <= j
    <2>1. k \notin DOMAIN X
      BY <1>3, <1>4
    <2>2. Len(X) + 1 <= k
      BY <1>0, <1>4, <2>1
    <2> QED BY <1>2, <1>4, <2>2
  <1>5. i <= j
    BY <1>0, <1>2
  <1> QED BY <1>2, <1>4, <1>5 DEF Safe

(* A set of blocks that holds all that are executed: what a block in it    *)
(* branches to is in it, and the visits to come give each of them an end.  *)
Lively(s, L) == BranchesInto(s, L) /\ \A k \in DOMAIN s : s[k].op # "unreachable"

LiveCode(c, L) == L \subseteq DOMAIN c /\ Body \in L /\ \A b \in L : Lively(c[b], L)

OwnsLive(f, L) == Owned(f) \intersect L # {}

Reached(w, j, p, L) == p \in L \/ \E i \in DOMAIN w : i < j /\ OwnsLive(w[i], L)

LiveAt(w, p, L) ==
  /\ w # <<>> /\ p \in L => Safe(w, 1)
  /\ \A i \in DOMAIN w : OwnsLive(w[i], L) => Safe(w, i + 1)
  /\ \A j \in DOMAIN w : w[j].op \in LoopEnds /\ Reached(w, j, p, L) =>
       w[j].blks[1] \in L /\ Safe(w, j + 1)

LiveSet(L) == LiveCode(code, L) /\ LiveAt(work, ip, L)

(* What the new visits X of a step need, and that a step which is not      *)
(* executed brings nothing to life.                                        *)
LiveStarts(X, v, q, M) ==
  /\ v # <<>> /\ q \in M => Safe(v, 1)
  /\ \A i \in DOMAIN X : OwnsLive(X[i], M) => Safe(v, i + 1)
  /\ \A i \in DOMAIN X : X[i].op \in LoopEnds /\ Reached(v, i, q, M) =>
       X[i].blks[1] \in M /\ Safe(v, i + 1)

Executed(w, X, p, q, L, M) ==
  \/ p \in L \/ OwnsLive(w[1], L)
  \/ /\ q \notin M
     /\ \A i \in DOMAIN X : ~OwnsLive(X[i], M)
     /\ \A i \in DOMAIN w \ {1} : OwnsLive(w[i], M) => OwnsLive(w[i], L)

(* The part of a step that all visits share: from the live set L to M.     *)
LEMMA LiveVisits ==
  ASSUME NEW w \in Visits, w # <<>>, NEW X \in Visits, NEW v, v = X \o Tail(w),
         NEW p, NEW q, NEW L, NEW M, L \subseteq M, LiveAt(w, p, L),
         LiveStarts(X, v, q, M), Executed(w, X, p, q, L, M),
         \A i \in DOMAIN w \ {1} : OwnsLive(w[i], M) => Safe(w, i + 1)
  PROVE  LiveAt(v, q, M)
  <1>0. /\ DOMAIN w = 1 .. Len(w) /\ Len(w) \in Nat /\ Len(w) > 0
        /\ DOMAIN v \subseteq Nat /\ Len(X) \in Nat /\ DOMAIN X = 1 .. Len(X)
    BY DEF Visits
  <1>s. Shifted(v, X, w)
    BY VisitsShift DEF Visits
  <1>1. ASSUME NEW k \in DOMAIN w \ {1}, NEW i, i = k + Len(X) - 1, Safe(w, k + 1)
        PROVE  Safe(v, i + 1)
    <2>1. k + 1 \in Nat /\ k + 1 >= 2
      BY <1>0
    <2>2. Safe(v, (k + 1) + Len(X) - 1)
      BY <2>1, <1>1, SafeShift
    <2>3. (k + 1) + Len(X) - 1 = i + 1
      BY <1>0, <1>1
    <2> QED BY <2>2, <2>3
  <1>2. ASSUME NEW i \in DOMAIN v, OwnsLive(v[i], M) PROVE Safe(v, i + 1)
    <2>1. CASE i \in DOMAIN X /\ v[i] = X[i]
      BY <1>2, <2>1 DEF LiveStarts
    <2>2. ASSUME i > Len(X), i - Len(X) + 1 \in DOMAIN w \ {1}, v[i] = w[i - Len(X) + 1]
          PROVE  Safe(v, i + 1)
      <3>1. PICK k \in DOMAIN w \ {1} : k = i - Len(X) + 1
        BY <2>2
      <3>2. i = k + Len(X) - 1
        BY <1>0, <3>1
      <3>3. Safe(w, k + 1)
        BY <1>2, <2>2, <3>1
      <3> QED BY <1>1, <3>2, <3>3
    <2> QED BY <2>1, <2>2, <1>s DEF Shifted
  <1>3. ASSUME NEW j \in DOMAIN v, v[j].op \in LoopEnds, Reached(v, j, q, M)
        PROVE  v[j].blks[1] \in M /\ Safe(v, j + 1)
    <2>1. CASE j \in DOMAIN X /\ v[j] = X[j]
      BY <1>3, <2>1 DEF LiveStarts
    <2>2. ASSUME j > Len(X), j - Len(X) + 1 \in DOMAIN w \ {1}, v[j] = w[j - Len(X) + 1]
          PROVE  v[j].blks[1] \in M /\ Safe(v, j + 1)
      <3>1. PICK k \in DOMAIN w \ {1} : k = j - Len(X) + 1
        BY <2>2
      <3>2. j = k + Len(X) - 1 /\ k > 1 /\ 1 \in DOMAIN w
        BY <1>0, <3>1
      <3>3. Reached(w, k, p, L)
        <4> USE DEF Executed
        <4>1. CASE p \in L \/ OwnsLive(w[1], L)
          BY <3>2, <4>1 DEF Reached
        <4>2. CASE /\ q \notin M
                   /\ \A i \in DOMAIN X : ~OwnsLive(X[i], M)
                   /\ \A i \in DOMAIN w \ {1} : OwnsLive(w[i], M) => OwnsLive(w[i], L)
          <5>1. PICK i \in DOMAIN v : i < j /\ OwnsLive(v[i], M)
            BY <1>3, <4>2 DEF Reached
          <5>2. /\ i - Len(X) + 1 \in DOMAIN w \ {1} /\ v[i] = w[i - Len(X) + 1]
            BY <1>s, <4>2, <5>1 DEF Shifted
          <5>3. PICK h \in DOMAIN w \ {1} : h = i - Len(X) + 1
            BY <5>2
          <5>4. OwnsLive(w[h], L)
            BY <4>2, <5>1, <5>2, <5>3
          <5>5. h < k
            BY <1>0, <3>1, <5>1, <5>3
          <5> QED BY <5>4, <5>5 DEF Reached
        <4> QED BY <4>1, <4>2
      <3>4. w[k].blks[1] \in L /\ Safe(w, k + 1)
        BY <1>3, <2>2, <3>1, <3>3 DEF LiveAt
      <3>5. Safe(v, j + 1)
        BY <1>1, <3>2, <3>4
      <3> QED BY <2>2, <3>1, <3>4, <3>5
    <2> QED BY <2>1, <2>2, <1>s DEF Shifted
  <1> QED BY <1>2, <1>3 DEF LiveAt, LiveStarts

LEMMA LiveCodeKept ==
  ASSUME GenInv, NEW L, NEW M, LiveCode(code, L), L \subseteq M,
         NEW n \in Nat, NEW s, Wrote(n, s), M \subseteq DOMAIN code',
         ip \in L => Lively(s, M),
         ip \notin L => ip \notin M,
         \A b \in M \ L : Lively(code'[b], M)
  PROVE  LiveCode(code', M)
  <1>0. code \in Seq(Seq(Instr)) /\ ip \in DOMAIN code /\ code[ip] \in Seq(Instr) /\ s \in Seq(Instr)
    BY DEF GenInv, BlockInv, TypeOK, Wrote
  <1>1. ASSUME NEW b \in L PROVE Lively(code[b], M)
    BY DEF LiveCode, Lively, BranchesInto
  <1>2. ASSUME ip \in L PROVE Lively(code'[ip], M)
    <2>1. Lively(code[ip], M) /\ Lively(s, M)
      BY <1>1, <1>2
    <2>2. BranchesInto(code[ip] \o s, M)
      BY <1>0, <2>1, BranchesAppend DEF Lively
    <2>3. \A k \in DOMAIN (code[ip] \o s) : (code[ip] \o s)[k].op # "unreachable"
      <3> PICK a \in Seq(Instr) : a = code[ip]
        BY <1>0
      <3> SUFFICES \A k \in DOMAIN (a \o s) : (a \o s)[k].op # "unreachable"
        OBVIOUS
      <3>1. TAKE k \in DOMAIN (a \o s)
      <3>2. \/ k \in DOMAIN a /\ (a \o s)[k] = a[k]
            \/ k - Len(a) \in DOMAIN s /\ (a \o s)[k] = s[k - Len(a)]
        BY <1>0
      <3> QED BY <2>1, <3>2 DEF Lively
    <2> QED BY <2>2, <2>3 DEF Lively, Wrote
  <1>3. ASSUME NEW b \in L, b # ip PROVE Lively(code'[b], M)
    <2>1. code'[b] = code[b]
      BY <1>3 DEF LiveCode, Wrote
    <2> QED BY <1>1, <2>1
  <1> QED BY <1>2, <1>3 DEF LiveCode

LEMMA NoVisits ==
  ASSUME GenInv, work # <<>>, work' = Under
  PROVE  \E X \in Visits : X = <<>> /\ Len(X) = 0 /\ DOMAIN X = {} /\ work' = X \o Tail(work)
  <1>1. PICK X \in Seq(Stmt \union Frames) : X = <<>>
    BY EmptySeq
  <1>2. work' = X \o Tail(work)
    BY <1>1, NoVisit DEF GenInv, BlockInv, TypeOK, Under
  <1>3. Len(X) = 0 /\ DOMAIN X = {}
    BY <1>1
  <1> QED BY <1>1, <1>2, <1>3, Zenon DEF Visits

LEMMA OneBody ==
  ASSUME work # <<>>, NEW y \in Stmt, NEW f \in Frames, work' = <<y, f>> \o Under
  PROVE  \E X \in Visits : /\ Len(X) = 2 /\ DOMAIN X = {1, 2} /\ X[1] = y /\ X[2] = f
                           /\ work' = X \o Tail(work)
  <1>0. <<y, f>> \in Seq(Stmt \union Frames)
    OBVIOUS
  <1>1. PICK X \in Seq(Stmt \union Frames) : X = <<y, f>>
    BY <1>0
  <1>2. Len(X) = 2 /\ DOMAIN X = {1, 2} /\ X[1] = y /\ X[2] = f
    BY <1>1
  <1>3. work' = X \o Tail(work)
    BY <1>1 DEF Under
  <1> QED BY <1>2, <1>3, Zenon DEF Visits

LEMMA WorkForm ==
  ASSUME GenInv
  PROVE  /\ work \in Visits /\ DOMAIN work \subseteq Nat
         /\ work # <<>> => 1 \in DOMAIN work /\ Top = work[1]
         /\ \A i \in DOMAIN work : Owned(work[i]) \subseteq DOMAIN code
  BY DEF GenInv, BlockInv, TypeOK, WaitingInv, Visits, Top

LEMMA OldOwners ==
  ASSUME GenInv, NEW L, NEW M, LiveAt(work, ip, L), \A b \in M \ L : b \notin DOMAIN code,
         NEW i \in DOMAIN work, OwnsLive(work[i], M)
  PROVE  OwnsLive(work[i], L) /\ Safe(work, i + 1)
  <1>1. Owned(work[i]) \subseteq DOMAIN code
    BY WorkForm
  <1>2. OwnsLive(work[i], L)
    BY <1>1 DEF OwnsLive
  <1> QED BY <1>2 DEF LiveAt

LEMMA LiveUnder ==
  ASSUME GenInv, NEW L, NEW M, LiveAt(work, ip, L), L \subseteq M,
         work # <<>>, work' = Under, ip' \in M => Safe(work, 2),
         \A i \in DOMAIN work \ {1} : OwnsLive(work[i], M) => Safe(work, i + 1),
         \/ ip \in L \/ OwnsLive(Top, L)
         \/ ip' \notin M /\ \A i \in DOMAIN work \ {1} : OwnsLive(work[i], M) => OwnsLive(work[i], L)
  PROVE  LiveAt(work', ip', M)
  <1>1. PICK X \in Visits : X = <<>> /\ Len(X) = 0 /\ DOMAIN X = {} /\ work' = X \o Tail(work)
    BY NoVisits
  <1>2. work \in Visits /\ Top = work[1]
    BY WorkForm
  <1>3. ASSUME ip' \in M PROVE Safe(work', 1)
    <2>1. \A k \in DOMAIN X : X[k].op # "IfBranchEnd"
      BY <1>1
    <2>2. 1 \in 1 .. Len(X) + 1
      BY <1>1
    <2> QED BY <1>1, <1>2, <1>3, <2>1, <2>2, SafeOver
  <1>4. LiveStarts(X, work', ip', M)
    BY <1>1, <1>3 DEF LiveStarts
  <1>5. Executed(work, X, ip, ip', L, M)
    BY <1>1, <1>2 DEF Executed
  <1>6. work' = X \o Tail(work) /\ work \in Visits
    BY <1>1, <1>2
  <1> QED BY <1>4, <1>5, <1>6, LiveVisits, Zenon


LEMMA LiveBody ==
  ASSUME GenInv, NEW L, NEW M, LiveAt(work, ip, L), L \subseteq M, ip \in L,
         work # <<>>, ~Must(Top),
         NEW y \in Stmt, NEW f \in Frames, f.op # "IfBranchEnd", work' = <<y, f>> \o Under,
         f.op \in LoopEnds => f.blks[1] \in M,
         \A b \in M \ L : b \notin DOMAIN code
  PROVE  LiveAt(work', ip', M)
  <1>1. PICK X \in Visits : /\ Len(X) = 2 /\ DOMAIN X = {1, 2} /\ X[1] = y /\ X[2] = f
                            /\ work' = X \o Tail(work)
    BY OneBody, ZenonT(40)
  <1>2. work \in Visits /\ 1 \in DOMAIN work /\ Top = work[1]
    BY WorkForm
  <1>3. Safe(work, 2)
    <2>1. Safe(work, 1)
      BY DEF LiveAt
    <2>2. Safe(work, 1 + 1)
      BY <1>2, <2>1, SafeAfter
    <2> QED BY <2>2
  <1>4. y.op \notin FrameOps /\ Owned(y) = {}
    BY StmtIsNoFrame
  <1>5. \A k \in DOMAIN X : X[k].op # "IfBranchEnd"
    BY <1>1, <1>4 DEF FrameOps, CondEnds
  <1>6. Safe(work', 1) /\ Safe(work', 2) /\ Safe(work', 3)
    <2>1. \A i \in 1 .. Len(X) + 1 : Safe(work', i)
      BY <1>1, <1>2, <1>3, <1>5, SafeOver
    <2>2. 1 \in 1 .. Len(X) + 1 /\ 2 \in 1 .. Len(X) + 1 /\ 3 \in 1 .. Len(X) + 1
      BY <1>1
    <2> QED BY <2>1, <2>2
  <1>7. \A i \in DOMAIN X : Safe(work', i + 1)
    BY <1>1, <1>6
  <1>8. \A i \in DOMAIN X : X[i].op \in LoopEnds => X[i].blks[1] \in M
    BY <1>1, <1>4 DEF FrameOps
  <1>9. \A i \in DOMAIN work \ {1} : OwnsLive(work[i], M) => Safe(work, i + 1)
    BY OldOwners
  <1>10. LiveStarts(X, work', ip', M)
    BY <1>6, <1>7, <1>8 DEF LiveStarts
  <1>11. Executed(work, X, ip, ip', L, M)
    BY DEF Executed
  <1>12. work' = X \o Tail(work) /\ work \in Visits
    BY <1>1, <1>2
  <1> QED BY <1>9, <1>10, <1>11, <1>12, LiveVisits, ZenonT(40)

(* Code that is not executed stays so.                                     *)
LEMMA DeadStep ==
  ASSUME GenInv, NEW L, LiveSet(L), ip \notin L,
         work # <<>>, NEW X \in Visits, work' = X \o Tail(work),
         \A i \in DOMAIN X : Owned(X[i]) \intersect DOMAIN code = {},
         NEW n \in Nat, NEW s, Wrote(n, s),
         ip' = ip \/ ip' \notin DOMAIN code
  PROVE  LiveSet(L)'
  <1>1. work \in Visits /\ Top = work[1]
    BY WorkForm
  <1>2. L \subseteq DOMAIN code
    BY DEF LiveSet, LiveCode
  <1>3. ip' \notin L
    BY <1>2
  <1>4. \A i \in DOMAIN X : ~OwnsLive(X[i], L)
    BY <1>2 DEF OwnsLive
  <1>5. ASSUME NEW i \in DOMAIN X, Reached(work', i, ip', L) PROVE FALSE
    <2>1. PICK k \in DOMAIN work' : k < i /\ OwnsLive(work'[k], L)
      BY <1>3, <1>5 DEF Reached
    <2>2. DOMAIN X = 1 .. Len(X) /\ Len(X) \in Nat /\ DOMAIN work' \subseteq Nat
      BY <1>1 DEF Visits
    <2>3. Shifted(work', X, work)
      BY <1>1, VisitsShift DEF Visits
    <2>4. k \in DOMAIN X /\ work'[k] = X[k]
      BY <2>1, <2>2, <2>3 DEF Shifted
    <2> QED BY <1>4, <2>1, <2>4
  <1>6. \A i \in DOMAIN work \ {1} : OwnsLive(work[i], L) => Safe(work, i + 1)
    BY DEF LiveSet, LiveAt
  <1>7. LiveAt(work, ip, L) /\ LiveCode(code, L)
    BY DEF LiveSet
  <1>a. LiveStarts(X, work', ip', L)
    BY <1>3, <1>4, <1>5 DEF LiveStarts
  <1>b. Executed(work, X, ip, ip', L, L)
    BY <1>3, <1>4 DEF Executed
  <1>8. LiveAt(work', ip', L)
    BY <1>1, <1>6, <1>7, <1>a, <1>b, LiveVisits
  <1>9. LiveCode(code', L)
    <2>1. L \subseteq DOMAIN code'
      BY <1>2 DEF Wrote
    <2>2. L \ L = {}
      OBVIOUS
    <2> QED BY <1>7, <2>1, <2>2, LiveCodeKept
  <1> QED BY <1>8, <1>9 DEF LiveSet

(* What a frame waits for comes to life with its own visit.                *)
LEMMA DeadEnd ==
  ASSUME GenInv, NEW L, LiveSet(L), ip \notin L, NEW target, Ended(target)
  PROVE  LiveSet(L)'
  <1>1. /\ work # <<>> /\ work' = Under /\ Owned(Top) = {ip'} /\ Wrote(0, <<Br(target)>>)
    BY DEF Ended
  <1>2. LiveAt(work, ip, L) /\ LiveCode(code, L)
    BY DEF LiveSet
  <1>3. 1 \in DOMAIN work /\ Top = work[1]
    BY <1>1, WorkForm
  <1>4. ip' \in L => OwnsLive(Top, L)
    BY <1>1 DEF OwnsLive
  <1>5. \A i \in DOMAIN work : OwnsLive(work[i], L) => Safe(work, i + 1)
    BY <1>2 DEF LiveAt
  <1>6. ip' \in L => Safe(work, 2)
    <2>1. OwnsLive(Top, L) => Safe(work, 1 + 1)
      BY <1>3, <1>5
    <2> QED BY <1>4, <2>1
  <1>7. L \subseteq L /\ L \ L = {}
    OBVIOUS
  <1>8. LiveAt(work', ip', L)
    BY <1>1, <1>2, <1>4, <1>5, <1>6, <1>7, LiveUnder
  <1>9. LiveCode(code', L)
    <2>1. L \subseteq DOMAIN code'
      BY <1>1, <1>2 DEF Wrote, LiveCode
    <2> QED BY <1>1, <1>2, <1>7, <2>1, LiveCodeKept
  <1> QED BY <1>8, <1>9 DEF LiveSet

LEMMA LivelyCode ==
  ASSUME NEW L, NEW b, NEW c, NEW t
  PROVE  /\ Lively(<<>>, L) /\ Lively(<<Do(t)>>, L) /\ Lively(<<Ret(t)>>, L)
         /\ b \in L => Lively(<<Br(b)>>, L) /\ Lively(<<Enter(t), Br(b)>>, L)
         /\ b \in L /\ c \in L => Lively(<<Eval(t), CondBr(b, c)>>, L)
  BY DEF Lively, BranchesInto, Do, Ret, Br, Enter, Eval, CondBr

LEMMA SafeNext ==
  ASSUME GenInv, NEW L, LiveAt(work, ip, L), work # <<>>, ip \in L, ~Must(Top)
  PROVE  Safe(work, 2)
  <1>1. work \in Visits /\ 1 \in DOMAIN work /\ Top = work[1]
    BY WorkForm
  <1>2. Safe(work, 1)
    BY DEF LiveAt
  <1>3. Safe(work, 1 + 1)
    BY <1>1, <1>2, SafeAfter
  <1> QED BY <1>3

LEMMA MustOps ==
  ASSUME NEW t, t.op \notin {"return", "block", "ifelse"}
  PROVE  ~Must(t)
  BY DEF Must

LEMMA LivePlain ==
  ASSUME GenInv, NEW L, LiveSet(L), ip \in L, visitPlain
  PROVE  LiveSet(L)'
  <1>1. /\ work # <<>> /\ Top.op = "act"
        /\ Wrote(0, <<Do(Top)>>) /\ ip' = ip /\ work' = Under
    BY PlainStep
  <1>2. LiveAt(work, ip, L) /\ LiveCode(code, L)
    BY DEF LiveSet
  <1>3. Safe(work, 2)
    BY <1>1, <1>2, MustOps, SafeNext
  <1>4. \A i \in DOMAIN work : OwnsLive(work[i], L) => Safe(work, i + 1)
    BY <1>2 DEF LiveAt
  <1>5. LiveAt(work', ip', L)
    <2>1. L \subseteq L
      OBVIOUS
    <2> QED BY <1>1, <1>2, <1>3, <1>4, <2>1, LiveUnder
  <1>6. LiveCode(code', L)
    <2>1. L \subseteq DOMAIN code' /\ L \subseteq L /\ L \ L = {} /\ Lively(<<Do(Top)>>, L)
      BY <1>1, <1>2, LivelyCode DEF Wrote, LiveCode
    <2> QED BY <1>1, <1>2, <2>1, LiveCodeKept
  <1> QED BY <1>5, <1>6 DEF LiveSet

(* What must return returns in one of its children, or in both branches.   *)
LEMMA MustKid ==
  ASSUME NEW t \in Stmt, Must(t), t.op # "return"
  PROVE  /\ t.op = "block" => \E k \in DOMAIN t.kids : Must(t.kids[k])
         /\ t.op = "ifelse" => Must(t.kids[1]) /\ Must(t.kids[2])
  <1>1. Returns[t]
    BY DEF Must
  <1>2. ReturnsAt(t, OnKids(Returns, t))
    BY <1>1, ReturnsIs
  <1>3. DOMAIN OnKids(Returns, t) = DOMAIN t.kids
    BY OnStmtKids
  <1>4. \A k \in DOMAIN t.kids : OnKids(Returns, t)[k] = Returns[t.kids[k]]
    BY OnStmtKids
  <1>5. CASE t.op = "block"
    <2>1. PICK k \in DOMAIN t.kids :
            t.kids[k].op = "return" \/ (t.kids[k].op = "ifelse" /\ OnKids(Returns, t)[k])
      BY <1>2, <1>5 DEF ReturnsAt
    <2>2. OnKids(Returns, t)[k] = Returns[t.kids[k]]
      BY <1>4, <2>1
    <2>3. Must(t.kids[k])
      BY <2>1, <2>2 DEF Must
    <2> QED BY <1>5, <2>1, <2>3
  <1>6. CASE t.op = "ifelse"
    <2>1. Len(t.kids) = 2 /\ t.kids \in Seq(Stmt)
      BY <1>6, StmtAssumption
    <2>2. DOMAIN t.kids = {1, 2} /\ t.kids[1] \in Stmt /\ t.kids[2] \in Stmt
      BY <2>1
    <2>3. \A k \in DOMAIN t.kids : OnKids(Returns, t)[k]
      BY <1>2, <1>6 DEF ReturnsAt
    <2>4. \A k \in DOMAIN t.kids : Returns[t.kids[k]]
      BY <1>4, <2>3
    <2>5. ASSUME NEW u \in Stmt, Returns[u] PROVE Must(u)
      <3>1. ReturnsAt(u, OnKids(Returns, u))
        BY <2>5, ReturnsIs
      <3> QED BY <2>5, <3>1 DEF ReturnsAt, Must
    <2> QED BY <1>6, <2>2, <2>4, <2>5
  <1> QED BY <1>5, <1>6

LEMMA LiveBlockStep ==
  ASSUME GenInv, NEW L, LiveSet(L), visitBlock
  PROVE  LiveSet(L)'
  <1>1. /\ work # <<>> /\ Top \in Stmt /\ Top.op = "block"
        /\ code' = code /\ ip' = ip /\ work' = Top.kids \o Tail(work)
    BY StmtVisit DEF visitBlock, Ops, Under
  <1>2. LiveAt(work, ip, L) /\ LiveCode(code, L)
    BY DEF LiveSet
  <1>3. work \in Visits /\ 1 \in DOMAIN work /\ Top = work[1]
    BY <1>1, WorkForm
  <1>4. Top.kids \in Seq(Stmt)
    BY <1>1, StmtIsNoFrame
  <1>5. PICK X \in Seq(Stmt) : X = Top.kids
    BY <1>4
  <1>6. X \in Visits
    BY DEF Visits
  <1>7. \A k \in DOMAIN X : X[k] \in Stmt
    OBVIOUS
  <1>8. \A k \in DOMAIN X : X[k].op \notin FrameOps /\ Owned(X[k]) = {}
    BY <1>7, StmtIsNoFrame
  <1>9. work' = X \o Tail(work)
    BY <1>1, <1>5
  <1>10. ASSUME ip \in L PROVE Safe(work', 1)
    <2>0. Len(X) \in Nat /\ DOMAIN X = 1 .. Len(X)
      OBVIOUS
    <2>1. CASE Must(Top)
      <3>1. PICK k \in DOMAIN X : Must(X[k])
        BY <1>1, <1>5, <2>1, MustKid
      <3>2. k \in DOMAIN work' /\ work'[k] = X[k]
        BY <1>3, <1>1, <1>6, <1>9, NewVisits DEF Visits
      <3>3. \A i \in DOMAIN work' : i < k => work'[i].op # "IfBranchEnd"
        <4> TAKE i \in DOMAIN work'
        <4> HAVE i < k
        <4>0. DOMAIN work' \subseteq Nat \ {0}
          BY <1>3, <1>6, <1>9 DEF Visits
        <4>1. i \in DOMAIN X
          BY <2>0, <4>0
        <4>2. work'[i] = X[i]
          BY <4>1, <1>3, <1>1, <1>6, <1>9, NewVisits DEF Visits
        <4> QED BY <1>8, <4>1, <4>2 DEF FrameOps, CondEnds
      <3>4. 1 <= k /\ Must(work'[k])
        BY <2>0, <3>1, <3>2
      <3> QED BY <3>2, <3>3, <3>4 DEF Safe
    <2>2. CASE ~Must(Top)
      <3>1. Safe(work, 2)
        BY <1>1, <1>2, <1>10, <2>2, SafeNext
      <3>2. \A k \in DOMAIN X : X[k].op # "IfBranchEnd"
        BY <1>8 DEF FrameOps, CondEnds
      <3>3. 1 \in 1 .. Len(X) + 1
        BY <2>0
      <3> QED BY <1>1, <1>3, <1>6, <1>9, <3>1, <3>2, <3>3, SafeOver
    <2> QED BY <2>1, <2>2
  <1>11. LiveStarts(X, work', ip', L)
    BY <1>1, <1>8, <1>10 DEF LiveStarts, OwnsLive, FrameOps
  <1>12. Executed(work, X, ip, ip', L, L)
    BY <1>1, <1>8 DEF Executed, OwnsLive
  <1>13. \A i \in DOMAIN work \ {1} : OwnsLive(work[i], L) => Safe(work, i + 1)
    BY <1>2 DEF LiveAt
  <1>14. LiveAt(work', ip', L)
    <2>1. L \subseteq L
      OBVIOUS
    <2> QED BY <1>1, <1>2, <1>3, <1>6, <1>9, <1>11, <1>12, <1>13, <2>1, LiveVisits, Zenon
  <1> QED BY <1>1, <1>2, <1>14 DEF LiveSet

(* return, break and continue: what follows them starts without a life.    *)
LEMMA LiveMoved ==
  ASSUME GenInv, NEW L, NEW M, LiveSet(L), L \subseteq M, M \subseteq DOMAIN code, ip \in L,
         NEW s, Moved(s), Lively(s, M),
         \A b \in M \ L : b # ip /\ Lively(code[b], M),
         \A i \in DOMAIN work \ {1} : OwnsLive(work[i], M) => Safe(work, i + 1)
  PROVE  LiveSet(M)'
  <1>1. work # <<>> /\ Wrote(1, s) /\ ip' = New(1) /\ work' = Under
    BY DEF Moved
  <1>2. LiveAt(work, ip, L) /\ LiveCode(code, L)
    BY DEF LiveSet
  <1>3. ip' \notin DOMAIN code
    <2>1. 1 \in 1 .. 1
      OBVIOUS
    <2> QED BY <1>1, <2>1 DEF Wrote
  <1>4. LiveAt(work', ip', M)
    BY <1>1, <1>2, <1>3, LiveUnder
  <1>5. M \subseteq DOMAIN code' /\ \A b \in M \ L : Lively(code'[b], M)
    BY <1>1 DEF Wrote
  <1>6. LiveCode(code', M)
    BY <1>1, <1>2, <1>5, LiveCodeKept
  <1> QED BY <1>4, <1>6 DEF LiveSet

LEMMA LiveReturn ==
  ASSUME GenInv, NEW L, LiveSet(L), ip \in L, visitReturn
  PROVE  LiveSet(L)'
  <1>1. Moved(<<Ret(Top)>>) /\ Lively(<<Ret(Top)>>, L)
    BY ReturnStep, LivelyCode
  <1>2. L \subseteq L /\ L \ L = {} /\ L \subseteq DOMAIN code
    BY DEF LiveSet, LiveCode
  <1>3. \A i \in DOMAIN work \ {1} : OwnsLive(work[i], L) => Safe(work, i + 1)
    BY DEF LiveSet, LiveAt
  <1> QED BY <1>1, <1>2, <1>3, LiveMoved

LEMMA BreakIsLoop ==
  ASSUME GenInv, NEW j \in DOMAIN work, InnermostLoop(j)
  PROVE  work[j].op \in LoopEnds /\ Owned(work[j]) = {work[j].blks[2]}
  BY DEF InnermostLoop, BreakEnds, Owned

LEMMA LiveContinue ==
  ASSUME GenInv, NEW L, LiveSet(L), ip \in L, visitContinue
  PROVE  LiveSet(L)'
  <1>1. PICK j \in DOMAIN work : InnermostLoop(j) /\ Moved(<<Br(work[j].blks[1])>>)
    BY ContinueStep
  <1>2. work[j].op \in LoopEnds /\ Reached(work, j, ip, L)
    BY <1>1, BreakIsLoop DEF Reached
  <1>3. work[j].blks[1] \in L
    BY <1>2 DEF LiveSet, LiveAt
  <1>4. Lively(<<Br(work[j].blks[1])>>, L)
    BY <1>3, LivelyCode
  <1>5. L \subseteq L /\ L \ L = {} /\ L \subseteq DOMAIN code
    BY DEF LiveSet, LiveCode
  <1>6. \A i \in DOMAIN work \ {1} : OwnsLive(work[i], L) => Safe(work, i + 1)
    BY DEF LiveSet, LiveAt
  <1> QED BY <1>1, <1>4, <1>5, <1>6, LiveMoved

LEMMA LiveBreak ==
  ASSUME GenInv, NEW L, LiveSet(L), ip \in L, visitBreak
  PROVE  \E M : LiveSet(M)'
  <1>1. PICK j \in DOMAIN work : InnermostLoop(j) /\ Moved(<<Br(work[j].blks[2])>>)
    BY BreakStep
  <1>2. PICK b : b = work[j].blks[2]
    OBVIOUS
  <1>3. work[j].op \in LoopEnds /\ Reached(work, j, ip, L) /\ Owned(work[j]) = {b}
    BY <1>1, <1>2, BreakIsLoop DEF Reached
  <1>4. Safe(work, j + 1)
    BY <1>3 DEF LiveSet, LiveAt
  <1>5. /\ b \in DOMAIN code /\ b # ip /\ code[b] = <<>>
        /\ \A i \in DOMAIN work : b \in Owned(work[i]) => i = j
    BY <1>3 DEF GenInv, BlockInv, WaitingInv
  <1>6. PICK M : M = L \union {b}
    OBVIOUS
  <1>7. \A i \in DOMAIN work : OwnsLive(work[i], L) => Safe(work, i + 1)
    BY DEF LiveSet, LiveAt
  <1>8. ASSUME NEW i \in DOMAIN work, OwnsLive(work[i], M) PROVE Safe(work, i + 1)
    <2>1. OwnsLive(work[i], L) \/ b \in Owned(work[i])
      BY <1>6, <1>8 DEF OwnsLive
    <2> QED BY <1>4, <1>5, <1>7, <2>1
  <1>9. /\ L \subseteq M /\ M \subseteq DOMAIN code /\ b \in M
        /\ \A c \in M \ L : c = b
    BY <1>5, <1>6 DEF LiveSet, LiveCode
  <1>10. Moved(<<Br(b)>>) /\ Lively(<<Br(b)>>, M) /\ Lively(code[b], M)
    BY <1>1, <1>2, <1>5, <1>9, LivelyCode
  <1>11. \A c \in M \ L : c # ip /\ Lively(code[c], M)
    BY <1>5, <1>9, <1>10
  <1> QED BY <1>8, <1>9, <1>10, <1>11, LiveMoved

LEMMA NewNotOld ==
  ASSUME NEW n \in Nat, NEW s, Wrote(n, s), NEW i \in 1 .. n
  PROVE  New(i) \in DOMAIN code' /\ New(i) \notin DOMAIN code
  BY DEF Wrote

LEMMA NewDiffer ==
  ASSUME GenInv
  PROVE  /\ New(1) # New(2) /\ New(1) # New(3) /\ New(1) # New(4)
         /\ New(2) # New(3) /\ New(2) # New(4) /\ New(3) # New(4)
  BY DEF New, GenInv, BlockInv, TypeOK

LEMMA LiveLoop ==
  ASSUME GenInv, NEW L, LiveSet(L), ip \in L, visitInfiniteLoop
  PROVE  \E M : LiveSet(M)'
  <1> DEFINE f == Frame("InfiniteLoopEnd", <<New(1), New(2)>>)
  <1>1. /\ work # <<>> /\ Top.op = "loop" /\ Top.kids[1] \in Stmt
        /\ Wrote(2, <<Br(New(1))>>) /\ code'[New(1)] = <<>> /\ ip' = New(1)
        /\ work' = <<Top.kids[1], f>> \o Under
    BY LoopStep
  <1>2. f \in Frames /\ f.op # "IfBranchEnd" /\ f.blks[1] = New(1)
    <2>1. New(1) \in Nat /\ New(2) \in Nat
      BY DEF New, GenInv, BlockInv, TypeOK
    <2>2. Names(f, "InfiniteLoopEnd", <<New(1), New(2)>>, New(2))
      BY <2>1, LoopFrame DEF LoopEnds
    <2> QED BY <2>2 DEF Names
  <1> HIDE DEF f
  <1>3. PICK M : M = L \union {New(1)}
    OBVIOUS
  <1>4. New(1) \in DOMAIN code' /\ New(1) \notin DOMAIN code
    <2>1. 1 \in 1 .. 2 /\ 2 \in Nat
      OBVIOUS
    <2> QED BY <1>1, <2>1, NewNotOld
  <1>5. LiveAt(work, ip, L) /\ LiveCode(code, L)
    BY DEF LiveSet
  <1>6. L \subseteq M /\ \A b \in M \ L : b = New(1)
    BY <1>3
  <1>7. New(1) \in M /\ M \subseteq DOMAIN code'
    BY <1>1, <1>3, <1>4, <1>5 DEF LiveCode, Wrote
  <1>8. ~Must(Top)
    BY <1>1, MustOps
  <1>9. \A b \in M \ L : b \notin DOMAIN code
    BY <1>4, <1>6
  <1>10. LiveAt(work', ip', M)
    BY <1>1, <1>2, <1>5, <1>6, <1>7, <1>8, <1>9, LiveBody
  <1>11. Lively(<<Br(New(1))>>, M) /\ \A b \in M \ L : Lively(code'[b], M)
    BY <1>1, <1>6, <1>7, LivelyCode
  <1>12. LiveCode(code', M)
    BY <1>1, <1>5, <1>6, <1>7, <1>11, LiveCodeKept
  <1> QED BY <1>10, <1>12 DEF LiveSet

LEMMA LiveTested ==
  ASSUME GenInv, NEW L, LiveSet(L), ip \in L, NEW s, NEW f, Tested(s, f), TestRow(s, f)
  PROVE  \E M : LiveSet(M)'
  <1>1. /\ work # <<>> /\ Top.kids[1] \in Stmt
        /\ Wrote(3, s) /\ code'[New(1)] = <<Eval(Top), CondBr(New(2), New(3))>>
        /\ code'[New(2)] = <<>> /\ code'[New(3)] = <<>>
        /\ work' = <<Top.kids[1], f>> \o Under
    BY DEF Tested
  <1>2. /\ f \in Frames /\ f.op # "IfBranchEnd"
        /\ f.op \in LoopEnds => f.blks = <<New(1), New(3)>>
    BY RowFrame
  <1>3. PICK M : M = L \union {New(1), New(2), New(3)}
    OBVIOUS
  <1>4. /\ New(1) \in DOMAIN code' \ DOMAIN code
        /\ New(2) \in DOMAIN code' \ DOMAIN code
        /\ New(3) \in DOMAIN code' \ DOMAIN code
    <2>1. 1 \in 1 .. 3 /\ 2 \in 1 .. 3 /\ 3 \in 1 .. 3 /\ 3 \in Nat
      OBVIOUS
    <2>2. \A i \in 1 .. 3 : New(i) \in DOMAIN code' \ DOMAIN code
      BY <1>1 DEF Wrote
    <2> QED BY <2>1, <2>2
  <1>5. LiveAt(work, ip, L) /\ LiveCode(code, L)
    BY DEF LiveSet
  <1>6. L \subseteq M /\ \A b \in M \ L : b = New(1) \/ b = New(2) \/ b = New(3)
    BY <1>3
  <1>7. New(1) \in M /\ New(2) \in M /\ New(3) \in M /\ M \subseteq DOMAIN code'
    BY <1>1, <1>3, <1>4, <1>5 DEF LiveCode, Wrote
  <1>8. ~Must(Top)
    BY MustOps DEF TestRow
  <1>9. \A b \in M \ L : b \notin DOMAIN code
    BY <1>4, <1>6
  <1>10. f.op \in LoopEnds => f.blks[1] \in M
    BY <1>2, <1>7
  <1>11. LiveAt(work', ip', M)
    BY <1>1, <1>2, <1>5, <1>6, <1>8, <1>9, <1>10, LiveBody
  <1>12. Lively(s, M)
    BY <1>7, LivelyCode DEF TestRow
  <1>13. Lively(code'[New(1)], M) /\ Lively(code'[New(2)], M) /\ Lively(code'[New(3)], M)
    BY <1>1, <1>7, LivelyCode
  <1>14. \A b \in M \ L : Lively(code'[b], M)
    BY <1>6, <1>13
  <1>15. LiveCode(code', M)
    BY <1>1, <1>5, <1>6, <1>7, <1>12, <1>14, LiveCodeKept
  <1> QED BY <1>11, <1>15 DEF LiveSet

(* The first branch of a conditional goes on after the second one.         *)
LEMMA SafeElse ==
  ASSUME NEW w \in Visits, w # <<>>, NEW X \in Visits, NEW v, v = X \o Tail(w),
         Len(X) = 4, DOMAIN X = {1, 2, 3, 4}, X[1] \in Stmt, X[2].op = "IfBranchEnd",
         X[3] \in Stmt, X[4].op # "IfBranchEnd",
         Safe(w, 2) \/ (Must(X[1]) /\ Must(X[3]))
  PROVE  Safe(v, 1) /\ Safe(v, 3)
  <1>1. /\ 1 \in DOMAIN v /\ 2 \in DOMAIN v /\ 3 \in DOMAIN v /\ 4 \in DOMAIN v
        /\ v[1] = X[1] /\ v[2] = X[2] /\ v[3] = X[3] /\ v[4] = X[4]
    BY NewVisits DEF Visits
  <1>2. v \in Visits
    BY DEF Visits
  <1>3. X[1].op # "IfBranchEnd" /\ X[3].op # "IfBranchEnd"
    BY StmtIsNoFrame DEF FrameOps, CondEnds
  <1>4. CASE Safe(w, 2)
    <2>0. 2 \in Nat /\ 2 >= 2
      OBVIOUS
    <2>1. Safe(v, 2 + Len(X) - 1)
      BY <1>4, <2>0, SafeShift
    <2>2. 2 + Len(X) - 1 = 5 /\ 4 + 1 = 5 /\ 3 + 1 = 4 /\ 2 + 3 = 5 /\ 1 + 1 = 2 /\ 2 + 1 = 3
      OBVIOUS
    <2>3. Safe(v, 5)
      BY <2>1, <2>2
    <2>4. Safe(v, 4)
      BY <1>1, <1>2, <2>2, <2>3, SafeBefore
    <2>5. Safe(v, 3)
      BY <1>1, <1>2, <1>3, <2>2, <2>4, SafeBefore
    <2>6. Safe(v, 2)
      <3>1. \A k \in DOMAIN v : k = 2 + 1 \/ k = 2 + 2 => v[k].op # "IfBranchEnd"
        BY <1>1, <1>3
      <3> QED BY <1>1, <1>2, <2>2, <2>3, <3>1, SafeBeforeElse
    <2>7. Safe(v, 1)
      BY <1>1, <1>2, <1>3, <2>2, <2>6, SafeBefore
    <2> QED BY <2>5, <2>7
  <1>5. CASE Must(X[1]) /\ Must(X[3])
    BY <1>1, <1>2, <1>5, SafeHere
  <1> QED BY <1>4, <1>5

LEMMA LiveElse ==
  ASSUME GenInv, NEW L, LiveSet(L), ip \in L, visitConditionalElse
  PROVE  \E M : LiveSet(M)'
  <1> DEFINE f == Frame("IfBranchEnd", <<New(3), New(4)>>)
             g == Frame("ElseBranchEnd", <<New(4)>>)
  <1>1. /\ work # <<>> /\ Top \in Stmt /\ Top.op = "ifelse"
        /\ Top.kids[1] \in Stmt /\ Top.kids[2] \in Stmt
        /\ Wrote(4, <<Br(New(1))>>)
        /\ code'[New(1)] = <<Eval(Top), CondBr(New(2), New(3))>>
        /\ code'[New(2)] = <<>> /\ code'[New(3)] = <<>>
        /\ work' = <<Top.kids[1], f, Top.kids[2], g>> \o Under
    BY ElseStep
  <1>2. Names(f, "IfBranchEnd", <<New(3), New(4)>>, New(3)) /\ Names(g, "ElseBranchEnd", <<New(4)>>, New(4))
    BY ElseFrames
  <1> HIDE DEF f, g
  <1>3. /\ f \in Frames /\ f.op = "IfBranchEnd" /\ Owned(f) = {New(3)}
        /\ g \in Frames /\ g.op = "ElseBranchEnd" /\ Owned(g) = {New(4)}
    BY <1>2 DEF Names
  <1>4. PICK X \in Visits : /\ Len(X) = 4 /\ DOMAIN X = {1, 2, 3, 4}
                            /\ X[1] = Top.kids[1] /\ X[2] = f /\ X[3] = Top.kids[2] /\ X[4] = g
                            /\ work' = X \o Tail(work)
    <2>0. <<Top.kids[1], f, Top.kids[2], g>> \in Seq(Stmt \union Frames)
      BY <1>1, <1>3
    <2>1. PICK X \in Seq(Stmt \union Frames) : X = <<Top.kids[1], f, Top.kids[2], g>>
      BY <2>0
    <2>2. /\ Len(X) = 4 /\ DOMAIN X = {1, 2, 3, 4}
          /\ X[1] = Top.kids[1] /\ X[2] = f /\ X[3] = Top.kids[2] /\ X[4] = g
      BY <2>1
    <2>3. work' = X \o Tail(work)
      BY <1>1, <2>1 DEF Under
    <2> QED BY <2>2, <2>3, Zenon DEF Visits
  <1>5. PICK M : M = L \union {New(1), New(2), New(3)}
    OBVIOUS
  <1>6. /\ New(1) \in DOMAIN code' \ DOMAIN code
        /\ New(2) \in DOMAIN code' \ DOMAIN code
        /\ New(3) \in DOMAIN code' \ DOMAIN code
        /\ New(4) \in DOMAIN code' \ DOMAIN code
    <2>1. 1 \in 1 .. 4 /\ 2 \in 1 .. 4 /\ 3 \in 1 .. 4 /\ 4 \in 1 .. 4
      OBVIOUS
    <2>2. \A i \in 1 .. 4 : New(i) \in DOMAIN code' \ DOMAIN code
      BY <1>1 DEF Wrote
    <2> QED BY <2>1, <2>2
  <1>7. LiveAt(work, ip, L) /\ LiveCode(code, L)
    BY DEF LiveSet
  <1>8. L \subseteq M /\ \A b \in M \ L : b = New(1) \/ b = New(2) \/ b = New(3)
    BY <1>5
  <1>9. New(1) \in M /\ New(2) \in M /\ New(3) \in M /\ M \subseteq DOMAIN code'
    BY <1>1, <1>5, <1>6, <1>7 DEF LiveCode, Wrote
  <1>10. New(4) \notin M
    BY <1>5, <1>6, <1>7, NewDiffer DEF LiveCode
  <1>11. Safe(work', 1) /\ Safe(work', 3)
    <2>1. Safe(work, 2) \/ (Must(X[1]) /\ Must(X[3]))
      BY <1>1, <1>4, <1>7, SafeNext, MustKid
    <2> QED BY <1>1, <1>3, <1>4, <2>1, WorkForm, SafeElse
  <1>12. /\ Owned(X[1]) = {} /\ Owned(X[3]) = {}
         /\ X[1].op \notin LoopEnds /\ X[3].op \notin LoopEnds
    BY <1>1, <1>4, StmtIsNoFrame DEF FrameOps
  <1>13. \A i \in DOMAIN X : X[i].op \notin LoopEnds
    BY <1>3, <1>4, <1>12 DEF LoopEnds
  <1>14. ASSUME NEW i \in DOMAIN X, OwnsLive(X[i], M) PROVE Safe(work', i + 1)
    <2>1. i = 2
      BY <1>3, <1>4, <1>10, <1>12, <1>14 DEF OwnsLive
    <2> QED BY <1>11, <2>1
  <1>15. LiveStarts(X, work', ip', M)
    BY <1>11, <1>13, <1>14 DEF LiveStarts
  <1>16. Executed(work, X, ip, ip', L, M)
    BY DEF Executed
  <1>17. \A i \in DOMAIN work \ {1} : OwnsLive(work[i], M) => Safe(work, i + 1)
    BY <1>6, <1>7, <1>8, OldOwners
  <1>18. LiveAt(work', ip', M)
    <2>1. work' = X \o Tail(work) /\ work \in Visits
      BY <1>4, WorkForm
    <2> QED BY <1>1, <1>7, <1>8, <1>15, <1>16, <1>17, <2>1, LiveVisits, Zenon
  <1>19. Lively(code'[New(1)], M) /\ Lively(code'[New(2)], M) /\ Lively(code'[New(3)], M)
    BY <1>1, <1>9, LivelyCode
  <1>20. Lively(<<Br(New(1))>>, M) /\ \A b \in M \ L : Lively(code'[b], M)
    BY <1>8, <1>9, <1>19, LivelyCode
  <1>21. LiveCode(code', M)
    BY <1>1, <1>7, <1>8, <1>9, <1>20, LiveCodeKept
  <1> QED BY <1>18, <1>21 DEF LiveSet

(* A frame's visit branches to a live block and goes on in the one it owns. *)
LEMMA LiveEnd ==
  ASSUME GenInv, Paired, NEW L, LiveSet(L), ip \in L, NEW target, Ended(target)
  PROVE  \E M : LiveSet(M)'
  <1>1. /\ work # <<>> /\ Top \in Frames /\ work' = Under
        /\ target \in DOMAIN code /\ Wrote(0, <<Br(target)>>) /\ Owned(Top) = {ip'}
        /\ target = Top.blks[IF Top.op = "IfBranchEnd" THEN 2 ELSE 1]
    BY DEF Ended
  <1>2. LiveAt(work, ip, L) /\ LiveCode(code, L)
    BY DEF LiveSet
  <1>3. 1 \in DOMAIN work /\ Top = work[1] /\ work \in Visits
    BY <1>1, WorkForm
  <1>4. ~Must(Top)
    BY <1>1, FrameIsNoMust
  <1>5. Safe(work, 2)
    BY <1>1, <1>2, <1>4, SafeNext
  <1>6. \A i \in DOMAIN work : OwnsLive(work[i], L) => Safe(work, i + 1)
    BY <1>2 DEF LiveAt
  <1>7. PICK M : M = L \union {target}
    OBVIOUS
  <1>8. ASSUME \A i \in DOMAIN work \ {1} : OwnsLive(work[i], M) => Safe(work, i + 1),
               target \in L \/ (target # ip /\ code[target] = <<>>)
        PROVE  \E N : LiveSet(N)'
    <2>1. LiveAt(work', ip', M)
      BY <1>1, <1>2, <1>5, <1>7, <1>8, LiveUnder
    <2>2. Lively(<<Br(target)>>, M) /\ Lively(<<>>, M) /\ L \subseteq M
      BY <1>7, LivelyCode
    <2>3. M \subseteq DOMAIN code' /\ \A b \in M \ L : Lively(code'[b], M)
      <3>1. /\ L \subseteq DOMAIN code /\ DOMAIN code \subseteq DOMAIN code'
            /\ \A b \in DOMAIN code : b # ip => code'[b] = code[b]
        BY <1>1, <1>2 DEF Wrote, LiveCode
      <3>2. ASSUME NEW b \in M \ L PROVE Lively(code'[b], M)
        <4>1. b = target /\ target # ip /\ code[target] = <<>>
          BY <1>7, <1>8, <3>2
        <4>2. code'[b] = <<>>
          BY <1>1, <3>1, <4>1
        <4> QED BY <2>2, <4>2
      <3>3. M \subseteq DOMAIN code'
        BY <1>1, <1>7, <3>1
      <3> QED BY <3>2, <3>3
    <2>4. LiveCode(code', M)
      BY <1>1, <1>2, <2>2, <2>3, LiveCodeKept
    <2> QED BY <2>1, <2>4 DEF LiveSet
  <1>9. CASE Top.op \in LoopEnds
    <2>1. Reached(work, 1, ip, L) /\ target = Top.blks[1]
      BY <1>1, <1>9 DEF Reached, LoopEnds
    <2>2. target \in L
      BY <1>2, <1>3, <1>9, <2>1 DEF LiveAt
    <2>3. M = L
      BY <1>7, <2>2
    <2> QED BY <1>6, <1>8, <2>2, <2>3
  <1>10. ASSUME NEW j \in DOMAIN work, target \in Owned(work[j]), Safe(work, j + 1)
         PROVE  \E N : LiveSet(N)'
    <2>1. /\ target # ip /\ code[target] = <<>>
          /\ \A i \in DOMAIN work : target \in Owned(work[i]) => i = j
      BY <1>10 DEF GenInv, BlockInv, WaitingInv
    <2>2. ASSUME NEW i \in DOMAIN work, OwnsLive(work[i], M) PROVE Safe(work, i + 1)
      <3>1. OwnsLive(work[i], L) \/ target \in Owned(work[i])
        BY <1>7, <2>2 DEF OwnsLive
      <3> QED BY <1>6, <1>10, <2>1, <3>1
    <2> QED BY <1>8, <2>1, <2>2
  <1>11. CASE Top.op \in {"ConditionalEnd", "ElseBranchEnd"}
    <2>1. target \in Owned(work[1])
      BY <1>1, <1>3, <1>11 DEF Owned, LoopEnds, CondEnds
    <2>2. Safe(work, 1 + 1)
      BY <1>5
    <2> QED BY <1>3, <1>10, <2>1, <2>2
  <1>12. CASE Top.op = "IfBranchEnd"
    <2>1. 3 \in DOMAIN work /\ work[3].op = "ElseBranchEnd" /\ work[3].blks[1] = target
      <3>1. /\ 1 + 2 \in DOMAIN work /\ work[1 + 2].op = "ElseBranchEnd"
            /\ work[1 + 2].blks[1] = work[1].blks[2]
        BY <1>3, <1>12 DEF Paired
      <3> QED BY <1>1, <1>3, <1>12, <3>1
    <2>2. target \in Owned(work[3])
      BY <2>1 DEF Owned, LoopEnds, CondEnds
    <2>3. Safe(work, 3 + 1)
      <3>1. Safe(work, 1)
        BY <1>1, <1>2 DEF LiveAt
      <3>2. Safe(work, 1 + 3)
        BY <1>3, <1>4, <1>12, <3>1, SafeAfterElse
      <3> QED BY <3>2
    <2> QED BY <1>10, <2>1, <2>2, <2>3
  <1>13. Top.op \in LoopEnds \union CondEnds
    BY DEF Ended
  <1> QED BY <1>9, <1>11, <1>12, <1>13 DEF CondEnds

(* The end of the routine is dead, and the entry block leads into it.      *)
LEMMA LiveLast ==
  ASSUME GenInv, NEW L, LiveSet(L), RoutineEnd
  PROVE  \E M : LiveSet(M)' /\ Entry \in M
  <1>1. /\ work # <<>> /\ work[1].op = "RoutineEnd" /\ DOMAIN work = {1} /\ work' = <<>>
        /\ DOMAIN code' = DOMAIN code /\ Entry \in DOMAIN code /\ Body \in DOMAIN code
        /\ code'[Entry] = <<Br(Body)>>
        /\ \A b \in DOMAIN code : b \notin {ip, Entry} => code'[b] = code[b]
    BY LastStep
  <1>2. LiveAt(work, ip, L) /\ LiveCode(code, L)
    BY DEF LiveSet
  <1>3. ip \notin L
    <2>1. SUFFICES ASSUME ip \in L PROVE FALSE
      OBVIOUS
    <2>2. Safe(work, 1)
      BY <1>1, <1>2, <2>1 DEF LiveAt
    <2>3. Must(work[1])
      BY <1>1, <2>2 DEF Safe
    <2> QED BY <1>1, <2>3, MustOps
  <1>4. PICK M : M = L \union {Entry}
    OBVIOUS
  <1>5. LiveAt(work', ip', M)
    BY <1>1 DEF LiveAt
  <1>6. Lively(code'[Entry], M)
    BY <1>1, <1>2, <1>4, LivelyCode DEF LiveCode
  <1>7. ASSUME NEW b \in L, b # Entry PROVE Lively(code'[b], M)
    <2>1. code'[b] = code[b] /\ Lively(code[b], L)
      BY <1>1, <1>2, <1>3, <1>7 DEF LiveCode
    <2> QED BY <1>4, <2>1 DEF Lively, BranchesInto
  <1>8. LiveCode(code', M)
    <2>1. M \subseteq DOMAIN code' /\ Body \in M
      BY <1>1, <1>2, <1>4 DEF LiveCode
    <2>2. \A b \in M : Lively(code'[b], M)
      BY <1>4, <1>6, <1>7
    <2> QED BY <2>1, <2>2 DEF LiveCode
  <1> QED BY <1>4, <1>5, <1>8 DEF LiveSet

(* Visits of statements open blocks that did not exist.                    *)
LEMMA LiveDead ==
  ASSUME GenInv, NEW L, LiveSet(L), ip \notin L, Next, ~RoutineEnd
  PROVE  LiveSet(L)'
  <1>1. CASE visitBlock
    BY <1>1, LiveBlockStep
  <1>2. CASE visitPlain \/ visitReturn \/ visitBreak \/ visitContinue
    <2>1. PICK n, s : /\ n \in Nat /\ work # <<>> /\ Wrote(n, s) /\ work' = Under
                      /\ ip' = ip \/ (n = 1 /\ ip' = New(1))
      <3>0. 0 \in Nat /\ 1 \in Nat
        OBVIOUS
      <3>1. CASE visitPlain
        BY <3>0, <3>1, PlainStep, Zenon
      <3>2. ASSUME NEW s, Moved(s)
            PROVE  \E n, r : /\ n \in Nat /\ work # <<>> /\ Wrote(n, r) /\ work' = Under
                             /\ ip' = ip \/ (n = 1 /\ ip' = New(1))
        BY <3>0, <3>2, Zenon DEF Moved
      <3>3. CASE visitReturn
        BY <3>3, <3>2, ReturnStep
      <3>4. CASE visitBreak
        BY <3>4, <3>2, BreakStep
      <3>5. CASE visitContinue
        BY <3>5, <3>2, ContinueStep
      <3> QED BY <1>2, <3>1, <3>3, <3>4, <3>5
    <2>2. PICK X \in Visits : X = <<>> /\ Len(X) = 0 /\ DOMAIN X = {} /\ work' = X \o Tail(work)
      BY <2>1, NoVisits
    <2>3. ip' = ip \/ ip' \notin DOMAIN code
      <3>1. 1 \in 1 .. 1
        OBVIOUS
      <3> QED BY <2>1, <3>1 DEF Wrote
    <2> QED BY <2>1, <2>2, <2>3, DeadStep
  <1>3. CASE visitInfiniteLoop
    <2> DEFINE f == Frame("InfiniteLoopEnd", <<New(1), New(2)>>)
    <2>1. /\ work # <<>> /\ Top.kids[1] \in Stmt
          /\ Wrote(2, <<Br(New(1))>>) /\ ip' = New(1) /\ work' = <<Top.kids[1], f>> \o Under
      BY <1>3, LoopStep
    <2>2. f \in Frames /\ Owned(f) = {New(2)}
      <3>1. New(1) \in Nat /\ New(2) \in Nat
        BY DEF New, GenInv, BlockInv, TypeOK
      <3>2. Names(f, "InfiniteLoopEnd", <<New(1), New(2)>>, New(2))
        BY <3>1, LoopFrame DEF LoopEnds
      <3> QED BY <3>2 DEF Names
    <2> HIDE DEF f
    <2>3. PICK X \in Visits : /\ Len(X) = 2 /\ DOMAIN X = {1, 2} /\ X[1] = Top.kids[1] /\ X[2] = f
                              /\ work' = X \o Tail(work)
      BY <2>1, <2>2, OneBody, ZenonT(40)
    <2>4. New(1) \notin DOMAIN code /\ New(2) \notin DOMAIN code
      <3>1. 1 \in 1 .. 2 /\ 2 \in 1 .. 2
        OBVIOUS
      <3> QED BY <2>1, <3>1 DEF Wrote
    <2>5. \A i \in DOMAIN X : Owned(X[i]) \intersect DOMAIN code = {}
      BY <2>1, <2>2, <2>3, <2>4, StmtIsNoFrame
    <2> QED BY <2>1, <2>3, <2>4, <2>5, DeadStep
  <1>4. CASE visitWhile \/ visitDoWhile \/ visitBreakable \/ visitInner \/ visitConditional
    <2>1. PICK s, f : Tested(s, f) /\ TestRow(s, f)
      BY <1>4, TestStep
    <2>2. f \in Frames /\ Owned(f) = {New(3)}
      BY <2>1, RowFrame
    <2>3. /\ work # <<>> /\ Top.kids[1] \in Stmt /\ Wrote(3, s) /\ work' = <<Top.kids[1], f>> \o Under
          /\ ip' = New(2)
      BY <2>1 DEF Tested
    <2>4. PICK X \in Visits : /\ Len(X) = 2 /\ DOMAIN X = {1, 2} /\ X[1] = Top.kids[1] /\ X[2] = f
                              /\ work' = X \o Tail(work)
      BY <2>2, <2>3, OneBody, ZenonT(40)
    <2>5. New(2) \notin DOMAIN code /\ New(3) \notin DOMAIN code
      <3>1. 2 \in 1 .. 3 /\ 3 \in 1 .. 3
        OBVIOUS
      <3> QED BY <2>3, <3>1 DEF Wrote
    <2>6. \A i \in DOMAIN X : Owned(X[i]) \intersect DOMAIN code = {}
      BY <2>2, <2>3, <2>4, <2>5, StmtIsNoFrame
    <2> QED BY <2>3, <2>4, <2>5, <2>6, DeadStep
  <1>5. CASE visitConditionalElse
    <2> DEFINE f == Frame("IfBranchEnd", <<New(3), New(4)>>)
               g == Frame("ElseBranchEnd", <<New(4)>>)
    <2>1. /\ work # <<>> /\ Top.kids[1] \in Stmt /\ Top.kids[2] \in Stmt
          /\ Wrote(4, <<Br(New(1))>>) /\ ip' = New(2)
          /\ work' = <<Top.kids[1], f, Top.kids[2], g>> \o Under
      BY <1>5, ElseStep
    <2>2. Names(f, "IfBranchEnd", <<New(3), New(4)>>, New(3)) /\ Names(g, "ElseBranchEnd", <<New(4)>>, New(4))
      BY ElseFrames
    <2> HIDE DEF f, g
    <2>3. f \in Frames /\ g \in Frames /\ Owned(f) = {New(3)} /\ Owned(g) = {New(4)}
      BY <2>2 DEF Names
    <2>4. <<Top.kids[1], f, Top.kids[2], g>> \in Seq(Stmt \union Frames)
      BY <2>1, <2>3
    <2>5. PICK X \in Seq(Stmt \union Frames) : X = <<Top.kids[1], f, Top.kids[2], g>>
      BY <2>4
    <2>6. /\ DOMAIN X = {1, 2, 3, 4}
          /\ X[1] = Top.kids[1] /\ X[2] = f /\ X[3] = Top.kids[2] /\ X[4] = g
      BY <2>5
    <2>7. work' = X \o Tail(work) /\ X \in Visits
      BY <2>1, <2>5 DEF Under, Visits
    <2>8. New(2) \notin DOMAIN code /\ New(3) \notin DOMAIN code /\ New(4) \notin DOMAIN code
      <3>1. 2 \in 1 .. 4 /\ 3 \in 1 .. 4 /\ 4 \in 1 .. 4
        OBVIOUS
      <3> QED BY <2>1, <3>1 DEF Wrote
    <2>9. \A i \in DOMAIN X : Owned(X[i]) \intersect DOMAIN code = {}
      BY <2>1, <2>3, <2>6, <2>8, StmtIsNoFrame
    <2> QED BY <2>1, <2>7, <2>8, <2>9, DeadStep
  <1>6. CASE \/ InfiniteLoopEnd \/ ConditionalLoopEnd \/ DomainLoopEnd \/ InnerLoopEnd
             \/ ConditionalEnd \/ IfBranchEnd \/ ElseBranchEnd
    BY <1>6, EndStep, DeadEnd
  <1> QED BY <1>1, <1>2, <1>3, <1>4, <1>5, <1>6 DEF Next

(* The visits end with that of the routine.                                *)
LEMMA NextLeavesWork ==
  ASSUME GenInv, Next, ~RoutineEnd
  PROVE  work' # <<>>
  <1>1. PICK X : Starts(X)
    BY NextStarts
  <1>2. /\ work \in Visits /\ work # <<>> /\ 1 \in DOMAIN work /\ Top = work[1]
        /\ X \in Visits /\ work' = X \o Tail(work)
    BY <1>1, WorkForm DEF Starts, Visits, Under
  <1>3. Top.op # "RoutineEnd"
    <2>1. CASE Top \in Stmt
      BY <2>1, StmtIsNoFrame DEF FrameOps
    <2>2. CASE Top \in Frames
      BY <2>2 DEF Next, visitBlock, visitPlain, visitReturn, visitBreak, visitContinue, Jump,
                  visitInfiniteLoop, InfiniteLoopEnd, visitWhile, visitDoWhile, visitConditionalLoop,
                  ConditionalLoopEnd, visitBreakable, visitInner, visitDomainLoop, DomainLoopEnd,
                  InnerLoopEnd, LoopDone, visitConditional, ConditionalEnd, visitConditionalElse,
                  IfBranchEnd, ElseBranchEnd, Visiting
    <2>3. Top \in Stmt \union Frames
      BY <1>2 DEF Visits
    <2> QED BY <2>1, <2>2, <2>3
  <1>4. Len(work) # 1
    BY <1>2, <1>3 DEF GenInv, BlockInv, WorkInv
  <1>a. DOMAIN work = 1 .. Len(work) /\ Len(work) \in Nat
    BY <1>2 DEF Visits
  <1>5. 2 \in DOMAIN work \ {1}
    BY <1>2, <1>4, <1>a
  <1>6. 2 + Len(X) - 1 \in DOMAIN work'
    BY <1>2, <1>5, OlderVisits DEF Visits
  <1> QED BY <1>6

LEMMA LiveStep ==
  ASSUME GenInv, Paired, NEW L, LiveSet(L), Next
  PROVE  \E M : LiveSet(M)' /\ (work' = <<>> => Entry \in M)
  <1>1. CASE RoutineEnd
    BY <1>1, LiveLast
  <1>2. CASE ~RoutineEnd
    <2>1. work' # <<>>
      BY <1>2, NextLeavesWork
    <2>2. \E M : LiveSet(M)'
      <3>1. CASE ip \notin L
        BY <3>1, <1>2, LiveDead
      <3>2. CASE ip \in L /\ (visitPlain \/ visitBlock \/ visitReturn \/ visitContinue)
        BY <3>2, LivePlain, LiveBlockStep, LiveReturn, LiveContinue
      <3>3. CASE ip \in L /\ (visitBreak \/ visitInfiniteLoop \/ visitConditionalElse)
        BY <3>3, LiveBreak, LiveLoop, LiveElse
      <3>4. CASE /\ ip \in L
                 /\ visitWhile \/ visitDoWhile \/ visitBreakable \/ visitInner \/ visitConditional
        BY <3>4, TestStep, LiveTested
      <3>5. CASE /\ ip \in L
                 /\ \/ InfiniteLoopEnd \/ ConditionalLoopEnd \/ DomainLoopEnd \/ InnerLoopEnd
                    \/ ConditionalEnd \/ IfBranchEnd \/ ElseBranchEnd
        BY <3>5, EndStep, LiveEnd
      <3> QED BY <1>2, <3>1, <3>2, <3>3, <3>4, <3>5 DEF Next
    <2> QED BY <2>1, <2>2
  <1> QED BY <1>1, <1>2

(* The code is run in the blocks of such a set.                            *)
OnPath(L) == \E b \in L : \E k \in DOMAIN code[b] : pc = <<b, k>>

LiveInv ==
  /\ FormInv
  /\ phase \in {"codegen", "run"} =>
       \E L : /\ LiveSet(L)
              /\ work = <<>> => Entry \in L
              /\ phase = "codegen" => pc = <<Entry, 1>>
              /\ phase = "run" => work = <<>> /\ OnPath(L)

LEMMA AllSealed ==
  ASSUME GenInv, work = <<>>, NEW b \in DOMAIN code
  PROVE  Sealed(code[b]) /\ code[b] \in Seq(Instr) /\ 1 \in DOMAIN code[b]
  <1>1. code[b] \in Seq(Instr)
    BY DEF GenInv, BlockInv, TypeOK
  <1>2. Sealed(code[b])
    BY DEF GenInv, BlockInv, SealedInv
  <1>3. code[b] # <<>>
    BY <1>2 DEF Sealed
  <1> QED BY <1>1, <1>2, <1>3

(* What EnsureReturnPass accepts must return.                              *)
LEMMA AcceptedMust ==
  ASSUME InitRoutine, phase = "codegen"
  PROVE  Must(ast)
  <1>1. /\ ast \in Stmt /\ src[1] \in {"procedure", "function"}
        /\ src[2] \in Parsed /\ src[2].op = "block"
        /\ ast = EnsuredReturn(src[1], Built[src[2]])
        /\ EnsureReturnAccepts(src[1], Built[src[2]])
    <2>1. src \in Source /\ ast \in Stmt
      BY StmtAssumption DEF InitRoutine, RunInit, Init
    <2>2. ast = EnsuredReturn(src[1], Built[src[2]])
      BY DEF InitRoutine, Compiled
    <2>3. Accepted(src[1], src[2])
      BY DEF InitRoutine
    <2> QED BY <2>1, <2>2, <2>3, SourceAssumption DEF Accepted
  <1>2. Built[src[2]] = [src[2] EXCEPT !.kids = OnKids(Built, src[2])]
    <2>1. BuildNode(src[2], OnKids(Built, src[2])) = [src[2] EXCEPT !.kids = OnKids(Built, src[2])]
      BY <1>1 DEF BuildNode, Leaf
    <2> QED BY <1>1, <2>1, BuiltIs
  <1>3. Built[src[2]].op = "block" /\ DOMAIN Built[src[2]] = {"op", "at", "kids"}
        /\ Built[src[2]].kids = OnKids(Built, src[2])
    BY <1>1, <1>2, ParsedForm
  <1>4. CASE src[1] = "function"
    <2>1. ast = Built[src[2]] /\ Returns[ast]
      BY <1>1, <1>4 DEF EnsuredReturn, EnsureReturnAccepts
    <2> QED BY <1>3, <2>1 DEF Must
  <1>5. CASE src[1] = "procedure"
    <2>1. OnKids(Built, src[2]) \in Seq(LoweredStmts)
      BY <1>1, BuiltKids
    <2>2. PICK s \in Seq(LoweredStmts) : s = OnKids(Built, src[2])
      BY <2>1
    <2>3. ast = [Built[src[2]] EXCEPT !.kids = Append(s, AddedReturn)]
      BY <1>1, <1>3, <1>5, <2>2 DEF EnsuredReturn
    <2>4. ast.op = "block" /\ ast.kids = Append(s, AddedReturn)
      BY <1>3, <2>3
    <2>5. Len(s) + 1 \in DOMAIN ast.kids /\ ast.kids[Len(s) + 1] = AddedReturn
      BY <2>4
    <2>6. ReturnsAt(ast, OnKids(Returns, ast))
      BY <2>4, <2>5 DEF ReturnsAt, AddedReturn
    <2> QED BY <1>1, <2>4, <2>6, ReturnsIs DEF Must
  <1> QED BY <1>1, <1>4, <1>5

LEMMA LiveInit ==
  ASSUME InitRoutine
  PROVE  LiveInv
  <1>1. GenInv
    BY InitInv DEF InitRoutine
  <1>2. PICK f : f = Frame("RoutineEnd", <<>>)
    OBVIOUS
  <1>3. /\ work = <<ast, f>> /\ DOMAIN work = {1, 2} /\ work[1] = ast /\ work[2] = f /\ work # <<>>
        /\ code = <<<<>>, <<>>>> /\ DOMAIN code = {1, 2} /\ code[1] = <<>> /\ code[2] = <<>>
        /\ ip = 2 /\ pc = <<Entry, 1>> /\ phase \in {"codegen", "rejected"}
        /\ ast \in Stmt
    BY <1>2, StmtAssumption DEF InitRoutine, Init, RunInit, Body
  <1>4. /\ ast.op \notin FrameOps /\ Owned(ast) = {}
        /\ f.op = "RoutineEnd" /\ Owned(f) = {1}
    BY <1>2, <1>3, StmtIsNoFrame DEF Frame, Owned, LoopEnds, CondEnds, Entry
  <1>5. FormInv
    <2>1. \A b \in DOMAIN code : Formed(code[b])
      BY <1>3, FormedWritten
    <2>2. \A i \in DOMAIN work : work[i].op # "IfBranchEnd"
      BY <1>3, <1>4 DEF FrameOps, CondEnds
    <2> QED BY <1>1, <2>1, <2>2 DEF FormInv, CodeForm, Paired
  <1>6. ASSUME phase = "codegen" PROVE LiveSet({2})
    <2>1. Safe(work, 1)
      BY <1>1, <1>3, <1>6, AcceptedMust, WorkForm, SafeHere
    <2>2. LiveCode(code, {2})
      BY <1>3, LivelyCode DEF LiveCode, Body
    <2>3. \A i \in DOMAIN work : work[i].op \notin LoopEnds /\ ~OwnsLive(work[i], {2})
      BY <1>3, <1>4 DEF FrameOps, LoopEnds, OwnsLive
    <2>4. LiveAt(work, ip, {2})
      BY <2>1, <2>3 DEF LiveAt
    <2> QED BY <2>2, <2>4 DEF LiveSet
  <1> QED BY <1>3, <1>5, <1>6 DEF LiveInv

LEMMA BranchOnPath ==
  ASSUME GenInv, work = <<>>, NEW L, LiveSet(L), NEW b \in L, NEW k \in DOMAIN code[b],
         NEW m \in DOMAIN code[b][k].to
  PROVE  code[b][k].to[m] \in L /\ 1 \in DOMAIN code[code[b][k].to[m]]
  <1>1. code[b][k].to[m] \in L /\ L \subseteq DOMAIN code
    BY DEF LiveSet, LiveCode, Lively, BranchesInto
  <1>2. code[b][k].to[m] \in DOMAIN code
    BY <1>1
  <1>3. \A c \in DOMAIN code : 1 \in DOMAIN code[c]
    BY AllSealed
  <1> QED BY <1>1, <1>2, <1>3, Zenon

LEMMA RunStep ==
  ASSUME LiveInv, Approach \/ \E outcome \in BOOLEAN : Perform(outcome)
  PROVE  \E L : LiveSet(L) /\ Entry \in L /\ OnPath(L)'
  <1>0. phase = "run" /\ code' = code
    BY DEF Approach, Perform, BothShow, gvars
  <1>1. PICK L : LiveSet(L) /\ Entry \in L /\ work = <<>> /\ OnPath(L)
    BY <1>0 DEF LiveInv
  <1>a. PICK b \in L : \E k \in DOMAIN code[b] : pc = <<b, k>>
    BY <1>1 DEF OnPath
  <1>2. PICK k \in DOMAIN code[b] : pc = <<b, k>>
    BY <1>a
  <1>3. GenInv /\ CodeForm /\ b \in DOMAIN code
    BY <1>1 DEF LiveInv, FormInv, LiveSet, LiveCode
  <1>4. Sealed(code[b]) /\ code[b] \in Seq(Instr)
    BY <1>1, <1>3, AllSealed
  <1>5. PICK i \in Instr : i = code[b][k] /\ Current = i
    BY <1>2, <1>4 DEF Current
  <1>6. i.op \in Terminators \union {"do", "eval", "enter"}
    BY DEF Instr
  <1>7. /\ i.op = "br" => 1 \in DOMAIN i.to
        /\ i.op = "condbr" => 1 \in DOMAIN i.to
        /\ i.op = "eval" => k + 1 \in DOMAIN code[b] /\ code[b][k + 1].op = "condbr"
    BY <1>3, <1>5 DEF CodeForm, Formed
  <1>8. ASSUME NEW h \in DOMAIN code[b], NEW m \in DOMAIN code[b][h].to,
               pc' = <<code[b][h].to[m], 1>>
        PROVE  OnPath(L)'
    <2>1. code[b][h].to[m] \in L /\ 1 \in DOMAIN code[code[b][h].to[m]]
      BY <1>1, <1>3, BranchOnPath
    <2>2. PICK c \in L : c = code[b][h].to[m]
      BY <2>1
    <2> QED BY <1>0, <1>8, <2>1, <2>2 DEF OnPath
  <1>9. CASE Approach
    <2>1. CASE CodeShows
      BY <1>0, <1>1, <1>9, <2>1 DEF Approach, OnPath
    <2>2. CASE ~CodeShows
      <3>1. pc' = <<i.to[1], 1>> /\ i.op \in {"br", "condbr"}
        BY <1>5, <1>6, <1>9, <2>2 DEF Approach, CodeShows, Terminators
      <3> QED BY <1>1, <1>5, <1>7, <1>8, <3>1
    <2> QED BY <1>1, <2>1, <2>2
  <1>10. ASSUME NEW outcome \in BOOLEAN, Perform(outcome) PROVE OnPath(L)'
    <2>1. i.op \in {"do", "eval", "enter"} /\ pc' = CodeResumed(outcome)
      BY <1>5, <1>10 DEF Perform, BothShow, CodeShows
    <2>2. CASE i.op = "eval"
      <3>1. pc' = <<code[b][k + 1].to[IF outcome THEN 1 ELSE 2], 1>>
        BY <1>2, <1>5, <2>1, <2>2 DEF CodeResumed
      <3>2. (IF outcome THEN 1 ELSE 2) \in DOMAIN code[b][k + 1].to
        BY <1>3, <1>7, <2>2 DEF CodeForm, Formed
      <3> QED BY <1>7, <1>8, <2>2, <3>1, <3>2
    <2>3. CASE i.op \in {"do", "enter"}
      <3>1. pc' = <<b, k + 1>>
        BY <1>2, <1>5, <2>1, <2>3 DEF CodeResumed, Following
      <3>2. ~IsTerminator(code[b][k])
        BY <1>5, <2>3 DEF IsTerminator, Terminators
      <3>3. k # Len(code[b])
        BY <1>4, <3>2 DEF Sealed
      <3>4. k + 1 \in DOMAIN code[b]
        BY <1>4, <3>3
      <3> QED BY <1>0, <3>1, <3>4 DEF OnPath
    <2> QED BY <2>1, <2>2, <2>3
  <1> QED BY <1>1, <1>9, <1>10

LEMMA LiveKept ==
  ASSUME LiveInv, [NextRoutine]_vars
  PROVE  LiveInv'
  <1>1. CASE Generate
    <2>1. FormInv /\ Next /\ phase = "codegen" /\ phase' = phase /\ pc' = pc
      BY <1>1 DEF Generate, LiveInv, rvars
    <2>2. FormInv'
      BY <2>1, FormStep
    <2>3. PICK L : LiveSet(L) /\ pc = <<Entry, 1>>
      BY <2>1 DEF LiveInv
    <2>4. PICK M : LiveSet(M)' /\ (work' = <<>> => Entry \in M)
      BY <2>1, <2>3, LiveStep DEF FormInv
    <2> QED BY <2>1, <2>2, <2>3, <2>4 DEF LiveInv
  <1>2. ASSUME UNCHANGED gvars PROVE FormInv' /\ \A L : LiveSet(L)' <=> LiveSet(L)
    <2>1. GenInv <=> GenInv'
      BY <1>2 DEF gvars, GenInv, BlockInv, TypeOK, WorkInv, WaitingInv, SealedInv, PlacedInv,
                  LoopInv, IsLoopStack
    <2>2. FormInv'
      BY <1>2, <2>1 DEF LiveInv, FormInv, CodeForm, Paired, gvars
    <2> QED BY <1>2, <2>2 DEF LiveSet, gvars
  <1>3. CASE Start
    <2>1. UNCHANGED gvars /\ phase = "codegen" /\ work = <<>> /\ phase' = "run" /\ pc' = pc
      BY <1>3 DEF Start, Done
    <2>2. PICK L : LiveSet(L) /\ Entry \in L /\ pc = <<Entry, 1>>
      BY <2>1 DEF LiveInv
    <2>3. 1 \in DOMAIN code[Entry]
      BY <2>1, <2>2, AllSealed DEF LiveInv, FormInv, LiveSet, LiveCode
    <2>4. OnPath(L)'
      BY <2>1, <2>2, <2>3 DEF OnPath, gvars
    <2> QED BY <1>2, <2>1, <2>2, <2>4 DEF LiveInv, gvars
  <1>4. CASE Approach \/ \E outcome \in BOOLEAN : Perform(outcome)
    <2>1. UNCHANGED gvars /\ phase = "run" /\ phase' = "run"
      BY <1>4 DEF Approach, Perform, BothShow
    <2>2. PICK L : LiveSet(L) /\ Entry \in L /\ OnPath(L)'
      BY <1>4, RunStep
    <2>3. work = <<>>
      BY <2>1 DEF LiveInv
    <2> QED BY <1>2, <2>1, <2>2, <2>3 DEF LiveInv, gvars
  <1>5. CASE Leave
    <2>1. UNCHANGED gvars /\ phase' = "returned"
      BY <1>5 DEF Leave
    <2> QED BY <1>2, <2>1 DEF LiveInv
  <1>6. CASE UNCHANGED vars
    <2>1. UNCHANGED gvars /\ phase' = phase /\ pc' = pc
      BY <1>6 DEF vars, rvars
    <2> QED BY <1>2, <2>1 DEF LiveInv, OnPath, gvars
  <1> QED BY <1>1, <1>3, <1>4, <1>5, <1>6 DEF NextRoutine

(* The unreachable that ends every routine is never executed, whatever the *)
(* conditions: when code generation comes to the end of a routine that     *)
(* EnsureReturnPass has accepted, no block that is executed leads there.   *)
THEOREM EndIsNotReached == SpecRoutine => []NeverUnreachable
  <1>1. InitRoutine => LiveInv
    BY LiveInit
  <1>2. LiveInv /\ [NextRoutine]_vars => LiveInv'
    BY LiveKept
  <1>3. LiveInv => NeverUnreachable
    <2> SUFFICES ASSUME LiveInv, phase = "run" PROVE Current.op # "unreachable"
      BY DEF NeverUnreachable
    <2>1. PICK L : LiveSet(L) /\ OnPath(L)
      BY DEF LiveInv
    <2>2. PICK b \in L : \E k \in DOMAIN code[b] : pc = <<b, k>>
      BY <2>1 DEF OnPath
    <2>3. PICK k \in DOMAIN code[b] : pc = <<b, k>>
      BY <2>2
    <2>4. Lively(code[b], L)
      BY <2>1 DEF LiveSet, LiveCode
    <2> QED BY <2>3, <2>4 DEF Lively, Current
  <1> QED BY <1>1, <1>2, <1>3, PTL DEF SpecRoutine
=============================================================================
