------------------------- MODULE VectorStore_proofs -------------------------
(***************************************************************************)
(* Theorems about VectorStore: for every set of vectors, blocks and        *)
(* statements, vectors keep their own data and behave as values.           *)
(***************************************************************************)
EXTENDS VectorStore, SequenceTheorems, TLAPS

(* Vectors are sequences, and index vectors are too.                       *)
LEMMA VectorIsSeq ==
  ASSUME NEW w \in Vectors
  PROVE  /\ w \in Seq(Elements)
         /\ Len(w) \in 0 .. MaxLen
         /\ Len(w) \in Nat
         /\ DOMAIN w = 1 .. Len(w)
         /\ w \in [1 .. Len(w) -> Elements]
<1>1. PICK k \in 0 .. MaxLen : w \in [1 .. k -> Elements]
  BY DEF Vectors
<1>2. k \in Nat
  BY LengthAssumption
<1>3. w \in Seq(Elements)
  BY <1>1, <1>2, SeqDef
<1>4. Len(w) = k
  BY <1>1, <1>2, <1>3, LenProperties
<1> QED
  BY <1>1, <1>2, <1>3, <1>4

LEMMA MakeVector ==
  ASSUME NEW k \in 0 .. MaxLen, NEW f \in [1 .. k -> Elements]
  PROVE  f \in Vectors /\ Len(f) = k
<1>1. k \in Nat
  BY LengthAssumption
<1>2. f \in Vectors
  BY DEF Vectors
<1> QED
  BY <1>1, <1>2, VectorIsSeq

LEMMA SeqIdxFacts ==
  ASSUME NEW k \in Nat
  PROVE  /\ SeqIdx(k) \in Seq(Nat)
         /\ Len(SeqIdx(k)) = k
         /\ \A i \in 1 .. k : SeqIdx(k)[i] = i
<1>1. SeqIdx(k) \in [1 .. k -> Nat]
  BY DEF SeqIdx
<1>2. SeqIdx(k) \in Seq(Nat)
  BY <1>1, SeqDef
<1>3. Len(SeqIdx(k)) = k
  BY <1>1, <1>2, LenProperties
<1> QED
  BY <1>2, <1>3 DEF SeqIdx

(* A write inside a vector leaves a vector of the same length.             *)
LEMMA PutKeepsVector ==
  ASSUME NEW w \in Vectors, NEW p \in DOMAIN w, NEW x \in Elements
  PROVE  /\ [w EXCEPT ![p] = x] \in Vectors
         /\ Len([w EXCEPT ![p] = x]) = Len(w)
<1>1. w \in [1 .. Len(w) -> Elements] /\ Len(w) \in 0 .. MaxLen
  BY VectorIsSeq
<1>2. [w EXCEPT ![p] = x] \in [1 .. Len(w) -> Elements]
  BY <1>1
<1> QED
  BY <1>1, <1>2, MakeVector

(* What a structure's elements are.                                        *)
LEMMA ContentIsVector ==
  ASSUME NEW h \in [Blocks -> Vectors], NEW v \in Structs
  PROVE  /\ \A i \in 1 .. Size(v) : Content(h, v)[i] \in Elements
         /\ DOMAIN Content(h, v) = 1 .. Size(v)
<1>1. v.data \in Blocks
  BY DEF Structs
<1>2. h[v.data] \in [1 .. Len(h[v.data]) -> Elements]
  BY <1>1, VectorIsSeq
<1> QED
  BY <1>1, <1>2, ElementAssumption DEF Content

LEMMA DenseContent ==
  ASSUME NEW h \in [Blocks -> Vectors], NEW v \in Structs,
         v.idx = SeqIdx(Len(h[v.data]))
  PROVE  Content(h, v) = h[v.data] /\ Size(v) = Len(h[v.data])
<1> DEFINE w == h[v.data]
<1>1. w \in Vectors
  BY DEF Structs
<1>2. w \in [1 .. Len(w) -> Elements] /\ Len(w) \in Nat
  BY <1>1, VectorIsSeq
<1>3. Size(v) = Len(w) /\ \A i \in 1 .. Len(w) : v.idx[i] = i
  BY <1>2, SeqIdxFacts DEF Size
<1>4. Content(h, v) = [i \in 1 .. Len(w) |-> w[i]]
  BY <1>2, <1>3 DEF Content
<1> QED
  BY <1>2, <1>3, <1>4
-----------------------------------------------------------------------------
(* The parts of a statement.                                               *)
StmtShape(s) ==
  /\ s.op \in {"declare", "assign", "fill", "set"} => s.to \in Names
  /\ s.op \in {"assign", "fill", "set"} => s.at \in Seq(Nat)
  /\ s.op \in {"fill", "set"} => s.elem \in Elements
  /\ s.op = "set" => Len(s.at) = 1 /\ ~s.whole

LEMMA StmtForms ==
  ASSUME NEW s \in Stmts \union {NoStmt}
  PROVE  StmtShape(s)
<1>1. CASE s = NoStmt
  BY <1>1 DEF StmtShape, NoStmt
<1>2. ASSUME NEW n \in Names, NEW e \in Exprs, s = DeclarationOf(n, e)
      PROVE  StmtShape(s)
  BY <1>2 DEF StmtShape, DeclarationOf
<1>3. ASSUME NEW n \in Variables, NEW e \in Exprs, s = AssignAll(n, e)
      PROVE  StmtShape(s)
  BY <1>3 DEF StmtShape, AssignAll, Names
<1>4. ASSUME NEW n \in Names, NEW at \in Indices, NEW e \in Exprs, s = AssignSlice(n, at, e)
      PROVE  StmtShape(s)
  BY <1>4, IndexAssumption DEF StmtShape, AssignSlice
<1>5. ASSUME NEW n \in Variables, NEW x \in Elements, s = FillAll(n, x)
      PROVE  StmtShape(s)
  BY <1>5 DEF StmtShape, FillAll, Names
<1>6. ASSUME NEW n \in Names, NEW at \in Indices, NEW x \in Elements, s = FillSlice(n, at, x)
      PROVE  StmtShape(s)
  BY <1>6, IndexAssumption DEF StmtShape, FillSlice
<1>7. ASSUME NEW n \in Names, NEW i \in 0 .. MaxLen + 1, NEW x \in Elements,
             s = SetElement(n, i, x)
      PROVE  StmtShape(s)
  <2>1. i \in Nat
    BY LengthAssumption
  <2>2. <<i>> \in Seq(Nat) /\ Len(<<i>>) = 1
    BY <2>1
  <2> QED
    BY <1>7, <2>2 DEF StmtShape, SetElement
<1>8. ASSUME NEW e \in Exprs, s = MatrixRow(e)
      PROVE  StmtShape(s)
  BY <1>8 DEF StmtShape, MatrixRow
<1> QED
  BY <1>1, <1>2, <1>3, <1>4, <1>5, <1>6, <1>7, <1>8 DEF Stmts
-----------------------------------------------------------------------------
(* While a vector is copied: the target is what the statement names, the   *)
(* source is whole and is not the target.                                  *)
CopyShape ==
  Copying =>
    /\ stmt.op \in {"assign", "fill"}
    /\ copy.to = Target
    /\ Size(copy.from) = Size(copy.to)
    /\ copy.from.idx = SeqIdx(Len(heap[copy.from.data]))
    /\ copy.from.data # copy.to.data
    /\ Len(copy.was) = Len(heap[copy.to.data])

StoreInv ==
  /\ TypeOK
  /\ OperandsAreDense
  /\ Separated
  /\ freed = {}
  /\ ~Keeps(stmt)
  /\ CopyShape

LEMMA TargetFacts ==
  ASSUME StoreInv, stmt.op \in {"assign", "fill"}
  PROVE  /\ Target \in Structs
         /\ Target.data = env[stmt.to].data
         /\ stmt.to \in Names
<1>1. stmt.to \in Names /\ stmt.at \in Seq(Nat)
  BY StmtForms DEF StoreInv, TypeOK, StmtShape
<1>2. env[stmt.to] \in Structs
  BY <1>1 DEF StoreInv, TypeOK
<1> QED
  BY <1>1, <1>2 DEF Target, Struct, Structs

(* A write through a structure changes no length.                          *)
LEMMA PutKeepsHeap ==
  ASSUME heap \in [Blocks -> Vectors], undefined \in BOOLEAN, InUse \subseteq Blocks,
         NEW b \in Blocks, NEW p, NEW x \in Elements, Put(b, p, x)
  PROVE  /\ heap' \in [Blocks -> Vectors]
         /\ \A c \in Blocks : Len(heap'[c]) = Len(heap[c])
         /\ undefined' \in BOOLEAN
<1>1. ASSUME NEW c \in Blocks, NEW q \in DOMAIN heap[c], heap' = [heap EXCEPT ![c][q] = x]
      PROVE  /\ heap' \in [Blocks -> Vectors]
             /\ \A d \in Blocks : Len(heap'[d]) = Len(heap[d])
  <2>1. heap[c] \in Vectors
    OBVIOUS
  <2>2. /\ [heap[c] EXCEPT ![q] = x] \in Vectors
        /\ Len([heap[c] EXCEPT ![q] = x]) = Len(heap[c])
    BY <2>1, PutKeepsVector
  <2>3. heap' = [heap EXCEPT ![c] = [heap[c] EXCEPT ![q] = x]]
    BY <1>1
  <2> QED
    BY <2>2, <2>3
<1>2. CASE p \in DOMAIN heap[b]
  BY <1>1, <1>2 DEF Put
<1>3. CASE p \notin DOMAIN heap[b] /\ heap' = heap
  BY <1>3 DEF Put
<1>4. CASE p \notin DOMAIN heap[b] /\ heap' # heap
  <2>1. PICK c \in InUse : \E q \in DOMAIN heap[c] : heap' = [heap EXCEPT ![c][q] = x]
    BY <1>4 DEF Put
  <2> QED
    BY <1>1, <1>4, <2>1 DEF Put
<1> QED
  BY <1>2, <1>3, <1>4
-----------------------------------------------------------------------------
(* A fresh vector: its structure, and the heap with its data.              *)
LEMMA FreshFacts ==
  ASSUME StoreInv, NEW w \in Vectors, NEW b \in Free, heap' = [heap EXCEPT ![b] = w]
  PROVE  /\ b \in Blocks /\ b \notin InUse
         /\ Struct(SeqIdx(Len(w)), b) \in Structs
         /\ heap' \in [Blocks -> Vectors]
         /\ heap'[b] = w
         /\ \A n \in Names : heap'[env[n].data] = heap[env[n].data]
<1>1. b \in Blocks /\ b \notin InUse
  BY DEF Free, StoreInv
<1>2. SeqIdx(Len(w)) \in Seq(Nat)
  BY VectorIsSeq, SeqIdxFacts
<1>3. Struct(SeqIdx(Len(w)), b) \in Structs
  BY <1>1, <1>2 DEF Struct, Structs
<1>4. heap \in [Blocks -> Vectors] /\ env \in [Names -> Structs]
  BY DEF StoreInv, TypeOK
<1>5. \A n \in Names : env[n].data \in InUse
  BY DEF InUse
<1> QED
  BY <1>1, <1>3, <1>4, <1>5

LEMMA NoStmtFacts == NoStmt \in Stmts \union {NoStmt} /\ ~Keeps(NoStmt)
BY DEF NoStmt, Keeps

LEMMA EmptyVector == <<>> \in Vectors /\ Len(<<>>) = 0 /\ SeqIdx(0) = <<>>
<1>1. 0 \in 0 .. MaxLen
  BY LengthAssumption
<1>2. <<>> \in [1 .. 0 -> Elements]
  OBVIOUS
<1>3. <<>> \in Vectors
  BY <1>1, <1>2 DEF Vectors
<1>4. SeqIdx(0) = <<>>
  BY SeqIdxFacts, EmptySeq
<1> QED
  BY <1>3, <1>4

LEMMA InitStore == Init => StoreInv
<1> SUFFICES ASSUME Init PROVE StoreInv
  OBVIOUS
<1>1. \A n \in Names : \E b \in Blocks : env[n] = Struct(<<>>, b)
  BY DEF Init
<1>2. env \in [Names -> Structs]
  <2>1. \A b \in Blocks : Struct(<<>>, b) \in Structs
    BY DEF Struct, Structs
  <2> QED
    BY <1>1, <2>1 DEF Init
<1>3. TypeOK
  BY <1>2, EmptyVector DEF TypeOK, Init, CopyOK
<1>4. OperandsAreDense
  BY <1>1, EmptyVector DEF OperandsAreDense, Struct, Init
<1>5. Separated
  BY DEF Separated, Init
<1>6. ~Keeps(stmt) /\ CopyShape /\ freed = {}
  BY NoStmtFacts DEF Init, CopyShape, Copying
<1> QED
  BY <1>3, <1>4, <1>5, <1>6 DEF StoreInv

LEMMA StoreBegin ==
  ASSUME KeepMembers = FALSE, StoreInv, Begin
  PROVE  StoreInv'
<1>1. PICK s \in Stmts : ~Keeps(s) /\ stmt' = s
  BY DEF Begin
<1>2. ~Copying
  BY DEF StoreInv, CopyShape, Begin, NoStmt
<1>3. TypeOK'
  BY <1>1 DEF StoreInv, TypeOK, CopyOK, Begin, Size
<1>4. OperandsAreDense' /\ Separated' /\ freed' = {}
  BY DEF StoreInv, OperandsAreDense, Separated, Begin
<1>5. ~Keeps(stmt)'
  BY <1>1 DEF Keeps, IsMember
<1>6. CopyShape'
  BY <1>2 DEF CopyShape, Copying, Begin
<1> QED
  BY <1>3, <1>4, <1>5, <1>6 DEF StoreInv

LEMMA StoreDeclaration ==
  ASSUME StoreInv, visitDeclaration
  PROVE  StoreInv'
<1>1. PICK w \in Vectors, b \in Free :
         /\ env' = [env EXCEPT ![stmt.to] = Yields(stmt.expr, w, b)]
         /\ heap' = [heap EXCEPT ![b] = w]
         /\ freed' = freed \ {b}
  BY DEF visitDeclaration
<1> DEFINE v == Struct(SeqIdx(Len(w)), b)
<1>2. Yields(stmt.expr, w, b) = v
  BY DEF visitDeclaration, StoreInv, Keeps, Yields
<1>3. stmt.to \in Names /\ ~Copying
  BY StmtForms DEF StoreInv, TypeOK, StmtShape, visitDeclaration, CopyShape
<1>4. /\ b \in Blocks /\ b \notin InUse /\ v \in Structs
      /\ heap' \in [Blocks -> Vectors] /\ heap'[b] = w
      /\ \A n \in Names : heap'[env[n].data] = heap[env[n].data]
  BY <1>1, FreshFacts
<1>5. env \in [Names -> Structs] /\ env' = [env EXCEPT ![stmt.to] = v]
  BY <1>1, <1>2 DEF StoreInv, TypeOK
<1>6. env' \in [Names -> Structs]
  BY <1>3, <1>4, <1>5
<1>7. freed' = {} /\ copy' = copy /\ stmt' = NoStmt /\ UNCHANGED <<undefined, exited>>
  BY <1>1 DEF StoreInv, visitDeclaration
<1>8. TypeOK'
  BY <1>4, <1>6, <1>7, NoStmtFacts DEF StoreInv, TypeOK, CopyOK, Size
<1>9. OperandsAreDense'
  BY <1>3, <1>4, <1>5 DEF StoreInv, OperandsAreDense, Struct
<1>10. Separated'
  BY <1>3, <1>4, <1>5 DEF StoreInv, Separated, Struct, InUse
<1>11. CopyShape' /\ ~Keeps(stmt)'
  <2>1. CopyShape'
    BY <1>3, <1>7 DEF CopyShape, Copying
  <2>2. ~Keeps(stmt')
    BY <1>7, NoStmtFacts
  <2> QED
    BY <2>1, <2>2 DEF Keeps, IsMember
<1> QED
  BY <1>7, <1>8, <1>9, <1>10, <1>11 DEF StoreInv

(* A copy starts from a dense vector that is not the one it writes.        *)
LEMMA StoreAssignment ==
  ASSUME StoreInv, visitAssignment
  PROVE  StoreInv'
<1>1. PICK w \in Vectors, b \in Free :
         /\ heap' = [heap EXCEPT ![b] = w]
         /\ freed' = freed \ {b}
         /\ \/ /\ stmt.op = "assign"
               /\ rt_vector_copy(Yields(stmt.expr, w, b))
            \/ rt_vector_copy(Struct(SeqIdx(Len(w)), b))
  BY DEF visitAssignment
<1> DEFINE v == Struct(SeqIdx(Len(w)), b)
<1>2. stmt.op \in {"assign", "fill"} /\ ~Copying /\ UNCHANGED <<env, stmt, undefined>>
  BY DEF visitAssignment
<1>3. /\ b \in Blocks /\ b \notin InUse /\ v \in Structs
      /\ heap' \in [Blocks -> Vectors] /\ heap'[b] = w
      /\ \A n \in Names : heap'[env[n].data] = heap[env[n].data]
  BY <1>1, FreshFacts
<1>4. /\ Target \in Structs
      /\ Target.data = env[stmt.to].data
      /\ stmt.to \in Names
  BY <1>2, TargetFacts
<1>5. heap'[Target.data] = heap[Target.data] /\ Target.data # b
  BY <1>3, <1>4 DEF InUse
<1>6. PICK from : /\ rt_vector_copy(from)
                  /\ from \in Structs
                  /\ from.idx = SeqIdx(Len(heap'[from.data]))
                  /\ from.data # Target.data
  <2>1. CASE rt_vector_copy(v)
    <3>1. v.idx = SeqIdx(Len(w)) /\ v.data = b
      BY DEF Struct
    <3> QED
      BY <1>3, <1>5, <2>1, <3>1
  <2>2. CASE stmt.op = "assign" /\ rt_vector_copy(Yields(stmt.expr, w, b)) /\ IsMember(stmt.expr)
    <3>1. stmt.expr.of \in Names /\ stmt.expr.of # stmt.to
      BY <2>2 DEF IsMember, Names, StoreInv, Keeps
    <3>2. env[stmt.expr.of] \in Structs
      BY <3>1 DEF StoreInv, TypeOK
    <3>3. env[stmt.expr.of].idx = SeqIdx(Len(heap'[env[stmt.expr.of].data]))
      BY <1>3, <3>1 DEF StoreInv, OperandsAreDense
    <3>4. env[stmt.expr.of].data # Target.data
      BY <1>4, <3>1 DEF StoreInv, Separated
    <3>5. rt_vector_copy(env[stmt.expr.of])
      BY <2>2 DEF Yields
    <3> QED
      BY <3>2, <3>3, <3>4, <3>5
  <2> QED
    BY <1>1, <2>1, <2>2 DEF Yields
<1>7. /\ freed' = {} /\ heap \in [Blocks -> Vectors]
      /\ heap[Target.data] \in Vectors
  BY <1>1, <1>4 DEF StoreInv, TypeOK, Structs
<1>8. Target' = Target /\ exited' \in BOOLEAN
  BY <1>2, <1>6 DEF Target, rt_vector_copy, StoreInv, TypeOK
<1>9. CASE Size(from) # Size(Target)
  <2>1. UNCHANGED copy /\ copy = NoCopy
    BY <1>2, <1>6, <1>9 DEF rt_vector_copy, Copying
  <2>2. TypeOK'
    BY <1>2, <1>3, <1>7, <1>8, <2>1 DEF StoreInv, TypeOK, CopyOK
  <2>3. CopyShape'
    BY <2>1 DEF CopyShape, Copying
  <2> QED
    BY <1>2, <1>3, <1>7, <2>2, <2>3
    DEF StoreInv, OperandsAreDense, Separated, Keeps, IsMember
<1>10. CASE Size(from) = Size(Target)
  <2>1. copy' = [done |-> 0, from |-> from, to |-> Target, was |-> heap[Target.data]]
    BY <1>6, <1>10 DEF rt_vector_copy
  <2>2. Size(from) \in Nat
    BY <1>6 DEF Structs, Size
  <2>3. TypeOK'
    BY <1>2, <1>3, <1>4, <1>6, <1>7, <1>8, <2>1, <2>2 DEF StoreInv, TypeOK, CopyOK, Size
  <2>4. CopyShape'
    BY <1>2, <1>5, <1>6, <1>8, <1>10, <2>1 DEF CopyShape, Copying, Size
  <2> QED
    BY <1>2, <1>3, <1>7, <2>3, <2>4
    DEF StoreInv, OperandsAreDense, Separated, Keeps, IsMember
<1> QED
  BY <1>9, <1>10

(* Copying is made of writes of elements.                                  *)
LEMMA CopyFacts ==
  ASSUME StoreInv, Copying
  PROVE  /\ copy \in [done : Nat, from : Structs, to : Structs, was : Vectors]
         /\ copy.done <= Size(copy.from)
         /\ Size(copy.from) \in Nat
         /\ copy.to.data = env[stmt.to].data
         /\ stmt.to \in Names
<1>1. copy \in [done : Nat, from : Structs, to : Structs, was : Vectors]
  BY DEF StoreInv, TypeOK, CopyOK, Copying
<1>2. copy.done <= Size(copy.from)
  BY DEF StoreInv, TypeOK, CopyOK, Copying
<1>3. Size(copy.from) \in Nat
  BY <1>1 DEF Structs, Size
<1>4. copy.to.data = env[stmt.to].data /\ stmt.to \in Names
  BY TargetFacts DEF StoreInv, CopyShape
<1> QED
  BY <1>1, <1>2, <1>3, <1>4

LEMMA InUseBlocks == ASSUME StoreInv PROVE InUse \subseteq Blocks
BY DEF StoreInv, TypeOK, InUse, Structs

LEMMA StoreCopyStep ==
  ASSUME StoreInv, CopyStep
  PROVE  StoreInv'
<1> DEFINE i == copy.done + 1
           x == Content(heap, copy.from)[i]
<1>1. /\ copy \in [done : Nat, from : Structs, to : Structs, was : Vectors]
      /\ copy.done < Size(copy.from)
      /\ Size(copy.from) \in Nat
  BY CopyFacts DEF CopyStep
<1>2. Put(copy.to.data, copy.to.idx[i], x)
  BY DEF CopyStep
<1>3. copy.to.data \in Blocks /\ copy.from.data \in Blocks /\ copy.from \in Structs
  BY <1>1 DEF Structs
<1>4. heap \in [Blocks -> Vectors] /\ undefined \in BOOLEAN
  BY DEF StoreInv, TypeOK
<1>5. x \in Elements
  BY <1>1, <1>3, <1>4, ContentIsVector
<1> HIDE DEF x, i
<1>6. /\ heap' \in [Blocks -> Vectors]
      /\ \A c \in Blocks : Len(heap'[c]) = Len(heap[c])
      /\ undefined' \in BOOLEAN
  BY <1>2, <1>3, <1>4, <1>5, InUseBlocks, PutKeepsHeap
<1>7. copy' = [copy EXCEPT !.done = @ + 1] /\ UNCHANGED <<env, freed, stmt, exited>>
  BY DEF CopyStep
<1>8. /\ copy' \in [done : Nat, from : Structs, to : Structs, was : Vectors]
      /\ copy'.done = copy.done + 1
      /\ copy'.from = copy.from /\ copy'.to = copy.to /\ copy'.was = copy.was
  BY <1>1, <1>7
<1>9. TypeOK'
  BY <1>1, <1>6, <1>7, <1>8 DEF StoreInv, TypeOK, CopyOK, Size
<1>10. OperandsAreDense'
  <2>1. \A n \in Names : env[n].data \in Blocks
    BY DEF StoreInv, TypeOK, Structs
  <2> QED
    BY <1>6, <1>7, <2>1 DEF StoreInv, OperandsAreDense
<1>11. CopyShape'
  <2>1. Copying
    BY DEF CopyStep
  <2>2. Target' = Target
    BY <1>7 DEF Target
  <2> QED
    BY <1>3, <1>6, <1>7, <1>8, <2>1, <2>2 DEF StoreInv, CopyShape, Size
<1> QED
  BY <1>7, <1>9, <1>10, <1>11 DEF StoreInv, Separated, Keeps, IsMember

LEMMA StoreCopyEnd ==
  ASSUME StoreInv, CopyEnd
  PROVE  StoreInv'
<1>1. /\ copy' = NoCopy /\ stmt' = NoStmt /\ heap' = Reachable(heap, env)
      /\ UNCHANGED <<env, freed, undefined, exited>>
  BY DEF CopyEnd, Done
<1>2. env \in [Names -> Structs] /\ heap \in [Blocks -> Vectors]
  BY DEF StoreInv, TypeOK
<1>3. heap' \in [Blocks -> Vectors]
  BY <1>1, <1>2, EmptyVector DEF Reachable
<1>4. \A n \in Names : heap'[env[n].data] = heap[env[n].data]
  BY <1>1, <1>2 DEF Reachable, Structs
<1>5. TypeOK'
  BY <1>1, <1>2, <1>3, NoStmtFacts DEF StoreInv, TypeOK, CopyOK
<1>6. OperandsAreDense' /\ Separated'
  BY <1>1, <1>4 DEF StoreInv, OperandsAreDense, Separated
<1>7. CopyShape'
  BY <1>1 DEF CopyShape, Copying
<1>8. ~Keeps(stmt)'
  BY <1>1, NoStmtFacts DEF Keeps, IsMember
<1> QED
  BY <1>1, <1>5, <1>6, <1>7, <1>8 DEF StoreInv

LEMMA StoreSetElement ==
  ASSUME StoreInv, SetThroughView
  PROVE  StoreInv'
<1>1. stmt.to \in Names /\ stmt.elem \in Elements /\ ~Copying
  BY StmtForms DEF StoreInv, TypeOK, StmtShape, SetThroughView, CopyShape
<1>2. /\ Put(env[stmt.to].data, stmt.at[1], stmt.elem)
      /\ stmt' = NoStmt
      /\ UNCHANGED <<env, freed, copy, exited>>
  BY DEF SetThroughView
<1>3. \A n \in Names : env[n].data \in Blocks
  BY DEF StoreInv, TypeOK, Structs
<1>4. /\ heap' \in [Blocks -> Vectors]
      /\ \A c \in Blocks : Len(heap'[c]) = Len(heap[c])
      /\ undefined' \in BOOLEAN
  BY <1>1, <1>2, <1>3, InUseBlocks, PutKeepsHeap DEF StoreInv, TypeOK
<1>5. TypeOK'
  BY <1>2, <1>4, NoStmtFacts DEF StoreInv, TypeOK, CopyOK, Size
<1>6. OperandsAreDense' /\ Separated'
  BY <1>2, <1>3, <1>4 DEF StoreInv, OperandsAreDense, Separated
<1>7. CopyShape'
  BY <1>1, <1>2 DEF CopyShape, Copying
<1>8. ~Keeps(stmt)'
  BY <1>2, NoStmtFacts DEF Keeps, IsMember
<1> QED
  BY <1>2, <1>5, <1>6, <1>7, <1>8 DEF StoreInv

LEMMA StoreRow ==
  ASSUME StoreInv, visitMatrixLiteral
  PROVE  StoreInv'
<1>1. freed' = freed /\ stmt' = NoStmt /\ UNCHANGED <<env, heap, copy, undefined, exited>>
  BY DEF visitMatrixLiteral, StoreInv, Keeps
<1>2. ~Copying
  BY DEF visitMatrixLiteral, StoreInv, CopyShape
<1>3. TypeOK'
  BY <1>1, NoStmtFacts DEF StoreInv, TypeOK, CopyOK, Size
<1>4. OperandsAreDense' /\ Separated'
  BY <1>1 DEF StoreInv, OperandsAreDense, Separated
<1>5. CopyShape'
  BY <1>1, <1>2 DEF CopyShape, Copying
<1>6. ~Keeps(stmt)'
  BY <1>1, NoStmtFacts DEF Keeps, IsMember
<1> QED
  BY <1>1, <1>3, <1>4, <1>5, <1>6 DEF StoreInv

LEMMA StoreStutter ==
  ASSUME StoreInv, UNCHANGED vars
  PROVE  StoreInv'
<1>1. TypeOK'
  BY DEF StoreInv, TypeOK, CopyOK, vars, Size
<1>2. OperandsAreDense' /\ Separated' /\ ~Keeps(stmt)'
  BY DEF StoreInv, OperandsAreDense, Separated, Keeps, IsMember, vars
<1>3. CopyShape'
  BY DEF StoreInv, CopyShape, Copying, Target, vars, Size
<1> QED
  BY <1>1, <1>2, <1>3 DEF StoreInv, vars

(* As long as no member of a tuple is stored as it is, the store keeps its *)
(* shape: whatever is written, and wherever.                               *)
LEMMA StoreInductive ==
  ASSUME KeepMembers = FALSE
  PROVE  Spec => []StoreInv
<1>1. Init => StoreInv
  BY InitStore
<1>2. StoreInv /\ [Next]_vars => StoreInv'
  <2> SUFFICES ASSUME StoreInv, [Next]_vars PROVE StoreInv'
    OBVIOUS
  <2>1. CASE Begin
    BY <2>1, StoreBegin
  <2>2. CASE visitDeclaration
    BY <2>2, StoreDeclaration
  <2>3. CASE visitAssignment
    BY <2>3, StoreAssignment
  <2>4. CASE CopyStep
    BY <2>4, StoreCopyStep
  <2>5. CASE CopyEnd
    BY <2>5, StoreCopyEnd
  <2>6. CASE SetThroughView
    BY <2>6, StoreSetElement
  <2>7. CASE visitMatrixLiteral
    BY <2>7, StoreRow
  <2>8. CASE UNCHANGED vars
    BY <2>8, StoreStutter
  <2> QED
    BY <2>1, <2>2, <2>3, <2>4, <2>5, <2>6, <2>7, <2>8 DEF Next
<1> QED
  BY <1>1, <1>2, PTL DEF Spec

(* Every reachable state is well typed: a structure's index vector and     *)
(* block, and a copy that is under way.                                    *)
THEOREM TypeCorrect ==
  ASSUME KeepMembers = FALSE
  PROVE  Spec => []TypeOK
<1>1. StoreInv => TypeOK
  BY DEF StoreInv
<1> QED
  BY <1>1, StoreInductive, PTL

(* No two vectors share their data: what visitIdentifier() and             *)
(* visitIndex() copy for.                                                  *)
THEOREM VectorsAreSeparated ==
  ASSUME KeepMembers = FALSE
  PROVE  Spec => []Separated
<1>1. StoreInv => Separated
  BY DEF StoreInv
<1> QED
  BY <1>1, StoreInductive, PTL

(* Reading the data of an operand from its start reads its elements.       *)
THEOREM DenseOperands ==
  ASSUME KeepMembers = FALSE
  PROVE  Spec => []OperandsAreDense
<1>1. StoreInv => OperandsAreDense
  BY DEF StoreInv
<1> QED
  BY <1>1, StoreInductive, PTL

(* A matrix literal frees no data that is in use.                          *)
THEOREM NothingFreed ==
  ASSUME KeepMembers = FALSE
  PROVE  Spec => []NoneFreed
<1>1. StoreInv => NoneFreed
  BY DEF StoreInv, NoneFreed
<1> QED
  BY <1>1, StoreInductive, PTL
-----------------------------------------------------------------------------
(* rt_vector_copy(): the loop invariant.  The element at k is old, or the  *)
(* last of the source that has been written there.                         *)
WrittenAt(k, h, c) == \E j \in 1 .. c.done :
                         /\ c.to.idx[j] = k
                         /\ \A i \in (j + 1) .. c.done : c.to.idx[i] # k
                         /\ h[c.to.data][k] = Content(h, c.from)[j]
KeptAt(k, h, c) == /\ \A j \in 1 .. c.done : c.to.idx[j] # k
                   /\ h[c.to.data][k] = c.was[k]

LEMMA CopyStart ==
  ASSUME StoreInv, visitAssignment
  PROVE  CopyInv'
<1> SUFFICES ASSUME Copying' PROVE CopyInv'
  BY DEF CopyInv
<1>1. PICK w \in Vectors, b \in Free : heap' = [heap EXCEPT ![b] = w]
  BY DEF visitAssignment
<1>2. ~Copying /\ stmt.op \in {"assign", "fill"}
  BY DEF visitAssignment
<1>3. /\ Target.data = env[stmt.to].data
      /\ stmt.to \in Names
  BY <1>2, TargetFacts
<1>4. heap'[Target.data] = heap[Target.data]
  <2>1. \A n \in Names : heap'[env[n].data] = heap[env[n].data]
    BY <1>1, FreshFacts
  <2> QED
    BY <1>3, <2>1
<1>5. copy' # copy
  BY <1>2 DEF Copying
<1>6. \E from : copy' = [done |-> 0, from |-> from, to |-> Target, was |-> heap[Target.data]]
  BY <1>5 DEF visitAssignment, rt_vector_copy
<1>7. copy'.done = 0 /\ copy'.to = Target /\ copy'.was = heap[Target.data]
  BY <1>6
<1>8. copy'.from.data # copy'.to.data
  BY StoreAssignment DEF StoreInv, CopyShape
<1> QED
  BY <1>4, <1>7, <1>8 DEF CopyInv

LEMMA CopyOn ==
  ASSUME StoreInv, CopyInv, CopyStep
  PROVE  CopyInv'
<1> SUFFICES ASSUME ~undefined' PROVE CopyInv'
  BY DEF CopyInv
<1> DEFINE b == copy.to.data
           i == copy.done + 1
           p == copy.to.idx[i]
           x == Content(heap, copy.from)[i]
<1>1. /\ Copying /\ Copying'
      /\ copy' = [copy EXCEPT !.done = @ + 1]
      /\ copy \in [done : Nat, from : Structs, to : Structs, was : Vectors]
      /\ copy.from.data # b
  <2>1. Copying /\ copy' = [copy EXCEPT !.done = @ + 1]
    BY DEF CopyStep
  <2>2. copy \in [done : Nat, from : Structs, to : Structs, was : Vectors]
    BY <2>1, CopyFacts
  <2>3. copy'.done # 0
    BY <2>1, <2>2
  <2> QED
    BY <2>1, <2>2, <2>3 DEF Copying, NoCopy, StoreInv, CopyShape
<1>2. /\ copy'.done = i /\ copy'.from = copy.from /\ copy'.to = copy.to
      /\ copy'.was = copy.was /\ copy.done \in Nat
  BY <1>1
<1>3. Put(b, p, x)
  BY DEF CopyStep
<1>4. ~undefined /\ p \in DOMAIN heap[b] /\ heap' = [heap EXCEPT ![b][p] = x]
  BY <1>3 DEF Put, StoreInv, TypeOK
<1>5. heap \in [Blocks -> Vectors] /\ b \in Blocks /\ copy.from.data \in Blocks
  BY <1>1 DEF StoreInv, TypeOK, Structs
<1>6. heap'[copy.from.data] = heap[copy.from.data]
  BY <1>1, <1>4, <1>5
<1>7. Content(heap', copy.from) = Content(heap, copy.from)
  BY <1>6 DEF Content
<1>8. /\ heap'[b] = [heap[b] EXCEPT ![p] = x]
      /\ Len(heap'[b]) = Len(heap[b])
      /\ DOMAIN heap'[b] = DOMAIN heap[b]
  BY <1>4, <1>5, PutKeepsVector
<1>9. Len(heap[b]) = Len(copy.was)
  BY <1>1, <1>4 DEF CopyInv
<1>10. \A k \in DOMAIN heap[b] : KeptAt(k, heap, copy) \/ WrittenAt(k, heap, copy)
  BY <1>1, <1>4 DEF CopyInv, KeptAt, WrittenAt
<1>11. ASSUME NEW k \in DOMAIN heap[b]
       PROVE  KeptAt(k, heap', copy') \/ WrittenAt(k, heap', copy')
  <2>1. CASE k = p
    <3>1. i \in 1 .. copy'.done /\ copy'.to.idx[i] = k
      BY <1>2, <2>1
    <3>2. \A j \in (i + 1) .. copy'.done : copy'.to.idx[j] # k
      BY <1>2
    <3>3. heap'[copy'.to.data][k] = Content(heap', copy'.from)[i]
      BY <1>2, <1>7, <1>8, <2>1
    <3> HIDE DEF i
    <3> QED
      BY <3>1, <3>2, <3>3 DEF WrittenAt
  <2>2. CASE k # p /\ KeptAt(k, heap, copy)
    <3>1. heap'[b][k] = heap[b][k]
      BY <1>8, <2>2
    <3>2. \A j \in 1 .. i : j \in 1 .. copy.done \/ j = i
      BY <1>2
    <3> QED
      BY <1>2, <2>2, <3>1, <3>2 DEF KeptAt
  <2>3. CASE k # p /\ WrittenAt(k, heap, copy)
    <3>1. heap'[b][k] = heap[b][k]
      BY <1>8, <2>3
    <3>2. PICK j \in 1 .. copy.done :
             /\ copy.to.idx[j] = k
             /\ \A l \in (j + 1) .. copy.done : copy.to.idx[l] # k
             /\ heap[b][k] = Content(heap, copy.from)[j]
      BY <2>3 DEF WrittenAt
    <3>3. j \in 1 .. i /\ \A l \in (j + 1) .. i : l \in (j + 1) .. copy.done \/ l = i
      BY <1>2
    <3>4. \A l \in (j + 1) .. i : copy.to.idx[l] # k
      BY <2>3, <3>2, <3>3
    <3>5. heap'[b][k] = Content(heap', copy.from)[j]
      BY <1>7, <3>1, <3>2
    <3> HIDE DEF i
    <3> QED
      BY <1>2, <3>2, <3>3, <3>4, <3>5 DEF WrittenAt
  <2> QED
    BY <1>10, <2>1, <2>2, <2>3
<1>12. copy'.from.data # copy'.to.data /\ Len(heap'[copy'.to.data]) = Len(copy'.was)
  BY <1>1, <1>2, <1>8, <1>9
<1>13. \A k \in DOMAIN heap'[copy'.to.data] :
          KeptAt(k, heap', copy') \/ WrittenAt(k, heap', copy')
  BY <1>2, <1>8, <1>11
<1> QED
  BY <1>12, <1>13 DEF CopyInv, KeptAt, WrittenAt

(* A whole copy is what rt_vector_copy() makes of its target, even with    *)
(* positions that repeat: it never reads what it has written.              *)
THEOREM CopyingIsCorrect ==
  ASSUME KeepMembers = FALSE
  PROVE  Spec => []CopyInv
<1>1. Init => CopyInv
  BY DEF Init, CopyInv, Copying
<1>2. StoreInv /\ CopyInv /\ [Next]_vars => CopyInv'
  <2> SUFFICES ASSUME StoreInv, CopyInv, [Next]_vars PROVE CopyInv'
    OBVIOUS
  <2>1. CASE visitAssignment
    BY <2>1, CopyStart
  <2>2. CASE CopyStep
    BY <2>2, CopyOn
  <2>3. CASE CopyEnd
    BY <2>3 DEF CopyEnd, CopyInv, Copying
  <2>4. CASE Begin \/ visitDeclaration \/ SetThroughView \/ visitMatrixLiteral
    <3>1. ~Copying /\ copy' = copy
      BY <2>4 DEF Begin, visitDeclaration, SetThroughView, visitMatrixLiteral, StoreInv,
                  CopyShape, NoStmt
    <3> QED
      BY <3>1 DEF CopyInv, Copying
  <2>5. CASE UNCHANGED vars
    BY <2>5 DEF vars, CopyInv, Copying
  <2> QED
    BY <2>1, <2>2, <2>3, <2>4, <2>5 DEF Next
<1> QED
  BY <1>1, <1>2, StoreInductive, PTL DEF Spec
-----------------------------------------------------------------------------
(* The vectors as values.                                                  *)
Vals == [n \in Names |-> Value(n)]

(* The two specifications have their statements and expressions in common. *)
LEMMA SameSyntax ==
  /\ Meaning!Vectors = Vectors /\ Meaning!Names = Names
  /\ \A k : Meaning!SeqIdx(k) = SeqIdx(k)
  /\ Meaning!NoStmt = NoStmt
BY DEF Meaning!Vectors, Vectors, Meaning!Names, Names, Meaning!SeqIdx, SeqIdx,
       Meaning!NoStmt, NoStmt

LEMMA SameStmts == Meaning!Stmts = Stmts
<1>1. Meaning!Exprs = Exprs
  BY SameSyntax DEF Meaning!Exprs, Exprs, Meaning!LiteralOf, LiteralOf, Meaning!NameOf, NameOf,
         Meaning!SliceOf, SliceOf, Meaning!ConcatOf, ConcatOf, Meaning!ReverseOf, ReverseOf,
         Meaning!CastOf, CastOf
<1> QED
  BY <1>1, SameSyntax
  DEF Meaning!Stmts, Stmts, Meaning!DeclarationOf, DeclarationOf, Meaning!AssignAll, AssignAll,
      Meaning!AssignSlice, AssignSlice, Meaning!FillAll, FillAll, Meaning!FillSlice, FillSlice,
      Meaning!SetElement, SetElement, Meaning!MatrixRow, MatrixRow

LEMMA SameMeaning ==
  ASSUME NEW w, NEW e, NEW f, NEW g
  PROVE  Meaning!IsValue(w, e, f, g) <=> IsValue(w, e, f, g)
BY DEF Meaning!IsValue, IsValue, Meaning!ReadsAt, ReadsAt

LEMMA ValueFacts ==
  ASSUME StoreInv, NEW n \in Names
  PROVE  /\ Value(n) = Before[env[n].data]
         /\ Value(n) \in Vectors
         /\ Len(Value(n)) = Size(env[n])
         /\ Len(Value(n)) = Len(heap[env[n].data])
         /\ env[n] \in Structs /\ env[n].data \in Blocks
<1>1. env[n] \in Structs /\ env[n].data \in Blocks /\ heap \in [Blocks -> Vectors]
  BY DEF StoreInv, TypeOK, Structs
<1>2. Before \in [Blocks -> Vectors] /\ Len(Before[env[n].data]) = Len(heap[env[n].data])
  <2>1. CASE Copying /\ ~undefined
    <3>1. copy.was \in Vectors /\ copy.to.data \in Blocks
      BY <2>1, CopyFacts DEF Structs
    <3>2. Len(copy.was) = Len(heap[copy.to.data])
      BY <2>1 DEF StoreInv, CopyShape
    <3> QED
      BY <1>1, <2>1, <3>1, <3>2 DEF Before
  <2>2. CASE ~(Copying /\ ~undefined)
    BY <1>1, <2>2 DEF Before
  <2> QED
    BY <2>1, <2>2
<1>3. env[n].idx = SeqIdx(Len(Before[env[n].data]))
  BY <1>2 DEF StoreInv, OperandsAreDense
<1>4. Content(Before, env[n]) = Before[env[n].data] /\ Size(env[n]) = Len(Before[env[n].data])
  BY <1>1, <1>2, <1>3, DenseContent
<1> QED
  BY <1>1, <1>2, <1>4 DEF Value

(* Outside of a copy, what expressions read are the values.                *)
LEMMA OperandsAreValues ==
  ASSUME StoreInv, ~Copying
  PROVE  Elems = Vals /\ Raw = Vals
<1>1. Before = heap
  BY DEF Before
<1>2. \A n \in Names : Content(heap, env[n]) = Value(n)
  BY <1>1 DEF Value
<1>3. ASSUME NEW n \in Names
      PROVE  FirstOf(heap[env[n].data], Size(env[n])) = Value(n)
  <2> DEFINE s == heap[env[n].data]
  <2>1. Value(n) = s /\ s \in Vectors /\ Len(s) = Size(env[n])
    BY <1>1, ValueFacts
  <2>2. DOMAIN s = 1 .. Len(s) /\ s \in [1 .. Len(s) -> Elements]
    BY <2>1, VectorIsSeq
  <2> QED
    BY <2>1, <2>2 DEF FirstOf
<1>4. Elems = Vals
  BY <1>2 DEF Elems, Vals
<1>5. Raw = Vals
  BY <1>2, <1>3 DEF Raw, Vals
<1> QED
  BY <1>4, <1>5

(* The positions an assignment names are those of its reference.           *)
LEMMA PlaceFacts ==
  ASSUME StoreInv, stmt.op \in {"assign", "fill", "set"}
  PROVE  /\ stmt.to \in Names
         /\ Meaning!Place = (IF stmt.op = "set" THEN stmt.at ELSE Target.idx)
         /\ DOMAIN Vals[stmt.to] = 1 .. Len(Vals[stmt.to])
         /\ DOMAIN Vals[stmt.to] = DOMAIN heap[env[stmt.to].data]
<1>1. stmt.to \in Names /\ (stmt.op = "set" => ~stmt.whole)
  BY StmtForms DEF StoreInv, TypeOK, StmtShape
<1>2. Vals[stmt.to] = Value(stmt.to)
  BY <1>1 DEF Vals
<1>3. /\ Len(Vals[stmt.to]) = Len(heap[env[stmt.to].data])
      /\ Vals[stmt.to] \in Vectors /\ heap[env[stmt.to].data] \in Vectors
  BY <1>1, <1>2, ValueFacts DEF StoreInv, TypeOK
<1>4. /\ DOMAIN Vals[stmt.to] = 1 .. Len(Vals[stmt.to])
      /\ DOMAIN Vals[stmt.to] = DOMAIN heap[env[stmt.to].data]
  BY <1>3, VectorIsSeq
<1>5. env[stmt.to].idx = SeqIdx(Len(Vals[stmt.to]))
  BY <1>1, <1>3 DEF StoreInv, OperandsAreDense
<1>6. Meaning!Place = (IF stmt.whole THEN SeqIdx(Len(Vals[stmt.to])) ELSE stmt.at)
  BY SameSyntax DEF Meaning!Place, Vals
<1> QED
  BY <1>1, <1>4, <1>5, <1>6 DEF Target, Struct

(* What is copied is what the statement writes, and so far to where the    *)
(* vector has elements.                                                    *)
SourceInv ==
  (Copying /\ ~undefined) =>
     LET w == Content(heap, copy.from)
     IN  /\ w \in Vectors
         /\ Meaning!Writes(w)
         /\ \A j \in 1 .. copy.done : copy.to.idx[j] \in DOMAIN copy.was

RefInv == StoreInv /\ CopyInv /\ SourceInv

(* Until a copy ends the values are what they were.                        *)
LEMMA SameVals ==
  ASSUME env' = env, \A n \in Names : Before'[env[n].data] = Before[env[n].data]
  PROVE  Vals' = Vals
<1>1. \A n \in Names : Content(Before', env[n]) = Content(Before, env[n])
  BY DEF Content
<1> QED
  BY <1>1 DEF Vals, Value

(* An assignment: its reference and its right-hand side have the value and *)
(* the place that the statement gives them, and nothing is written.        *)
LEMMA AssignmentSource ==
  ASSUME StoreInv, visitAssignment
  PROVE  /\ Vals' = Vals
         /\ \E w \in Vectors : \E from :
               /\ rt_vector_copy(from)
               /\ Content(heap', from) = w /\ Size(from) = Len(w)
               /\ Meaning!Writes(w)
               /\ stmt.op = "fill" => Size(from) = Size(Target)
<1>1. PICK w \in Vectors, b \in Free :
         /\ heap' = [heap EXCEPT ![b] = w]
         /\ \/ /\ stmt.op = "assign"
               /\ IsValue(w, stmt.expr, Elems, Raw)
               /\ rt_vector_copy(Yields(stmt.expr, w, b))
            \/ /\ stmt.op = "fill"
               /\ w = [i \in 1 .. Size(Target) |-> stmt.elem]
               /\ rt_vector_copy(Struct(SeqIdx(Len(w)), b))
  BY DEF visitAssignment
<1> DEFINE v == Struct(SeqIdx(Len(w)), b)
<1>2. stmt.op \in {"assign", "fill"} /\ ~Copying /\ UNCHANGED <<env, stmt, undefined>>
  BY DEF visitAssignment
<1>3. /\ b \in Blocks /\ b \notin InUse /\ v \in Structs
      /\ heap' \in [Blocks -> Vectors] /\ heap'[b] = w
      /\ \A n \in Names : heap'[env[n].data] = heap[env[n].data]
  BY <1>1, FreshFacts
<1>4. /\ Target \in Structs
      /\ Target.data = env[stmt.to].data
      /\ stmt.to \in Names
  BY <1>2, TargetFacts
<1>5. Vals' = Vals
  <2>1. Before = heap
    BY <1>2 DEF Before
  <2>2. /\ heap'[Target.data] = heap[Target.data]
        /\ \A n \in Names : env[n].data \in Blocks
    BY <1>3, <1>4, ValueFacts
  <2>3. CASE copy' = copy
    <3>1. Before' = heap'
      BY <1>2, <2>3 DEF Before, Copying
    <3> QED
      BY <1>2, <1>3, <2>1, <3>1, SameVals
  <2>4. CASE copy' # copy
    <3>1. copy'.to = Target /\ copy'.was = heap[Target.data]
      BY <2>4 DEF visitAssignment, rt_vector_copy
    <3>2. \A n \in Names : Before'[env[n].data] = heap'[env[n].data]
      BY <1>3, <2>2, <3>1 DEF Before
    <3> QED
      BY <1>2, <1>3, <2>1, <3>2, SameVals
  <2> QED
    BY <2>3, <2>4
<1>6. Content(heap', v) = w /\ Size(v) = Len(w)
  BY <1>3, DenseContent DEF Struct
<1>7. CASE stmt.op = "fill"
  <2>1. w = [i \in 1 .. Size(Target) |-> stmt.elem]
    BY <1>1, <1>7
  <2>2. Size(Target) \in Nat
    BY <1>4 DEF Structs, Size
  <2>3. w \in [1 .. Len(w) -> Elements] /\ Len(w) \in Nat
    BY VectorIsSeq
  <2>4. DOMAIN w = 1 .. Size(Target)
    BY <2>1
  <2>5. Len(w) = Size(Target)
    BY <2>2, <2>3, <2>4
  <2>6. Len(Meaning!Place) = Size(Target)
    BY <1>7, PlaceFacts DEF Size
  <2>7. Meaning!Writes(w)
    BY <1>7, <2>1, <2>6 DEF Meaning!Writes
  <2> QED
    BY <1>1, <1>5, <1>6, <1>7, <2>5, <2>7
<1>8. CASE stmt.op = "assign"
  <2>1. IsValue(w, stmt.expr, Vals, Vals) /\ rt_vector_copy(Yields(stmt.expr, w, b))
    BY <1>1, <1>2, <1>8, OperandsAreValues
  <2>2. Meaning!Writes(w)
    BY <1>8, <2>1, SameMeaning DEF Meaning!Writes, Vals
  <2>3. CASE IsMember(stmt.expr)
    <3>1. stmt.expr.of \in Names /\ stmt.expr.form = "name"
      BY <2>3 DEF IsMember, Names
    <3>2. w = Vals[stmt.expr.of]
      BY <2>1, <3>1 DEF IsValue
    <3>3. w = Value(stmt.expr.of)
      BY <3>1, <3>2 DEF Vals
    <3>4. w = heap[env[stmt.expr.of].data] /\ Len(w) = Size(env[stmt.expr.of])
          /\ env[stmt.expr.of] \in Structs
      BY <1>2, <3>1, <3>3, ValueFacts DEF Before
    <3>5. env[stmt.expr.of].idx = SeqIdx(Len(heap'[env[stmt.expr.of].data]))
      BY <1>3, <3>1 DEF StoreInv, OperandsAreDense
    <3>6. Content(heap', env[stmt.expr.of]) = w
      BY <1>3, <3>1, <3>4, <3>5, DenseContent
    <3>7. rt_vector_copy(env[stmt.expr.of])
      BY <2>1, <2>3 DEF Yields
    <3> QED
      BY <1>5, <1>8, <2>2, <3>4, <3>6, <3>7
  <2>4. CASE ~IsMember(stmt.expr)
    <3>1. rt_vector_copy(v)
      BY <2>1, <2>4 DEF Yields
    <3> QED
      BY <1>5, <1>6, <1>8, <2>2, <3>1
  <2> QED
    BY <2>3, <2>4
<1> QED
  BY <1>2, <1>7, <1>8

(* It begins to copy, or the vectors differ in size and the program stops. *)
LEMMA RefineAssignment ==
  ASSUME RefInv, ~undefined, ~exited, visitAssignment
  PROVE  /\ SourceInv'
         /\ Meaning!Next \/ UNCHANGED Meaning!vars
<1> USE DEF RefInv
<1>0. PICK w \in Vectors : \E from :
         /\ rt_vector_copy(from)
         /\ Content(heap', from) = w /\ Size(from) = Len(w)
         /\ Meaning!Writes(w)
         /\ stmt.op = "fill" => Size(from) = Size(Target)
  BY AssignmentSource
<1>1. PICK from :
         /\ rt_vector_copy(from)
         /\ Content(heap', from) = w /\ Size(from) = Len(w)
         /\ Meaning!Writes(w)
         /\ stmt.op = "fill" => Size(from) = Size(Target)
  BY <1>0
<1>2. Vals' = Vals
  BY AssignmentSource
<1>3. ~Copying /\ stmt.op \in {"assign", "fill"} /\ UNCHANGED <<env, stmt, undefined>>
  BY DEF visitAssignment
<1>4. Len(Meaning!Place) = Size(Target)
  BY <1>3, PlaceFacts DEF Size
<1>5. CASE Size(from) # Size(Target)
  <2>1. exited' = TRUE /\ UNCHANGED copy
    BY <1>1, <1>5 DEF rt_vector_copy
  <2>2. Meaning!SizeError
    BY <1>1, <1>2, <1>3, <1>4, <1>5, <2>1, SameSyntax DEF Meaning!SizeError, Vals
  <2> QED
    BY <1>3, <2>1, <2>2 DEF Meaning!Next, SourceInv, Copying
<1>6. CASE Size(from) = Size(Target)
  <2>1. /\ copy' = [done |-> 0, from |-> from, to |-> Target, was |-> heap[Target.data]]
        /\ UNCHANGED exited
    BY <1>1, <1>6 DEF rt_vector_copy
  <2>2. Meaning!Place' = Meaning!Place
    BY <1>2, <1>3 DEF Meaning!Place, Vals
  <2>3. Meaning!Writes(w)'
    BY <1>1, <1>2, <1>3, <2>2 DEF Meaning!Writes, Vals
  <2>4. SourceInv'
    BY <1>1, <2>1, <2>3 DEF SourceInv
  <2> QED
    BY <1>2, <1>3, <2>1, <2>4 DEF Meaning!vars, Vals
<1> QED
  BY <1>5, <1>6

(* A step of the copy changes nothing yet, or writes outside the vector.   *)
LEMMA RefineCopyStep ==
  ASSUME RefInv, ~undefined, ~exited, CopyStep
  PROVE  /\ SourceInv'
         /\ Meaning!Next \/ UNCHANGED Meaning!vars
<1> USE DEF RefInv
<1> DEFINE b == copy.to.data
           i == copy.done + 1
           p == copy.to.idx[i]
           x == Content(heap, copy.from)[i]
<1>1. /\ Copying /\ copy.done < Size(copy.from)
      /\ Put(b, p, x)
      /\ copy' = [copy EXCEPT !.done = @ + 1]
      /\ UNCHANGED <<env, freed, stmt, exited>>
  BY DEF CopyStep
<1>2. /\ copy \in [done : Nat, from : Structs, to : Structs, was : Vectors]
      /\ Size(copy.from) \in Nat
      /\ b = env[stmt.to].data /\ stmt.to \in Names
  BY <1>1, CopyFacts
<1>3. /\ stmt.op \in {"assign", "fill"} /\ copy.to = Target
      /\ Size(copy.from) = Size(copy.to) /\ copy.from.data # b
      /\ Len(copy.was) = Len(heap[b])
  BY <1>1 DEF StoreInv, CopyShape
<1>4. /\ copy'.done = i /\ copy'.from = copy.from /\ copy'.to = copy.to
      /\ copy'.was = copy.was
  BY <1>1, <1>2
<1>5. /\ heap \in [Blocks -> Vectors] /\ b \in Blocks /\ copy.from.data \in Blocks
      /\ copy.was \in Vectors
  BY <1>2 DEF StoreInv, TypeOK, Structs
<1>6. DOMAIN copy.was = DOMAIN heap[b]
  BY <1>3, <1>5, VectorIsSeq
<1>7. CASE undefined'
  <2>1. p \notin DOMAIN heap[b]
    BY <1>1, <1>7 DEF Put
  <2>2. Meaning!Place = copy.to.idx
    BY <1>3, PlaceFacts
  <2>3. i \in 1 .. Len(Meaning!Place)
    BY <1>1, <1>2, <1>3, <2>2 DEF Size
  <2>4. Meaning!Place[i] \notin 1 .. Len(Vals[stmt.to])
    BY <1>2, <1>3, <2>1, <2>2, PlaceFacts
  <2> HIDE DEF i
  <2>5. ~Meaning!InRange
    BY <2>3, <2>4 DEF Meaning!InRange, Vals
  <2>6. undefined' = TRUE
    BY <1>1, <1>7 DEF Put
  <2>7. Meaning!GoWrong
    BY <1>1, <1>3, <2>5, <2>6 DEF Meaning!GoWrong
  <2> QED
    BY <1>7, <2>7 DEF Meaning!Next, SourceInv
<1>8. CASE ~undefined'
  <2>1. p \in DOMAIN heap[b] /\ heap' = [heap EXCEPT ![b][p] = x] /\ UNCHANGED undefined
    BY <1>1, <1>8 DEF Put
  <2>2. Copying'
    BY <1>2, <1>4 DEF Copying, NoCopy
  <2>3. Vals' = Vals
    <3>1. Before = [heap EXCEPT ![b] = copy.was]
      BY <1>1 DEF Before
    <3>2. Before' = [heap' EXCEPT ![b] = copy.was]
      BY <1>4, <1>8, <2>2 DEF Before
    <3>3. \A c \in Blocks : c # b => heap'[c] = heap[c]
      BY <1>5, <2>1
    <3>4. heap' \in [Blocks -> Vectors] \/ DOMAIN heap' = Blocks
      BY <1>5, <2>1
    <3>5. \A c \in Blocks : Before'[c] = Before[c]
      BY <1>5, <3>1, <3>2, <3>3, <3>4
    <3> QED
      BY <1>1, <3>5, SameVals, ValueFacts
  <2>4. Content(heap', copy.from) = Content(heap, copy.from)
    <3>1. heap'[copy.from.data] = heap[copy.from.data]
      BY <1>3, <1>5, <2>1
    <3> QED
      BY <3>1 DEF Content
  <2>5. Meaning!Place' = Meaning!Place
    BY <1>1, <2>3 DEF Meaning!Place, Vals
  <2>6. PICK w \in Vectors :
          /\ w = Content(heap, copy.from)
          /\ Meaning!Writes(w)
          /\ \A j \in 1 .. copy.done : copy.to.idx[j] \in DOMAIN copy.was
    BY <1>1 DEF SourceInv
  <2>7. Meaning!Writes(w)'
    BY <1>1, <2>3, <2>5, <2>6 DEF Meaning!Writes, Vals
  <2>8. Content(heap', copy'.from) = w
    BY <1>4, <2>4, <2>6
  <2>9. SourceInv'
    <3>1. p \in DOMAIN copy.was
      BY <1>6, <2>1
    <3>2. \A j \in 1 .. i : j \in 1 .. copy.done \/ j = i
      BY <1>2
    <3>3. \A j \in 1 .. i : copy.to.idx[j] \in DOMAIN copy.was
      BY <2>6, <3>1, <3>2
    <3> HIDE DEF i
    <3>4. \A j \in 1 .. copy'.done : copy'.to.idx[j] \in DOMAIN copy'.was
      BY <1>4, <3>3
    <3> QED
      BY <2>7, <2>8, <3>4 DEF SourceInv
  <2> QED
    BY <1>1, <2>1, <2>3, <2>9 DEF Meaning!vars, Vals
<1> QED
  BY <1>7, <1>8

(* Two descriptions of a vector with elements written in order agree.      *)
WrittenInOrder(now, s, at, w) ==
  \A k \in DOMAIN now :
     \/ /\ \A j \in 1 .. Len(at) : at[j] # k
        /\ now[k] = s[k]
     \/ \E j \in 1 .. Len(at) :
           /\ at[j] = k
           /\ \A i \in (j + 1) .. Len(at) : at[i] # k
           /\ now[k] = w[j]

LEMMA WrittenFacts ==
  ASSUME NEW s \in Vectors, NEW now \in Vectors, Len(now) = Len(s),
         NEW at \in Seq(Nat), NEW w, WrittenInOrder(now, s, at, w)
  PROVE  now = Meaning!Written(s, at, w)
<1>1. /\ now \in [1 .. Len(s) -> Elements] /\ DOMAIN now = 1 .. Len(s)
      /\ Len(at) \in Nat
  BY VectorIsSeq
<1>2. ASSUME NEW k \in 1 .. Len(s)
      PROVE  now[k] = IF \E j \in 1 .. Len(at) : at[j] = k THEN w[Meaning!LastAt(at, k)]
                      ELSE s[k]
  <2>1. CASE \A j \in 1 .. Len(at) : at[j] # k
    BY <1>1, <2>1 DEF WrittenInOrder
  <2>2. ASSUME NEW j \in 1 .. Len(at), at[j] = k,
               \A i \in (j + 1) .. Len(at) : at[i] # k, now[k] = w[j]
        PROVE  now[k] = w[Meaning!LastAt(at, k)]
    <3>1. \A i \in 1 .. Len(at) : i <= j \/ i \in (j + 1) .. Len(at)
      BY <1>1
    <3>2. \A i \in 1 .. Len(at) : at[i] = k => i <= j
      BY <2>2, <3>1
    <3>3. \A l \in 1 .. Len(at) :
             (at[l] = k /\ \A i \in 1 .. Len(at) : at[i] = k => i <= l) => l = j
      BY <1>1, <2>2, <3>2
    <3>4. Meaning!LastAt(at, k) = j
      BY <2>2, <3>2, <3>3 DEF Meaning!LastAt
    <3> QED
      BY <2>2, <3>4
  <2> QED
    BY <1>1, <2>1, <2>2 DEF WrittenInOrder
<1> QED
  BY <1>1, <1>2 DEF Meaning!Written

(* The end of a copy is the assignment.                                    *)
LEMMA RefineCopyEnd ==
  ASSUME RefInv, ~undefined, ~exited, CopyEnd
  PROVE  Meaning!Next
<1> USE DEF RefInv
<1> DEFINE b == copy.to.data
           to == stmt.to
           old == Vals[to]
           now == heap[b]
           at == Meaning!Place
<1>1. /\ Copying /\ copy.done = Size(copy.from)
      /\ copy' = NoCopy /\ stmt' = NoStmt /\ heap' = Reachable(heap, env)
      /\ UNCHANGED <<env, freed, undefined, exited>>
  BY DEF CopyEnd, Done
<1>2. /\ copy \in [done : Nat, from : Structs, to : Structs, was : Vectors]
      /\ b = env[to].data /\ to \in Names
  BY <1>1, CopyFacts
<1>3. /\ stmt.op \in {"assign", "fill"} /\ copy.to = Target
      /\ Size(copy.from) = Size(copy.to)
      /\ Len(copy.was) = Len(heap[b])
  BY <1>1 DEF StoreInv, CopyShape
<1>4. heap \in [Blocks -> Vectors] /\ b \in Blocks /\ copy.was \in Vectors
  BY <1>2 DEF StoreInv, TypeOK, Structs
<1>5. at = copy.to.idx /\ at \in Seq(Nat) /\ Len(at) = copy.done
  BY <1>1, <1>2, <1>3, PlaceFacts DEF Structs, Size
<1>6. old = copy.was /\ now \in Vectors /\ old \in Vectors /\ Len(now) = Len(old)
  <2>1. old = Before[b]
    BY <1>2, ValueFacts DEF Vals
  <2> QED
    BY <1>1, <1>3, <1>4, <2>1 DEF Before
<1>7. PICK w \in Vectors :
        /\ w = Content(heap, copy.from)
        /\ Meaning!Writes(w)
        /\ \A j \in 1 .. copy.done : copy.to.idx[j] \in DOMAIN copy.was
  BY <1>1 DEF SourceInv
<1>8. Len(w) = Len(at)
  <2>1. DOMAIN w = 1 .. Size(copy.from)
    BY <1>7 DEF Content
  <2>2. DOMAIN w = 1 .. Len(w) /\ Len(w) \in Nat
    BY VectorIsSeq
  <2>3. Size(copy.from) \in Nat
    BY <1>1, CopyFacts
  <2> QED
    BY <1>1, <1>5, <2>1, <2>2, <2>3
<1>9. now = Meaning!Written(old, at, w)
  <2>1. \A k \in DOMAIN now : KeptAt(k, heap, copy) \/ WrittenAt(k, heap, copy)
    BY <1>1 DEF CopyInv, KeptAt, WrittenAt
  <2>2. ASSUME NEW k \in DOMAIN now, KeptAt(k, heap, copy)
        PROVE  (\A j \in 1 .. Len(at) : at[j] # k) /\ now[k] = old[k]
    BY <1>5, <1>6, <2>2 DEF KeptAt
  <2>3. ASSUME NEW k \in DOMAIN now, WrittenAt(k, heap, copy)
        PROVE  \E j \in 1 .. Len(at) : /\ at[j] = k
                                       /\ \A i \in (j + 1) .. Len(at) : at[i] # k
                                       /\ now[k] = w[j]
    BY <1>5, <1>7, <2>3 DEF WrittenAt
  <2> HIDE DEF now, old, at
  <2>4. WrittenInOrder(now, old, at, w)
    BY <2>1, <2>2, <2>3 DEF WrittenInOrder
  <2> QED
    BY <1>5, <1>6, <2>4, WrittenFacts
<1>10. Meaning!InRange
  <2>1. DOMAIN old = 1 .. Len(old)
    BY <1>6, VectorIsSeq
  <2>2. \A j \in 1 .. Len(at) : at[j] \in 1 .. Len(old)
    BY <1>5, <1>6, <1>7, <2>1
  <2> QED
    BY <2>2 DEF Meaning!InRange, Vals
<1>11. Vals' = [Vals EXCEPT ![to] = now]
  <2>1. Before' = heap'
    BY <1>1 DEF Before, Copying
  <2>2. StoreInv'
    BY StoreCopyEnd
  <2>3. \A n \in Names : heap'[env[n].data] = heap[env[n].data]
    BY <1>1, <1>4, ValueFacts DEF Reachable
  <2>4. Before = [heap EXCEPT ![b] = copy.was]
    BY <1>1 DEF Before
  <2>5. \A n \in Names : env[n].data # b => Before[env[n].data] = heap[env[n].data]
    BY <1>4, <2>4
  <2>6. \A n \in Names : n # to => env[n].data # b
    BY <1>2 DEF StoreInv, Separated
  <2>7. \A n \in Names : n # to => Content(heap', env[n]) = Content(Before, env[n])
    BY <2>3, <2>5, <2>6 DEF Content
  <2>8. Content(heap', env[to]) = now
    <3>1. env[to].idx = SeqIdx(Len(heap[env[to].data])) /\ env[to] \in Structs
      BY <1>2, ValueFacts DEF StoreInv, OperandsAreDense
    <3>2. Content(heap, env[to]) = heap[b]
      BY <1>2, <1>4, <3>1, DenseContent
    <3>3. Content(heap', env[to]) = Content(heap, env[to])
      BY <1>2, <2>3 DEF Content
    <3> QED
      BY <3>2, <3>3
  <2>9. \A n \in Names : Vals'[n] = Content(heap', env[n]) /\ Vals[n] = Content(Before, env[n])
    BY <1>1, <2>1 DEF Vals, Value
  <2> HIDE DEF now, old, b
  <2>10. DOMAIN Vals = Names /\ Vals = [n \in Names |-> Vals[n]]
         /\ Vals' = [n \in Names |-> Vals'[n]]
    BY DEF Vals
  <2> QED
    BY <1>2, <2>7, <2>8, <2>9, <2>10
<1>12. Vals' = [Vals EXCEPT ![to] = Meaning!Written(Vals[to], at, w)]
  BY <1>9, <1>11
<1>13. Meaning!Assign
  BY <1>1, <1>3, <1>7, <1>8, <1>10, <1>12, SameSyntax DEF Meaning!Assign, Vals
<1> QED
  BY <1>13 DEF Meaning!Next

(* One element is assigned.                                                *)
LEMMA RefineSetElement ==
  ASSUME RefInv, ~undefined, ~exited, SetThroughView
  PROVE  Meaning!Next
<1> USE DEF RefInv
<1> DEFINE to == stmt.to
           b == env[to].data
           p == stmt.at[1]
           x == stmt.elem
           at == Meaning!Place
           w == [i \in 1 .. Len(at) |-> x]
           now == [heap[b] EXCEPT ![p] = x]
<1>1. /\ stmt.op = "set" /\ Put(b, p, x) /\ stmt' = NoStmt
      /\ UNCHANGED <<env, freed, copy, exited>>
  BY DEF SetThroughView
<1>2. to \in Names /\ x \in Elements /\ stmt.at \in Seq(Nat) /\ Len(stmt.at) = 1
  BY <1>1, StmtForms DEF StoreInv, TypeOK, StmtShape
<1>3. ~Copying /\ Before = heap /\ ~Copying'
  BY <1>1 DEF StoreInv, CopyShape, Before, Copying
<1>4. heap \in [Blocks -> Vectors] /\ b \in Blocks
  BY <1>2, ValueFacts DEF StoreInv, TypeOK
<1>5. at = stmt.at /\ DOMAIN Vals[to] = 1 .. Len(Vals[to]) /\ DOMAIN Vals[to] = DOMAIN heap[b]
  BY <1>1, PlaceFacts
<1>6. CASE p \notin DOMAIN heap[b]
  <2>1. undefined' = TRUE
    BY <1>1, <1>6 DEF Put
  <2>2. ~Meaning!InRange
    BY <1>2, <1>5, <1>6 DEF Meaning!InRange, Vals
  <2>3. Meaning!GoWrong
    BY <1>1, <2>1, <2>2 DEF Meaning!GoWrong
  <2> QED
    BY <2>3 DEF Meaning!Next
<1>7. CASE p \in DOMAIN heap[b]
  <2>1. heap' = [heap EXCEPT ![b] = now] /\ UNCHANGED undefined
    BY <1>1, <1>4, <1>7 DEF Put
  <2>2. now \in Vectors /\ Len(now) = Len(heap[b])
    BY <1>2, <1>4, <1>7, PutKeepsVector
  <2>3. Meaning!InRange
    BY <1>2, <1>5, <1>7 DEF Meaning!InRange, Vals
  <2>4. heap[b] = Vals[to] /\ Vals[to] \in Vectors
    BY <1>2, <1>3, ValueFacts DEF Vals
  <2>5. w \in Vectors /\ Len(w) = 1
    <3>1. Len(heap[b]) \in 1 .. MaxLen
      BY <1>4, <1>7, VectorIsSeq
    <3>2. 1 \in 0 .. MaxLen
      BY <3>1, LengthAssumption
    <3>3. w \in [1 .. 1 -> Elements]
      BY <1>2, <1>5
    <3> QED
      BY <3>2, <3>3, MakeVector
  <2>6. now = Meaning!Written(Vals[to], at, w)
    <3>1. now \in [1 .. Len(Vals[to]) -> Elements] /\ DOMAIN now = DOMAIN heap[b]
      BY <2>2, <2>4, VectorIsSeq
    <3>2. Len(at) = 1 /\ at[1] = p /\ w[1] = x
      <4>1. Len(at) = 1 /\ at[1] = p
        BY <1>2, <1>5
      <4> HIDE DEF at
      <4>2. w[1] = x
        BY <4>1
      <4> QED
        BY <4>1, <4>2
    <3>3. now[p] = x /\ \A k \in DOMAIN now : k # p => now[k] = Vals[to][k]
      BY <1>7, <2>4, <3>1
    <3> HIDE DEF now, w, at, p, x
    <3>4. WrittenInOrder(now, Vals[to], at, w)
      BY <3>1, <3>2, <3>3 DEF WrittenInOrder
    <3> QED
      BY <1>2, <1>5, <2>2, <2>4, <3>4, WrittenFacts
  <2>7. Vals' = [Vals EXCEPT ![to] = now]
    <3>1. Before' = heap'
      BY <1>3 DEF Before
    <3>2. StoreInv' /\ env' = env
      BY <1>1, StoreSetElement
    <3>3. \A n \in Names : n # to => env[n].data # b
      BY <1>2 DEF StoreInv, Separated
    <3>4. heap'[b] = now /\ \A n \in Names : n # to => heap'[env[n].data] = heap[env[n].data]
      BY <1>4, <2>1, <3>3, ValueFacts
    <3>5. \A n \in Names : n # to => Content(heap', env[n]) = Content(heap, env[n])
      BY <3>4 DEF Content
    <3>6. Content(heap', env[to]) = now
      <4>1. /\ heap' \in [Blocks -> Vectors] /\ env[to] \in Structs
            /\ env[to].idx = SeqIdx(Len(heap'[env[to].data]))
        BY <1>2, <3>2, ValueFacts DEF StoreInv, OperandsAreDense, TypeOK
      <4> QED
        BY <3>4, <4>1, DenseContent
    <3>7. \A n \in Names : Vals'[n] = Content(heap', env[n]) /\ Vals[n] = Content(heap, env[n])
      BY <1>3, <3>1, <3>2 DEF Vals, Value
    <3> HIDE DEF now, b
    <3>8. DOMAIN Vals = Names /\ Vals = [n \in Names |-> Vals[n]]
          /\ Vals' = [n \in Names |-> Vals'[n]]
      BY DEF Vals
    <3> QED
      BY <1>2, <3>5, <3>6, <3>7, <3>8
  <2>8. Vals' = [Vals EXCEPT ![to] = Meaning!Written(Vals[to], at, w)]
    BY <2>6, <2>7
  <2>9. Meaning!Writes(w) /\ Len(w) = Len(at)
    BY <1>1, <1>2, <1>5, <2>5 DEF Meaning!Writes
  <2>10. Meaning!Assign
    <3> HIDE DEF w
    <3> QED
      BY <1>1, <2>1, <2>3, <2>5, <2>8, <2>9, SameSyntax DEF Meaning!Assign, Vals
  <2> QED
    BY <2>10 DEF Meaning!Next
<1> QED
  BY <1>6, <1>7

(* A vector is declared.                                                   *)
LEMMA RefineDeclaration ==
  ASSUME RefInv, ~undefined, ~exited, visitDeclaration
  PROVE  Meaning!Next
<1> USE DEF RefInv
<1>1. PICK w \in Vectors, b \in Free :
         /\ IsValue(w, stmt.expr, Elems, Raw)
         /\ env' = [env EXCEPT ![stmt.to] = Yields(stmt.expr, w, b)]
         /\ heap' = [heap EXCEPT ![b] = w]
  BY DEF visitDeclaration
<1> DEFINE v == Struct(SeqIdx(Len(w)), b)
<1>2. stmt.to \in Names /\ ~Copying /\ stmt.op = "declare"
  BY StmtForms DEF StoreInv, TypeOK, StmtShape, visitDeclaration, CopyShape
<1>3. Yields(stmt.expr, w, b) = v
  BY <1>2 DEF StoreInv, Keeps, Yields
<1>4. /\ b \in Blocks /\ b \notin InUse /\ v \in Structs
      /\ heap' \in [Blocks -> Vectors] /\ heap'[b] = w
      /\ \A n \in Names : heap'[env[n].data] = heap[env[n].data]
  BY <1>1, FreshFacts
<1>5. env \in [Names -> Structs] /\ env' = [env EXCEPT ![stmt.to] = v]
  BY <1>1, <1>3 DEF StoreInv, TypeOK
<1>6. Before = heap /\ Before' = heap' /\ stmt' = NoStmt /\ UNCHANGED <<undefined, exited>>
  BY <1>2 DEF Before, visitDeclaration, Copying
<1>7. Content(heap', v) = w
  BY <1>4, DenseContent DEF Struct
<1>8. \A n \in Names : n # stmt.to => Content(heap', env'[n]) = Content(heap, env[n])
  BY <1>4, <1>5 DEF Content
<1>9. Vals' = [Vals EXCEPT ![stmt.to] = w]
  <2>1. \A n \in Names : Vals'[n] = Content(heap', env'[n]) /\ Vals[n] = Content(heap, env[n])
    BY <1>6 DEF Vals, Value
  <2>2. DOMAIN Vals = Names /\ Vals = [n \in Names |-> Vals[n]]
        /\ Vals' = [n \in Names |-> Vals'[n]]
    BY DEF Vals
  <2>3. Vals'[stmt.to] = w
    BY <1>2, <1>5, <1>7, <2>1
  <2> QED
    BY <1>2, <1>8, <2>1, <2>2, <2>3
<1>10. Meaning!IsValue(w, stmt.expr, Vals, Vals)
  BY <1>1, <1>2, OperandsAreValues, SameMeaning
<1>11. Meaning!Declare
  BY <1>2, <1>6, <1>9, <1>10, SameSyntax DEF Meaning!Declare, Vals
<1> QED
  BY <1>11 DEF Meaning!Next

(* The steps that change no vector.                                        *)
LEMMA RefineOthers ==
  ASSUME RefInv, ~undefined, ~exited, Begin \/ visitMatrixLiteral
  PROVE  Meaning!Next
<1>1. /\ ~Copying /\ copy' = copy /\ heap' = heap /\ env' = env
      /\ UNCHANGED <<undefined, exited>>
  BY DEF RefInv, StoreInv, CopyShape, Begin, visitMatrixLiteral, NoStmt
<1>2. Vals' = Vals
  BY <1>1, SameVals DEF Before, Copying
<1>3. CASE Begin
  <2>1. stmt = Meaning!NoStmt /\ stmt' \in Meaning!Stmts
    BY <1>3, SameSyntax, SameStmts DEF Begin
  <2>2. Meaning!Begin
    BY <1>1, <1>2, <2>1 DEF Meaning!Begin, Vals
  <2> QED
    BY <2>2 DEF Meaning!Next
<1>4. CASE visitMatrixLiteral
  <2>1. Meaning!Use
    BY <1>1, <1>2, <1>4, SameSyntax DEF Meaning!Use, Vals, visitMatrixLiteral
  <2> QED
    BY <2>1 DEF Meaning!Next
<1> QED
  BY <1>3, <1>4

LEMMA RefineInit == Init => RefInv /\ Meaning!Init
<1> SUFFICES ASSUME Init PROVE RefInv /\ Meaning!Init
  OBVIOUS
<1>1. StoreInv
  BY InitStore
<1>2. ~Copying
  BY DEF Init, Copying
<1>3. CopyInv /\ SourceInv
  BY <1>2 DEF CopyInv, SourceInv
<1>4. ASSUME NEW n \in Names
      PROVE  Value(n) = <<>>
  <2>1. Value(n) = heap[env[n].data]
    BY <1>1, <1>2, ValueFacts DEF Before
  <2>2. env[n].data \in Blocks
    BY <1>1, ValueFacts
  <2> QED
    BY <2>1, <2>2 DEF Init
<1>5. Meaning!Init
  BY <1>4, SameSyntax DEF Meaning!Init, Init
<1> QED
  BY <1>1, <1>3, <1>5 DEF RefInv

(* Once a write has left its vector, everything is allowed.                *)
LEMMA RefineUndefined ==
  ASSUME StoreInv, undefined, Next
  PROVE  SourceInv' /\ Meaning!Next
<1>1. undefined'
  BY DEF StoreInv, TypeOK, Next, Begin, visitDeclaration, visitAssignment, CopyStep, Put,
         CopyEnd, SetThroughView, visitMatrixLiteral
<1> QED
  BY <1>1 DEF SourceInv, Meaning!Next

LEMMA RefineStep ==
  ASSUME KeepMembers = FALSE, RefInv, [Next]_vars
  PROVE  /\ SourceInv'
         /\ Meaning!Next \/ UNCHANGED Meaning!vars
<1>1. CASE undefined /\ Next
  BY <1>1, RefineUndefined DEF RefInv
<1>2. CASE ~undefined /\ Next /\ visitAssignment
  BY <1>2, RefineAssignment DEF Next
<1>3. CASE ~undefined /\ Next /\ CopyStep
  BY <1>3, RefineCopyStep DEF Next
<1>4. CASE ~undefined /\ Next /\ ~visitAssignment /\ ~CopyStep
  <2>1. Begin \/ visitDeclaration \/ CopyEnd \/ SetThroughView \/ visitMatrixLiteral
    BY <1>4 DEF Next
  <2>2. ~Copying'
    BY <2>1 DEF RefInv, StoreInv, CopyShape, Copying, Begin, visitDeclaration, CopyEnd,
                SetThroughView, visitMatrixLiteral, NoStmt
  <2>3. Meaning!Next
    BY <1>4, <2>1, RefineOthers, RefineDeclaration, RefineCopyEnd, RefineSetElement DEF Next
  <2> QED
    BY <2>2, <2>3 DEF SourceInv
<1>5. CASE UNCHANGED vars
  <2>1. /\ UNCHANGED <<env, heap, stmt, copy, undefined, exited>>
        /\ Vals' = Vals
    BY <1>5, SameVals DEF vars, Before, Copying
  <2>2. UNCHANGED Meaning!vars
    BY <2>1 DEF Meaning!vars, Vals
  <2>3. SourceInv'
    <3> SUFFICES ASSUME Copying', ~undefined' PROVE SourceInv'
      BY DEF SourceInv
    <3>1. PICK w \in Vectors :
            /\ w = Content(heap, copy.from)
            /\ Meaning!Writes(w)
            /\ \A j \in 1 .. copy.done : copy.to.idx[j] \in DOMAIN copy.was
      BY <2>1 DEF RefInv, SourceInv, Copying
    <3>2. Meaning!Place' = Meaning!Place
      BY <2>1 DEF Meaning!Place, Vals
    <3>3. Meaning!Writes(w)'
      BY <2>1, <3>1, <3>2 DEF Meaning!Writes, Vals
    <3> QED
      BY <2>1, <3>1, <3>3 DEF SourceInv
  <2> QED
    BY <2>2, <2>3
<1> QED
  BY <1>1, <1>2, <1>3, <1>4, <1>5

(* Vectors behave as values: a declaration or an assignment changes the    *)
(* vector it names, to the value of its expression, and no other vector;   *)
(* until some write leaves the vector it is made to.                       *)
THEOREM StoreImplementsValues ==
  ASSUME KeepMembers = FALSE
  PROVE  Spec => ImplementsValues
<1>1. Init => SourceInv /\ Meaning!Init
  BY RefineInit DEF RefInv
<1>2. StoreInv /\ CopyInv /\ SourceInv /\ [Next]_vars
         => SourceInv' /\ [Meaning!Next]_(Meaning!vars)
  BY RefineStep DEF RefInv
<1> QED
  BY <1>1, <1>2, StoreInductive, CopyingIsCorrect, PTL
  DEF Spec, ImplementsValues, Meaning!Spec
=============================================================================
