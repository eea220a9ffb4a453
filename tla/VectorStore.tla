---------------------------- MODULE VectorStore ----------------------------
(***************************************************************************)
(* The vectors of a routine as code generation and the C runtime keep      *)
(* them: a structure with an index vector over a block of data, which      *)
(* views share and copies do not.                                          *)
(***************************************************************************)
EXTENDS VectorExprs, FiniteSets

CONSTANTS
  Blocks,      \* where malloc() may put the data of a vector
  KeepMembers  \* whether the program lets a member of a tuple be stored as it is

ASSUME KeepAssumption == KeepMembers \in BOOLEAN

VARIABLES
  env,        \* the structure of each vector: its index vector and its data
  heap,       \* the contents of the blocks
  freed,      \* blocks in use that have been freed
  stmt,       \* the statement that is executed
  copy,       \* rt_vector_copy(): from, to, iterations done; what to held
  undefined,  \* a position outside its block has been written
  exited      \* exit(1)

vars == <<env, heap, freed, stmt, copy, undefined, exited>>

Struct(idx, b) == [idx |-> idx, data |-> b]
Structs == [idx : Seq(Nat), data : Blocks]
Size(v) == Len(v.idx)
-----------------------------------------------------------------------------
(* What the elements of v are, read through its index vector.              *)
Content(h, v) == [i \in 1 .. Size(v) |-> IF v.idx[i] \in DOMAIN h[v.data]
                                         THEN h[v.data][v.idx[i]] ELSE 0]
FirstOf(s, k) == [i \in 1 .. k |-> IF i \in DOMAIN s THEN s[i] ELSE 0]

(* visitIdentifier() hands a copy to the operator, visitMemberAccess() the *)
(* vector itself.                                                          *)
Elems == [n \in Names |-> Content(heap, env[n])]
Raw   == [n \in Names |-> IF n \in Variables THEN Content(heap, env[n])
                          ELSE FirstOf(heap[env[n].data], Size(env[n]))]

(* Mutants: visitIdentifier() copies nothing; visitIndex() keeps its view.  *)
IsMember(e) == e.form = "name" /\ e.of \in Members
YieldsName(e, w, b) == IF e.form = "name" THEN env[e.of] ELSE Struct(SeqIdx(Len(w)), b)
YieldsView(e, w, b) == IF e.form = "slice" THEN Struct(e.at, env[e.of].data)
                       ELSE Struct(SeqIdx(Len(w)), b)

(* The structure an expression with value w yields: built in block b,      *)
(* except for a member that is the whole of it.                            *)
Yields(e, w, b) == IF IsMember(e) THEN env[e.of] ELSE Struct(SeqIdx(Len(w)), b)

InUse == {env[n].data : n \in Names}
Free  == Blocks \ (InUse \ freed)

(* The program stores or frees a member, or reads and writes it in one     *)
(* assignment.                                                             *)
Keeps(s) == \/ s.op \in {"declare", "row"} /\ IsMember(s.expr)
            \/ s.op = "assign" /\ IsMember(s.expr) /\ s.expr.of = s.to
-----------------------------------------------------------------------------
NoCopy == [done |-> 0, from |-> <<>>]
Copying == copy # NoCopy

Init == /\ env \in {e \in [Names -> {Struct(<<>>, b) : b \in Blocks}] :
                      \A n, p \in Names : n # p => e[n].data # e[p].data}
        /\ heap = [b \in Blocks |-> <<>>]
        /\ freed = {}
        /\ stmt = NoStmt
        /\ copy = NoCopy
        /\ undefined = FALSE
        /\ exited = FALSE

Begin == /\ stmt = NoStmt
         /\ \E s \in Stmts : (Keeps(s) => KeepMembers) /\ stmt' = s
         /\ UNCHANGED <<env, heap, freed, copy, undefined, exited>>

visitDeclaration ==
  /\ stmt.op = "declare"
  /\ \E w \in Vectors, b \in Free :
       /\ IsValue(w, stmt.expr, Elems, Raw)
       /\ env' = [env EXCEPT ![stmt.to] = Yields(stmt.expr, w, b)]
       /\ heap' = [heap EXCEPT ![b] = w]
       /\ freed' = freed \ {b}
  /\ stmt' = NoStmt
  /\ UNCHANGED <<copy, undefined, exited>>

(* The reference of the assignment: the vector or, whatever its index      *)
(* vector, a view of its data.                                             *)
Target == IF stmt.whole THEN env[stmt.to] ELSE Struct(stmt.at, env[stmt.to].data)

(* Blocks that nothing refers to are forgotten when a statement ends.      *)
Reachable(h, e) == [b \in Blocks |-> IF \E n \in Names : e[n].data = b THEN h[b] ELSE <<>>]
Done == stmt' = NoStmt /\ heap' = Reachable(heap, env)

(* Mutant: the loop counts from one.                                       *)
CountsFromOne(from) ==
  IF Size(from) # Size(Target)
  THEN exited' = TRUE /\ UNCHANGED copy
  ELSE /\ copy' = [done |-> 1, from |-> from, to |-> Target, was |-> heap[Target.data]]
       /\ UNCHANGED exited

rt_vector_copy(from) ==
  IF Size(from) # Size(Target)
  THEN exited' = TRUE /\ UNCHANGED copy
  ELSE /\ copy' = [done |-> 0, from |-> from, to |-> Target, was |-> heap[Target.data]]
       /\ UNCHANGED exited

visitAssignment ==
  /\ stmt.op \in {"assign", "fill"} /\ ~Copying
  /\ \E w \in Vectors, b \in Free :
       /\ heap' = [heap EXCEPT ![b] = w]
       /\ freed' = freed \ {b}
       /\ \/ /\ stmt.op = "assign"
             /\ IsValue(w, stmt.expr, Elems, Raw)
             /\ rt_vector_copy(Yields(stmt.expr, w, b))
          \/ /\ stmt.op = "fill"
             /\ w = [i \in 1 .. Size(Target) |-> stmt.elem]
             /\ rt_vector_copy(Struct(SeqIdx(Len(w)), b))
  /\ UNCHANGED <<env, stmt, undefined>>

(* Position p of block b is written, whatever the block's size; outside    *)
(* the block the write is lost or lands in some other vector.              *)
Put(b, p, x) ==
  IF p \in DOMAIN heap[b]
  THEN heap' = [heap EXCEPT ![b][p] = x] /\ UNCHANGED undefined
  ELSE /\ undefined' = TRUE
       /\ \/ UNCHANGED heap
          \/ \E c \in InUse : \E q \in DOMAIN heap[c] : heap' = [heap EXCEPT ![c][q] = x]

(* Mutant: the source is read from its end.                                *)
CopyFromEnd ==
  /\ Copying /\ copy.done < Size(copy.from)
  /\ LET i == copy.done + 1
     IN  Put(copy.to.data, copy.to.idx[i], Content(heap, copy.from)[Size(copy.from) - copy.done])
  /\ copy' = [copy EXCEPT !.done = @ + 1]
  /\ UNCHANGED <<env, freed, stmt, exited>>

CopyStep ==
  /\ Copying /\ copy.done < Size(copy.from)
  /\ LET i == copy.done + 1
     IN  Put(copy.to.data, copy.to.idx[i], Content(heap, copy.from)[i])
  /\ copy' = [copy EXCEPT !.done = @ + 1]
  /\ UNCHANGED <<env, freed, stmt, exited>>

CopyEnd ==
  /\ Copying /\ copy.done = Size(copy.from)
  /\ copy' = NoCopy
  /\ Done
  /\ UNCHANGED <<env, freed, undefined, exited>>

(* Mutant: the index of the view is taken to count from 0.                 *)
SetNextElement ==
  /\ stmt.op = "set"
  /\ Put(env[stmt.to].data, stmt.at[1] + 1, stmt.elem)
  /\ stmt' = NoStmt
  /\ UNCHANGED <<env, freed, copy, exited>>

(* A view of one element, and rt_vector_set() of its first.                *)
SetThroughView ==
  /\ stmt.op = "set"
  /\ Put(env[stmt.to].data, stmt.at[1], stmt.elem)
  /\ stmt' = NoStmt
  /\ UNCHANGED <<env, freed, copy, exited>>

(* Mutant: the vector a row names is freed, not a copy of it.              *)
FreesNamed ==
  /\ stmt.op = "row"
  /\ freed' = IF stmt.expr.form = "name" THEN freed \union {env[stmt.expr.of].data} ELSE freed
  /\ stmt' = NoStmt
  /\ UNCHANGED <<env, heap, copy, undefined, exited>>

(* The row is copied into the matrix and its data freed.                   *)
visitMatrixLiteral ==
  /\ stmt.op = "row"
  /\ freed' = IF IsMember(stmt.expr) THEN freed \union {env[stmt.expr.of].data} ELSE freed
  /\ stmt' = NoStmt
  /\ UNCHANGED <<env, heap, copy, undefined, exited>>

Next == /\ ~exited
        /\ \/ Begin \/ visitDeclaration \/ visitAssignment \/ CopyStep \/ CopyEnd
           \/ SetThroughView \/ visitMatrixLiteral

Spec == Init /\ [][Next]_vars
-----------------------------------------------------------------------------
CopyOK == \/ copy = NoCopy
          \/ /\ copy \in [done : Nat, from : Structs, to : Structs, was : Vectors]
             /\ copy.done <= Size(copy.from)

TypeOK == /\ env \in [Names -> Structs]
          /\ heap \in [Blocks -> Vectors]
          /\ freed \subseteq Blocks
          /\ stmt \in Stmts \union {NoStmt}
          /\ CopyOK
          /\ undefined \in BOOLEAN /\ exited \in BOOLEAN

(* Two vectors never share their data: visitIndex() and visitIdentifier()  *)
(* copy so that there are "no lingering references to other vectors".      *)
Separated == \A n, p \in Names : n # p => env[n].data # env[p].data

(* No variable and no member is a view.  Element-wise operations, || and   *)
(* views read data from its start and take this for granted.               *)
OperandsAreDense == \A n \in Names : env[n].idx = SeqIdx(Len(heap[env[n].data]))

(* A matrix literal frees the data of its rows: it never is that of a      *)
(* vector that is still in use.                                            *)
NoneFreed == \A n \in Names : env[n].data \notin freed

(* What is copied is not the vector that is written, and the elements      *)
(* written so far are those of the source, the last one first.             *)
CopyInv ==
  (Copying /\ ~undefined) =>
     LET old == copy.was
         now == heap[copy.to.data]
     IN  /\ copy.from.data # copy.to.data
         /\ Len(now) = Len(old)
         /\ \A k \in DOMAIN now :
               \/ /\ \A j \in 1 .. copy.done : copy.to.idx[j] # k
                  /\ now[k] = old[k]
               \/ \E j \in 1 .. copy.done :
                     /\ copy.to.idx[j] = k
                     /\ \A i \in (j + 1) .. copy.done : copy.to.idx[i] # k
                     /\ now[k] = Content(heap, copy.from)[j]

(* The vectors are values: the block that is written counts from the end   *)
(* of the assignment on.                                                   *)
Before == IF Copying /\ ~undefined THEN [heap EXCEPT ![copy.to.data] = copy.was] ELSE heap
Value(n) == Content(Before, env[n])
Meaning == INSTANCE VectorValues WITH val <- [n \in Names |-> Value(n)]
ImplementsValues == Meaning!Spec
=============================================================================
