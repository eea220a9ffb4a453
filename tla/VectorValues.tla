---------------------------- MODULE VectorValues ----------------------------
(***************************************************************************)
(* What a program may rely on: each vector has a value of its own, and a   *)
(* statement changes the vector it names and no other.  The only way out   *)
(* is an assignment at an index outside the vector: nothing is promised    *)
(* after that.                                                             *)
(***************************************************************************)
EXTENDS VectorExprs

VARIABLES
  val,        \* the value of each vector
  stmt,       \* the statement that is executed
  undefined,  \* an index outside its vector has been used to write
  exited      \* the program has stopped

vars == <<val, stmt, undefined, exited>>

Init == /\ val = [n \in Names |-> <<>>]
        /\ stmt = NoStmt
        /\ undefined = FALSE
        /\ exited = FALSE

(* s with w written at the given positions, in order.                      *)
LastAt(at, k) == CHOOSE j \in 1 .. Len(at) :
                   at[j] = k /\ \A i \in 1 .. Len(at) : at[i] = k => i <= j
Written(s, at, w) ==
  [k \in 1 .. Len(s) |-> IF \E j \in 1 .. Len(at) : at[j] = k THEN w[LastAt(at, k)] ELSE s[k]]

(* The positions the statement names, and what it writes there.            *)
Place == IF stmt.whole THEN SeqIdx(Len(val[stmt.to])) ELSE stmt.at
InRange == \A j \in 1 .. Len(Place) : Place[j] \in 1 .. Len(val[stmt.to])
Writes(w) == IF stmt.op = "assign" THEN IsValue(w, stmt.expr, val, val)
             ELSE w = [i \in 1 .. Len(Place) |-> stmt.elem]

Begin == /\ stmt = NoStmt
         /\ stmt' \in Stmts
         /\ UNCHANGED <<val, undefined, exited>>

Declare == /\ stmt.op = "declare"
           /\ \E w \in Vectors : /\ IsValue(w, stmt.expr, val, val)
                                 /\ val' = [val EXCEPT ![stmt.to] = w]
           /\ stmt' = NoStmt
           /\ UNCHANGED <<undefined, exited>>

Assign == /\ stmt.op \in {"assign", "fill", "set"}
          /\ InRange
          /\ \E w \in Vectors : /\ Writes(w) /\ Len(w) = Len(Place)
                                /\ val' = [val EXCEPT ![stmt.to] = Written(@, Place, w)]
          /\ stmt' = NoStmt
          /\ UNCHANGED <<undefined, exited>>

Use == /\ stmt.op = "row"
       /\ stmt' = NoStmt
       /\ UNCHANGED <<val, undefined, exited>>

(* A vector of another size is assigned.                                   *)
SizeError == /\ stmt.op = "assign"
             /\ \E w \in Vectors : Writes(w) /\ Len(w) # Len(Place)
             /\ exited' = TRUE
             /\ UNCHANGED <<val, stmt, undefined>>

GoWrong == /\ stmt.op \in {"assign", "fill", "set"}
           /\ ~InRange
           /\ undefined' = TRUE
           /\ UNCHANGED exited

Next == \/ undefined
        \/ ~exited /\ (Begin \/ Declare \/ Assign \/ Use \/ SizeError \/ GoWrong)

Spec == Init /\ [][Next]_vars
=============================================================================
