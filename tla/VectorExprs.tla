---------------------------- MODULE VectorExprs ----------------------------
(***************************************************************************)
(* Vector-valued expressions and what the runtime computes for them.  The  *)
(* element type is abstracted away: the runtime repeats each loop for      *)
(* every type.                                                             *)
(***************************************************************************)
EXTENDS Naturals, Sequences

CONSTANTS
  Variables,  \* the vector variables of a routine
  Members,    \* the vectors that are members of its tuples
  Elements,   \* element values; the default value is 0
  MaxLen,     \* bound on the length of a vector
  Indices     \* the index vectors the program uses

ASSUME LengthAssumption == MaxLen \in Nat
ASSUME ElementAssumption == 0 \in Elements
ASSUME IndexAssumption == Indices \subseteq Seq(Nat)

Names == Variables \union Members

Vectors == UNION {[1 .. k -> Elements] : k \in 0 .. MaxLen}

(* An index vector that leaves everything where it is: rt_get_seq_idx().   *)
SeqIdx(k) == [i \in 1 .. k |-> i]
-----------------------------------------------------------------------------
(* [1, 2], v, v[at], v || w, reverse(v), as<int[k]>(v)                     *)
LiteralOf(s)   == [form |-> "literal", elems |-> s]
NameOf(n)      == [form |-> "name", of |-> n]
SliceOf(n, at) == [form |-> "slice", of |-> n, at |-> at]
ConcatOf(n, p) == [form |-> "concat", of |-> n, with |-> p]
ReverseOf(n)   == [form |-> "reverse", of |-> n]
CastOf(n, k)   == [form |-> "cast", of |-> n, size |-> k]

Exprs == {LiteralOf(s) : s \in Vectors} \union
         {NameOf(n) : n \in Names} \union
         {SliceOf(n, at) : n \in Names, at \in Indices} \union
         {ConcatOf(n, p) : n \in Names, p \in Names} \union
         {ReverseOf(n) : n \in Names} \union
         {CastOf(n, k) : n \in Names, k \in 0 .. MaxLen}

(* w reads s at the given positions; no position is checked, and one       *)
(* outside s yields whatever is there.                                     *)
ReadsAt(w, s, at) ==
  /\ Len(w) = Len(at)
  /\ \A i \in 1 .. Len(at) : at[i] \in DOMAIN s => w[i] = s[at[i]]

(* w is a value of e, when the elements of a vector are vec[n] and the     *)
(* first elements of its data are raw[n].  What the runtime builds out of  *)
(* data, without regard to the index vector, is built from raw.            *)
IsValue(w, e, vec, raw) ==
  CASE e.form = "literal" -> w = e.elems
    [] e.form = "name"    -> w = vec[e.of]
    [] e.form = "slice"   -> ReadsAt(w, raw[e.of], e.at)
    [] e.form = "concat"  -> w = raw[e.of] \o raw[e.with]
    [] e.form = "reverse" -> LET s == vec[e.of]
                             IN  w = [i \in 1 .. Len(s) |-> s[Len(s) + 1 - i]]
    [] e.form = "cast"    -> LET s == vec[e.of]
                             IN  w = [i \in 1 .. e.size |-> IF i <= Len(s) THEN s[i] ELSE 0]
-----------------------------------------------------------------------------
(* Statements: n is declared with e (or is a member of a tuple that is     *)
(* declared or assigned with e in its place); e, or a scalar, is assigned  *)
(* to n or to n[at]; a scalar is assigned to an element; a row of a matrix *)
(* literal.                                                                *)
DeclarationOf(n, e)  == [op |-> "declare", to |-> n, expr |-> e]
AssignAll(n, e)      == [op |-> "assign", to |-> n, whole |-> TRUE, at |-> <<>>, expr |-> e]
AssignSlice(n, at, e) == [op |-> "assign", to |-> n, whole |-> FALSE, at |-> at, expr |-> e]
FillAll(n, x)        == [op |-> "fill", to |-> n, whole |-> TRUE, at |-> <<>>, elem |-> x]
FillSlice(n, at, x)  == [op |-> "fill", to |-> n, whole |-> FALSE, at |-> at, elem |-> x]
SetElement(n, i, x)  == [op |-> "set", to |-> n, whole |-> FALSE, at |-> <<i>>, elem |-> x]
MatrixRow(e)         == [op |-> "row", expr |-> e]

NoStmt == [op |-> "none"]

Stmts == {DeclarationOf(n, e) : n \in Names, e \in Exprs} \union
         {AssignAll(n, e) : n \in Variables, e \in Exprs} \union
         {AssignSlice(n, at, e) : n \in Names, at \in Indices, e \in Exprs} \union
         {FillAll(n, x) : n \in Variables, x \in Elements} \union
         {FillSlice(n, at, x) : n \in Names, at \in Indices, x \in Elements} \union
         {SetElement(n, i, x) : n \in Names, i \in 0 .. MaxLen + 1, x \in Elements} \union
         {MatrixRow(e) : e \in Exprs}
=============================================================================
