-------------------------------- MODULE Types --------------------------------
(***************************************************************************)
(* The types of the compiler (Type.h, CompositeTypes.h, TypeRegistry.h)    *)
(* and the relations the passes ask of them (TypeHelpers.h).  A vector or  *)
(* matrix type has the kind of its elements, the size known when it was    *)
(* built (Unknown if none) and the value of the expression it carries for  *)
(* its length (Unknown if none).  A matrix is taken to be square.          *)
(* Const-ness is left out: ProcedureCalls has what depends on it.          *)
(***************************************************************************)
EXTENDS Integers, Sequences

ScalarKinds == {"Bool", "Char", "Int", "Real"}
OpaqueKinds == {"Null", "Identity"}
SimpleKinds == ScalarKinds \union OpaqueKinds \union {"Interval"}

Unknown == -1
Sizes   == Nat \union {Unknown}

Simple(k) == [kind |-> k]
Vector(inner, size, len) ==
  [kind |-> "Vector", inner |-> inner, size |-> size, len |-> len]
Matrix(inner, rows, len) ==
  [kind |-> "Matrix", inner |-> inner, size |-> rows, len |-> len]
Tuple(members) == [kind |-> "Tuple", members |-> members]

BoolTy == Simple("Bool")
IntTy  == Simple("Int")
IntervalTy == Simple("Interval")

SimpleTypes    == {Simple(k) : k \in SimpleKinds}
CompositeTypes ==
  [kind : {"Vector", "Matrix"}, inner : ScalarKinds, size : Sizes, len : Sizes]
FlatTypes  == SimpleTypes \union CompositeTypes
TupleTypes == [kind : {"Tuple"}, members : Seq(FlatTypes)]
Types      == FlatTypes \union TupleTypes

isOpaqueTy(t)    == t.kind \in OpaqueKinds
isScalarTy(t)    == t.kind \in ScalarKinds
isCompositeTy(t) == t.kind \in {"Vector", "Matrix"}
isSizeKnown(t)   == t.size # Unknown

InnerTy(t) == Simple(t.inner)
ElementTy(t) == IF isCompositeTy(t) THEN InnerTy(t) ELSE t

(* getCompositeTyWithInner: the expression for the size is not kept.       *)
WithInner(t, inner) == [t EXCEPT !.inner = inner.kind, !.len = Unknown]

IntVector == Vector("Int", Unknown, Unknown)
-----------------------------------------------------------------------------
SizesAgree(a, b) == a.size = Unknown \/ b.size = Unknown \/ a.size = b.size

isSameVectorAs(a, b) == a.inner = b.inner /\ SizesAgree(a, b)

SameFlat(a, b) == a.kind = b.kind /\ (a.kind = "Vector" => isSameVectorAs(a, b))

SameArity(a, b) == Len(a.members) = Len(b.members)

isSameTupleTypeAs(a, b) ==
  /\ b.kind = "Tuple" /\ SameArity(a, b)
  /\ \A i \in DOMAIN a.members : SameFlat(a.members[i], b.members[i])

isSameTypeAs(a, b) ==
  IF a.kind = "Tuple" THEN isSameTupleTypeAs(a, b) ELSE SameFlat(a, b)
-----------------------------------------------------------------------------
(* Promotion of what is not a vector, to what is neither vector nor tuple. *)
canPromoteIntegerTo(b) == ElementTy(b).kind \in {"Int", "Real"}
canPromoteRealTo(b)    == ElementTy(b).kind = "Real"

SimplePromotes(a, b) ==
  \/ SameFlat(a, b)
  \/ isOpaqueTy(a)
  \/ a.kind = "Int"  /\ canPromoteIntegerTo(b)
  \/ a.kind = "Real" /\ canPromoteRealTo(b)

canPromoteVectorTo(a, b) ==
  /\ a.kind = "Vector"
  /\ SimplePromotes(InnerTy(a), InnerTy(b))
  /\ SizesAgree(a, b)

FlatPromotes(a, b) ==
  \/ SameFlat(a, b)
  \/ IF b.kind = "Vector" THEN canPromoteVectorTo(a, b) ELSE SimplePromotes(a, b)

(* canPromoteVectorTo asserts that what it is given is a vector.           *)
PromotionAsserts(a, b) ==
  ~isSameTypeAs(a, b) /\ b.kind = "Vector" /\ a.kind # "Vector"

(* The members of a tuple are promoted by what they hold, and so no vector *)
(* is promoted as a whole.                                                 *)
MemberPromotes(a, b) ==
  /\ isCompositeTy(a) => isCompositeTy(b)
  /\ FlatPromotes(ElementTy(a), ElementTy(b))

canPromoteTupleTo(a, b) ==
  /\ b.kind = "Tuple" /\ SameArity(a, b)
  /\ \A i \in DOMAIN a.members : MemberPromotes(a.members[i], b.members[i])

canPromoteTo(a, b) ==
  \/ isSameTypeAs(a, b)
  \/ IF a.kind = "Tuple" THEN canPromoteTupleTo(a, b)
     ELSE \/ b.kind = "Tuple" /\ isOpaqueTy(a)
          \/ b.kind # "Tuple" /\ FlatPromotes(a, b)

(* getWiderType throws unless HaveWider.                                   *)
HaveWider(a, b) ==
  /\ isCompositeTy(a) = isCompositeTy(b)
  /\ canPromoteTo(a, b) \/ canPromoteTo(b, a)

(* Mutant: of two types the one that can be promoted.                      *)
NarrowerType(a, b) == IF canPromoteTo(a, b) THEN a ELSE b

getWiderType(a, b) == IF canPromoteTo(a, b) THEN b ELSE a
-----------------------------------------------------------------------------
canCastBoolCharIntTo(b) == ElementTy(b).kind \in ScalarKinds
canCastRealTo(b)        == ElementTy(b).kind \in {"Real", "Int"}
canCastIntervalTo(b)    == b.kind = "Vector" /\ b.inner \in {"Int", "Real"}

SimpleCasts(a, b) ==
  \/ a.kind \in {"Bool", "Char", "Int"} /\ canCastBoolCharIntTo(b)
  \/ a.kind = "Real" /\ canCastRealTo(b)
  \/ a.kind = "Interval" /\ canCastIntervalTo(b)

canCastVectorTo(a, b) == b.kind = "Vector" /\ SimpleCasts(InnerTy(a), InnerTy(b))

FlatCasts(a, b) ==
  IF a.kind = "Vector" THEN canCastVectorTo(a, b) ELSE SimpleCasts(a, b)

(* isValidTupleCast looks at the members of a target that is no tuple.     *)
CastFaults(a, b) == a.kind = "Tuple" /\ b.kind # "Tuple"

isValidTupleCast(a, b) ==
  /\ SameArity(a, b)
  /\ \A i \in DOMAIN a.members : FlatCasts(a.members[i], b.members[i])

canCastTo(a, b) ==
  IF a.kind = "Tuple" THEN b.kind = "Tuple" /\ isValidTupleCast(a, b)
                      ELSE b.kind # "Tuple" /\ FlatCasts(a, b)
-----------------------------------------------------------------------------
isValidForArithOps(t)      == ElementTy(t).kind \in {"Int", "Real", "Interval"}
isValidForComparisonOp(t)  == ElementTy(t).kind \in {"Int", "Real", "Interval"}
isValidForUnaryNot(t)      == ElementTy(t).kind = "Bool"
isValidForUnaryAddOrSub(t) == ElementTy(t).kind \in {"Int", "Real", "Interval"}

FlatEq(t) == ElementTy(t).kind \in {"Int", "Real", "Bool", "Interval"}
isValidForEq(t) ==
  IF t.kind = "Tuple" THEN \A i \in DOMAIN t.members : FlatEq(t.members[i]) ELSE FlatEq(t)
=============================================================================
