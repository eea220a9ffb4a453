--------------------------- MODULE ExpressionPipeline ---------------------------
(***************************************************************************)
(* One statement on its way through the passes of main.cpp that look at    *)
(* expressions.  Every pass takes the tree the one before it left, with    *)
(* the annotations of the last annotator run, and a statement that no pass *)
(* rejects reaches the code generator.                                     *)
(***************************************************************************)
EXTENDS ExpressionCodegen

CONSTANT Sources      \* the statements: [ctx, ty, e], ty the type written

VARIABLES source,     \* the statement as the programmer wrote it
          tree,       \* its expression now
          target,     \* the type of what is declared, assigned or returned
          pc,         \* the next pass
          result      \* what the compiled expression computes

vars == <<source, tree, target, pc, result>>

M == INSTANCE ExpressionMeaning

Transformations == {"NullIdentityTypeCast", "SimplifyTupleCasting",
                    "SimplifyTupleLiteralMemAccess", "TupleNotEqual",
                    "TupleCompToMemberComp"}

(* Mutant: no annotation after the pass that takes casts of tuples apart.  *)
PipelineStale ==
  <<"ScopeResolution", "Annotate", "Annotate", "Annotate", "ExplicitCastCheck",
    "Annotate", "AssignmentTypeChecker", "Annotate", "Annotate",
    "ReturnValuePromotion", "Annotate", "Annotate", "NullIdentityTypeCast",
    "Annotate", "SimplifyTupleCasting", "SimplifyTupleLiteralMemAccess",
    "Annotate", "TupleNotEqual", "Annotate", "TupleCompToMemberComp", "Annotate",
    "NullIdentityTypeCast", "Annotate", "Annotate", "Annotate", "Annotate", "CodeGen">>

Pipeline ==
  <<"ScopeResolution", "Annotate", "Annotate", "Annotate", "ExplicitCastCheck",
    "Annotate", "AssignmentTypeChecker", "Annotate", "Annotate",
    "ReturnValuePromotion", "Annotate", "Annotate", "NullIdentityTypeCast",
    "Annotate", "SimplifyTupleCasting", "Annotate", "SimplifyTupleLiteralMemAccess",
    "Annotate", "TupleNotEqual", "Annotate", "TupleCompToMemberComp", "Annotate",
    "NullIdentityTypeCast", "Annotate", "Annotate", "Annotate", "Annotate", "CodeGen">>

Generated == Len(Pipeline) + 1
Thrown    == 0

Typable(s) == s.ctx \in {"decl", "assign"}
-----------------------------------------------------------------------------
Init ==
  /\ source \in Sources
  /\ tree = source.e
  /\ target = source.ty
  /\ pc = 1
  /\ result = Value(<<>>)

(* A pass leaves e, or throws.                                             *)
Leaves(e) ==
  /\ UNCHANGED <<source, result>>
  /\ IF e.ty = Rejected THEN pc' = Thrown /\ UNCHANGED tree
                        ELSE pc' = pc + 1 /\ tree' = e

At(pass) == pc \in DOMAIN Pipeline /\ Pipeline[pc] = pass

(* What is declared or assigned gives null and identity a type; without a  *)
(* written type the declaration takes that of its initial value.           *)
ScopeResolution ==
  /\ At("ScopeResolution")
  /\ LET e == Annotate(tree, IF Typable(source) THEN source.ty ELSE NoTy)
         inferred == source.ctx = "decl" /\ source.ty = NoTy IN
     /\ Leaves(Unless(inferred => ~isOpaqueTy(e.ty), e))
     /\ target' = IF inferred /\ e.ty # Rejected THEN e.ty ELSE target

InStatement(e) ==
  CASE source.ctx = "print" -> visitOutStream(e)
    [] source.ctx = "if"    -> visitConditional(e)
    [] OTHER                -> e

ExprTypeAnnotator ==
  /\ At("Annotate")
  /\ Leaves(InStatement(Annotate(tree, NoTy)))
  /\ UNCHANGED target

ExplicitCastCheck ==
  /\ At("ExplicitCastCheck")
  /\ Leaves(Unless(CastsAllowed(tree), tree))
  /\ UNCHANGED target

AssignmentTypeChecker ==
  /\ At("AssignmentTypeChecker")
  /\ Leaves(CASE source.ctx = "decl"   -> visitDeclaration(tree, target)
              [] source.ctx = "assign" -> visitAssignment(tree, target)
              [] OTHER                 -> tree)
  /\ UNCHANGED target

ReturnValuePromotion ==
  /\ At("ReturnValuePromotion")
  /\ Leaves(IF source.ctx = "return" THEN visitReturn(tree, target) ELSE tree)
  /\ UNCHANGED target

Transform ==
  \E pass \in Transformations :
    /\ At(pass)
    /\ LET e == Rewritten(pass, tree)
           failed == \E n \in ToSet(Nodes(e)) : n.ty = Rejected
       IN  Leaves(Unless(~failed, e))
    /\ UNCHANGED target

(* A branch is generated on a boolean only, and no tuple is printed.       *)
InStatementGenerated(e, r) ==
  CASE source.ctx = "if"    -> If(e.ty = BoolTy, r, Refused)
    [] source.ctx = "print" -> If(e.ty.kind # "Tuple", r, Refused)
    [] OTHER                -> r

CodeGen ==
  /\ At("CodeGen")
  /\ pc' = Generated
  /\ result' = CASE source.ctx = "decl"   -> storeDeclared(Lower(tree), tree.ty, target)
                 [] source.ctx = "assign" -> storeAssigned(Lower(tree), tree.ty, target)
                 [] OTHER                 -> InStatementGenerated(tree, Lower(tree))
  /\ UNCHANGED <<source, tree, target>>

Next == \/ ScopeResolution \/ ExprTypeAnnotator \/ ExplicitCastCheck
        \/ AssignmentTypeChecker \/ ReturnValuePromotion \/ Transform \/ CodeGen

Spec == Init /\ [][Next]_vars
-----------------------------------------------------------------------------
(* What the programmer means by the statement.  An assignment keeps the    *)
(* length of its target.                                                   *)
Assigned(x) ==
  IF source.ctx = "assign" /\ isCompositeTy(x.ty) /\ Len(x.val[1]) # source.ty.len
  THEN M!Undefined ELSE x

MeantBy(m) ==
  CASE ~M!isDefined(m) -> m
    [] source.ctx = "print" /\ m.ty.kind = "Interval" -> M!Convert(m, IntVector)
    [] source.ctx = "print" /\ isOpaqueTy(m.ty) -> M!Convert(m, Simple("Char"))
    [] source.ctx = "if" /\ isOpaqueTy(m.ty)    -> M!Convert(m, BoolTy)
    [] OTHER -> M!Convert(m, source.ty)

Meant == MeantBy(Assigned(M!Meaning(source.e, IF Typable(source) THEN source.ty ELSE NoTy)))
-----------------------------------------------------------------------------
Lowered == pc = Generated
TreeNodes == ToSet(Nodes(tree))
Casts(k) == k.op \in {"TypeCast", "ExplicitCast"}
Of(k) == k.kids[1].ty

(* What no pass rejects and the code generator does.                       *)
MixesKinds(k)    == k.op \in LogicalOps /\ ~isSameTypeAs(Of(k), k.kids[2].ty)
CastsUnsized(k)  == /\ Casts(k) /\ isCompositeTy(k.ty) /\ k.ty.len = Unknown
                    /\ isScalarTy(Of(k))
CastsTuple(k)    == Casts(k) /\ Of(k).kind = "Tuple"
JoinsOpaque(k)   == Casts(k) /\ k.ty.kind = "Vector" /\ k.ty.inner \in OpaqueKinds
DividesRanges(k) == k.op = "/" /\ k.ty = IntervalTy
HalfBounded(k)   == k.op = "Interval" /\ \E i \in DOMAIN k.kids : k.kids[i].ty # IntTy
MeasuresOther(k) == k.op \in {"length", "reverse"} /\ Of(k).kind # "Vector"

Unsupported(k) ==
  \/ MixesKinds(k) \/ CastsUnsized(k) \/ CastsTuple(k) \/ JoinsOpaque(k)
  \/ DividesRanges(k) \/ HalfBounded(k) \/ MeasuresOther(k) \/ k.op = "Opaque"

UnsupportedStatement ==
  \/ source.ctx = "if" /\ tree.ty # BoolTy
  \/ source.ctx = "print" /\ tree.ty.kind = "Tuple"
  \/ source.ctx = "decl" /\ isCompositeTy(target) /\ target.len = Unknown
                         /\ isScalarTy(tree.ty)

(* What is generated and computes something else: != of lists and of the   *)
(* members of tuples, == and dot of booleans, casts of a matrix, and a dot *)
(* product with an interval on the right.                                  *)
DiffersInLists(k)   == k.op = "!=" /\ isCompositeTy(Of(k))
DiffersInMembers(k) == k.op = "!=" /\ k.kids[1].op = "MemberAccess"
ComparesFlags(k)    == k.op \in EqOps /\ Of(k).kind = "Vector" /\ Of(k).inner = "Bool"
DotsFlags(k)        == k.op = "dot" /\ k.ty = BoolTy
CastsMatrix(k)      == Casts(k) /\ k.ty.kind = "Matrix"
DotsRange(k)        == k.op = "dot" /\ Casts(k.kids[1]) /\ Casts(k.kids[1].kids[1])

Miscomputed(k) ==
  \/ DiffersInLists(k) \/ DiffersInMembers(k) \/ ComparesFlags(k)
  \/ DotsFlags(k) \/ CastsMatrix(k) \/ DotsRange(k)

(* A written length is not met by a list of another length.                *)
HasWrittenLength ==
  source.ctx \in {"decl", "return"} /\ isCompositeTy(target) /\ target.len # Unknown
-----------------------------------------------------------------------------
(* The annotations a pass reads are those a visit of its tree would give:  *)
(* no pass meets a node without a type, or a type from before a rewriting, *)
(* and running the annotator again changes nothing.  The exception is a    *)
(* dot product with an interval, which every visit wraps once more.        *)
AsksTypes == pc \in DOMAIN Pipeline /\ Pipeline[pc] \notin {"ScopeResolution", "Annotate"}
Fresh == AsksTypes => Annotate(tree, NoTy) = tree \/ \E k \in TreeNodes : DotsRange(k)

(* The transformations leave the code generator no cast of null or         *)
(* identity, no cast to a tuple and no comparison of tuples, however the   *)
(* statement nests them and whatever the passes in between cast.           *)
Simplified ==
  Lowered => \A k \in TreeNodes :
    /\ ~OnTuples(k)
    /\ Casts(k) => k.ty.kind # "Tuple" /\ k.kids[1].op # "Opaque"

(* A statement every pass accepts is one the code generator can generate,  *)
(* but for the forms listed above.                                         *)
AcceptedIsGenerated ==
  Lowered /\ result.st = "refused" =>
    UnsupportedStatement \/ \E k \in TreeNodes : Unsupported(k)

(* A generated statement computes what the programmer means by it: no cast *)
(* the passes insert, drop or move changes a value, but for the forms      *)
(* listed above.                                                           *)
Agrees(r, m) == M!isDefined(m) => r = Value(m.val)
ValuePreserved ==
  /\ Lowered /\ result.st # "refused"
  /\ ~HasWrittenLength /\ \A k \in TreeNodes : ~Miscomputed(k)
  => Agrees(result, Meant)

(* Every call the programmer wrote is made, and made once, although casts  *)
(* of a tuple and comparisons of tuples copy their operands; only a call   *)
(* under a cast to a scalar is repeated.                                   *)
CountOf(c, s) == Cardinality({i \in DOMAIN s : s[i] = c})
CallsOnce ==
  Lowered => \A c \in ToSet(Calls(source.e)) :
    /\ c \in ToSet(Executed(tree))
    /\ CountOf(c, Executed(tree)) > 1 =>
         \E k \in TreeNodes : CastsScalar(k) /\ c \in ToSet(Calls(k))

(* "We only care about EQ Operation on two tuples in this pass"            *)
(* (TupleCompToMemberCompPass.cpp): an operator on tuples that reaches the *)
(* pass is ==, since the pass before it has rewritten every !=.            *)
OnlyEqualityOfTuples ==
  At("TupleCompToMemberComp") => \A k \in TreeNodes : OnTuples(k) => k.op = "=="
=============================================================================
