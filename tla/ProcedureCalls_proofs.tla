----------------------- MODULE ProcedureCalls_proofs -----------------------
(***************************************************************************)
(* Theorems about ProcedureCalls, for every set of variables, every list   *)
(* of parameters and every list of arguments.                              *)
(***************************************************************************)
EXTENDS ProcedureCalls, TLAPS, WellFoundedInduction, NaturalsInduction

Passes == {"ScopeResolutionPass", "ChangeMemAccessToMemRef", "CallableArgumentTypeCheckingPass",
           "ProcedureCallAliasCheckPass", "visitProcedureCall"}

CastOf(i) == [node |-> "TypeCast", expr |-> source[i], type |-> params[i].type]

(* What the passes may have made of an argument.                           *)
ArgsInv ==
  /\ DOMAIN args = DOMAIN source
  /\ \A i \in DOMAIN args :
       \/ args[i] = source[i]
       \/ i \in VarParams /\ args[i] = RefTo(source[i])
       \/ i \in DOMAIN params /\ params[i].const /\ args[i] = CastOf(i)

(* Once checked, the argument of a var parameter is a reference to a       *)
(* variable, or a slice.                                                   *)
Checked(i) == i \in DOMAIN args /\ IsRef(args[i]) /\ ~IsConst(args[i])

CheckedInv == error = "none" /\ pc > 3 => \A i \in VarParams : Checked(i)

(* Before the call nothing is written; after it a cell that is not 0 was   *)
(* written through the var parameter whose number it holds.                *)
FrameInv ==
  /\ pc <= 6 => frame = <<>>
  /\ \A i \in DOMAIN frame :
       /\ i \in DOMAIN args
       /\ IF i \in VarParams THEN Checked(i) /\ frame[i] = Reference(args[i])
          ELSE frame[i].by = "value" /\ frame[i].held \subseteq {0}

Written(c, i) ==
  /\ i \in VarParams \cap DOMAIN frame
  /\ \E j \in 1 .. Width : j <= frame[i].size /\ c = <<frame[i].sym, frame[i].base + j - 1>>

MemoryInv ==
  /\ memory \in [Cell -> Nat]
  /\ \A c \in Cell : memory[c] # 0 => Written(c, memory[c])
  /\ pc <= 6 => memory = [c \in Cell |-> 0]

BaseInv ==
  /\ params \in Lists([type : Types, const : BOOLEAN])
  /\ source \in Lists(ArgExpr)
  /\ pc \in 1 .. 7

CallInv == BaseInv /\ ArgsInv /\ CheckedInv /\ FrameInv /\ MemoryInv
-----------------------------------------------------------------------------
(* Argument expressions.                                                   *)
LEMMA ExprForms ==
  ASSUME NEW e \in ArgExpr
  PROVE  \/ e = Literal
         \/ \E n \in {"Identifier", "MemberAccess", "Index"}, s \in Sym, k \in 1 .. Width :
              e = Node(n, s, k)
  BY WidthAssumption DEF ArgExpr, Identifiers, Members, Slices

LEMMA RefForms ==
  ASSUME NEW e \in ArgExpr
  PROVE  /\ ~IsRef(e)
         /\ RefTo(RefTo(e)) = RefTo(e)
         /\ IsRef(RefTo(e)) => RefTo(e).sym = e.sym /\ RefTo(e).at = e.at
         /\ Denotes(e) \subseteq Cell
  <1>1. CASE e = Literal
    BY <1>1 DEF Literal, IsRef, RefTo, Denotes
  <1>2. ASSUME NEW s \in Sym, NEW k \in 1 .. Width, e = Node("Identifier", s, k)
        PROVE  /\ ~IsRef(e)
               /\ RefTo(RefTo(e)) = RefTo(e)
               /\ RefTo(e).sym = e.sym /\ RefTo(e).at = e.at
               /\ Denotes(e) \subseteq Cell
    <2>1. RefTo(e) = Node("IdentReference", s, k)
      BY <1>2 DEF Node, RefTo
    <2> QED BY <1>2, <2>1, WidthAssumption
        DEF Node, IsRef, RefTo, Denotes, CellsOf, SizeOf, Cell
  <1>3. ASSUME NEW s \in Sym, NEW k \in 1 .. Width, e = Node("MemberAccess", s, k)
        PROVE  /\ ~IsRef(e)
               /\ RefTo(RefTo(e)) = RefTo(e)
               /\ RefTo(e).sym = e.sym /\ RefTo(e).at = e.at
               /\ Denotes(e) \subseteq Cell
    <2>1. RefTo(e) = Node("MemberReference", s, k)
      BY <1>3 DEF Node, RefTo
    <2> QED BY <1>3, <2>1 DEF Node, IsRef, RefTo, Denotes, Cell
  <1>4. ASSUME NEW s \in Sym, NEW k \in 1 .. Width, e = Node("Index", s, k)
        PROVE  /\ ~IsRef(e)
               /\ RefTo(RefTo(e)) = RefTo(e)
               /\ RefTo(e).sym = e.sym /\ RefTo(e).at = e.at
               /\ Denotes(e) \subseteq Cell
    <2>1. RefTo(e) = Node("IndexReference", s, k)
      BY <1>4 DEF Node, RefTo
    <2>2. Denotes(e) = {s} \X (k .. Width)
      BY <1>4 DEF Node, Denotes
    <2> QED BY <1>4, <2>1, <2>2, WidthAssumption DEF Node, IsRef, RefTo, Cell
  <1> QED BY <1>1, <1>2, <1>3, <1>4, ExprForms

(* References and casts are left alone.                                    *)
LEMMA RefToFixed ==
  ASSUME NEW e, IsRef(e) \/ e.node = "TypeCast" PROVE RefTo(e) = e
  BY DEF IsRef, RefTo

(* Where each pass stands in main.cpp.                                     *)
LEMMA PassPlace ==
  ASSUME BaseInv, NEW pass, Running(pass)
  PROVE  /\ error = "none" /\ pc \in 1 .. 6
         /\ pass = "ScopeResolutionPass" => pc = 1
         /\ pass = "ChangeMemAccessToMemRef" => pc \in {2, 5}
         /\ pass = "CallableArgumentTypeCheckingPass" => pc = 3
         /\ pass = "ProcedureCallAliasCheckPass" => pc = 4
         /\ pass = "visitProcedureCall" => pc = 6
  BY DEF BaseInv, Running, Pipeline

(* A list of parameters or of arguments has indices 1 .. n.                *)
LEMMA ListDomain ==
  ASSUME NEW S, NEW l \in Lists(S)
  PROVE  \E n \in Nat : DOMAIN l = 1 .. n /\ Len(l) = n /\ l \in [1 .. n -> S]
  <1>1. PICK n \in 0 .. MaxArgs : l \in [1 .. n -> S]
    BY DEF Lists
  <1>2. Len(l) = n /\ n \in Nat
    BY <1>1, WidthAssumption
  <1> QED BY <1>1, <1>2

(* FirstError is "none" only when no argument is at fault.                 *)
LESS == {ss \in Nat \X Nat : ss[1] < ss[2]}

LEMMA LeastExists ==
  ASSUME NEW B, B \subseteq Nat, B # {}
  PROVE  \E i \in B : \A j \in B : i <= j
  <1>1. IsWellFoundedOn(LESS, Nat)
    BY NatLessThanWellFounded DEF OpToRel, LESS
  <1>2. PICK x \in B : \A y \in B : ~ (<<y, x>> \in LESS)
    BY <1>1, WFMin
  <1>3. ASSUME NEW y \in B PROVE x <= y
    <2>1. x \in Nat /\ y \in Nat
      OBVIOUS
    <2>2. y < x => <<y, x>> \in LESS
      BY <2>1 DEF LESS
    <2> QED BY <1>2, <2>1, <2>2
  <1> QED BY <1>3

LEMMA NoFirstError ==
  ASSUME BaseInv, FirstError(BadArguments) = "none"
  PROVE  \A i \in DOMAIN params : BadArgument(i) = "none"
  <1> DEFINE B == {i \in DOMAIN BadArguments : BadArguments[i] # "none"}
             b == CHOOSE i \in B : \A j \in B : i <= j
  <1>1. FirstError(BadArguments) = IF B = {} THEN "none" ELSE BadArguments[b]
    BY DEF FirstError
  <1>2. B \subseteq Nat
    BY ListDomain DEF BaseInv, BadArguments
  <1>3. B = {}
    <2> SUFFICES ASSUME B # {} PROVE FALSE
      OBVIOUS
    <2>1. b \in B
      <3> HIDE DEF B
      <3> QED BY <1>2, LeastExists
    <2> QED BY <1>1, <2>1
  <1> QED BY <1>3 DEF BadArguments
-----------------------------------------------------------------------------
(* The inductive invariant.                                                *)
LEMMA ParamIndex ==
  ASSUME BaseInv, NEW i \in DOMAIN params
  PROVE  i \in Nat \ {0}
  BY ListDomain DEF BaseInv

LEMMA SourceForm ==
  ASSUME BaseInv, NEW i \in DOMAIN source
  PROVE  source[i] \in ArgExpr
  BY ListDomain DEF BaseInv

LEMMA InitCallInv == Init => CallInv
  <1> SUFFICES ASSUME Init PROVE CallInv
    OBVIOUS
  <1>1. BaseInv /\ ArgsInv /\ CheckedInv
    BY DEF Init, BaseInv, ArgsInv, CheckedInv
  <1>2. FrameInv /\ MemoryInv
    BY DEF Init, FrameInv, MemoryInv
  <1> QED BY <1>1, <1>2 DEF CallInv

(* Before the call there is no frame and nothing is written.               *)
LEMMA BeforeCall ==
  ASSUME FrameInv, MemoryInv, pc \in 1 .. 6, pc' \in 1 .. 7, UNCHANGED <<memory, frame>>
  PROVE  FrameInv' /\ MemoryInv'
  <1>1. frame = <<>> /\ memory = [c \in Cell |-> 0]
    BY DEF FrameInv, MemoryInv
  <1>2. FrameInv'
    BY <1>1 DEF FrameInv
  <1>3. MemoryInv'
    BY <1>1 DEF MemoryInv
  <1> QED BY <1>2, <1>3

LEMMA NextResolve ==
  ASSUME CallInv, ResolveCall PROVE CallInv'
  <1> USE DEF CallInv
  <1>1. error = "none" /\ pc = 1 /\ pc' = 2 /\ UNCHANGED <<params, source, memory, frame>>
    BY PassPlace DEF ResolveCall, Finish
  <1>2. UNCHANGED args
    BY DEF ResolveCall, Throw, Become
  <1>3. BaseInv' /\ FrameInv' /\ MemoryInv'
    BY <1>1, BeforeCall DEF BaseInv
  <1>4. ArgsInv' /\ CheckedInv'
    BY <1>1, <1>2 DEF ArgsInv, CheckedInv, VarParams, CastOf
  <1> QED BY <1>3, <1>4

LEMMA NextChange ==
  ASSUME CallInv, ChangeMemAccessToMemRef PROVE CallInv'
  <1> USE DEF CallInv
  <1>1. error = "none" /\ pc \in {2, 5} /\ pc' = pc + 1
        /\ UNCHANGED <<params, source, memory, frame>>
    BY PassPlace DEF ChangeMemAccessToMemRef, Finish
  <1>2. BaseInv' /\ FrameInv' /\ MemoryInv'
    BY <1>1, BeforeCall DEF BaseInv
  <1>3. CASE Throw("NoSuchChild")
    BY <1>1, <1>2, <1>3 DEF Throw, ArgsInv, CheckedInv, VarParams, CastOf
  <1>4. CASE VarParams \subseteq DOMAIN args /\ Become(Referenced)
    <2>1. DOMAIN args' = DOMAIN source /\ error' = error
          /\ \A i \in DOMAIN source :
               args'[i] = IF i \in VarParams THEN RefTo(args[i]) ELSE args[i]
      BY <1>4 DEF Become, Referenced, ArgsInv
    <2>2. ASSUME NEW i \in VarParams, i \in DOMAIN source PROVE args'[i] = RefTo(source[i])
      BY <2>1, <2>2, SourceForm, RefForms DEF ArgsInv, VarParams
    <2>3. ArgsInv'
      BY <1>1, <2>1, <2>2 DEF ArgsInv, VarParams, CastOf
    <2>4. CheckedInv'
      <3> SUFFICES ASSUME pc = 5, NEW i \in VarParams PROVE Checked(i)'
        BY <1>1, <2>1 DEF CheckedInv, VarParams
      <3>1. Checked(i)
        BY <1>1 DEF CheckedInv
      <3>2. args'[i] = args[i] /\ i \in DOMAIN args'
        BY <3>1, <2>1, RefToFixed DEF Checked, ArgsInv
      <3> QED BY <3>1, <3>2 DEF Checked
    <2> QED BY <1>2, <2>3, <2>4
  <1> QED BY <1>3, <1>4 DEF ChangeMemAccessToMemRef

LEMMA NextTypes ==
  ASSUME CallInv, CallableArgumentTypeChecking PROVE CallInv'
  <1> USE DEF CallInv
  <1>1. error = "none" /\ pc = 3 /\ pc' = 4 /\ UNCHANGED <<params, source, memory, frame>>
    BY PassPlace DEF CallableArgumentTypeChecking, Finish
  <1>2. BaseInv' /\ FrameInv' /\ MemoryInv'
    BY <1>1, BeforeCall DEF BaseInv
  <1>3. CASE UNCHANGED args /\ error' # "none"
    BY <1>1, <1>2, <1>3 DEF ArgsInv, CheckedInv, VarParams, CastOf
  <1>4. CASE /\ Len(args) = Len(params)
             /\ FirstError(BadArguments) = "none"
             /\ Become([i \in DOMAIN args |-> Casted(i)])
    <2>1. DOMAIN args = DOMAIN params /\ DOMAIN args = DOMAIN source
      BY <1>4, ListDomain DEF BaseInv, ArgsInv
    <2>2. DOMAIN args' = DOMAIN args /\ \A i \in DOMAIN args : args'[i] = Casted(i)
      BY <1>4 DEF Become
    <2>3. ASSUME NEW i \in DOMAIN args, params[i].const
          PROVE  args'[i] = source[i] \/ args'[i] = CastOf(i)
      <3>1. args[i] = source[i] \/ args[i] = CastOf(i)
        BY <2>3 DEF ArgsInv, VarParams
      <3>2. args[i] = CastOf(i) => TypeOf(args[i]) = params[i].type
        BY DEF CastOf, TypeOf
      <3> QED BY <2>2, <2>3, <3>1, <3>2 DEF Casted, CastOf
    <2>4. ASSUME NEW i \in DOMAIN args, ~params[i].const PROVE args'[i] = args[i]
      BY <2>2, <2>4 DEF Casted
    <2>5. ArgsInv'
      BY <1>1, <2>1, <2>2, <2>3, <2>4 DEF ArgsInv, VarParams, CastOf
    <2>6. ASSUME NEW i \in VarParams PROVE Checked(i)'
      <3>1. BadArgument(i) = "none" /\ ~params[i].const /\ i \in DOMAIN args
        BY <1>4, <2>1, NoFirstError DEF VarParams
      <3>2. IsRef(args[i]) /\ ~IsConst(args[i])
        BY <3>1 DEF BadArgument
      <3> QED BY <3>1, <3>2, <2>2, <2>4 DEF Checked
    <2> QED BY <1>1, <1>2, <2>5, <2>6 DEF CheckedInv, VarParams
  <1>5. ASSUME NEW e, e # "none", Throw(e) PROVE UNCHANGED args /\ error' # "none"
    BY <1>5 DEF Throw
  <1> QED BY <1>3, <1>4, <1>5 DEF CallableArgumentTypeChecking, CountDiffers

LEMMA NextAlias ==
  ASSUME CallInv, ProcedureCallAliasCheck PROVE CallInv'
  <1> USE DEF CallInv
  <1>1. error = "none" /\ pc = 4 /\ pc' = 5 /\ UNCHANGED <<params, source, memory, frame>>
    BY PassPlace DEF ProcedureCallAliasCheck, Finish
  <1>2. UNCHANGED args
    BY DEF ProcedureCallAliasCheck, Throw, Become
  <1>3. BaseInv' /\ FrameInv' /\ MemoryInv'
    BY <1>1, BeforeCall DEF BaseInv
  <1>4. ArgsInv' /\ CheckedInv'
    BY <1>1, <1>2 DEF ArgsInv, CheckedInv, VarParams, CastOf, Checked
  <1> QED BY <1>3, <1>4

(* A copy is taken before anything is written.                             *)
LEMMA CopyIsClean ==
  ASSUME BaseInv, memory = [c \in Cell |-> 0], NEW i \in DOMAIN source
  PROVE  Copy(source[i]).by = "value" /\ Copy(source[i]).held \subseteq {0}
  <1>1. Denotes(source[i]) \subseteq Cell
    BY SourceForm, RefForms
  <1> QED BY <1>1 DEF Copy

LEMMA NextCall ==
  ASSUME CallInv, visitProcedureCall PROVE CallInv'
  <1> USE DEF CallInv
  <1>1. error = "none" /\ pc = 6 /\ pc' = 7 /\ UNCHANGED <<params, source, args, error, memory>>
    BY PassPlace DEF visitProcedureCall
  <1>2. BaseInv' /\ ArgsInv' /\ CheckedInv'
    BY <1>1 DEF BaseInv, ArgsInv, CheckedInv, VarParams, CastOf, Checked
  <1>3. memory = [c \in Cell |-> 0]
    BY <1>1 DEF MemoryInv
  <1>4. DOMAIN frame' = DOMAIN args /\ \A i \in DOMAIN args : frame'[i] = Passed(args[i])
    BY DEF visitProcedureCall
  <1>5. ASSUME NEW i \in DOMAIN args, i \in VarParams
        PROVE  Checked(i) /\ frame'[i] = Reference(args[i])
    BY <1>1, <1>4, <1>5 DEF CheckedInv, Checked, Passed
  <1>6. ASSUME NEW i \in DOMAIN args, i \notin VarParams
        PROVE  frame'[i].by = "value" /\ frame'[i].held \subseteq {0}
    <2>1. i \in DOMAIN source
      BY DEF ArgsInv
    <2>2. CASE args[i] = source[i]
      <3>1. ~IsRef(args[i])
        BY <2>1, <2>2, SourceForm, RefForms
      <3>2. args[i].node # "TypeCast"
        <4>1. source[i] \in ArgExpr
          BY <2>1, SourceForm
        <4> QED BY <4>1, <2>2, ExprForms DEF Node, Literal
      <3> QED BY <1>3, <1>4, <2>1, <2>2, <3>1, <3>2, CopyIsClean DEF Passed
    <2>3. CASE args[i] = CastOf(i)
      <3>1. Passed(args[i]) = Copy(source[i])
        BY <2>3 DEF CastOf, Passed, IsRef
      <3> QED BY <1>3, <1>4, <2>1, <3>1, CopyIsClean
    <2> QED BY <1>6, <2>2, <2>3 DEF ArgsInv
  <1>7. FrameInv'
    <2>1. ASSUME NEW i \in DOMAIN frame'
          PROVE  /\ i \in DOMAIN args'
                 /\ IF i \in VarParams' THEN Checked(i)' /\ frame'[i] = Reference(args'[i])
                    ELSE frame'[i].by = "value" /\ frame'[i].held \subseteq {0}
      BY <1>1, <1>4, <1>5, <1>6 DEF VarParams, Checked
    <2> QED BY <1>1, <2>1 DEF FrameInv, Reference
  <1>8. MemoryInv'
    BY <1>1, <1>3 DEF MemoryInv
  <1> QED BY <1>2, <1>7, <1>8

LEMMA NextAssign ==
  ASSUME CallInv, NEW i \in 1 .. MaxArgs, NEW j \in 1 .. Width, Assign(i, j)
  PROVE  CallInv'
  <1> USE DEF CallInv
  <1> DEFINE a == <<frame[i].sym, frame[i].base + j - 1>>
  <1>1. /\ i \in VarParams \cap DOMAIN frame
        /\ j <= frame[i].size
        /\ memory' = [memory EXCEPT ![a] = i]
        /\ UNCHANGED <<params, source, args, pc, error, frame>>
    BY DEF Assign
  <1>2. BaseInv' /\ ArgsInv' /\ CheckedInv'
    BY <1>1 DEF BaseInv, ArgsInv, CheckedInv, VarParams, CastOf, Checked
  <1>3. FrameInv'
    BY <1>1 DEF FrameInv, VarParams, Checked, Reference
  <1>4. MemoryInv'
    <2>1. i \in Nat
      BY <1>1, ParamIndex DEF VarParams
    <2>2. memory' \in [Cell -> Nat]
      BY <1>1, <2>1 DEF MemoryInv
    <2>3. ~(pc <= 6)
      BY <1>1 DEF FrameInv
    <2>4. ASSUME NEW c \in Cell, memory'[c] # 0 PROVE Written(c, memory'[c])
      <3>1. CASE c = a
        BY <1>1, <3>1 DEF MemoryInv, Written
      <3>2. CASE c # a
        BY <1>1, <2>4, <3>2 DEF MemoryInv
      <3> QED BY <3>1, <3>2
    <2>5. ASSUME NEW c \in Cell, memory'[c] # 0 PROVE Written(c, memory[c])'
      BY <1>1, <2>4, <2>5 DEF Written, VarParams
    <2> QED BY <1>1, <2>2, <2>3, <2>5 DEF MemoryInv
  <1> QED BY <1>2, <1>3, <1>4

LEMMA NextCallInv == CallInv /\ [Next]_vars => CallInv'
  <1> SUFFICES ASSUME CallInv, [Next]_vars PROVE CallInv'
    OBVIOUS
  <1>1. CASE UNCHANGED vars
    BY <1>1 DEF vars, CallInv, BaseInv, ArgsInv, CheckedInv, FrameInv, MemoryInv,
                Written, VarParams, CastOf, Checked, Reference
  <1> QED BY <1>1, NextResolve, NextChange, NextTypes, NextAlias, NextCall, NextAssign DEF Next

THEOREM CallInvariant == Spec => []CallInv
  BY InitCallInv, NextCallInv, PTL DEF Spec
-----------------------------------------------------------------------------
(* A const parameter keeps the value of the call (visitProcedureCall       *)
(* copies it before the callee writes anything).                           *)
THEOREM CallConstParam == Spec => []ConstParamKeepsValue
  <1>1. CallInv => ConstParamKeepsValue
    BY DEF CallInv, FrameInv, ConstParamKeepsValue, Shows, VarParams
  <1> QED BY <1>1, CallInvariant, PTL

(* The argument behind a written cell: a variable, a member or a slice     *)
(* that ChangeMemAccessToMemRef made a reference.                          *)
LEMMA WriterIsReference ==
  ASSUME CallInv, NEW i \in VarParams \cap DOMAIN frame
  PROVE  /\ i \in DOMAIN source /\ source[i] \in ArgExpr /\ source[i] # Literal
         /\ args[i] = RefTo(source[i])
         /\ Checked(i) /\ frame[i] = Reference(args[i])
  <1> USE DEF CallInv
  <1>1. i \in DOMAIN args /\ Checked(i) /\ frame[i] = Reference(args[i])
    BY DEF FrameInv
  <1>2. i \in DOMAIN source
    BY <1>1 DEF ArgsInv
  <1>3. source[i] \in ArgExpr
    BY <1>2, SourceForm
  <1>4. args[i] = RefTo(source[i])
    BY <1>1, <1>3, RefForms DEF ArgsInv, Checked, VarParams
  <1>5. source[i] # Literal
    BY <1>1, <1>4 DEF Literal, RefTo, Checked, IsRef
  <1> QED BY <1>1, <1>2, <1>3, <1>4, <1>5

(* What a write through the reference to e reaches.                        *)
LEMMA ReferenceReaches ==
  ASSUME NEW e \in ArgExpr, e # Literal, NEW j \in 1 .. Width,
         j <= Reference(RefTo(e)).size, e.node # "Index"
  PROVE  <<Reference(RefTo(e)).sym, Reference(RefTo(e)).base + j - 1>> \in Denotes(e)
  <1>1. PICK n \in {"Identifier", "MemberAccess", "Index"}, s \in Sym, k \in 1 .. Width :
          e = Node(n, s, k)
    BY ExprForms
  <1>2. CASE n = "Identifier"
    <2>1. RefTo(e) = Node("IdentReference", s, k)
      BY <1>1, <1>2 DEF Node, RefTo
    <2>2. Reference(RefTo(e)).sym = s /\ Reference(RefTo(e)).base = 1
          /\ Reference(RefTo(e)).size = SizeOf(s)
      BY <2>1 DEF Node, Reference, Components
    <2>3. Denotes(e) = {s} \X (1 .. SizeOf(s))
      BY <1>1, <1>2 DEF Node, Denotes, CellsOf
    <2>4. SizeOf(s) \in Nat
      BY WidthAssumption DEF SizeOf
    <2>5. j \in 1 .. SizeOf(s) /\ 1 + j - 1 = j
      BY <2>2, <2>4
    <2> QED BY <2>2, <2>3, <2>5
  <1>3. CASE n = "MemberAccess"
    <2>1. RefTo(e) = Node("MemberReference", s, k)
      BY <1>1, <1>3 DEF Node, RefTo
    <2>2. Reference(RefTo(e)).sym = s /\ Reference(RefTo(e)).base = k
          /\ Reference(RefTo(e)).size = 1
      BY <2>1 DEF Node, Reference, Components
    <2>3. Denotes(e) = {<<s, k>>}
      BY <1>1, <1>3 DEF Node, Denotes
    <2>4. k + j - 1 = k
      BY <2>2
    <2> QED BY <2>2, <2>3, <2>4
  <1>4. CASE n = "Index"
    BY <1>1, <1>4 DEF Node
  <1> QED BY <1>2, <1>3, <1>4

(* The callee writes no cell of the caller but those its var arguments     *)
(* name, slices excepted.                                                  *)
THEOREM CallWrites == Spec => []WritesReachTheirArgument
  <1>1. ASSUME CallInv, NEW c \in Cell, memory[c] # 0
        PROVE  source[memory[c]].node = "Index" \/ c \in Denotes(source[memory[c]])
    <2> DEFINE i == memory[c]
    <2>1. /\ i \in VarParams \cap DOMAIN frame
          /\ \E j \in 1 .. Width :
               j <= frame[i].size /\ c = <<frame[i].sym, frame[i].base + j - 1>>
      BY <1>1 DEF CallInv, MemoryInv, Written
    <2>2. /\ source[i] \in ArgExpr /\ source[i] # Literal
          /\ frame[i] = Reference(RefTo(source[i]))
      BY <1>1, <2>1, WriterIsReference
    <2> HIDE DEF i
    <2>3. source[i].node = "Index" \/ c \in Denotes(source[i])
      BY <2>1, <2>2, ReferenceReaches
    <2> QED BY <2>3 DEF i
  <1>2. CallInv => WritesReachTheirArgument
    BY <1>1 DEF WritesReachTheirArgument
  <1> QED BY <1>2, CallInvariant, PTL

(* No call changes a const variable, but for slices of const vectors,      *)
(* which the annotation pass takes to be var.                              *)
THEOREM CallConstants == Spec => []ConstantsKept
  <1>1. ASSUME CallInv, NEW c \in Cell, memory[c] # 0, c[1] \in Constant
        PROVE  source[memory[c]].node = "Index"
    <2> DEFINE i == memory[c]
    <2>1. i \in VarParams \cap DOMAIN frame /\ c[1] = frame[i].sym
      BY <1>1 DEF CallInv, MemoryInv, Written
    <2>2. /\ args[i] = RefTo(source[i])
          /\ Checked(i) /\ frame[i] = Reference(args[i])
      BY <1>1, <2>1, WriterIsReference
    <2> HIDE DEF i
    <2>3. args[i].sym \in Constant
      BY <1>1, <2>1, <2>2 DEF Reference
    <2>4. args[i].node = "IndexReference"
      BY <2>2, <2>3 DEF Checked, IsRef, IsConst
    <2>5. source[i] \in ArgExpr
      BY <1>1, <2>1, WriterIsReference
    <2>6. source[i].node = "Index"
      BY <2>2, <2>4, <2>5, ExprForms DEF RefTo, Node, Literal
    <2> QED BY <2>6 DEF i
  <1>2. CallInv => ConstantsKept
    BY <1>1 DEF ConstantsKept
  <1> QED BY <1>2, CallInvariant, PTL
-----------------------------------------------------------------------------
(* A legal call stays free of errors because its var arguments are         *)
(* references from the first pass on.                                      *)
LegalInv ==
  Legal => /\ error = "none"
           /\ pc > 2 => \A i \in VarParams : args[i] = RefTo(source[i])

LEMMA RefOfLegal ==
  ASSUME NEW e \in ArgExpr, e.node # "Literal", e.sym \notin Constant
  PROVE  IsRef(RefTo(e)) /\ TypeOf(RefTo(e)) = TypeOf(e) /\ ~IsConst(RefTo(e))
         /\ RefTo(e).node \notin {"Identifier", "MemberAccess"}
  <1>1. PICK n \in {"Identifier", "MemberAccess", "Index"}, s \in Sym, k \in 1 .. Width :
          e = Node(n, s, k)
    BY ExprForms DEF Literal
  <1>2. CASE n = "Identifier"
    <2>1. RefTo(e) = Node("IdentReference", s, k)
      BY <1>1, <1>2 DEF Node, RefTo
    <2> QED BY <1>1, <1>2, <2>1 DEF Node, IsRef, TypeOf, IsConst
  <1>3. CASE n = "MemberAccess"
    <2>1. RefTo(e) = Node("MemberReference", s, k)
      BY <1>1, <1>3 DEF Node, RefTo
    <2> QED BY <1>1, <1>3, <2>1 DEF Node, IsRef, TypeOf, IsConst
  <1>4. CASE n = "Index"
    <2>1. RefTo(e) = Node("IndexReference", s, k)
      BY <1>1, <1>4 DEF Node, RefTo
    <2> QED BY <1>1, <1>4, <2>1 DEF Node, IsRef, TypeOf, IsConst
  <1> QED BY <1>2, <1>3, <1>4

(* What a legal call has at its var parameters.                            *)
LEMMA LegalArgument ==
  ASSUME CallInv, Legal
  PROVE  /\ DOMAIN params = DOMAIN source /\ DOMAIN args = DOMAIN source
         /\ Len(args) = Len(params)
         /\ \A i \in VarParams :
              LET e == RefTo(source[i])
              IN  /\ IsRef(e) /\ TypeOf(e) = params[i].type /\ ~IsConst(e)
                  /\ e.node \notin {"Identifier", "MemberAccess"}
  <1>1. DOMAIN params = DOMAIN source /\ Len(args) = Len(params)
    BY ListDomain DEF CallInv, BaseInv, ArgsInv, Legal
  <1>2. ASSUME NEW i \in VarParams
        PROVE  LET e == RefTo(source[i])
               IN  /\ IsRef(e) /\ TypeOf(e) = params[i].type /\ ~IsConst(e)
                   /\ e.node \notin {"Identifier", "MemberAccess"}
    <2>1. i \in DOMAIN params /\ ~params[i].const
      BY DEF VarParams
    <2>2. source[i] \in ArgExpr
      BY <1>1, <2>1, SourceForm DEF CallInv
    <2>3. /\ source[i].node # "Literal" /\ source[i].sym \notin Constant
          /\ TypeOf(source[i]) = params[i].type
      BY <2>1 DEF Legal
    <2> QED BY <2>2, <2>3, RefOfLegal
  <1> QED BY <1>1, <1>2 DEF CallInv, ArgsInv

LEMMA InitLegalInv == Init => LegalInv
  BY DEF Init, LegalInv

LEMMA NextLegalInv == CallInv /\ LegalInv /\ [Next]_vars => LegalInv'
  <1> SUFFICES ASSUME CallInv, LegalInv, [Next]_vars, Legal' PROVE LegalInv'
    BY DEF LegalInv
  <1>1. UNCHANGED <<params, source>>
    BY DEF Next, vars, ResolveCall, ChangeMemAccessToMemRef, CallableArgumentTypeChecking,
           ProcedureCallAliasCheck, visitProcedureCall, Assign, Finish
  <1>2. Legal /\ VarParams' = VarParams
    BY <1>1 DEF Legal, VarParams
  <1>3. error = "none" /\ (pc > 2 => \A i \in VarParams : args[i] = RefTo(source[i]))
    BY <1>2 DEF LegalInv
  <1>4. DOMAIN args = DOMAIN source /\ VarParams \subseteq DOMAIN args
    BY <1>2, LegalArgument DEF VarParams
  <1>10. CASE ResolveCall
    <2>1. pc = 1
      BY <1>10, PassPlace DEF CallInv, ResolveCall
    <2> QED BY <1>1, <1>2, <1>3, <1>10, <2>1, LegalArgument
        DEF ResolveCall, CountDiffers, LegalInv, Become, Finish
  <1>5. CASE ChangeMemAccessToMemRef
    <2>1. Become(Referenced)
      BY <1>4, <1>5 DEF ChangeMemAccessToMemRef
    <2>2. ASSUME NEW i \in VarParams PROVE args'[i] = RefTo(source[i])
      <3>1. args'[i] = RefTo(args[i]) /\ source[i] \in ArgExpr
        BY <1>4, <2>1, SourceForm DEF Become, Referenced, CallInv
      <3> QED BY <1>4, <3>1, RefForms DEF CallInv, ArgsInv, VarParams
    <2> QED BY <1>1, <1>2, <1>3, <2>1, <2>2 DEF LegalInv, Become
  <1>6. CASE CallableArgumentTypeChecking
    <2>1. pc = 3
      BY <1>6, PassPlace DEF CallInv, CallableArgumentTypeChecking
    <2>2. ASSUME NEW i \in DOMAIN params PROVE BadArgument(i) = "none"
      <3>1. CASE params[i].const
        <4>1. args[i] = source[i] \/ args[i] = CastOf(i)
          BY <1>2, <3>1, LegalArgument DEF CallInv, ArgsInv, VarParams
        <4>2. CanPromote(TypeOf(source[i]), params[i].type)
          BY <1>2, <3>1 DEF Legal
        <4>3. TypeOf(CastOf(i)) = params[i].type
          BY DEF CastOf, TypeOf
        <4> QED BY <3>1, <4>1, <4>2, <4>3 DEF BadArgument, CanPromote, Miscast
      <3>2. CASE ~params[i].const
        BY <1>2, <1>3, <2>1, <3>2, LegalArgument DEF VarParams, BadArgument
      <3> QED BY <3>1, <3>2
    <2>3. FirstError(BadArguments) = "none"
      BY <2>2 DEF FirstError, BadArguments
    <2>4. Become([i \in DOMAIN args |-> Casted(i)])
      BY <1>2, <1>6, <2>3, LegalArgument DEF CallableArgumentTypeChecking, CountDiffers
    <2>5. ASSUME NEW i \in VarParams PROVE args'[i] = args[i]
      BY <1>4, <2>4 DEF Become, Casted, VarParams
    <2> QED BY <1>1, <1>2, <1>3, <2>1, <2>4, <2>5 DEF LegalInv, Become
  <1>7. CASE ProcedureCallAliasCheck
    <2>1. pc = 4
      BY <1>7, PassPlace DEF CallInv, ProcedureCallAliasCheck
    <2>2. ASSUME NEW i \in DOMAIN params PROVE AliasAt(i) = "none"
      BY <1>2, <1>3, <2>1, LegalArgument DEF AliasAt
    <2>3. FirstError(Aliases) = "none"
      BY <2>2 DEF FirstError, Aliases
    <2> QED BY <1>1, <1>2, <1>3, <1>7, <2>1, <2>3 DEF ProcedureCallAliasCheck, LegalInv, Become
  <1>8. CASE visitProcedureCall
    <2>1. pc = 6
      BY <1>8, PassPlace DEF CallInv, visitProcedureCall
    <2> QED BY <1>1, <1>2, <1>3, <1>8, <2>1 DEF visitProcedureCall, LegalInv
  <1>9. CASE UNCHANGED vars \/ \E i \in 1 .. MaxArgs, j \in 1 .. Width : Assign(i, j)
    BY <1>1, <1>2, <1>3, <1>9 DEF vars, Assign, LegalInv
  <1> QED BY <1>5, <1>6, <1>7, <1>8, <1>9, <1>10 DEF Next

(* No pass refuses a call whose var arguments are separate variables of    *)
(* the right types and whose other arguments promote.                      *)
THEOREM CallLegalAccepted == Spec => []LegalCallAccepted
  <1>1. LegalInv => LegalCallAccepted
    BY DEF LegalInv, LegalCallAccepted
  <1> QED BY <1>1, CallInvariant, InitLegalInv, NextLegalInv, PTL DEF Spec
-----------------------------------------------------------------------------
(* Once scope resolution has counted them, there are as many arguments as  *)
(* parameters.                                                             *)
LEMMA FirstErrorIn ==
  ASSUME BaseInv, NEW S, NEW errors, DOMAIN errors = DOMAIN params,
         "none" \in S, \A i \in DOMAIN errors : errors[i] \in S
  PROVE  FirstError(errors) \in S
  <1> DEFINE B == {i \in DOMAIN errors : errors[i] # "none"}
             b == CHOOSE i \in B : \A j \in B : i <= j
  <1>1. FirstError(errors) = IF B = {} THEN "none" ELSE errors[b]
    BY DEF FirstError
  <1>2. B \subseteq Nat
    BY ListDomain DEF BaseInv
  <1>3. CASE B # {}
    <2>1. b \in B
      <3> HIDE DEF B
      <3> QED BY <1>2, <1>3, LeastExists
    <2> QED BY <1>1, <1>3, <2>1
  <1> QED BY <1>1, <1>3

LaterErrors == {"none", "VariableArgument", "ConstantArgument", "ScalarPromotion",
                "AssertionFailed", "Alias"}

LEMMA NextArguments ==
  ASSUME CallInv, ArgumentsExist, [Next]_vars PROVE ArgumentsExist'
  <1> USE DEF ArgumentsExist
  <1>1. CASE ResolveCall
    <2>1. DOMAIN args = DOMAIN params \/ CountDiffers
      BY ListDomain DEF CallInv, BaseInv, ArgsInv, CountDiffers
    <2> QED BY <1>1, <2>1 DEF ResolveCall, Throw, Become, Finish
  <1>2. CASE ChangeMemAccessToMemRef
    <2>1. error = "none" /\ pc \in {2, 5}
      BY <1>2, PassPlace DEF CallInv, ChangeMemAccessToMemRef
    <2>2. VarParams \subseteq DOMAIN args
      BY <2>1 DEF VarParams
    <2> QED BY <1>2, <2>1, <2>2 DEF ChangeMemAccessToMemRef, Become, Referenced, Finish
  <1>3. CASE CallableArgumentTypeChecking
    <2>1. error = "none" /\ pc = 3
      BY <1>3, PassPlace DEF CallInv, CallableArgumentTypeChecking
    <2>2. ~CountDiffers
      BY <2>1, ListDomain DEF CallInv, BaseInv, ArgsInv, CountDiffers
    <2>3. \A i \in DOMAIN params : BadArgument(i) \in LaterErrors
      BY DEF BadArgument, LaterErrors
    <2>4. FirstError(BadArguments) \in LaterErrors
      BY <2>3, FirstErrorIn DEF BadArguments, CallInv, LaterErrors
    <2> QED BY <1>3, <2>1, <2>2, <2>4
        DEF CallableArgumentTypeChecking, LaterErrors, Throw, Become, Finish
  <1>4. CASE ProcedureCallAliasCheck
    <2>1. error = "none" /\ pc = 4
      BY <1>4, PassPlace DEF CallInv, ProcedureCallAliasCheck
    <2>2. \A i \in DOMAIN params : AliasAt(i) \in LaterErrors
      BY DEF AliasAt, LaterErrors
    <2>3. FirstError(Aliases) \in LaterErrors
      BY <2>2, FirstErrorIn DEF Aliases, CallInv, LaterErrors
    <2> QED BY <1>4, <2>1, <2>3 DEF ProcedureCallAliasCheck, LaterErrors, Throw, Become, Finish
  <1>5. CASE visitProcedureCall
    <2>1. pc = 6
      BY <1>5, PassPlace DEF CallInv, visitProcedureCall
    <2> QED BY <1>5, <2>1 DEF visitProcedureCall
  <1>6. CASE UNCHANGED vars \/ \E i \in 1 .. MaxArgs, j \in 1 .. Width : Assign(i, j)
    BY <1>6 DEF vars, Assign
  <1> QED BY <1>1, <1>2, <1>3, <1>4, <1>5, <1>6 DEF Next

(* No pass after scope resolution meets a call with a wrong number of      *)
(* arguments, so getChildAt() never throws for one.                        *)
THEOREM CallArguments == Spec => []ArgumentsExist
  <1>1. Init => ArgumentsExist
    BY DEF Init, ArgumentsExist
  <1> QED BY <1>1, NextArguments, CallInvariant, PTL DEF Spec
=============================================================================
