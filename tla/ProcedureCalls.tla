--------------------------- MODULE ProcedureCalls ---------------------------
(***************************************************************************)
(* A procedure call, from its tree to the memory its callee writes: the    *)
(* passes of main.cpp that look at the arguments, in the order main.cpp    *)
(* registers them, the call code generation emits, and the callee's writes *)
(* through its var parameters.                                             *)
(***************************************************************************)
EXTENDS Integers, Sequences

CONSTANTS
  Sym,       \* the variables of the caller
  Kind,      \* Kind[s]: "int", "real", "tuple" (of int) or "vector" (of int)
  Constant,  \* the variables declared const
  Width,     \* members of a tuple, elements of a vector
  MaxArgs    \* bound on the number of parameters and of arguments

ASSUME SymAssumption ==
  /\ Kind \in [Sym -> {"int", "real", "tuple", "vector"}]
  /\ Constant \subseteq Sym
ASSUME WidthAssumption == Width \in Nat \ {0} /\ MaxArgs \in Nat

Types == {"int", "real", "tuple", "vector"}

(* Memory: a scalar has one cell, a tuple or a vector Width of them.       *)
Cell == Sym \X (1 .. Width)
SizeOf(s) == IF Kind[s] \in {"tuple", "vector"} THEN Width ELSE 1
CellsOf(s) == {s} \X (1 .. SizeOf(s))
-----------------------------------------------------------------------------
(* Argument expressions: x, t.k, v[k .. Width] and anything that is not an *)
(* l-value.  A scalar element v[k] is left out: see the README.            *)
Node(n, s, k) == [node |-> n, sym |-> s, at |-> k]

Identifiers == {Node("Identifier", s, 1) : s \in Sym}
Members == {Node("MemberAccess", s, k) : s \in {r \in Sym : Kind[r] = "tuple"}, k \in 1 .. Width}
Slices  == {Node("Index", s, k) : s \in {r \in Sym : Kind[r] = "vector"}, k \in 1 .. Width}
Literal == [node |-> "Literal"]

ArgExpr == Identifiers \union Members \union Slices \union {Literal}

IsRef(e) == e.node \in {"IdentReference", "MemberReference", "IndexReference"}

(* The annotations of ExprTypeAnnotatorPass.  The members of a tuple are   *)
(* const if it is; an IndexReference is always var.                        *)
TypeOf(e) ==
  CASE e.node \in {"Identifier", "IdentReference"}    -> Kind[e.sym]
    [] e.node \in {"MemberAccess", "MemberReference"} -> "int"
    [] e.node \in {"Index", "IndexReference"}         -> "vector"
    [] e.node = "Literal"                             -> "int"
    [] e.node = "TypeCast"                            -> e.type

(* Mutant: a reference is taken to be var, whatever it refers to.          *)
RefsAreVar(e) == ~IsRef(e)

IsConst(e) ==
  CASE e.node \in {"Identifier", "IdentReference", "MemberReference"} -> e.sym \in Constant
    [] e.node = "IndexReference" -> FALSE
    [] OTHER                     -> TRUE

(* Type::canPromoteTo() gives every type that meets a vector to            *)
(* canPromoteVectorTo(), whose cast<VectorTy> asserts that it is one.      *)
CanPromote(from, to) == from = to \/ (from = "int" /\ to = "real")
Miscast(from, to) == to = "vector" /\ from # "vector"

(* The cells an l-value denotes.                                           *)
Denotes(e) ==
  CASE e.node \in {"Identifier", "IdentReference"}    -> CellsOf(e.sym)
    [] e.node \in {"MemberAccess", "MemberReference"} -> {<<e.sym, e.at>>}
    [] e.node \in {"Index", "IndexReference"}         -> {e.sym} \X (e.at .. Width)
    [] OTHER                                          -> {}
-----------------------------------------------------------------------------
VARIABLES
  params,  \* ProcTy: the type and the constness of each parameter
  source,  \* the arguments as written
  args,    \* the arguments as the passes leave them
  pc,      \* the pass that runs next
  error,   \* what a pass threw
  memory,  \* the caller's cells: 0, or the parameter written through last
  frame    \* the callee's parameters, once called

vars == <<params, source, args, pc, error, memory, frame>>

Pipeline == <<"ScopeResolutionPass", "ChangeMemAccessToMemRef",
              "CallableArgumentTypeCheckingPass", "ProcedureCallAliasCheckPass",
              "ChangeMemAccessToMemRef", "visitProcedureCall">>

Lists(S) == UNION {[1 .. n -> S] : n \in 0 .. MaxArgs}

Init ==
  /\ params \in Lists([type : Types, const : BOOLEAN])
  /\ source \in Lists(ArgExpr)
  /\ args = source
  /\ pc = 1
  /\ error = "none"
  /\ memory = [c \in Cell |-> 0]
  /\ frame = <<>>

Running(pass) == error = "none" /\ pc <= Len(Pipeline) /\ Pipeline[pc] = pass

Throw(e) == error' = e /\ UNCHANGED args
Become(list) == args' = list /\ UNCHANGED error

Finish == pc' = pc + 1 /\ UNCHANGED <<params, source, memory, frame>>

VarParams == {i \in DOMAIN params : ~params[i].const}
-----------------------------------------------------------------------------
(* ScopeResolutionPass::visitProcedureCall(), once the procedure is found, *)
(* counts the arguments.                                                   *)
CountDiffers == Len(args) # Len(params)

(* Mutant: only surplus arguments are refused.                             *)
ResolveSurplus ==
  /\ Running("ScopeResolutionPass")
  /\ IF Len(args) > Len(params) THEN Throw("InvalidProcedureCall") ELSE Become(args)
  /\ Finish

ResolveCall ==
  /\ Running("ScopeResolutionPass")
  /\ IF CountDiffers THEN Throw("InvalidProcedureCall") ELSE Become(args)
  /\ Finish

(* ChangeMemAccessToMemRef::visitProcedureCall() turns the arguments of    *)
(* var parameters into references; getChildAt() throws when one is missing.*)
RefTo(e) ==
  CASE e.node = "Identifier"   -> [e EXCEPT !.node = "IdentReference"]
    [] e.node = "MemberAccess" -> [e EXCEPT !.node = "MemberReference"]
    [] e.node = "Index"        -> [e EXCEPT !.node = "IndexReference"]
    [] OTHER                   -> e

(* Mutant: const parameters get references too.                            *)
AllReferenced == [i \in DOMAIN args |-> RefTo(args[i])]

Referenced == [i \in DOMAIN args |-> IF i \in VarParams THEN RefTo(args[i]) ELSE args[i]]

ChangeMemAccessToMemRef ==
  /\ Running("ChangeMemAccessToMemRef")
  /\ IF VarParams \subseteq DOMAIN args THEN Become(Referenced) ELSE Throw("NoSuchChild")
  /\ Finish

(* CallableArgumentTypeCheckingPass::visitProcedureCall()                  *)
BadArgument(i) ==
  LET e == args[i]
      p == params[i]
  IN  IF p.const
      THEN IF Miscast(TypeOf(e), p.type) THEN "AssertionFailed"
           ELSE IF CanPromote(TypeOf(e), p.type) THEN "none" ELSE "ScalarPromotion"
      ELSE IF ~IsRef(e) \/ TypeOf(e) # p.type THEN "VariableArgument"
      ELSE IF IsConst(e) THEN "ConstantArgument" ELSE "none"

Casted(i) ==
  IF params[i].const /\ TypeOf(args[i]) # params[i].type
  THEN [node |-> "TypeCast", expr |-> args[i], type |-> params[i].type]
  ELSE args[i]

(* The error of the first argument that has one.                           *)
FirstError(errors) ==
  LET B == {i \in DOMAIN errors : errors[i] # "none"}
  IN  IF B = {} THEN "none" ELSE errors[CHOOSE i \in B : \A j \in B : i <= j]

BadArguments == [i \in DOMAIN params |-> BadArgument(i)]

CallableArgumentTypeChecking ==
  /\ Running("CallableArgumentTypeCheckingPass")
  /\ IF CountDiffers THEN Throw("ArgumentCount")
     ELSE IF FirstError(BadArguments) # "none" THEN Throw(FirstError(BadArguments))
     ELSE Become([i \in DOMAIN args |-> Casted(i)])
  /\ Finish

(* ProcedureCallAliasCheckPass::visitProcedureCall(): UsedSymbols holds    *)
(* <<s, 0>> for a whole variable and <<s, k>> for its member k.            *)
UsedSymbols(i) ==
  {<<args[j].sym, IF args[j].node = "Identifier" THEN 0 ELSE args[j].at>> :
     j \in {n \in VarParams : n < i /\ args[n].node \in {"Identifier", "MemberAccess"}}}

(* Mutant: const parameters are compared as well.                          *)
AliasAnywhere(i) ==
  IF \E j \in DOMAIN args : /\ j # i
                            /\ args[i].node = "Identifier"
                            /\ args[j] = args[i]
  THEN "Alias" ELSE "none"

AliasAt(i) ==
  IF i \notin VarParams THEN "none"
  ELSE IF IsConst(args[i]) THEN "ConstantArgument"
  ELSE IF \/ /\ args[i].node = "MemberAccess"
             /\ {<<args[i].sym, 0>>, <<args[i].sym, args[i].at>>} \cap UsedSymbols(i) # {}
          \/ /\ args[i].node = "Identifier"
             /\ <<args[i].sym, 0>> \in UsedSymbols(i)
       THEN "Alias" ELSE "none"

Aliases == [i \in DOMAIN params |-> AliasAt(i)]

ProcedureCallAliasCheck ==
  /\ Running("ProcedureCallAliasCheckPass")
  /\ IF FirstError(Aliases) # "none" THEN Throw(FirstError(Aliases)) ELSE Become(args)
  /\ Finish
-----------------------------------------------------------------------------
(* What code generation passes for an argument: the address of what a      *)
(* reference names, and for anything else a copy of its value.  base is    *)
(* the cell a write to the first component lands in: a view of a view      *)
(* indexes the vector itself (rt_vector_view_scalar).                      *)
Components(e) ==
  CASE e.node = "IdentReference"  -> SizeOf(e.sym)
    [] e.node = "MemberReference" -> 1
    [] e.node = "IndexReference"  -> Width - e.at + 1

(* Mutant: every member is the first.                                      *)
FirstMember(e) ==
  [by |-> "ref", sym |-> e.sym, cells |-> Denotes(e),
   base |-> 1, size |-> Components(e)]

Reference(e) ==
  [by |-> "ref", sym |-> e.sym, cells |-> Denotes(e),
   base |-> IF e.node = "MemberReference" THEN e.at ELSE 1,
   size |-> Components(e)]

Copy(e) == [by |-> "value", held |-> {memory[c] : c \in Denotes(e)}]

Passed(e) == IF IsRef(e) THEN Reference(e)
             ELSE IF e.node = "TypeCast" THEN Copy(e.expr) ELSE Copy(e)

visitProcedureCall ==
  /\ Running("visitProcedureCall")
  /\ frame' = [i \in DOMAIN args |-> Passed(args[i])]
  /\ pc' = pc + 1
  /\ UNCHANGED <<params, source, args, error, memory>>

(* The callee assigns component j of its var parameter i.                  *)
Assign(i, j) ==
  /\ i \in DOMAIN frame
  /\ i \in VarParams
  /\ frame[i].by = "ref"
  /\ j <= frame[i].size
  /\ memory' = [memory EXCEPT ![<<frame[i].sym, frame[i].base + j - 1>>] = i]
  /\ UNCHANGED <<params, source, args, pc, error, frame>>

Next ==
  \/ ResolveCall
  \/ ChangeMemAccessToMemRef
  \/ CallableArgumentTypeChecking
  \/ ProcedureCallAliasCheck
  \/ visitProcedureCall
  \/ \E i \in 1 .. MaxArgs, j \in 1 .. Width : Assign(i, j)

Spec == Init /\ [][Next]_vars
-----------------------------------------------------------------------------
(* What the callee can see through its parameter i.                        *)
Shows(i) == IF frame[i].by = "ref" THEN {memory[c] : c \in frame[i].cells}
                                   ELSE frame[i].held

(* A const parameter keeps the value of the call, even when the variable   *)
(* it was given is also the argument of a var parameter the callee writes  *)
(* (NoAlias.in): ChangeMemAccessToMemRef leaves it an r-value, which is    *)
(* copied.                                                                 *)
ConstParamKeepsValue ==
  \A i \in DOMAIN frame : params[i].const => Shows(i) \subseteq {0}

(* A cell of the caller changes only by a write to a var parameter whose   *)
(* argument names that cell.  Slices are excepted: a write to their        *)
(* component j lands in element j of the vector.                           *)
WritesReachTheirArgument ==
  \A c \in Cell : memory[c] # 0 =>
     LET e == source[memory[c]] IN e.node = "Index" \/ c \in Denotes(e)

(* A const variable keeps its value, unless a slice of it was passed.      *)
ConstantsKept ==
  \A c \in Cell : memory[c] # 0 /\ c[1] \in Constant =>
     source[memory[c]].node = "Index"

(* A call that gives every var parameter a variable of its type of its own *)
(* and every const parameter a value that promotes is never refused, also  *)
(* when const parameters share a variable (AliasLegal.in).                 *)
Legal ==
  /\ Len(source) = Len(params)
  /\ \A i \in DOMAIN params :
       LET e == source[i]
       IN  IF params[i].const THEN CanPromote(TypeOf(e), params[i].type)
           ELSE /\ e.node # "Literal"
                /\ e.sym \notin Constant
                /\ TypeOf(e) = params[i].type
  /\ \A i, j \in VarParams : i # j => Denotes(source[i]) \cap Denotes(source[j]) = {}

LegalCallAccepted == Legal => error = "none"

(* The passes that index the arguments by the parameters never meet a call *)
(* with too few of them: scope resolution refused it.                      *)
ArgumentsExist ==
  /\ error \notin {"NoSuchChild", "ArgumentCount"}
  /\ error = "none" /\ pc > 1 => DOMAIN args = DOMAIN params

(* "call p(x, x, x, x); Aliasing, this is an error." (AliasIllegal.in): no *)
(* two var parameters of a call that is compiled share a cell.             *)
NoSharedCell ==
  \A i, j \in VarParams \cap DOMAIN frame :
     i # j => frame[i].cells \cap frame[j].cells = {}

(* "Argument i must not be a constant type" (exceptions.h): no part of a   *)
(* const variable is passed for a var parameter.                           *)
ConstNotPassedAsVar ==
  \A i \in VarParams \cap DOMAIN frame : frame[i].sym \notin Constant
=============================================================================
