--------------------------- MODULE CompiledProgram ---------------------------
(***************************************************************************)
(* A program on its way through the driver (src/main.cpp), for what its    *)
(* names, its routines and its globals become: scope resolution and the    *)
(* checks, the unpacking of tuples, the move of the globals to the front,  *)
(* code generation and the run of main.                                    *)
(***************************************************************************)
EXTENDS ProgramChecks, Execution

VARIABLES
  program,   \* the program with the symbols of its names
  generated, \* the globals main assigns, in order, and the code of the routines
  printed    \* what the compiled program prints

vars == <<cvars, program, generated, printed>>

Done == Len(Later) + 1
-----------------------------------------------------------------------------
(* a, b = e becomes { t = e; a = t.1; b = t.2; } with a t no name can mean.*)
Unpacks(t) == t.k = "assignment" /\ t.kids[1].k = "destruct"

Symbol(k, s, kids) == [k |-> k, xs |-> <<"">>, val |-> <<>>, syms |-> <<s>>, kids |-> kids]
NoName(k, kids)    == [k |-> k, xs |-> <<>>, val |-> <<>>, syms |-> <<>>, kids |-> kids]

MemberOf(e, i) == [NoName("member", <<e>>) EXCEPT !.val = <<i>>]

Unpacked(t, temp) ==
  NoName("block",
    <<Symbol("declaration", temp, <<t.kids[2]>>)>> \o
    [i \in DOMAIN t.kids[1].kids |->
       NoName("assignment", <<t.kids[1].kids[i], MemberOf(Symbol("name", temp, <<>>), i)>>)])

RECURSIVE Unpacking(_), UnpackFirst(_, _)
Unpacking(t) == Unpacks(t) \/ \E i \in DOMAIN t.kids : Unpacking(t.kids[i])

UnpackFirst(t, temp) ==
  IF Unpacks(t) THEN Unpacked(t, temp)
  ELSE LET i == CHOOSE i \in DOMAIN t.kids :
                  Unpacking(t.kids[i]) /\ \A j \in 1 .. i - 1 : ~Unpacking(t.kids[j])
       IN [t EXCEPT !.kids[i] = UnpackFirst(@, temp)]

(* One assignment at a time, each with a symbol of its own.                *)
TupleUnpackToAssign ==
  /\ Running("TupleUnpackToAssign")
  /\ IF Unpacking(program)
     THEN /\ program' = UnpackFirst(program, Len(objects) + 1)
          /\ objects' = Append(objects, [name |-> "", type |-> ValueTy])
          /\ UNCHANGED stage
     ELSE stage' = stage + 1 /\ UNCHANGED <<program, objects>>
  /\ Untouched /\ UNCHANGED <<verdict, generated, printed>>
-----------------------------------------------------------------------------
(* Mutant: the globals stay where they are.                                *)
Unsorted(items) == items

(* list::sort is stable.                                                   *)
Bubbled(items) ==
  SelectSeq(items, IsGlobal) \o SelectSeq(items, LAMBDA t : ~IsGlobal(t))

BubbleGlobalDeclaration ==
  /\ Running("BubbleGlobalDeclaration")
  /\ program' = [program EXCEPT !.kids = Bubbled(@)]
  /\ stage' = stage + 1
  /\ NoChange /\ UNCHANGED <<verdict, generated, printed>>

(* visitDeclaration puts a global in the queue; assignGlobals, run when    *)
(* main is generated, assigns what is in it by then.                       *)
QueuedAtMain(items) ==
  LET main == CHOOSE i \in DOMAIN items : IsMain(items[i])
  IN SelectSeq(SubSeq(items, 1, main), IsGlobal)

CodeGen ==
  /\ Running("CodeGen")
  /\ generated' = [globals |-> QueuedAtMain(program.kids), code |-> Code(program)]
  /\ stage' = stage + 1
  /\ NoChange /\ UNCHANGED <<verdict, program, printed>>

RunMain ==
  /\ Running("Run")
  /\ printed' = Run(generated.globals, generated.code)
  /\ stage' = Done
  /\ NoChange /\ UNCHANGED <<verdict, program, generated>>
-----------------------------------------------------------------------------
NoCode == [globals |-> <<>>, code |-> <<>>]

InitProgram ==
  /\ InitChecks
  /\ program = source
  /\ generated = NoCode
  /\ printed = <<>>

(* Scope resolution has given the names their symbols.                     *)
ResolveAndCheck ==
  /\ NextChecks
  /\ program' = IF stage = 0 /\ stage' = 1
                THEN Labelled(source, <<>>, [p \in DOMAIN idents |-> idents[p].referred], Nullptr)
                ELSE program
  /\ UNCHANGED <<generated, printed>>

Next == \/ ResolveAndCheck
        \/ TupleUnpackToAssign
        \/ BubbleGlobalDeclaration \/ CodeGen \/ RunMain

Spec == InitProgram /\ [][Next]_vars
-----------------------------------------------------------------------------
(* The compiled program prints what the source means: every read finds the *)
(* value the declaration it is bound to, or the last assignment to it, has *)
(* left, globals are there before they are read, and the targets of an     *)
(* unpacking get the members the tuple had before.                         *)
Meaning ==
  LET bound == L!Bindings(source)
      places == UNION {{s.place : s \in L!SitesOf(n)} : n \in L!Subtrees[source]}
      Place(p) == IF p \in places THEN p ELSE (CHOOSE b \in bound : b[1] = p)[2]
      symbols == [p \in places \union {b[1] : b \in bound} |-> Place(p)]
      text == Labelled(source, <<>>, symbols, <<>>)
  IN Run(SelectSeq(text.kids, IsGlobal), Code(text))

SameOutput == stage = Done => printed = Meaning
=============================================================================
