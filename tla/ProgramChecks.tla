---------------------------- MODULE ProgramChecks ----------------------------
(***************************************************************************)
(* The passes that decide which programs are compiled, as far as names,    *)
(* routines and globals go, in the order of src/main.cpp: scope            *)
(* resolution, the check of definitions and that of global initialisers.   *)
(***************************************************************************)
EXTENDS ScopeResolution, SequencesExt

L == INSTANCE LexicalScoping

VARIABLE stage \* passes a program has got through: a place in Later

cvars == <<svars, stage>>

Later == <<"EnsureDefinition", "EnsureValidGlobalInit", "TupleUnpackToAssign",
           "BubbleGlobalDeclaration", "CodeGen", "Run">>

Running(pass) == stage \in DOMAIN Later /\ Later[stage] = pass /\ UNCHANGED <<source, work, resolved>>
Untouched == UNCHANGED <<scopes, current, idents>>
NoChange  == Untouched /\ UNCHANGED objects
-----------------------------------------------------------------------------
ResolveScopes == NextScope /\ stage = 0 /\ stage' = IF verdict' = "resolved" THEN 1 ELSE 0

(* Each check either lets the program pass or stops the compiler.          *)
Check(ok) ==
  /\ IF ok THEN stage' = stage + 1 /\ UNCHANGED verdict
           ELSE stage' = 0 /\ verdict' = "rejected"
  /\ NoChange

RoutineNames(kinds) == {t.xs[1] : t \in {n \in ToSet(source.kids) : n.k \in kinds}}
Defined  == RoutineNames(Routines)
Declared == RoutineNames(RoutineKind)
DefinedTwice ==
  \E i, j \in DOMAIN source.kids :
    /\ i # j /\ {source.kids[i].k, source.kids[j].k} \subseteq Routines
    /\ source.kids[i].xs[1] = source.kids[j].xs[1]
IsMain(t) == t.k = "procedure" /\ t.xs = <<"main">>

Definitions ==
  /\ ~DefinedTwice
  /\ Defined = Declared
  /\ \E t \in ToSet(source.kids) : IsMain(t)

EnsureDefinition == Running("EnsureDefinition") /\ Check(Definitions)

Calls(t) == \E n \in L!Subtrees[t] : n.t.k \in CallKind

(* Mutant: calls are looked for in the whole program, and not in globals.  *)
GlobalsLax == source.k = "program"

ValidGlobals == \A t \in ToSet(source.kids) : t.k = "declaration" => ~Calls(t)

EnsureValidGlobalInit == Running("EnsureValidGlobalInit") /\ Check(ValidGlobals)
-----------------------------------------------------------------------------
InitChecks == Init /\ stage = 0

NextChecks == ResolveScopes \/ EnsureDefinition \/ EnsureValidGlobalInit

ChecksSpec == InitChecks /\ [][NextChecks]_cvars

Passed == stage > 2
-----------------------------------------------------------------------------
(* Every use of a name refers to the symbol of the declaration the         *)
(* program's text binds it to: the innermost one around the use that comes *)
(* before it, the domain of a loop, generator or filter and the initial    *)
(* value of a declaration lying outside what they declare.                 *)
ResolvesLexically ==
  verdict = "resolved" => \A b \in L!Bindings(source) :
    b[2] \in DOMAIN idents /\ idents[b[1]].referred = idents[b[2]].referred

(* The compiler rejects a program exactly if it is not well scoped, if a   *)
(* routine has not one body, if it has no main, or if the initial value of *)
(* a global calls a routine, which would run before the globals are there. *)
Legal ==
  /\ L!WellScoped(source)
  /\ \A t \in ToSet(source.kids) : t.k \in RoutineKind =>
       \E i \in DOMAIN source.kids :
         /\ source.kids[i].k \in Routines /\ source.kids[i].xs[1] = t.xs[1]
         /\ \A j \in DOMAIN source.kids :
              source.kids[j].k \in Routines /\ source.kids[j].xs[1] = t.xs[1] => j = i
  /\ \E t \in ToSet(source.kids) : IsMain(t)
  /\ \A t \in ToSet(source.kids) : t.k = "declaration" => ~Calls(t)

VerdictIsRight ==
  /\ verdict = "rejected" => ~Legal
  /\ Passed => Legal
=============================================================================
