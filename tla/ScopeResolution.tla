-------------------------- MODULE ScopeResolution --------------------------
(***************************************************************************)
(* ScopeResolutionPass (include/Passes/BuildAST/ScopeResolutionPass.h):    *)
(* every identifier of the program is given the symbol it refers to.       *)
(*                                                                         *)
(* The recursion of the visitor is the stack "work": nodes still to be     *)
(* visited, and frames for what a visitor does after the visits it waits   *)
(* for.  ScopeTreeNode::resolve climbs one scope per step and leaves what  *)
(* it found in "resolved".  The annotator the pass runs on domains,        *)
(* initialisers and arguments decides types and is left out; of a type     *)
(* this module keeps whether it is that of a value or of a routine.        *)
(***************************************************************************)
EXTENDS Programs

CONSTANTS
  Tree,   \* nodes, with every node below them
  Source, \* the programs to compile
  Height  \* of each node: trees are finite

Nodes == [k : STRING, xs : Seq(STRING), kids : Seq(Tree), val : Seq(Int)]

RoutineKind == Routines \union Forwards

(* What the grammar lets a program be: globals and routines are the items  *)
(* of the program, and only a block has declarations (ASTBuilderPass puts  *)
(* the body of a loop or of a function that is no block into one).         *)
ASSUME TreeAssumption ==
  /\ Tree \subseteq Nodes
  /\ \A t \in Tree :
       /\ t.k \in {"name", "declaration"} \union RoutineKind => t.xs # <<>>
       /\ t.k = "declaration" => Len(t.xs) = 1
       /\ t.k \in {"name"} \union Forwards => t.kids = <<>>
       /\ t.k \in CallKind \union DomainKind => t.kids # <<>>
       /\ t.k \in CallKind => t.kids[1].k = "name"
       /\ t.k \in Routines => Len(t.kids) = 1
       /\ \A i \in DOMAIN t.kids :
            /\ t.kids[i].k = "declaration" => t.k \in {"program", "block"}
            /\ t.kids[i].k \in RoutineKind => t.k = "program"
            /\ t.kids[i].k # "program"
  /\ \A t \in Source : t \in Tree /\ t.k = "program"

ASSUME HeightAssumption ==
  \A t \in Tree :
    /\ Height[t] \in Nat
    /\ \A i \in DOMAIN t.kids : Height[t.kids[i]] < Height[t]

VARIABLES
  source,   \* the program; never changes
  work,     \* visits and frames, innermost first
  scopes,   \* the scope tree: each scope's parent and its symbols by name
  current,  \* CurrentScope
  objects,  \* the symbol table: each symbol's name and type
  idents,   \* the identifiers resolved so far: their names and symbols
  resolved, \* what the last resolve returned
  verdict   \* "running", "resolved" or "rejected"

svars == <<source, work, scopes, current, objects, idents, resolved, verdict>>
-----------------------------------------------------------------------------
Global  == 1
Nullptr == 0

ValueTy == [routine |-> "", arity |-> 0]
RoutineTy(t) ==
  [routine |-> IF t.k \in {"procedure", "procedure declaration"} THEN "procedure" ELSE "function",
   arity |-> Len(t.xs) - 1]

Scope(parent) == [parent |-> parent, symbols |-> <<>>]

Item(op, t, at) == [op |-> op, node |-> t, at |-> at, scope |-> Nullptr]
Visit(t, at)    == Item("visit", t, at)
Kid(t, at, i)   == Visit(t.kids[i], Append(at, i))
Kids(t, at)     == [i \in DOMAIN t.kids |-> Kid(t, at, i)]
Within(op, t, s) == [op |-> op, node |-> t, at |-> <<>>, scope |-> s]
Lookup(t, s)     == Within("resolve", t, s)
CloseScope(t, s) == Within("close", t, s)

Top   == work[1]
Under == Tail(work)

Visiting(kinds) ==
  /\ verdict = "running" /\ work # <<>> /\ Top.op = "visit" /\ Top.node.k \in kinds
  /\ UNCHANGED <<source, verdict, resolved>>
Resuming(op) ==
  /\ verdict = "running" /\ work # <<>> /\ Top.op = op
  /\ UNCHANGED <<source, resolved>>

KeepScopes == UNCHANGED <<scopes, current>>
KeepTable  == UNCHANGED <<objects, idents>>
Goes       == UNCHANGED verdict

(* An exception leaves main: the driver catches nothing.                   *)
Throw ==
  /\ verdict' = "rejected"
  /\ KeepScopes /\ KeepTable /\ UNCHANGED work
-----------------------------------------------------------------------------
Init ==
  /\ source \in Source
  /\ work = <<Visit(source, <<>>)>>
  /\ scopes = <<Scope(Nullptr)>>
  /\ current = Global
  /\ objects = <<>>
  /\ idents = <<>>
  /\ resolved = Nullptr
  /\ verdict = "running"

(* Visitors that only visit the children, in order.                        *)
visitChildren ==
  /\ Visiting({"program", "assignment", "destruct", "output", "return", "tuple",
               "member", "literal"})
  /\ work' = Kids(Top.node, Top.at) \o Under
  /\ KeepScopes /\ KeepTable

visitDeclaration ==
  /\ Visiting({"declaration"})
  /\ work' = Kids(Top.node, Top.at) \o <<Item("declare", Top.node, Top.at)>> \o Under
  /\ KeepScopes /\ KeepTable

visitIdentifier ==
  /\ Visiting({"name"})
  /\ work' = <<Lookup(Top.node, current), Item("refer", Top.node, Top.at)>> \o Under
  /\ KeepScopes /\ KeepTable

(* The arguments are visited first, then the routine's name.               *)
visitCall ==
  /\ Visiting(CallKind)
  /\ work' = Tail(Kids(Top.node, Top.at))
               \o <<Kid(Top.node, Top.at, 1), Item("arity", Top.node, Top.at)>> \o Under
  /\ KeepScopes /\ KeepTable

visitBlock ==
  /\ Visiting({"block"})
  /\ scopes' = Append(scopes, Scope(current))
  /\ current' = Len(scopes) + 1
  /\ work' = Kids(Top.node, Top.at) \o <<CloseScope(Top.node, Len(scopes) + 1)>> \o Under
  /\ KeepTable

(* The beginning of visitProcedureDef, visitFunctionDef and of the visits  *)
(* of forward declarations.                                                *)
visitRoutine ==
  /\ Visiting(Routines \union Forwards)
  /\ work' = <<Lookup(Top.node, current), Item("routine", Top.node, Top.at)>>
               \o [i \in DOMAIN Top.node.kids |-> Item("body", Top.node, Top.at)] \o Under
  /\ KeepScopes /\ KeepTable
-----------------------------------------------------------------------------
(* ScopeTreeNode::resolve, one scope at a time.                            *)
Climb ==
  LET s == Top.scope
      x == Top.node.xs[1]
  IN IF s = Nullptr THEN <<Nullptr, FALSE>>
     ELSE IF x \in DOMAIN scopes[s].symbols THEN <<scopes[s].symbols[x], FALSE>>
     ELSE <<scopes[s].parent, TRUE>>

Resolve ==
  /\ verdict = "running" /\ work # <<>> /\ Top.op = "resolve"
  /\ IF Climb[2] THEN /\ work' = <<[Top EXCEPT !.scope = Climb[1]]>> \o Under
                      /\ UNCHANGED resolved
     ELSE /\ work' = Under
          /\ resolved' = Climb[1]
  /\ KeepScopes /\ KeepTable /\ Goes /\ UNCHANGED source

(* The map m with a value for each of the keys.                            *)
FirstOf(keys, k) == CHOOSE i \in DOMAIN keys : keys[i] = k

Extended(m, keys, values) ==
  [k \in DOMAIN m \union {keys[i] : i \in DOMAIN keys} |->
     IF \E i \in DOMAIN keys : keys[i] = k THEN values[FirstOf(keys, k)] ELSE m[k]]

(* Mutant: the names of one scope share a symbol.                          *)
OneSymbol(xs) == [i \in DOMAIN xs |-> Len(objects) + 1]
Fresh(xs)     == [i \in DOMAIN xs |-> Len(objects) + i]

(* SymTable.defineObject of a fresh symbol for each name, declareInScope   *)
(* in scope s of the scope tree and setReferred of their identifiers.      *)
DeclareIn(tree, s, xs, ty, places) ==
  /\ scopes' = [tree EXCEPT ![s].symbols = Extended(@, xs, Fresh(xs))]
  /\ objects' = objects \o [i \in DOMAIN xs |-> [name |-> xs[i], type |-> ty]]
  /\ idents' = Extended(idents, places,
                 [i \in DOMAIN xs |-> [name |-> xs[i], referred |-> Fresh(xs)[i]]])

Distinct(xs) == \A i, j \in DOMAIN xs : i # j => xs[i] # xs[j]
Places(at, n) == [i \in 1 .. n |-> NameAt(at, i)]

(* A new scope below the current one, with the given names.                *)
OpenWith(xs, places) ==
  /\ DeclareIn(Append(scopes, Scope(current)), Len(scopes) + 1, xs, ValueTy, places)
  /\ current' = Len(scopes) + 1

Declare ==
  /\ Resuming("declare")
  /\ IF Top.node.xs[1] \in DOMAIN scopes[current].symbols THEN Throw
     ELSE /\ DeclareIn(scopes, current, Top.node.xs, ValueTy, <<NameAt(Top.at, 1)>>)
          /\ work' = Under
          /\ Goes /\ UNCHANGED current

Refer ==
  /\ Resuming("refer")
  /\ IF resolved = Nullptr THEN Throw
     ELSE /\ idents' = Extended(idents, <<Top.at>>,
                         <<[name |-> Top.node.xs[1], referred |-> resolved]>>)
          /\ work' = Under
          /\ KeepScopes /\ Goes /\ UNCHANGED objects

(* Mutant: the domain is visited in the scope of its variable.             *)
DomainInside ==
  /\ Visiting(DomainKind)
  /\ OpenWith(Top.node.xs, Places(Top.at, Len(Top.node.xs)))
  /\ work' = Kids(Top.node, Top.at) \o <<CloseScope(Top.node, Len(scopes) + 1)>> \o Under

(* visitDomainLoop, visitGenerator, visitFilter, visitMatrixGenerator: the *)
(* domains, all children but the last, come before the new scope.          *)
Domains(t, at) == SubSeq(Kids(t, at), 1, Len(t.kids) - 1)

visitDomain ==
  /\ Visiting(DomainKind)
  /\ work' = Domains(Top.node, Top.at) \o <<Item("enter", Top.node, Top.at)>> \o Under
  /\ KeepScopes /\ KeepTable

EnterDomain ==
  /\ Resuming("enter")
  /\ IF ~Distinct(Top.node.xs) THEN Throw
     ELSE /\ OpenWith(Top.node.xs, Places(Top.at, Len(Top.node.xs)))
          /\ work' = <<Kid(Top.node, Top.at, Len(Top.node.kids)), CloseScope(Top.node, Len(scopes) + 1)>>
                       \o Under
          /\ Goes

(* Mutant: the scope around the one that ends is closed as well.           *)
CloseBoth ==
  /\ Resuming("close")
  /\ LET above == scopes[current].parent
     IN current' = IF above = Nullptr THEN above ELSE scopes[above].parent
  /\ work' = Under
  /\ KeepTable /\ Goes /\ UNCHANGED scopes

Close ==
  /\ Resuming("close")
  /\ current' = scopes[current].parent
  /\ work' = Under
  /\ KeepTable /\ Goes /\ UNCHANGED scopes

(* The end of visitFunctionCall and visitProcedureCall.                    *)
CheckArity ==
  /\ Resuming("arity")
  /\ LET callee == objects[idents[Append(Top.at, 1)].referred].type IN
     IF callee.routine = "" \/ callee.arity # Len(Top.node.kids) - 1 THEN Throw
     ELSE /\ work' = Under
          /\ KeepScopes /\ KeepTable /\ Goes

(* A routine that was declared before must have been given the same type.  *)
Mismatch(t) == resolved # Nullptr /\ objects[resolved].type # RoutineTy(t)

(* A procedure's definition does not refer to the symbol of a declaration  *)
(* before it.                                                              *)
Named(t, at) ==
  IF t.k = "procedure" THEN idents
  ELSE Extended(idents, <<NameAt(at, 1)>>, <<[name |-> t.xs[1], referred |-> resolved]>>)

DeclareRoutine ==
  /\ Resuming("routine")
  /\ IF Mismatch(Top.node) THEN Throw
     ELSE /\ IF resolved = Nullptr
             THEN DeclareIn(scopes, current, SubSeq(Top.node.xs, 1, 1), RoutineTy(Top.node),
                            <<NameAt(Top.at, 1)>>)
             ELSE idents' = Named(Top.node, Top.at) /\ UNCHANGED <<scopes, objects>>
          /\ work' = Under
          /\ Goes /\ UNCHANGED current

(* The rest of visitProcedureDef and visitFunctionDef: a scope for the     *)
(* parameters, and in it the block of the body.                            *)
EnterRoutine ==
  /\ Resuming("body")
  /\ LET params == Tail(Top.node.xs) IN
     IF ~Distinct(params) THEN Throw
     ELSE /\ OpenWith(params, Tail(Places(Top.at, Len(Top.node.xs))))
          /\ work' = <<Kid(Top.node, Top.at, 1), CloseScope(Top.node, Len(scopes) + 1)>> \o Under
          /\ Goes

(* The pass is done.                                                       *)
Finish ==
  /\ verdict = "running" /\ work = <<>>
  /\ verdict' = "resolved"
  /\ KeepScopes /\ KeepTable /\ UNCHANGED <<source, work, resolved>>
-----------------------------------------------------------------------------
NextScope ==
  \/ visitChildren \/ visitDeclaration \/ visitIdentifier \/ visitCall \/ visitBlock
  \/ visitDomain \/ visitRoutine
  \/ Resolve \/ Declare \/ Refer \/ EnterDomain \/ Close \/ CheckArity
  \/ DeclareRoutine \/ EnterRoutine \/ Finish

ScopeSpec == Init /\ [][NextScope]_svars
-----------------------------------------------------------------------------
Symbols == DOMAIN objects
IsTable(m) == \A x \in DOMAIN m : x \in STRING /\ m[x] \in Symbols

(* Scopes are a tree rooted in the global one, and what is kept in them    *)
(* are symbols of the table.                                               *)
TypeOK ==
  /\ verdict \in {"running", "resolved", "rejected"}
  /\ DOMAIN scopes = 1 .. Len(scopes) /\ Len(scopes) \in Nat
  /\ current \in DOMAIN scopes
  /\ \A s \in DOMAIN scopes :
       /\ DOMAIN scopes[s] = {"parent", "symbols"}
       /\ scopes[s].parent \in (IF s = Global THEN {Nullptr} ELSE 1 .. s - 1)
       /\ IsTable(scopes[s].symbols)
  /\ resolved \in {Nullptr} \union Symbols

(* Distinct declarations have distinct symbols (the alias check tells      *)
(* variables apart by them), a scope keeps a symbol under the name it was  *)
(* defined with, and an identifier refers to a symbol of its own name.     *)
SymbolsApart ==
  /\ \A s, r \in DOMAIN scopes :
       \A x \in DOMAIN scopes[s].symbols, y \in DOMAIN scopes[r].symbols :
         scopes[s].symbols[x] = scopes[r].symbols[y] => s = r /\ x = y
  /\ \A s \in DOMAIN scopes : \A x \in DOMAIN scopes[s].symbols :
       objects[scopes[s].symbols[x]].name = x
  /\ \A p \in DOMAIN idents :
       /\ idents[p].referred \in Symbols
       /\ objects[idents[p].referred].name = idents[p].name
-----------------------------------------------------------------------------
(* Each visitor closes the scope it opened: the innermost scope waiting to *)
(* be closed is the current one, and each scope waiting to be closed lies  *)
(* in the next one.                                                        *)
Closes(w, i) == w[i].op = "close"
NoClose(w, h, i) == \A j \in h .. i : ~Closes(w, j)

Nested(w, tree, cur) ==
  \A i \in DOMAIN w : Closes(w, i) =>
    /\ w[i].scope \in 2 .. Len(tree)
    /\ NoClose(w, 1, i - 1) => w[i].scope = cur
    /\ \A h \in 1 .. i - 1 :
         Closes(w, h) /\ NoClose(w, h + 1, i - 1) => tree[w[h].scope].parent = w[i].scope

ScopesNest == Nested(work, scopes, current)

(* The result of a lookup is read by the visitor that asked for it, before *)
(* another lookup starts, and is a symbol of the name that was looked up.  *)
Waits == {"refer", "routine"}

LookupInv ==
  /\ \A i \in DOMAIN work :
       /\ work[i].op = "resolve" => i = 1
       /\ work[i].op \in Waits =>
            i = 1 \/ (i = 2 /\ work[1].op = "resolve" /\ work[1].node = work[2].node)
  /\ work # <<>> /\ Top.op = "resolve" => Top.scope \in 0 .. Len(scopes)
  /\ work # <<>> /\ Top.op \in Waits /\ resolved # Nullptr =>
       objects[resolved].name = Top.node.xs[1]
=============================================================================
