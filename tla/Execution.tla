------------------------------ MODULE Execution ------------------------------
(***************************************************************************)
(* What the code CodeGenPass generates for a program does when it runs, as *)
(* far as its variables go.  Every node of the program carries in "syms"   *)
(* the symbols of its names; a symbol has one cell in each activation of a *)
(* routine, and globals have theirs in all of them.                        *)
(***************************************************************************)
EXTENDS Programs, SequencesExt

Null == <<0>>

Read(mem, s) == IF s \in DOMAIN mem THEN mem[s] ELSE Null
Store(mem, s, v) == [c \in DOMAIN mem \union {s} |-> IF c = s THEN v ELSE mem[c]]
Only(mem, cells) == [c \in DOMAIN mem \intersect cells |-> mem[c]]

(* The cells of a new activation: the globals and the parameters.          *)
Activation(mem, code, f, args) ==
  FoldLeft(LAMBDA m, i : Store(m, code.routines[f].syms[i + 1], args[i]),
           Only(mem, code.globals), [i \in DOMAIN args |-> i])

State(mem, out, ret) == [mem |-> mem, out |-> out, ret |-> ret]

RECURSIVE Eval(_, _, _), Exec(_, _, _)

(* An activation prints and returns; a routine without a body does not     *)
(* link.                                                                   *)
NoBody == State(<<>>, << <<-1>> >>, <<-1>>)

Activate(f, args, mem, code) ==
  IF f \notin DOMAIN code.routines THEN NoBody
  ELSE Exec(code.routines[f].kids[1], State(Activation(mem, code, f, args), <<>>, <<>>), code)

Arguments(t, mem, code) ==
  [i \in 1 .. Len(t.kids) - 1 |-> Eval(t.kids[i + 1], mem, code)]

CallOf(t, mem, code) == Activate(t.kids[1].xs[1], Arguments(t, mem, code), mem, code)

Eval(e, mem, code) ==
  LET At(v) == Store(mem, e.syms[1], <<v>>) IN
  CASE e.k = "literal"   -> e.val
    [] e.k = "name"      -> Read(mem, e.syms[1])
    [] e.k = "member"    -> <<Eval(e.kids[1], mem, code)[e.val[1]]>>
    [] e.k = "tuple"     -> FlattenSeq([i \in DOMAIN e.kids |-> Eval(e.kids[i], mem, code)])
    [] e.k = "generator" ->
         FlattenSeq([j \in DOMAIN Eval(e.kids[1], mem, code) |->
           Eval(e.kids[2], At(Eval(e.kids[1], mem, code)[j]), code)])
    [] e.k = "filter"    ->
         SelectSeq(Eval(e.kids[1], mem, code), LAMBDA v : Eval(e.kids[2], At(v), code) # Null)
    [] e.k = "matrix"    ->
         LET rows == Eval(e.kids[1], mem, code)
             columns == Eval(e.kids[2], mem, code)
         IN FlattenSeq([i \in DOMAIN rows |-> FlattenSeq([j \in DOMAIN columns |->
              Eval(e.kids[3], Store(At(rows[i]), e.syms[2], <<columns[j]>>), code)])])
    [] e.k = "call"      -> CallOf(e, mem, code).ret

Exec(t, st, code) ==
  LET Value == Eval(Last(t.kids), st.mem, code)
      Puts(s) == [st EXCEPT !.mem = Store(@, s, Value)]
      Target == t.kids[1] IN
  CASE st.ret # <<>> -> st
    [] t.k = "block" -> FoldLeft(LAMBDA s, kid : Exec(kid, s, code), st, t.kids)
    [] t.k = "declaration" -> Puts(t.syms[1])
    [] t.k = "assignment" /\ Target.k = "name" -> Puts(Target.syms[1])
    [] t.k = "assignment" /\ Target.k = "destruct" ->
         [st EXCEPT !.mem =
            FoldLeft(LAMBDA m, i : Store(m, Target.kids[i].syms[1], <<Value[i]>>),
                     @, [i \in DOMAIN Target.kids |-> i])]
    [] t.k = "output" -> [st EXCEPT !.out = Append(@, Value)]
    [] t.k = "return" -> [st EXCEPT !.ret = Value]
    [] t.k = "call statement" -> [st EXCEPT !.out = @ \o CallOf(t, st.mem, code).out]
    [] t.k = "loop" ->
         FoldLeft(LAMBDA s, v : Exec(t.kids[2], [s EXCEPT !.mem = Store(@, t.syms[1], <<v>>)], code),
                  st, Eval(t.kids[1], st.mem, code))

(* main assigns the globals it is given, in their order, and runs.         *)
Run(globals, code) ==
  LET Assigned(m, d) == Store(m, d.syms[1], Eval(d.kids[1], m, code))
  IN Activate("main", <<>>, FoldLeft(Assigned, <<>>, globals), code).out

RoutinesOf(program) ==
  LET defs == {t \in ToSet(program.kids) : t.k \in Routines}
  IN [f \in {t.xs[1] : t \in defs} |-> CHOOSE t \in defs : t.xs[1] = f]

IsGlobal(t) == t.k = "declaration"
Code(program) ==
  [routines |-> RoutinesOf(program),
   globals |-> {t.syms[1] : t \in {d \in ToSet(program.kids) : IsGlobal(d)}}]

(* A tree whose nodes have got the symbols of their names.                 *)
RECURSIVE Labelled(_, _, _, _)
Labelled(t, at, symbols, none) ==
  LET SymbolAt(p) == IF p \in DOMAIN symbols THEN symbols[p] ELSE none
  IN [k |-> t.k, xs |-> t.xs, val |-> t.val,
      syms |-> [i \in DOMAIN t.xs |-> SymbolAt(IF t.k = "name" THEN at ELSE NameAt(at, i))],
      kids |-> [i \in DOMAIN t.kids |-> Labelled(t.kids[i], Append(at, i), symbols, none)]]
=============================================================================
