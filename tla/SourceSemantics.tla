-------------------------- MODULE SourceSemantics --------------------------
(***************************************************************************)
(* What the statements of a routine mean, read off their structure and not *)
(* off any translation: the reference for the compiled code.  "todo" is    *)
(* what remains to be executed, innermost first; a mark stands where the   *)
(* body of a loop ends and says which loop goes around.                    *)
(***************************************************************************)
EXTENDS Statements

Mark(t)  == [op |-> "mark", at |-> t.at, kids |-> <<t>>]

(* The loop over the second of two domains.  It is not left by break.      *)
Second(t) == [op |-> "second", at |-> Append(t.at, 0), kids |-> t.kids]
Around(t) == [op |-> "around", at |-> t.at, kids |-> <<t>>]

(* Each round of a domain loop asks for the next element first.            *)
Round(t)  == [op |-> "round", at |-> t.at, kids |-> <<t>>]

(* Falling off the end of a procedure returns; of a function, it is wrong. *)
FallOff(routine) ==
  [op |-> IF routine = "procedure" THEN "return" ELSE "end", at |-> <<0>>, kids |-> <<>>]

(* What an execution can be seen to do next, if it can be seen:            *)
(* do a plain statement, evaluate a condition (or look for an element),    *)
(* enter the domain of a loop, return, or run off the end.                 *)
Seen == [act |-> "do", if |-> "eval", ifelse |-> "eval", while |-> "eval",
         domain |-> "enter", domain2 |-> "enter", second |-> "enter",
         round |-> "eval", return |-> "ret", end |-> "unreachable"]

Shows(todo) ==
  \/ todo[1].op \in DOMAIN Seen
  \/ todo[1].op = "mark" /\ todo[1].kids[1].op = "dowhile"

Observed(todo) ==
  LET t == todo[1]
  IN IF t.op = "mark" THEN <<"eval", t.at>> ELSE <<Seen[t.op], t.at>>

(* What is left when the innermost loop that break and continue mean is    *)
(* left, or goes around.                                                   *)
FirstMark(todo) ==
  CHOOSE i \in DOMAIN todo :
    todo[i].op = "mark" /\ \A j \in 1 .. i - 1 : todo[j].op # "mark"
AfterLoop(todo)  == SubSeq(todo, FirstMark(todo) + 1, Len(todo))
NextRound(todo)  == SubSeq(todo, FirstMark(todo), Len(todo))

(* A step that cannot be seen.                                             *)
Quiet(todo) ==
  LET t == todo[1]  rest == Tail(todo)
  IN CASE t.op = "block" -> t.kids \o rest
       [] t.op = "break" -> AfterLoop(todo)
       [] t.op = "continue" -> NextRound(todo)
       [] t.op \in {"loop", "dowhile"} -> <<t.kids[1], Mark(t)>> \o rest
       [] t.op \in {"mark", "around"} ->
            <<IF t.kids[1].op \in {"domain", "domain2", "second"}
              THEN Round(t.kids[1]) ELSE t.kids[1]>> \o rest

(* A step that can; "outcome" is the condition's value, or that there is a *)
(* next element.                                                           *)
Resumed(todo, outcome) ==
  LET t == todo[1]  rest == Tail(todo)
  IN CASE t.op = "act" -> rest
       [] t.op \in {"domain", "domain2", "second"} -> <<Round(t)>> \o rest
       [] t.op = "if" -> IF outcome THEN t.kids \o rest ELSE rest
       [] t.op = "ifelse" -> <<IF outcome THEN t.kids[1] ELSE t.kids[2]>> \o rest
       [] t.op = "while" ->
            IF outcome THEN <<t.kids[1], Mark(t)>> \o rest ELSE rest
       [] t.op = "mark" -> IF outcome THEN t.kids \o rest ELSE rest
       [] t.op = "round" ->
            LET l == t.kids[1]
            IN IF ~outcome THEN rest
               ELSE CASE l.op = "domain" -> <<l.kids[1], Mark(l)>> \o rest
                      [] l.op = "domain2" -> <<Second(l), Mark(l)>> \o rest
                      [] l.op = "second" -> <<l.kids[1], Around(l)>> \o rest
=============================================================================
