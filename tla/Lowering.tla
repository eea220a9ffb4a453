------------------------------ MODULE Lowering ------------------------------
(***************************************************************************)
(* From the parse tree of a routine to the tree that code is generated     *)
(* from: ASTBuilderPass, and the two checks that decide whether its        *)
(* control flow is legal, ContinueAndBreakCheckPass and EnsureReturnPass.  *)
(*                                                                         *)
(* The lowered tree has the same records; its "domain" is a DomainLoop     *)
(* with Breakable set and "inner" one without.  Each pass goes through the *)
(* tree with a visitor, which is an operator on a node and on what the     *)
(* pass made of its children; Passes applies them to whole trees.          *)
(***************************************************************************)
EXTENDS Statements

(* wrapStmtInBlock, at every place that tests isa<Block>(Body) first.      *)
AsBlock(t) ==
  IF t.op = "block" THEN t
  ELSE [op |-> "block", at |-> t.at, kids |-> <<t>>]

(* The loop over the second of two domains, which break does not leave.    *)
InnerLoop(t, body) == [op |-> "inner", at |-> Append(t.at, 0), kids |-> <<AsBlock(body)>>]

(* castToNodeVisit: while and do-while loops whose body is not a block     *)
(* are replaced by the block that was to become their body.                *)
BuildNode(t, kids) ==
  LET blocks == Listed([i \in DOMAIN kids |-> AsBlock(kids[i])])
  IN CASE t.op \in Leaf -> t
       [] t.op = "block" -> [t EXCEPT !.kids = kids]
       [] t.op \in {"while", "dowhile"} ->
            IF kids[1].op = "block" THEN [t EXCEPT !.kids = kids] ELSE blocks[1]
       [] t.op \in {"if", "ifelse", "loop", "domain"} -> [t EXCEPT !.kids = blocks]
       [] t.op = "domain2" ->
            [op |-> "domain", at |-> t.at, kids |-> <<AsBlock(InnerLoop(t, kids[1]))>>]
-----------------------------------------------------------------------------
LoopNodes == {"loop", "while", "dowhile", "domain", "inner"}

(* Mutant: continue is not checked.                                        *)
StrayBreak(t, below) ==
  \/ t.op = "break"
  \/ t.op \notin LoopNodes /\ \E i \in DOMAIN below : below[i]

(* ContinueAndBreakCheckPass throws on a break or continue from which no   *)
(* loop is found on the way up.                                            *)
StrayAt(t, below) ==
  \/ t.op \in {"break", "continue"}
  \/ t.op \notin LoopNodes /\ \E i \in DOMAIN below : below[i]

(* Mutant: one of the two branches is enough.                              *)
ReturnsSomewhere(t, below) ==
  \E i \in DOMAIN t.kids :
    \/ t.kids[i].op = "return"
    \/ (t.op = "ifelse" \/ t.kids[i].op = "ifelse") /\ below[i]

(* EnsureReturnPass::visitBlock and visitConditionalElse.                  *)
ReturnsAt(t, below) ==
  \/ /\ t.op = "block"
     /\ \E i \in DOMAIN t.kids :
          t.kids[i].op = "return" \/ (t.kids[i].op = "ifelse" /\ below[i])
  \/ t.op = "ifelse" /\ \A i \in DOMAIN t.kids : below[i]

AddedReturn == [op |-> "return", at |-> <<0>>, kids |-> <<>>]

(* A procedure without a return type gets a return at its end; any other   *)
(* routine must pass Returns.                                              *)
EnsuredReturn(routine, body) ==
  IF routine = "procedure" THEN [body EXCEPT !.kids = Append(@, AddedReturn)]
  ELSE body
=============================================================================
