--------------------------- MODULE CompiledRoutine ---------------------------
(***************************************************************************)
(* A routine from source to execution: it is lowered and checked           *)
(* (Lowering), code is generated for it (BlockCodegen), and the code runs  *)
(* next to the source it came from (SourceSemantics).  Conditions and the  *)
(* lengths of domains are chosen by the environment, the same for both; a  *)
(* step runs both until each can be seen to do something, and then lets    *)
(* both do it.                                                             *)
(***************************************************************************)
EXTENDS BlockCodegen, SourceSemantics

CONSTANTS
  Source  \* the routines considered: <<"procedure" or "function", body>>

ASSUME SourceAssumption ==
  Source \subseteq {"procedure", "function"} \X {t \in Parsed : t.op = "block"}

VARIABLES
  src,     \* the source of the routine
  todo,    \* what its execution by SourceSemantics has still to do
  pc,      \* the block and the instruction the compiled code is at
  phase    \* "codegen", "rejected", "run" or "returned"

rvars == <<src, todo, pc, phase>>
vars  == <<gvars, rvars>>

RunInit ==
  /\ src \in Source
  /\ todo = <<src[2], FallOff(src[1])>>
  /\ pc = <<Entry, 1>>

InitRoutine ==
  /\ RunInit
  /\ ast = Compiled(src[1], src[2])
  /\ Init
  /\ phase = IF Accepted(src[1], src[2]) THEN "codegen" ELSE "rejected"

Generate == phase = "codegen" /\ Next /\ UNCHANGED rvars

Start ==
  /\ phase = "codegen" /\ Done
  /\ phase' = "run"
  /\ UNCHANGED <<gvars, src, todo, pc>>
-----------------------------------------------------------------------------
Current == code[pc[1]][pc[2]]

CodeShows == Current.op \in {"do", "eval", "enter", "ret", "unreachable"}
CodeObserved == <<Current.op, IF Current.op = "unreachable" THEN <<0>> ELSE Current.at>>

(* An instruction that ends the block is not followed by another.          *)
Following == <<pc[1], pc[2] + 1>>

(* A condition is tested by the branch that follows its evaluation.        *)
CodeResumed(outcome) ==
  IF Current.op = "eval"
  THEN <<code[pc[1]][pc[2] + 1].to[IF outcome THEN 1 ELSE 2], 1>>
  ELSE Following

BothShow == phase = "run" /\ CodeShows /\ Shows(todo)
Agree    == CodeObserved = Observed(todo)

(* Each execution that cannot be seen goes one step further.               *)
Approach ==
  /\ phase = "run" /\ ~BothShow
  /\ pc' = IF CodeShows THEN pc ELSE <<Current.to[1], 1>>
  /\ todo' = IF Shows(todo) THEN todo ELSE Quiet(todo)
  /\ UNCHANGED <<gvars, src, phase>>

Perform(outcome) ==
  /\ BothShow /\ Agree
  /\ Current.op \in {"do", "enter"} => outcome
  /\ Current.op \notin {"ret", "unreachable"}
  /\ pc' = CodeResumed(outcome)
  /\ todo' = Resumed(todo, outcome)
  /\ UNCHANGED <<gvars, src, phase>>

Leave ==
  /\ BothShow /\ Agree
  /\ Current.op = "ret"
  /\ phase' = "returned"
  /\ UNCHANGED <<gvars, src, todo, pc>>

NextRoutine ==
  \/ Generate \/ Start
  \/ Approach \/ Leave
  \/ \E outcome \in BOOLEAN : Perform(outcome)

SpecRoutine == InitRoutine /\ [][NextRoutine]_vars

(* Compiled code does not stop by itself.                                  *)
FairRoutine == SpecRoutine /\ WF_vars(Generate) /\ WF_vars(Start) /\ WF_vars(Approach)
-----------------------------------------------------------------------------
(* visitBreak and visitContinue never find the stack of loop blocks empty: *)
(* what ContinueAndBreakCheckPass accepts is what code generation, with    *)
(* loops that are not breakable, can translate.                            *)
JumpHasTarget ==
  phase = "codegen" /\ ~Done /\ Top.op \in {"break", "continue"} =>
    LoopBeginBlocks # <<>> /\ LoopEndBlocks # <<>>

(* Whatever the conditions turn out to be, the compiled routine does, step *)
(* by step, what its source means: break, continue and return leave the    *)
(* right statements, loops test their condition where they should.         *)
SameBehaviour == BothShow => Agree

(* The builder loses the loop of a while or do-while whose body is no      *)
(* block (ASTBuilderPass.cpp:165, 184): the theorem about SameBehaviour is *)
(* about the other routines.                                               *)
WhilesHaveBlocks ==
  \A t \in Parsed : t.op \in {"while", "dowhile"} => t.kids[1].op = "block"

(* The unreachable instruction that ends every routine is never executed,  *)
(* because EnsureReturnPass rejects a function that may run off its end.   *)
NeverUnreachable == phase = "run" => Current.op # "unreachable"

(* Compiled code keeps up: when the source does something, the code does   *)
(* not get lost in branches before doing it, nor the reverse; and code     *)
(* generation ends.                                                        *)
KeepsUp ==
  /\ phase = "codegen" ~> phase = "run"
  /\ phase = "run" /\ Shows(todo) ~> BothShow
  /\ phase = "run" /\ CodeShows ~> BothShow

(* The body of a while loop could potentially never run (the comment of    *)
(* EnsureReturnPass.h): where the source is about to test a condition the  *)
(* code does not go ahead without the test.                                *)
WhileTestsFirst ==
  BothShow /\ Observed(todo)[1] = "eval" => Agree
=============================================================================
