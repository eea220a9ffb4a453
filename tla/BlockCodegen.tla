---------------------------- MODULE BlockCodegen ----------------------------
(***************************************************************************)
(* How CodeGenPass (src/Codegen/CodeGenPass.cpp) turns the statements of   *)
(* one routine into LLVM basic blocks.                                     *)
(*                                                                         *)
(* The recursion of the visitor is the stack "work": statements still to   *)
(* be visited, and for each visit in progress the frame that says what     *)
(* remains to be done after the visit it waits for and on which blocks.    *)
(* One step runs a visitor up to its next visit of a statement.            *)
(***************************************************************************)
EXTENDS Integers, Passes

VARIABLES
  ast,    \* the routine's body; never changes
  work,   \* the visits in progress, innermost first
  code,   \* the basic blocks, each the sequence of its instructions
  placed, \* the blocks that are in the function's block list
  ip,     \* the block IR inserts into
  LoopBeginBlocks, LoopEndBlocks  \* stacks, top first

gvars == <<ast, work, code, placed, ip, LoopBeginBlocks, LoopEndBlocks>>
-----------------------------------------------------------------------------
(* Instructions.  Do and Eval stand for all the instructions of a plain    *)
(* statement and of a condition; the others end a block.                   *)
Do(t)           == [op |-> "do", at |-> t.at, to |-> <<>>]
Eval(t)         == [op |-> "eval", at |-> t.at, to |-> <<>>]
Enter(t)        == [op |-> "enter", at |-> t.at, to |-> <<>>]
Br(b)           == [op |-> "br", at |-> <<>>, to |-> <<b>>]
CondBr(b, c)    == [op |-> "condbr", at |-> <<>>, to |-> <<b, c>>]
Ret(t)          == [op |-> "ret", at |-> t.at, to |-> <<>>]
Unreachable     == [op |-> "unreachable", at |-> <<>>, to |-> <<>>]

Terminators == {"br", "condbr", "ret", "unreachable"}
IsTerminator(i) == i.op \in Terminators

(* BasicBlock::Create, n times, and instructions added to a block.         *)
Create(c, n)  == c \o [i \in 1 .. n |-> <<>>]
Emit(c, b, s) == [c EXCEPT ![b] = @ \o s]

New(i) == Len(code) + i

(* What a visit leaves for later.                                          *)
Frame(op, blks) == [op |-> op, blks |-> blks]

Top   == work[1]
Under == Tail(work)

KeepLoops == UNCHANGED <<LoopBeginBlocks, LoopEndBlocks>>

(* Mutant: the loop stacks are queues.                                     *)
Enqueue(begin, end) ==
  /\ LoopBeginBlocks' = LoopBeginBlocks \o <<begin>>
  /\ LoopEndBlocks' = LoopEndBlocks \o <<end>>

Push(begin, end) ==
  /\ LoopBeginBlocks' = <<begin>> \o LoopBeginBlocks
  /\ LoopEndBlocks' = <<end>> \o LoopEndBlocks
Pop ==
  /\ LoopBeginBlocks' = Tail(LoopBeginBlocks)
  /\ LoopEndBlocks' = Tail(LoopEndBlocks)

Visiting(op) == work # <<>> /\ Top.op = op /\ UNCHANGED ast
-----------------------------------------------------------------------------
(* The entry block is left for the allocas; code goes into the body block. *)
Entry == 1
Body  == 2

Init ==
  /\ ast \in Routine
  /\ work = <<ast, Frame("RoutineEnd", <<>>)>>
  /\ code = <<<<>>, <<>>>>
  /\ placed = {Entry, Body}
  /\ ip = Body
  /\ LoopBeginBlocks = <<>>
  /\ LoopEndBlocks = <<>>

(* The end of visitFunctionDef and visitProcedureDef.                      *)
RoutineEnd ==
  /\ Visiting("RoutineEnd")
  /\ code' = Emit(Emit(code, ip, <<Unreachable>>), Entry, <<Br(Body)>>)
  /\ ip' = Entry
  /\ work' = Under
  /\ KeepLoops /\ UNCHANGED placed

visitBlock ==
  /\ Visiting("block")
  /\ work' = Top.kids \o Under
  /\ KeepLoops /\ UNCHANGED <<code, placed, ip>>

(* Any statement without control flow.                                     *)
visitPlain ==
  /\ Visiting("act")
  /\ code' = Emit(code, ip, <<Do(Top)>>)
  /\ work' = Under
  /\ KeepLoops /\ UNCHANGED <<placed, ip>>

(* Mutants: the block after the return is not created, or not written to.  *)
ReturnNoBlock ==
  /\ Visiting("return")
  /\ code' = Emit(code, ip, <<Ret(Top)>>)
  /\ placed' = placed \union {New(1)}
  /\ ip' = New(1)
  /\ work' = Under
  /\ KeepLoops

ReturnStays ==
  /\ Visiting("return")
  /\ code' = Emit(Create(code, 1), ip, <<Ret(Top)>>)
  /\ placed' = placed \union {New(1)}
  /\ work' = Under
  /\ KeepLoops /\ UNCHANGED ip

visitReturn ==
  /\ Visiting("return")
  /\ code' = Emit(Create(code, 1), ip, <<Ret(Top)>>)
  /\ placed' = placed \union {New(1)}
  /\ ip' = New(1)
  /\ work' = Under
  /\ KeepLoops

(* top() of an empty stack is undefined: ContinueAndBreakCheckPass must    *)
(* have excluded it.                                                       *)
Jump(op, stack) ==
  /\ Visiting(op)
  /\ stack # <<>>
  /\ code' = Emit(Create(code, 1), ip, <<Br(stack[1])>>)
  /\ placed' = placed \union {New(1)}
  /\ ip' = New(1)
  /\ work' = Under
  /\ KeepLoops

(* Mutant: continue leaves the loop.                                       *)
ContinueLeaves == Jump("continue", LoopEndBlocks)

visitBreak    == Jump("break", LoopEndBlocks)
visitContinue == Jump("continue", LoopBeginBlocks)
-----------------------------------------------------------------------------
visitInfiniteLoop ==
  LET LoopBody == New(1)  LoopEnd == New(2) IN
  /\ Visiting("loop")
  /\ code' = Emit(Create(code, 2), ip, <<Br(LoopBody)>>)
  /\ placed' = placed \union {LoopBody, LoopEnd}
  /\ Push(LoopBody, LoopEnd)
  /\ ip' = LoopBody
  /\ work' = <<Top.kids[1], Frame("InfiniteLoopEnd", <<LoopBody, LoopEnd>>)>> \o Under

(* Mutant: the end of the body branches to the block it is written in.     *)
LoopsInPlace(op) ==
  /\ Visiting(op)
  /\ code' = Emit(code, ip, <<Br(ip)>>)
  /\ ip' = Top.blks[2]
  /\ work' = Under
  /\ UNCHANGED placed

(* What every loop does after its body.                                    *)
LoopDone(op) ==
  /\ Visiting(op)
  /\ code' = Emit(code, ip, <<Br(Top.blks[1])>>)
  /\ ip' = Top.blks[2]
  /\ work' = Under
  /\ UNCHANGED placed

(* Mutant: the loop stays on the stacks.                                   *)
NotPopped == LoopDone("InfiniteLoopEnd") /\ KeepLoops

InfiniteLoopEnd == LoopDone("InfiniteLoopEnd") /\ Pop

(* LoopBody is created outside the function and put into it here.          *)
visitConditionalLoop(op) ==
  LET Header == New(1)  LoopBody == New(2)  LoopEnd == New(3) IN
  /\ Visiting(op)
  /\ code' = Emit(Emit(Create(code, 3),
                       ip, <<Br(IF op = "while" THEN Header ELSE LoopBody)>>),
                  Header, <<Eval(Top), CondBr(LoopBody, LoopEnd)>>)
  /\ placed' = placed \union {Header, LoopBody, LoopEnd}
  /\ Push(Header, LoopEnd)
  /\ ip' = LoopBody
  /\ work' = <<Top.kids[1], Frame("ConditionalLoopEnd", <<Header, LoopEnd>>)>> \o Under

visitWhile   == visitConditionalLoop("while")
visitDoWhile == visitConditionalLoop("dowhile")

ConditionalLoopEnd == LoopDone("ConditionalLoopEnd") /\ Pop

(* The domain is evaluated once, before the header; only the loop over the *)
(* first domain of a statement is breakable.  rt_vector_out_of_bounds,     *)
(* true at the end of the domain, selects LoopEnd.                         *)
visitDomainLoop(op) ==
  LET Header == New(1)  LoopBody == New(2)  LoopEnd == New(3) IN
  /\ Visiting(op)
  /\ code' = Emit(Emit(Create(code, 3),
                       ip, <<Enter(Top), Br(Header)>>),
                  Header, <<Eval(Top), CondBr(LoopBody, LoopEnd)>>)
  /\ placed' = placed \union {Header, LoopBody, LoopEnd}
  /\ IF op = "domain" THEN Push(Header, LoopEnd) ELSE KeepLoops
  /\ ip' = LoopBody
  /\ work' = <<Top.kids[1], Frame(IF op = "domain" THEN "DomainLoopEnd" ELSE "InnerLoopEnd",
                                  <<Header, LoopEnd>>)>> \o Under

visitBreakable == visitDomainLoop("domain")
visitInner     == visitDomainLoop("inner")

DomainLoopEnd == LoopDone("DomainLoopEnd") /\ Pop
InnerLoopEnd  == LoopDone("InnerLoopEnd") /\ KeepLoops
-----------------------------------------------------------------------------
visitConditional ==
  LET CondHeader == New(1)  CondTrue == New(2)  CondFalse == New(3) IN
  /\ Visiting("if")
  /\ code' = Emit(Emit(Create(code, 3), ip, <<Br(CondHeader)>>),
                  CondHeader, <<Eval(Top), CondBr(CondTrue, CondFalse)>>)
  /\ placed' = placed \union {CondHeader, CondTrue}
  /\ ip' = CondTrue
  /\ work' = <<Top.kids[1], Frame("ConditionalEnd", <<CondFalse>>)>> \o Under
  /\ KeepLoops

(* Mutant: CondFalse never enters the function's list.                     *)
NotInserted ==
  /\ Visiting("ConditionalEnd")
  /\ code' = Emit(code, ip, <<Br(Top.blks[1])>>)
  /\ ip' = Top.blks[1]
  /\ work' = Under
  /\ KeepLoops /\ UNCHANGED placed

(* CondFalse enters the function's list only now.                          *)
ConditionalEnd ==
  LET CondFalse == Top.blks[1] IN
  /\ Visiting("ConditionalEnd")
  /\ code' = Emit(code, ip, <<Br(CondFalse)>>)
  /\ placed' = placed \union {CondFalse}
  /\ ip' = CondFalse
  /\ work' = Under
  /\ KeepLoops

visitConditionalElse ==
  LET CondHeader == New(1)  CondTrue == New(2)  CondFalse == New(3)  CondEnd == New(4) IN
  /\ Visiting("ifelse")
  /\ code' = Emit(Emit(Create(code, 4), ip, <<Br(CondHeader)>>),
                  CondHeader, <<Eval(Top), CondBr(CondTrue, CondFalse)>>)
  /\ placed' = placed \union {CondHeader, CondTrue, CondFalse, CondEnd}
  /\ ip' = CondTrue
  /\ work' = <<Top.kids[1], Frame("IfBranchEnd", <<CondFalse, CondEnd>>),
               Top.kids[2], Frame("ElseBranchEnd", <<CondEnd>>)>> \o Under
  /\ KeepLoops

IfBranchEnd ==
  /\ Visiting("IfBranchEnd")
  /\ code' = Emit(code, ip, <<Br(Top.blks[2])>>)
  /\ ip' = Top.blks[1]
  /\ work' = Under
  /\ KeepLoops /\ UNCHANGED placed

(* Mutant: the else branch runs into nothing.                              *)
ElseFallsOff ==
  /\ Visiting("ElseBranchEnd")
  /\ ip' = Top.blks[1]
  /\ work' = Under
  /\ KeepLoops /\ UNCHANGED <<code, placed>>

ElseBranchEnd ==
  /\ Visiting("ElseBranchEnd")
  /\ code' = Emit(code, ip, <<Br(Top.blks[1])>>)
  /\ ip' = Top.blks[1]
  /\ work' = Under
  /\ KeepLoops /\ UNCHANGED placed
-----------------------------------------------------------------------------
Next ==
  \/ RoutineEnd \/ visitBlock \/ visitPlain
  \/ visitReturn \/ visitBreak \/ visitContinue
  \/ visitInfiniteLoop \/ InfiniteLoopEnd
  \/ visitWhile \/ visitDoWhile \/ ConditionalLoopEnd
  \/ visitBreakable \/ DomainLoopEnd \/ visitInner \/ InnerLoopEnd
  \/ visitConditional \/ ConditionalEnd
  \/ visitConditionalElse \/ IfBranchEnd \/ ElseBranchEnd

Spec == Init /\ [][Next]_gvars

Done == work = <<>>
-----------------------------------------------------------------------------
At     == {t.at : t \in Stmt} \union {<<>>}
Instr  == [op : Terminators \union {"do", "eval", "enter"}, at : At, to : Seq(Nat)]

LoopEnds  == {"InfiniteLoopEnd", "ConditionalLoopEnd", "DomainLoopEnd", "InnerLoopEnd"}
CondEnds  == {"ConditionalEnd", "IfBranchEnd", "ElseBranchEnd"}
FrameOps  == LoopEnds \union CondEnds \union {"RoutineEnd"}
Frames    == [op : FrameOps, blks : Seq(Nat)]

TypeOK ==
  /\ ast \in Routine
  /\ work \in Seq(Stmt \union Frames)
  /\ code \in Seq(Seq(Instr))
  /\ placed \subseteq DOMAIN code
  /\ ip \in DOMAIN code
  /\ LoopBeginBlocks \in Seq(DOMAIN code)
  /\ LoopEndBlocks \in Seq(DOMAIN code)

Running(s) == \A i \in DOMAIN s : ~IsTerminator(s[i])
Sealed(s)  == s # <<>> /\ \A i \in DOMAIN s : IsTerminator(s[i]) <=> i = Len(s)

(* Where the branches of a block lead.                                     *)
BranchesInto(s, blks) ==
  \A i \in DOMAIN s : \A k \in DOMAIN s[i].to : s[i].to[k] \in blks

(* The blocks a visit in progress has opened and has yet to give code.     *)
Owned(f) ==
  IF f.op \in LoopEnds THEN {f.blks[2]}
  ELSE IF f.op \in CondEnds THEN {f.blks[1]}
  ELSE IF f.op = "RoutineEnd" THEN {Entry} ELSE {}

(* The visits in progress end with that of the routine, and a frame names  *)
(* the blocks its visitor needs.                                           *)
WorkInv ==
  \A i \in DOMAIN work :
    /\ work[i].op = "RoutineEnd" <=> i = Len(work)
    /\ work[i].op \in FrameOps => work[i].blks \in Seq(DOMAIN code)
    /\ work[i].op \in LoopEnds \union {"IfBranchEnd"} => Len(work[i].blks) = 2
    /\ work[i].op \in {"ConditionalEnd", "ElseBranchEnd"} => Len(work[i].blks) = 1

(* A block that waits is empty, and one visit only will continue in it.    *)
WaitingInv ==
  \A i \in DOMAIN work : \A b \in Owned(work[i]) :
    /\ b \in DOMAIN code
    /\ b # ip
    /\ code[b] = <<>>
    /\ \A j \in DOMAIN work : b \in Owned(work[j]) => i = j

(* The block being written is not finished; every other one that does not  *)
(* wait is.                                                                *)
SealedInv ==
  /\ work # <<>> => Running(code[ip])
  /\ \A b \in DOMAIN code :
       \/ Sealed(code[b])
       \/ work # <<>> /\ b = ip
       \/ \E i \in DOMAIN work : b \in Owned(work[i])

(* Only the blocks a pending visitConditional will insert are not yet in   *)
(* the function, and branches lead to existing blocks.                     *)
PlacedInv ==
  /\ \A b \in DOMAIN code \ placed :
       \E i \in DOMAIN work : work[i].op = "ConditionalEnd" /\ work[i].blks[1] = b
  /\ \A b \in DOMAIN code : BranchesInto(code[b], DOMAIN code)

BlockInv == TypeOK /\ WorkInv /\ WaitingInv /\ SealedInv /\ PlacedInv

(* The loop stacks are the breakable loops whose bodies are being visited, *)
(* innermost first.                                                        *)
BreakEnds == LoopEnds \ {"InnerLoopEnd"}

IsLoopStack(f) ==
  /\ \A j, k \in DOMAIN f : j < k => f[j] < f[k]
  /\ \A i \in DOMAIN work : work[i].op \in BreakEnds <=> \E k \in DOMAIN f : f[k] = i
  /\ \A k \in DOMAIN f : /\ LoopBeginBlocks[k] = work[f[k]].blks[1]
                         /\ LoopEndBlocks[k] = work[f[k]].blks[2]

LoopInv ==
  /\ Len(LoopEndBlocks) = Len(LoopBeginBlocks)
  /\ \E f \in [1 .. Len(LoopBeginBlocks) -> DOMAIN work] : IsLoopStack(f)

GenInv == BlockInv /\ LoopInv

(* break and continue lead to the innermost breakable loop in progress,    *)
(* however many visits, inner domains and conditionals lie in between.     *)
InnermostLoop(i) ==
  /\ i \in DOMAIN work /\ work[i].op \in BreakEnds
  /\ \A j \in 1 .. i - 1 : work[j].op \notin BreakEnds

JumpsToInnermostLoop ==
  \A i \in DOMAIN work : InnermostLoop(i) =>
    /\ LoopBeginBlocks[1] = work[i].blks[1]
    /\ LoopEndBlocks[1] = work[i].blks[2]

(* The function handed to LLVM is well formed: every block of it ends with *)
(* its only terminator, and no branch leads to a block that was created    *)
(* but never put into the function.  Branches are emitted by one visitor   *)
(* into blocks that others opened (after_ret, after_break, loop_end...).   *)
WellFormedFunction ==
  Done =>
    /\ placed = DOMAIN code
    /\ \A b \in DOMAIN code : Sealed(code[b]) /\ BranchesInto(code[b], placed)
=============================================================================
