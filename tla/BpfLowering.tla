---------------------------- MODULE BpfLowering ----------------------------
(***************************************************************************)
(* The control skeleton of bpf_unparser (src/bpf-translate.cxx): how the   *)
(* visitor lowers if, for, try/catch, inlined function calls, break,       *)
(* continue, return, next and the embedded-code directives jump_to_catch   *)
(* and terminate into basic blocks and edges.                              *)
(*                                                                         *)
(* The visitor is recursive.  A handler that visits sub-statements is      *)
(* split at each recursive call: the part before the call is one action    *)
(* (TryBegin), the part after it another (TryBodyEnd), and what happens in *)
(* between is whatever statements the model chooses next.  The frames      *)
(* variable is the C++ call stack of those handlers.  Which statement     *)
(* comes next is the input tree, enumerated nondeterministically.          *)
(*                                                                         *)
(* Data is abstracted away: conditions are one conditional branch,         *)
(* expressions emit no blocks, an error message is the number of the      *)
(* raise that produced it (each inlined error() call gets its own          *)
(* register, new_locals/new_reg).                                          *)
(***************************************************************************)
EXTENDS Naturals, Sequences, SequencesExt

CONSTANTS
  MaxBlocks,   \* bound on this_prog.new_block() calls
  MaxDepth,    \* bound on nesting of compound statements
  MaxRaises,   \* bound on jump_to_catch statements
  Targets,     \* back ends: "kernel" (target_kernel_bpf), "user" (target_user_bpfinterp)
  UnitKind,    \* "probe" (translate_probe) or "probe_v" (translate_probe_v)
  Garbage      \* model value: what catch_msg.back() yields on an empty vector

ASSUME Targets \subseteq {"kernel", "user"}
ASSUME UnitKind \in {"probe", "probe_v"}
ASSUME MaxBlocks \in Nat /\ MaxDepth \in Nat /\ MaxRaises \in Nat

NoBlock == 0          \* this_ins.b == NULL, and a NULL block pointer
Blocks == 1..MaxBlocks
Msgs == 1..MaxRaises

VARIABLES
  nblk,        \* number of blocks created: blocks are 1..nblk
  cur,         \* this_ins.b: the block code is emitted into, or NoBlock
  exitBlk,     \* bpf_unparser::exit_block
  edges,       \* CFG edges [from, to, via, want]; want is a ghost field
  frames,      \* handlers suspended in a recursive emit_stmt call
  loopBreak,   \* bpf_unparser::loop_break
  loopCont,    \* bpf_unparser::loop_cont
  funcReturn,  \* bpf_unparser::func_return
  catchJump,   \* bpf_unparser::catch_jump
  catchMsg,    \* bpf_unparser::catch_msg
  nraise,      \* number of jump_to_catch statements lowered
  raisedTo,    \* ghost: <<catch block, msg>> for every raise jumping to a catch
  catchVar,    \* ghost: <<catch block, value moved into the catch variable>>
  status,      \* "run", "done" or "error" (SEMANTIC_ERROR thrown)
  target       \* the back end of this translation pass, fixed for the pass

vars == <<nblk, cur, exitBlk, edges, frames, loopBreak, loopCont, funcReturn,
          catchJump, catchMsg, nraise, raisedTo, catchVar, status>>

Frame == [k : {"then", "else", "loop", "foreach", "try", "catch", "func"},
          join : Blocks, other : Blocks \cup {NoBlock},
          body : Blocks \cup {NoBlock}, iter : Blocks \cup {NoBlock},
          var : BOOLEAN]

Via == {"jmp", "cond", "raise", "break", "cont", "return", "next", "exit"}

-----------------------------------------------------------------------------
(* Helpers *)

\* The k fresh blocks the next k this_prog.new_block() calls return.
Fresh(k) == nblk + k <= MaxBlocks

\* An edge whose lexical target is its actual target.
E(from, to, via) == [from |-> from, to |-> to, via |-> via, want |-> to]

\* emit_jmp: add a fallthru edge from the current block (which must exist).
Jmp(to, via, want) == [from |-> cur, to |-> to, via |-> via, want |-> want]

\* The frames of the function body being lowered: those after the
\* innermost inlined call (emit_functioncall).
FuncIdx == {i \in 1..Len(frames) : frames[i].k = "func"}
Scope == SubSeq(frames, IF FuncIdx = {} THEN 1 ELSE Max(FuncIdx) + 1, Len(frames))

\* The innermost enclosing frame of a kind in ks, if there is one.
Innermost(s, ks) == SelectLastInSeq(s, LAMBDA f : f.k \in ks)

\* Frames of statements that push loop_break and loop_cont.
Loops == {"loop", "foreach"}

Push(f) == frames' = Append(frames, f)
Running == status = "run"

NF(k, join, other, body, iter, var) ==
  [k |-> k, join |-> join, other |-> other, body |-> body, iter |-> iter, var |-> var]

-----------------------------------------------------------------------------
(* Initial states: the unit prologue *)

\* translate_probe: entry block, then add_prologue, which creates
\* error_status, calls get_exit_block() and checks the exit flag and the
\* error counter with conditional jumps to the exit block.  The prologue's
\* intermediate continuation blocks are folded into the entry block.
InitProbe ==
  /\ nblk = 3 /\ exitBlk = 2 /\ cur = 3
  /\ edges = {E(1, 2, "cond"), E(1, 3, "cond")}

\* translate_probe_v (begin/end/error probes): no prologue, so no exit
\* block exists until something calls get_exit_block().
InitProbeV ==
  /\ nblk = 1 /\ exitBlk = NoBlock /\ cur = 1
  /\ edges = {}

Init ==
  /\ IF UnitKind = "probe" THEN InitProbe ELSE InitProbeV
  /\ frames = <<>>
  /\ loopBreak = <<>> /\ loopCont = <<>> /\ funcReturn = <<>>
  /\ catchJump = <<>> /\ catchMsg = <<>>
  /\ nraise = 0 /\ raisedTo = {} /\ catchVar = {}
  /\ status = "run"
  /\ target \in Targets

-----------------------------------------------------------------------------
(* visit_if_statement *)

\* Up to emit_stmt(s->thenblock): create then/join (and else) blocks and
\* branch on the condition.
IfBegin ==
  /\ Running /\ cur # NoBlock /\ Len(frames) < MaxDepth
  /\ \E hasElse \in BOOLEAN :
       LET then == nblk + 1
           join == nblk + 2
           els  == IF hasElse THEN nblk + 3 ELSE join
       IN /\ Fresh(IF hasElse THEN 3 ELSE 2)
          /\ nblk' = IF hasElse THEN nblk + 3 ELSE nblk + 2
          /\ edges' = edges \cup {E(cur, then, "cond"), E(cur, els, "cond")}
          /\ cur' = then
          /\ Push(NF("then", join, IF hasElse THEN els ELSE NoBlock, NoBlock, NoBlock, FALSE))
  /\ UNCHANGED <<exitBlk, loopBreak, loopCont, funcReturn, catchJump, catchMsg,
                 nraise, raisedTo, catchVar, status>>

\* Mutant: the then block is closed without the in_block() test.
ThenEndNoInBlock ==
  /\ Running /\ frames # <<>> /\ Last(frames).k = "then"
  /\ LET f == Last(frames) IN
     /\ edges' = edges \cup {Jmp(f.join, "jmp", f.join)}
     /\ IF f.other # NoBlock
          THEN /\ cur' = f.other
               /\ frames' = Append(Front(frames), [f EXCEPT !.k = "else"])
          ELSE /\ cur' = f.join
               /\ frames' = Front(frames)
  /\ UNCHANGED <<nblk, exitBlk, loopBreak, loopCont, funcReturn, catchJump,
                 catchMsg, nraise, raisedTo, catchVar, status>>

\* After emit_stmt(s->thenblock): close the then block, continue into the
\* else block or the join block.
ThenEnd ==
  /\ Running /\ frames # <<>> /\ Last(frames).k = "then"
  /\ LET f == Last(frames) IN
     /\ edges' = IF cur # NoBlock THEN edges \cup {Jmp(f.join, "jmp", f.join)} ELSE edges
     /\ IF f.other # NoBlock
          THEN /\ cur' = f.other
               /\ frames' = Append(Front(frames), [f EXCEPT !.k = "else"])
          ELSE /\ cur' = f.join
               /\ frames' = Front(frames)
  /\ UNCHANGED <<nblk, exitBlk, loopBreak, loopCont, funcReturn, catchJump,
                 catchMsg, nraise, raisedTo, catchVar, status>>

\* After emit_stmt(s->elseblock).
ElseEnd ==
  /\ Running /\ frames # <<>> /\ Last(frames).k = "else"
  /\ LET f == Last(frames) IN
     /\ edges' = IF cur # NoBlock THEN edges \cup {Jmp(f.join, "jmp", f.join)} ELSE edges
     /\ cur' = f.join
     /\ frames' = Front(frames)
  /\ UNCHANGED <<nblk, exitBlk, loopBreak, loopCont, funcReturn, catchJump,
                 catchMsg, nraise, raisedTo, catchVar, status>>

-----------------------------------------------------------------------------
(* visit_for_loop *)

\* Up to emit_stmt(s->block): PR24528 rejects loops on the kernel target;
\* otherwise create body/iter/test/join, jump to the test and push the
\* break and continue targets.
ForBegin ==
  /\ Running /\ cur # NoBlock /\ Len(frames) < MaxDepth
  /\ IF target = "kernel"
       THEN /\ status' = "error"
            /\ UNCHANGED <<nblk, cur, edges, frames, loopBreak, loopCont>>
       ELSE LET body == nblk + 1
                iter == nblk + 2
                test == nblk + 3
                join == nblk + 4
            IN /\ Fresh(4)
               /\ nblk' = nblk + 4
               /\ edges' = edges \cup {Jmp(test, "jmp", test)}
               /\ loopBreak' = Append(loopBreak, join)
               /\ loopCont' = Append(loopCont, iter)
               /\ cur' = body
               /\ Push(NF("loop", join, test, body, iter, FALSE))
               /\ UNCHANGED status
  /\ UNCHANGED <<exitBlk, funcReturn, catchJump, catchMsg, nraise, raisedTo, catchVar>>

\* After emit_stmt(s->block): close the body, pop the loop targets, emit
\* the increment block and the test block branching back to the body.
ForEnd ==
  /\ Running /\ frames # <<>> /\ Last(frames).k = "loop"
  /\ LET f == Last(frames) IN
     /\ edges' = (IF cur # NoBlock THEN edges \cup {Jmp(f.iter, "jmp", f.iter)} ELSE edges)
                 \cup {E(f.iter, f.other, "jmp"), E(f.other, f.body, "cond"),
                       E(f.other, f.join, "cond")}
     /\ cur' = f.join
     /\ frames' = Front(frames)
  /\ loopBreak' = Front(loopBreak)
  /\ loopCont' = Front(loopCont)
  /\ UNCHANGED <<nblk, exitBlk, funcReturn, catchJump, catchMsg, nraise,
                 raisedTo, catchVar, status>>

-----------------------------------------------------------------------------
(* visit_try_block *)

\* Up to emit_stmt(s->try_block): create catch and join blocks and push
\* the catch block, so that jump_to_catch in the body can find it.
TryBegin ==
  /\ Running /\ cur # NoBlock /\ Len(frames) < MaxDepth /\ Fresh(2)
  /\ \E hasVar \in BOOLEAN :
       Push(NF("try", nblk + 2, nblk + 1, NoBlock, NoBlock, hasVar))
  /\ nblk' = nblk + 2
  /\ catchJump' = Append(catchJump, nblk + 1)
  /\ UNCHANGED <<cur, exitBlk, edges, loopBreak, loopCont, funcReturn, catchMsg,
                 nraise, raisedTo, catchVar, status>>

\* Mutant: catch_jump.pop_back() is forgotten, so the catch handler still
\* sees its own catch block on the stack.
TryBodyEndNoPop ==
  /\ Running /\ frames # <<>> /\ Last(frames).k = "try"
  /\ LET f == Last(frames)
         msg == IF catchMsg = <<>> THEN Garbage ELSE Last(catchMsg)
     IN /\ edges' = IF cur # NoBlock THEN edges \cup {Jmp(f.join, "jmp", f.join)} ELSE edges
        /\ cur' = f.other
        /\ catchVar' = IF f.var THEN catchVar \cup {<<f.other, msg>>} ELSE catchVar
        /\ catchMsg' = IF f.var /\ catchMsg # <<>> THEN Front(catchMsg) ELSE catchMsg
        /\ frames' = Append(Front(frames), [f EXCEPT !.k = "catch"])
  /\ UNCHANGED <<nblk, exitBlk, loopBreak, loopCont, funcReturn, nraise,
                 raisedTo, status, catchJump>>

\* Mutant: the try body falls through into the catch block instead of
\* jumping to the join block.
TryBodyEndIntoCatch ==
  /\ Running /\ frames # <<>> /\ Last(frames).k = "try"
  /\ LET f == Last(frames)
         msg == IF catchMsg = <<>> THEN Garbage ELSE Last(catchMsg)
     IN /\ catchJump' = Front(catchJump)
        /\ edges' = IF cur # NoBlock THEN edges \cup {Jmp(f.other, "jmp", f.other)} ELSE edges
        /\ cur' = f.other
        /\ catchVar' = IF f.var THEN catchVar \cup {<<f.other, msg>>} ELSE catchVar
        /\ catchMsg' = IF f.var /\ catchMsg # <<>> THEN Front(catchMsg) ELSE catchMsg
        /\ frames' = Append(Front(frames), [f EXCEPT !.k = "catch"])
  /\ UNCHANGED <<nblk, exitBlk, loopBreak, loopCont, funcReturn, nraise,
                 raisedTo, status>>

\* After emit_stmt(s->try_block): pop the catch block, close the body,
\* switch to the catch block and, if the catch names a variable, move
\* catch_msg.back() into it and pop catch_msg.
TryBodyEnd ==
  /\ Running /\ frames # <<>> /\ Last(frames).k = "try"
  /\ LET f == Last(frames)
         msg == IF catchMsg = <<>> THEN Garbage ELSE Last(catchMsg)
     IN /\ catchJump' = Front(catchJump)
        /\ edges' = IF cur # NoBlock THEN edges \cup {Jmp(f.join, "jmp", f.join)} ELSE edges
        /\ cur' = f.other
        /\ catchVar' = IF f.var THEN catchVar \cup {<<f.other, msg>>} ELSE catchVar
        /\ catchMsg' = IF f.var /\ catchMsg # <<>> THEN Front(catchMsg) ELSE catchMsg
        /\ frames' = Append(Front(frames), [f EXCEPT !.k = "catch"])
  /\ UNCHANGED <<nblk, exitBlk, loopBreak, loopCont, funcReturn, nraise,
                 raisedTo, status>>

\* After emit_stmt(s->catch_block).
CatchEnd ==
  /\ Running /\ frames # <<>> /\ Last(frames).k = "catch"
  /\ LET f == Last(frames) IN
     /\ edges' = IF cur # NoBlock THEN edges \cup {Jmp(f.join, "jmp", f.join)} ELSE edges
     /\ cur' = f.join
     /\ frames' = Front(frames)
  /\ UNCHANGED <<nblk, exitBlk, loopBreak, loopCont, funcReturn, catchJump,
                 catchMsg, nraise, raisedTo, catchVar, status>>

-----------------------------------------------------------------------------
(* emit_functioncall: every call to a script function is inlined *)

\* Up to emit_stmt(f->body): a join block as return target.
CallBegin ==
  /\ Running /\ cur # NoBlock /\ Len(frames) < MaxDepth /\ Fresh(1)
  /\ nblk' = nblk + 1
  /\ funcReturn' = Append(funcReturn, nblk + 1)
  /\ Push(NF("func", nblk + 1, NoBlock, NoBlock, NoBlock, FALSE))
  /\ UNCHANGED <<cur, exitBlk, edges, loopBreak, loopCont, catchJump, catchMsg,
                 nraise, raisedTo, catchVar, status>>

\* After emit_stmt(f->body).
CallEnd ==
  /\ Running /\ frames # <<>> /\ Last(frames).k = "func"
  /\ LET f == Last(frames) IN
     /\ edges' = IF cur # NoBlock THEN edges \cup {Jmp(f.join, "jmp", f.join)} ELSE edges
     /\ cur' = f.join
     /\ frames' = Front(frames)
  /\ funcReturn' = Front(funcReturn)
  /\ UNCHANGED <<nblk, exitBlk, loopBreak, loopCont, catchJump, catchMsg,
                 nraise, raisedTo, catchVar, status>>

-----------------------------------------------------------------------------
(* Embedded-code directives (visit_embeddedcode) *)

\* jump_to_catch: push the message, jump to the innermost catch block or,
\* outside any try, to a fresh error block, and continue in the error block.
Raise ==
  /\ Running /\ cur # NoBlock /\ nraise < MaxRaises /\ Fresh(1)
  /\ LET msg == nraise + 1
         errBlock == nblk + 1
         to == IF catchJump # <<>> THEN Last(catchJump) ELSE errBlock
         t == Innermost(frames, {"try"})
         want == IF t > 0 THEN frames[t].other ELSE errBlock
     IN /\ catchMsg' = Append(catchMsg, msg)
        /\ edges' = edges \cup {Jmp(to, "raise", want)}
        /\ raisedTo' = IF catchJump # <<>> THEN raisedTo \cup {<<to, msg>>} ELSE raisedTo
        /\ nraise' = msg
        /\ nblk' = nblk + 1
        /\ cur' = errBlock
  /\ UNCHANGED <<exitBlk, frames, loopBreak, loopCont, funcReturn, catchJump,
                 catchVar, status>>

\* get_exit_block(), called with k blocks already allocated by the caller:
\* the exit block, created (with the epilogue and the exit insn) on first use.
ExitAfter(k) == IF exitBlk # NoBlock THEN exitBlk ELSE nblk + k + 1
NewExit(k) == IF exitBlk # NoBlock THEN 0 ELSE 1

\* terminate: a join block, then jump to the exit block and continue in
\* the join block.
Terminate ==
  /\ Running /\ cur # NoBlock /\ Fresh(1 + NewExit(1))
  /\ nblk' = nblk + 1 + NewExit(1)
  /\ exitBlk' = ExitAfter(1)
  /\ edges' = edges \cup {Jmp(ExitAfter(1), "exit", ExitAfter(1))}
  /\ cur' = nblk + 1
  /\ UNCHANGED <<frames, loopBreak, loopCont, funcReturn, catchJump, catchMsg,
                 nraise, raisedTo, catchVar, status>>

-----------------------------------------------------------------------------
(* Jump statements.  The front end removes statements after a jump in the *)
(* same block, so after one the only step is the end of the enclosing      *)
(* statement list.                                                         *)

\* Error(cond) throws SEMANTIC_ERROR when cond holds, aborting the unit.
Throw == /\ status' = "error"
         /\ UNCHANGED <<nblk, cur, exitBlk, edges, frames, loopBreak, loopCont,
                        funcReturn, catchJump, catchMsg, nraise, raisedTo, catchVar>>

\* Mutant: emit_jmp without clear_block(), so code after the jump is
\* still emitted into the jumping block.
JumpToNoClear(st, via, want) ==
  IF st = <<>>
    THEN Throw
    ELSE /\ edges' = edges \cup {Jmp(Last(st), via, want)}
         /\ UNCHANGED <<nblk, cur, exitBlk, frames, loopBreak, loopCont, funcReturn,
                        catchJump, catchMsg, nraise, raisedTo, catchVar, status>>

\* Jump to the target on top of stack st, or throw if st is empty.
JumpTo(st, via, want) ==
  IF st = <<>>
    THEN Throw
    ELSE /\ edges' = edges \cup {Jmp(Last(st), via, want)}
         /\ cur' = NoBlock
         /\ UNCHANGED <<nblk, exitBlk, frames, loopBreak, loopCont, funcReturn,
                        catchJump, catchMsg, nraise, raisedTo, catchVar, status>>

\* A break or continue is written inside a loop of the function it is in,
\* or outside any function (where the translator checks it).
LoopJumpAllowed == Innermost(Scope, Loops) > 0 \/ FuncIdx = {}

LoopTarget(field) ==
  LET l == Innermost(Scope, Loops)
  IN IF l > 0 THEN Scope[l][field] ELSE NoBlock

\* visit_break_statement
Break ==
  /\ Running /\ cur # NoBlock /\ LoopJumpAllowed
  /\ JumpTo(loopBreak, "break", LoopTarget("join"))

\* visit_continue_statement
Continue ==
  /\ Running /\ cur # NoBlock /\ LoopJumpAllowed
  /\ JumpTo(loopCont, "cont", LoopTarget("iter"))

\* visit_return_statement
Return ==
  /\ Running /\ cur # NoBlock
  /\ LET fi == Innermost(frames, {"func"})
     IN JumpTo(funcReturn, "return", IF fi > 0 THEN frames[fi].join ELSE NoBlock)

\* visit_next_statement: refused inside a function, otherwise a jump to
\* the exit_block member, whatever it holds.
NextStmt ==
  /\ Running /\ cur # NoBlock
  /\ IF funcReturn # <<>>
       THEN Throw
       ELSE /\ edges' = edges \cup {Jmp(exitBlk, "next", exitBlk)}
            /\ cur' = NoBlock
            /\ UNCHANGED <<nblk, exitBlk, frames, loopBreak, loopCont, funcReturn,
                           catchJump, catchMsg, nraise, raisedTo, catchVar, status>>

-----------------------------------------------------------------------------
(* End of the unit *)

\* translate_probe: if still in a block, jump to get_ret0_block(), a block
\* that sets r0 = 0 and falls through to get_exit_block().
\* translate_probe_v (last probe): this_block = get_ret0_block() first,
\* then the same jump if still in a block.
Finish ==
  /\ Running /\ frames = <<>>
  /\ LET mkRet0 == UnitKind = "probe_v" \/ cur # NoBlock
         ret0 == nblk + 1
     IN IF mkRet0
          THEN /\ Fresh(1 + NewExit(1))
               /\ nblk' = nblk + 1 + NewExit(1)
               /\ exitBlk' = ExitAfter(1)
               /\ edges' = edges \cup {E(ret0, ExitAfter(1), "jmp")}
                                 \cup (IF cur # NoBlock THEN {Jmp(ret0, "jmp", ret0)} ELSE {})
          ELSE UNCHANGED <<nblk, exitBlk, edges>>
  /\ status' = "done"
  /\ UNCHANGED <<cur, frames, loopBreak, loopCont, funcReturn, catchJump, catchMsg,
                 nraise, raisedTo, catchVar>>

\* The unit is translated or was abandoned with an error.
-----------------------------------------------------------------------------
(* visit_foreach_loop *)

\* Up to emit_stmt(s->block): the kernel target, an array slice and a
\* sorted iteration of a stat array are refused; otherwise create the body,
\* load, iter and join blocks, branch on the first map_get_next_key to
\* join or load, and push the break and continue targets.
ForeachBegin ==
  /\ Running /\ cur # NoBlock /\ Len(frames) < MaxDepth
  /\ \E refused \in BOOLEAN :
       IF target = "kernel" \/ refused
         THEN Throw
         ELSE LET body  == nblk + 1
                  load1 == nblk + 2
                  iter  == nblk + 3
                  join  == nblk + 4
              IN /\ Fresh(4)
                 /\ nblk' = nblk + 4
                 /\ edges' = edges \cup {E(cur, join, "cond"), E(cur, load1, "cond")}
                 /\ loopBreak' = Append(loopBreak, join)
                 /\ loopCont' = Append(loopCont, iter)
                 /\ cur' = body
                 /\ Push(NF("foreach", join, load1, body, iter, FALSE))
                 /\ UNCHANGED <<exitBlk, funcReturn, catchJump, catchMsg, nraise,
                                raisedTo, catchVar, status>>

\* After emit_stmt(s->block): pop the loop targets, close the body into
\* iter, which branches on the next map_get_next_key to join or load.
\* With a value variable, load_block_2 is created now (after the body's
\* blocks), load branches on map_lookup_elem to join or load_block_2, and
\* a value on a stat array is refused.  The last load block jumps back to
\* the body.
ForeachEnd ==
  /\ Running /\ frames # <<>> /\ Last(frames).k = "foreach"
  /\ \E value \in {"none", "value", "statvalue"} :
       IF value = "statvalue"
         THEN Throw
         ELSE LET f == Last(frames)
                  load2 == nblk + 1
              IN /\ value = "value" => Fresh(1)
                 /\ nblk' = IF value = "value" THEN nblk + 1 ELSE nblk
                 /\ edges' = (IF cur # NoBlock THEN edges \cup {Jmp(f.iter, "jmp", f.iter)}
                                              ELSE edges)
                             \cup {E(f.iter, f.join, "cond"), E(f.iter, f.other, "cond")}
                             \cup (IF value = "value"
                                    THEN {E(f.other, f.join, "cond"), E(f.other, load2, "cond"),
                                          E(load2, f.body, "jmp")}
                                    ELSE {E(f.other, f.body, "jmp")})
                 /\ cur' = f.join
                 /\ frames' = Front(frames)
                 /\ loopBreak' = Front(loopBreak)
                 /\ loopCont' = Front(loopCont)
                 /\ UNCHANGED <<exitBlk, funcReturn, catchJump, catchMsg, nraise,
                                raisedTo, catchVar, status>>

Halted == status # "run" /\ UNCHANGED vars

Next ==
  \/ IfBegin \/ ThenEnd \/ ElseEnd
  \/ ForBegin \/ ForEnd
  \/ ForeachBegin \/ ForeachEnd
  \/ TryBegin \/ TryBodyEnd \/ CatchEnd
  \/ CallBegin \/ CallEnd
  \/ Raise \/ Terminate
  \/ Break \/ Continue \/ Return \/ NextStmt
  \/ Finish \/ Halted

Spec == Init /\ [][Next /\ UNCHANGED target]_<<vars, target>>

-----------------------------------------------------------------------------
(* emit_cond: conditions with &&, || and ! *)

\* Condition expressions up to CondDepth: leaf is a comparison, a "&" test
\* or any other expression (tested != 0); each ends in one jcond.
CondLeaves == {1, 2}
RECURSIVE CondExprs(_)
CondExprs(d) ==
  IF d = 0 THEN {[op |-> "leaf", id |-> i] : i \in CondLeaves}
  ELSE LET sub == CondExprs(d - 1)
       IN sub \cup {[op |-> "not", e |-> x] : x \in sub}
              \cup {[op |-> o, l |-> x, r |-> y] : o \in {"and", "or"}, x \in sub, y \in sub}

\* Mutant: the operand of ! keeps the true and false targets.
RECURSIVE EmitCondNoSwap(_, _, _, _, _)
EmitCondNoSwap(e, b, t, f, n) ==
  CASE e.op = "leaf" -> [jc |-> {[from |-> b, leaf |-> e.id, t |-> t, f |-> f]}, n |-> n]
    [] e.op = "not"  -> EmitCondNoSwap(e.e, b, t, f, n)
    [] e.op = "or"   -> LET L == EmitCondNoSwap(e.l, b, t, n + 1, n + 1)
                            R == EmitCondNoSwap(e.r, n + 1, t, f, L.n)
                        IN [jc |-> L.jc \cup R.jc, n |-> R.n]
    [] e.op = "and"  -> LET L == EmitCondNoSwap(e.l, b, n + 1, f, n + 1)
                            R == EmitCondNoSwap(e.r, n + 1, t, f, L.n)
                        IN [jc |-> L.jc \cup R.jc, n |-> R.n]

\* emit_cond(e, t_dest, f_dest) entered in block b, with blocks 1..n in use:
\* the jconds it emits (block, leaf, true target, false target) and the
\* new block count.  || and && create a cont_block and lower the left
\* operand into the current block, the right one into cont_block; !
\* swaps the targets.
RECURSIVE EmitCond(_, _, _, _, _)
EmitCond(e, b, t, f, n) ==
  CASE e.op = "leaf" -> [jc |-> {[from |-> b, leaf |-> e.id, t |-> t, f |-> f]}, n |-> n]
    [] e.op = "not"  -> EmitCond(e.e, b, f, t, n)
    [] e.op = "or"   -> LET L == EmitCond(e.l, b, t, n + 1, n + 1)
                            R == EmitCond(e.r, n + 1, t, f, L.n)
                        IN [jc |-> L.jc \cup R.jc, n |-> R.n]
    [] e.op = "and"  -> LET L == EmitCond(e.l, b, n + 1, f, n + 1)
                            R == EmitCond(e.r, n + 1, t, f, L.n)
                        IN [jc |-> L.jc \cup R.jc, n |-> R.n]

\* Reference semantics: C-style short-circuit evaluation, giving the
\* value and the leaves evaluated, in order.
RECURSIVE Eval(_, _)
Eval(e, val) ==
  CASE e.op = "leaf" -> [v |-> val[e.id], seen |-> <<e.id>>]
    [] e.op = "not"  -> LET x == Eval(e.e, val) IN [v |-> ~x.v, seen |-> x.seen]
    [] e.op = "and"  -> LET x == Eval(e.l, val)
                            y == Eval(e.r, val)
                        IN IF ~x.v THEN x ELSE [v |-> y.v, seen |-> x.seen \o y.seen]
    [] e.op = "or"   -> LET x == Eval(e.l, val)
                            y == Eval(e.r, val)
                        IN IF x.v THEN x ELSE [v |-> y.v, seen |-> x.seen \o y.seen]

\* Run the emitted jconds from block b until leaving them, for at most k
\* jumps: the block reached and the leaves tested on the way.
RECURSIVE RunCond(_, _, _, _)
RunCond(jc, b, val, k) ==
  LET here == {j \in jc : j.from = b}
  IN IF here = {} \/ k = 0 THEN [at |-> b, seen |-> <<>>]
     ELSE LET j == CHOOSE j \in here : TRUE
              r == RunCond(jc, IF val[j.leaf] THEN j.t ELSE j.f, val, k - 1)
          IN [at |-> r.at, seen |-> <<j.leaf>> \o r.seen]

-----------------------------------------------------------------------------
(* Properties *)

TypeOK ==
  /\ nblk \in 0..MaxBlocks
  /\ cur \in 0..MaxBlocks /\ exitBlk \in 0..MaxBlocks
  /\ edges \subseteq [from : Blocks, to : 0..MaxBlocks, via : Via, want : 0..MaxBlocks]
  /\ frames \in Seq(Frame)
  /\ \A st \in {loopBreak, loopCont, funcReturn, catchJump} : st \in Seq(Blocks)
  /\ catchMsg \in Seq(Msgs)
  /\ nraise \in 0..MaxRaises
  /\ raisedTo \subseteq Blocks \X Msgs
  /\ catchVar \subseteq Blocks \X (Msgs \cup {Garbage})
  /\ status \in {"run", "done", "error"}

\* Every raise, break, continue and return jumps to the block its lexical
\* position designates: the catch block of the innermost try whose body
\* encloses it, the join/iter block of the innermost loop of the current
\* function, the join block of the innermost inlined call.  The code finds
\* these on the catch_jump, loop_break, loop_cont and func_return stacks,
\* which only stay right if every handler pops what it pushed at the
\* right moment (a raise in a catch handler must not reach its own catch).
JumpsReachLexicalTarget == \A e \in edges : e.to = e.want

\* The only way into a block that a jump_to_catch targets is a
\* jump_to_catch: the normal completion of a try body never flows into its
\* catch block.
CatchEnteredOnlyByRaise ==
  \A e1, e2 \in edges : e1.via = "raise" /\ e2.to = e1.to => e2.via = "raise"

\* When a unit is translated, every block but the exit block ends in a
\* jump: no block falls off the end of the program, and each block has
\* either one unconditional exit or two conditional ones.
Out(b) == {e \in edges : e.from = b}
WellTerminated ==
  /\ \A b \in 1..nblk :
       \/ Out(b) = {}
       \/ Cardinality(Out(b)) = 1 /\ \A e \in Out(b) : e.via # "cond"
       \/ \A e \in Out(b) : e.via = "cond"
  /\ status = "done" => \A b \in (1..nblk) \ {exitBlk} : Out(b) # {}

\* The catch variable receives the message of the raise that transferred
\* control to the catch block (spec 4.4: push before the jump, pop at the
\* start of the corresponding handler).
CatchVarFromItsRaise ==
  \A r \in raisedTo, c \in catchVar : r[1] = c[1] => c[2] = r[2]

\* Every edge targets a block of the program (spec 8).
EdgesTargetBlocks == \A e \in edges : e.to \in 1..nblk

\* The lowering of every condition of depth 2 compared with Eval (a
\* constant, evaluated once).
CondLowering ==
  \A e \in CondExprs(2), val \in [CondLeaves -> BOOLEAN] :
    LET T == 2
        F == 3
        low == EmitCond(e, 1, T, F, 3)
        run == RunCond(low.jc, 1, val, 20)
        ref == Eval(e, val)
    IN /\ \A b \in {1} \cup 4..low.n : Cardinality({j \in low.jc : j.from = b}) = 1
       /\ run.at = IF ref.v THEN T ELSE F
       /\ run.seen = ref.seen

\* emit_cond lowers every condition of up to two levels of &&, || and !
\* into blocks that each end in one jcond, and running them reaches
\* t_dest exactly when the condition is true, testing the leaves that
\* short-circuit evaluation tests, in the same order (so side effects in
\* a right operand happen only when they should).  This holds of every
\* condition the running translator may lower.
CondLoweringCorrect == Running => CondLowering

=============================================================================
