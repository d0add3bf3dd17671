---------------------------- MODULE EmbeddedAsm ----------------------------
(***************************************************************************)
(* The lowering of BPF embedded code (bpf_unparser::visit_embeddedcode in *)
(* src/bpf-translate.cxx) to basic blocks.  parse_asm_stmt has already    *)
(* turned the text into asm_stmts; visit_embeddedcode then makes two      *)
(* passes over them:                                                      *)
(*   - the block table: a label after other code starts a new block, a    *)
(*     jump-class statement gets a fallthrough label (the next label, or  *)
(*     a fresh block with a generated ";;" label);                        *)
(*   - the emission: a label not reached by a jump gets an explicit jmp, *)
(*     opcodes become instructions or jumps, jump_to_catch and terminate  *)
(*     jump away, and after every statement with a fallthrough the        *)
(*     emission moves to that label's block.                              *)
(* A statement is abstracted to its kind and its label:                   *)
(*   op        an opcode of a non-JMP class, alloc, register_error or a   *)
(*             call directive: straight-line code;                        *)
(*   exit      the exit opcode (class JMP, an ordinary instruction);     *)
(*   ja, jcond the jump opcodes with a label target;                      *)
(*   catch     jump_to_catch;  terminate;  label.                         *)
(* Both passes are a left fold over the statements; the built blocks are  *)
(* then run and compared with the asm's own reading.                     *)
(***************************************************************************)
EXTENDS Naturals, Integers, Sequences, SequencesExt

CONSTANTS
  AsmLabels,   \* user label names, small naturals
  MaxAsmLen,   \* statements in one embedded-code block
  Fuel         \* events compared per run

NullBlock == 0           \* NULL, and label_map[] of a missing label
EntryBlock == 1        \* this_ins.b when the embedded code is visited
CatchBlock == -1       \* catch_jump.back()
ExitBlock == -2        \* get_exit_block()

\* Events of a run: a statement's index, or how the run left the code.
PreEvent == 0          \* the code emitted into the entry block before
CatchEvent == -1
ExitEvent == -2
PostEvent == -3        \* the code after the embedded block
NoTermEvent == -4      \* the end of a block with no successor

AsmStmts ==
  {[kind |-> k, lbl |-> 0] : k \in {"op", "exit", "catch", "terminate"}}
  \cup {[kind |-> k, lbl |-> l] : k \in {"label", "ja", "jcond"}, l \in AsmLabels}

Programs == UNION {[1..n -> AsmStmts] : n \in 1..MaxAsmLen}

\* parse_asm_opcode: only a conditional jump is born with a fallthrough;
\* ja, jcond and exit are of class BPF_JMP and not BPF_CALL.
BornWithFallthrough(s) == s.kind = "jcond"
IsJmpClass(s) == s.kind \in {"ja", "jcond", "exit"}

\* "fallthrough;;" << count: semicolons keep these apart from user labels.
FtLabel(k) == 1000 + k

Bind(l, b, m) == [x \in {l} |-> b] @@ m
LabelBlock(m, l) == IF l \in DOMAIN m THEN m[l] ELSE NullBlock

-----------------------------------------------------------------------------
(* The block table (the first loop of visit_embeddedcode).                *)

TableInit(p) ==
  [lmap |-> [x \in {} |-> NullBlock], cur |-> EntryBlock, nblk |-> EntryBlock,
   afterLabel |-> TRUE, afterJump |-> 0, fall |-> [i \in DOMAIN p |-> 0],
   ftCount |-> 0]

\* The statement after a jump gives the jump its fallthrough: the label,
\* or a new block under a generated label.
GiveFallthrough(t, s) ==
  IF t.afterJump = 0 THEN t
  ELSE IF s.kind = "label" THEN [t EXCEPT !.fall[t.afterJump] = s.lbl]
  ELSE [t EXCEPT !.nblk = @ + 1, !.cur = t.nblk + 1,
                 !.lmap = Bind(FtLabel(t.ftCount), t.nblk + 1, @),
                 !.fall[t.afterJump] = FtLabel(t.ftCount),
                 !.ftCount = @ + 1]

TableStep(t, p, i) ==
  LET s == p[i]
      u == GiveFallthrough(t, s)
  IN CASE s.kind = "label" /\ u.afterLabel ->
            [u EXCEPT !.lmap = Bind(s.lbl, u.cur, @), !.afterJump = 0]
       [] s.kind = "label" ->
            [u EXCEPT !.nblk = @ + 1, !.cur = u.nblk + 1, !.afterLabel = TRUE,
                      !.lmap = Bind(s.lbl, u.nblk + 1, @), !.afterJump = 0]
       [] BornWithFallthrough(s) \/ IsJmpClass(s) ->
            [u EXCEPT !.afterLabel = FALSE, !.afterJump = i]
       [] OTHER -> [u EXCEPT !.afterLabel = FALSE, !.afterJump = 0]

BlockTable(p) ==
  LET tb[i \in 0..Len(p)] == IF i = 0 THEN TableInit(p) ELSE TableStep(tb[i - 1], p, i)
  IN tb[Len(p)]

-----------------------------------------------------------------------------
(* The emission (the second loop).  A block's terminator is the last     *)
(* jump emitted from it: emit_jmp, mk_jmp and mk_jcond each set it and     *)
(* leave the block.                                                       *)

AsmBlocks == 1..(2 * MaxAsmLen + 1)
NoTerm == [k |-> "none", to |-> NullBlock, fall |-> NullBlock]
JmpTerm(b) == [k |-> "jmp", to |-> b, fall |-> NullBlock]
Cond(b, f) == [k |-> "cond", to |-> b, fall |-> f]

EmitInit(t) ==
  [cur |-> EntryBlock, nblk |-> t.nblk, jumped |-> FALSE, err |-> FALSE,
   code |-> [b \in AsmBlocks |-> IF b = EntryBlock THEN <<PreEvent>> ELSE <<>>],
   term |-> [b \in AsmBlocks |-> NoTerm]]

\* emit_jmp / mk_jmp: end the current block with a jump to b.
EmitJmp(e, b) == [e EXCEPT !.term[e.cur] = JmpTerm(b), !.cur = NullBlock]

\* Jump to a fresh block e.nblk + 1 and continue there (jump_to_catch,
\* terminate).
JumpAway(e, b) == [EmitJmp([e EXCEPT !.nblk = @ + 1], b) EXCEPT !.cur = e.nblk + 1]

EmitStmt(e, t, p, i, inTry) ==
  LET s == p[i]
      target == LabelBlock(t.lmap, s.lbl)
  IN CASE s.kind = "label" ->
            [(IF e.jumped THEN e ELSE EmitJmp(e, target)) EXCEPT !.cur = target]
       [] s.kind \in {"op", "exit"} -> [e EXCEPT !.code[e.cur] = Append(@, i)]
       [] s.kind = "catch" -> JumpAway(e, IF inTry THEN CatchBlock ELSE e.nblk + 1)
       [] s.kind = "terminate" -> JumpAway(e, ExitBlock)
       [] s.kind = "ja" -> EmitJmp(e, target)
       [] s.kind = "jcond" ->
            IF s.lbl \notin DOMAIN t.lmap THEN [e EXCEPT !.err = TRUE]
            ELSE [e EXCEPT !.term[e.cur] = Cond(target, LabelBlock(t.lmap, t.fall[i])),
                           !.cur = NullBlock]

\* Mutant: jumped_already is left set once a fallthrough was taken.
EmitStepSticky(e, t, p, i, inTry) ==
  LET f == EmitStmt(e, t, p, i, inTry)
  IN IF t.fall[i] # 0 THEN [f EXCEPT !.jumped = TRUE, !.cur = LabelBlock(t.lmap, t.fall[i])]
     ELSE f

\* One statement of the emission loop, then its fallthrough: the loop
\* moves to the fallthrough block and no jmp is emitted for the label.
EmitStep(e, t, p, i, inTry) ==
  LET f == EmitStmt(e, t, p, i, inTry)
  IN IF t.fall[i] # 0 THEN [f EXCEPT !.jumped = TRUE, !.cur = LabelBlock(t.lmap, t.fall[i])]
     ELSE [f EXCEPT !.jumped = FALSE]

\* visit_embeddedcode: the block table, the check that the last statement
\* needs no fallthrough, then the emission; a SEMANTIC_ERROR stops it.
VisitEmbeddedcode(p, inTry) ==
  LET t == BlockTable(p)
      em[i \in 0..Len(p)] ==
        IF i = 0 THEN EmitInit(t)
        ELSE IF em[i - 1].err THEN em[i - 1]
        ELSE EmitStep(em[i - 1], t, p, i, inTry)
  IN IF t.afterJump # 0 THEN [EmitInit(t) EXCEPT !.err = TRUE] ELSE em[Len(p)]

-----------------------------------------------------------------------------
(* Running the blocks, and the asm's own reading.  Both stop after Fuel  *)
(* events or Steps moves; jcond outcomes come from ch, in order, and are *)
(* "not taken" once ch is used up.  The block left open (this_ins.b) goes *)
(* on with the code after the embedded block, which ends it with a jump  *)
(* of its own: a jmp emitted from it earlier is overwritten (emit_jmp     *)
(* replaces fallthru).                                                    *)

Steps == Fuel * (MaxAsmLen + 1) + MaxAsmLen + 1
Taken(ch) == ch # <<>> /\ Head(ch)
Rest(ch) == IF ch = <<>> THEN <<>> ELSE Tail(ch)

\* Execute block b from its k-th instruction.
RECURSIVE RunBlocks(_, _, _, _, _, _, _)
RunBlocks(e, p, b, k, ch, fuel, steps) ==
  IF fuel = 0 \/ steps = 0 THEN <<>>
  ELSE IF b = CatchBlock THEN <<CatchEvent>>
  ELSE IF b = ExitBlock THEN <<ExitEvent>>
  ELSE IF b = NullBlock THEN <<NoTermEvent>>
  ELSE IF k <= Len(e.code[b]) THEN
    LET x == e.code[b][k]
    IN <<x>> \o (IF x > 0 /\ p[x].kind = "exit" THEN <<>>
                 ELSE RunBlocks(e, p, b, k + 1, ch, fuel - 1, steps))
  ELSE IF b = e.cur THEN <<PostEvent>>
  ELSE LET tm == e.term[b] IN
    CASE tm.k = "jmp" -> RunBlocks(e, p, tm.to, 1, ch, fuel, steps - 1)
      [] tm.k = "cond" ->
           RunBlocks(e, p, IF Taken(ch) THEN tm.to ELSE tm.fall, 1, Rest(ch), fuel, steps - 1)
      [] OTHER -> <<NoTermEvent>>

LabelPos(p, l) == CHOOSE j \in DOMAIN p : p[j].kind = "label" /\ p[j].lbl = l

\* The asm read statement by statement, after the code already in the
\* entry block.
RECURSIVE RefRun(_, _, _, _, _, _)
RefRun(p, pc, ch, inTry, fuel, steps) ==
  IF fuel = 0 \/ steps = 0 THEN <<>>
  ELSE IF pc > Len(p) THEN <<PostEvent>>
  ELSE LET s == p[pc] IN
    CASE s.kind = "label" -> RefRun(p, pc + 1, ch, inTry, fuel, steps - 1)
      [] s.kind = "op" -> <<pc>> \o RefRun(p, pc + 1, ch, inTry, fuel - 1, steps - 1)
      [] s.kind = "exit" -> <<pc>>
      [] s.kind = "terminate" -> <<ExitEvent>>
      [] s.kind = "catch" ->
           IF inTry THEN <<CatchEvent>> ELSE RefRun(p, pc + 1, ch, inTry, fuel, steps - 1)
      [] s.kind = "ja" -> RefRun(p, LabelPos(p, s.lbl), ch, inTry, fuel, steps - 1)
      [] s.kind = "jcond" ->
           RefRun(p, IF Taken(ch) THEN LabelPos(p, s.lbl) ELSE pc + 1, Rest(ch),
                  inTry, fuel, steps - 1)

Labelled(p) == {p[j].lbl : j \in {j \in DOMAIN p : p[j].kind = "label"}}
JumpTargets(p) == {p[j].lbl : j \in {j \in DOMAIN p : p[j].kind \in {"ja", "jcond"}}}
\* The labels before any other statement: they name the entry block.
LeadingLabels(p) ==
  {p[j].lbl : j \in {j \in DOMAIN p : \A m \in 1..j : p[m].kind = "label"}}

\* Programs with one meaning: labels defined once, every jump target
\* defined, and no jump back to a leading label (see the hazards).
WellFormed(p) ==
  /\ \A j, m \in DOMAIN p : p[j].kind = "label" /\ p[m].kind = "label" /\ p[j].lbl = p[m].lbl => j = m
  /\ JumpTargets(p) \subseteq Labelled(p)
  /\ JumpTargets(p) \cap LeadingLabels(p) = {}

\* The outcomes of the first three conditional jumps a run executes.
JcondOutcomes == [1..3 -> BOOLEAN]

-----------------------------------------------------------------------------

\* The blocks visit_embeddedcode builds run the embedded code as written:
\* from the entry block, whatever the conditional jumps decide, they run
\* the code already in that block, then the asm's instructions in the
\* order the asm reads, and leave it the same way (after the last
\* statement, by exit, terminate, or a jump_to_catch inside a try).  This
\* rests on the block table giving every jump the right fallthrough, on
\* consecutive labels sharing a block, and on the emission adding a jmp
\* before a label only when the previous statement has no fallthrough.
AsmLoweringCorrect ==
  \A p \in Programs : WellFormed(p) =>
    \A inTry \in BOOLEAN : LET e == VisitEmbeddedcode(p, inTry) IN
      ~e.err =>
        \A ch \in JcondOutcomes :
          RunBlocks(e, p, EntryBlock, 1, ch, Fuel, Steps)
            = <<PreEvent>> \o RefRun(p, 1, ch, inTry, Fuel - 1, Steps)

====
