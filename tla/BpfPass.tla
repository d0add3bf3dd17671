------------------------------ MODULE BpfPass ------------------------------
(***************************************************************************)
(* translate_bpf_pass (src/bpf-translate.cxx): the BPF back end's pass.   *)
(* It opens the module file, lays out the globals, then translates and    *)
(* writes one program per unit: the begin program (the init block and the *)
(* begin probes), the end and error programs, and one program per kprobe, *)
(* procfs, perf, timer, tracepoint and uprobe probe; then it writes the  *)
(* remaining sections and the ELF image.  One try block spans all of it: *)
(* the first exception ends the pass, which reports it and returns 1;    *)
(* then the file is closed, and on failure s.translated_source, a path   *)
(* set outside this code, is unlinked.                                    *)
(*                                                                         *)
(* The pass is sequential, so its outcome is a function of the script and *)
(* of the outcome of each step that can throw (the fault model).  A unit  *)
(* is identified by its place in the pass; its token by a number, 0 for  *)
(* none (the begin program of a script with global initialisers and no   *)
(* begin probe).                                                          *)
(***************************************************************************)
EXTENDS Naturals, Sequences

CONSTANTS
  MaxProbes      \* units after the begin/end/error programs

\* What a step can end with: normally, semantic_error (a translation error
\* carrying its own token), std::runtime_error (reported at the pass's
\* token t), or anything else (an internal error, with no location).
StepOutcomes == {"ok", "semantic", "runtime", "internal"}

\* The script's probe groups, as the pass sees them.  Global initialisers
\* exist only with globals (init_block takes them from glob.globals).
PassScripts ==
  {sc \in [globals : BOOLEAN, init : BOOLEAN, begin : BOOLEAN, end : BOOLEAN,
           error : BOOLEAN, probes : 0..MaxProbes] : sc.init => sc.globals}

BeProbes(sc) == sc.begin \/ sc.end \/ sc.error

\* The units in the order the pass translates them, with the token each
\* one assigns to t: the begin program (translate_init_and_probe_v when the
\* init block is not empty, translate_probe_v otherwise), end, error, then
\* every other probe.
PassUnits(sc) ==
  LET be == (IF sc.init \/ sc.begin
               THEN <<IF sc.begin THEN 1 ELSE 0>> ELSE <<>>)
            \o (IF sc.end THEN <<2>> ELSE <<>>)
            \o (IF sc.error THEN <<3>> ELSE <<>>)
  IN (IF BeProbes(sc) \/ sc.globals THEN be ELSE <<>>)
     \o [k \in 1..sc.probes |-> 3 + k]

\* The steps that can throw: translate_globals with output_maps, one per
\* unit (translate, generate, output_probe), and the closing sections.
PassSteps(sc) ==
  <<[kind |-> "globals", tok |-> 0]>>
  \o [k \in 1..Len(PassUnits(sc)) |-> [kind |-> "unit", tok |-> PassUnits(sc)[k]]]
  \o <<[kind |-> "sections", tok |-> 0]>>

NoFault == [kind |-> "none", at |-> 0, loc |-> 0]

\* The try block: steps run in order while none has thrown; a unit sets t
\* to its token, when it has one, before it starts; a unit whose step
\* returns is in the ELF image.
TryBlock(sc, f) ==
  LET S == PassSteps(sc)
      st[k \in 0..Len(S)] ==
        IF k = 0 THEN [t |-> 0, out |-> {}, fault |-> NoFault]
        ELSE LET p == st[k - 1]
                 t1 == IF S[k].kind = "unit" /\ S[k].tok # 0 THEN S[k].tok ELSE p.t
             IN IF p.fault # NoFault THEN p
                ELSE IF f[k] = "ok"
                  THEN [p EXCEPT !.t = t1,
                                 !.out = IF S[k].kind = "unit" THEN @ \cup {k} ELSE @]
                  ELSE [p EXCEPT !.t = t1,
                                 !.fault = [kind |-> f[k], at |-> k,
                                            loc |-> IF f[k] = "runtime" THEN t1 ELSE 0]]
  IN st[Len(S)]

\* Mutant: an elf_update failure is printed but the pass still succeeds.
ElfUpdateNoRet(tb, elfOk) == 0

\* elf_update after the sections: a failure sets ret = 1 without throwing.
ElfUpdateRet(tb, elfOk) ==
  IF tb.fault = NoFault /\ ~elfOk THEN 1 ELSE 0

\* The whole pass: elf_version and open(O_CREAT|O_TRUNC) may fail before
\* there is a file, and return 1 with no message; the handlers set
\* ret = 1; close(fd); on ret = 1 unlink s.translated_source.
TranslateBpfPass(sc, opened, f, elfOk) ==
  IF ~opened THEN [ret |-> 1, created |-> FALSE, unlinked |-> FALSE, out |-> {},
                   written |-> FALSE, fault |-> NoFault]
  ELSE LET tb == TryBlock(sc, f)
           ret == IF tb.fault # NoFault THEN 1 ELSE ElfUpdateRet(tb, elfOk)
       IN [ret |-> ret,
           created |-> TRUE,
           unlinked |-> ret = 1,
           out |-> tb.out,
           written |-> tb.fault = NoFault /\ elfOk,
           fault |-> tb.fault]

\* The steps' outcomes: every step returns, or the first to throw does so
\* with some exception (the steps after it never run, so their outcomes
\* are immaterial).
FaultVectors(sc) ==
  LET n == Len(PassSteps(sc))
  IN {[i \in 1..n |-> "ok"]} \cup
     {[i \in 1..n |-> IF i = j THEN e ELSE "ok"] : j \in 1..n, e \in StepOutcomes \ {"ok"}}

-----------------------------------------------------------------------------

\* The pass returns 0 exactly when it has translated and written every
\* unit and the ELF image, so that the module file it leaves is complete;
\* whichever step fails, and however, it returns 1, and a runtime_error
\* raised inside a unit is reported at that unit's token.
PassAllOrNothing ==
  \A sc \in PassScripts, opened \in BOOLEAN, elfOk \in BOOLEAN :
    \A f \in FaultVectors(sc) :
      LET r == TranslateBpfPass(sc, opened, f, elfOk)
          units == {k \in DOMAIN PassSteps(sc) : PassSteps(sc)[k].kind = "unit"}
      IN /\ r.ret = 0 <=> (r.created /\ r.out = units /\ r.written)
         /\ r.fault.kind = "runtime" /\ PassSteps(sc)[r.fault.at].tok # 0
              => r.fault.loc = PassSteps(sc)[r.fault.at].tok

====
