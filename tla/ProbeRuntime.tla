---------------------------- MODULE ProbeRuntime ----------------------------
(***************************************************************************)
(* The code bpf-translate.cxx emits for a kernel probe, run by the probe  *)
(* hits of several CPUs at once, and the per-CPU transport stream it       *)
(* writes to stapbpf.                                                      *)
(*                                                                         *)
(* A hit runs add_prologue's checks, a body of statements, and            *)
(* add_epilogue.  The statements modelled are a `s <<< v` on a scalar     *)
(* aggregate (emit_aggregation, on the PERCPU_ARRAY stat field maps of    *)
(* translate_globals) and a printf of long arguments (visit_print_format, *)
(* emit_print_format), lowered to one perf_event_output call per          *)
(* transport message (emit_transport_msg).  The body ends normally, in    *)
(* error() (register_error, then terminate) or in exit().  One map access *)
(* or one perf_event_output call is one step; register moves and jumps    *)
(* are folded into the access they precede or follow.                     *)
(*                                                                         *)
(* The user-space side, bpf_handle_transport_msg of stapbpf, is not part  *)
(* of the translator's sources: its state is the bpf_transport_context of *)
(* stapbpf/bpfinterp.h and its handling of each message is taken from the *)
(* side-channel protocol of the specification.                            *)
(***************************************************************************)
EXTENDS Naturals, Sequences, FiniteSets, Functions, TLC

CONSTANTS
  CPUs,        \* CPUs that hit the probe
  MaxErrors,   \* the MAXERRORS -D constraint (0 if absent)
  MaxHits,     \* bound on probe hits, over all CPUs
  Bodies,      \* the statement sequences a probe body may run
  NArgs,       \* number of printf arguments
  Vals,        \* values of printf arguments
  AggVals,     \* values added to the aggregate
  ErrMsgs,     \* messages passed to error()
  Fmt          \* the interned index of the printf format string

ASSUME MaxErrors \in Nat /\ MaxHits \in Nat /\ NArgs \in Nat

VARIABLES
  exitFlag,    \* internal map, key EXIT
  errors,      \* internal map, key ERRORS
  stat,        \* stat[f][x]: cell x of the stat field map f of the aggregate
  pc,          \* per CPU: where its current hit is
  todo,        \* per CPU: statements of the body still to run
  outcome,     \* per CPU: how the body ends
  val,         \* per CPU: the value being aggregated
  tmp,         \* per CPU: the tmp register of emit_aggregation
  pending,     \* per CPU: transport messages of the printf still to send
  errStatus,   \* per CPU: the error_status register
  count,       \* per CPU: the error_count register loaded by the epilogue
  stream,      \* per CPU: the perf ring buffer of that CPU
  ctx,         \* per CPU: stapbpf's bpf_transport_context
  errorFlag,   \* the hard error flag all transport contexts point to
  out,         \* per CPU: what stapbpf printed from that CPU's stream
  broken,      \* stapbpf met a message the protocol does not allow there
  hits,        \* probe hits so far
  hard,        \* STP_ERROR messages sent
  naggs,       \* ghost: aggregations started
  vsum,        \* ghost: sum of the values aggregated
  intent       \* ghost: per CPU, the output events its hits issued

vars == <<exitFlag, errors, stat, pc, todo, outcome, val, tmp, pending, errStatus,
          count, stream, ctx, errorFlag, out, broken, hits, hard, naggs,
          vsum, intent>>
probe == <<exitFlag, errors, stat, pc, todo, outcome, val, tmp, pending,
           errStatus, count, hits, hard, naggs, vsum, intent>>
reader == <<ctx, errorFlag, out, broken>>

StatFields == {"count", "sum"}
NoMsg == "nomsg"
Outcomes ==
  {[kind |-> "none", msg |-> NoMsg], [kind |-> "exit", msg |-> NoMsg]}
  \cup {[kind |-> "error", msg |-> m] : m \in ErrMsgs}

\* A transport message: its perf_event_type and its one argument.
Msg(t, a) == [type |-> t, arg |-> a]

PrintEvent(args) == <<"print", Fmt, args>>
ErrEvent(m) == <<"error", m>>
Events == {PrintEvent(a) : a \in [1..NArgs -> Vals]} \cup {ErrEvent(m) : m \in ErrMsgs}

\* The context stapbpf creates for each CPU: not in a printf, no format,
\* no arguments, no stored error message.
CtxInit == [in_printf |-> FALSE, format_no |-> -1, expected_args |-> 0,
            printf_args |-> <<>>, error_message |-> <<>>]

Init ==
  /\ exitFlag = 0 /\ errors = 0
  /\ stat = [f \in StatFields |-> [x \in CPUs |-> 0]]
  /\ pc = [c \in CPUs |-> "idle"]
  /\ todo = [c \in CPUs |-> <<>>]
  /\ outcome = [c \in CPUs |-> [kind |-> "none", msg |-> NoMsg]]
  /\ val = [c \in CPUs |-> 0] /\ tmp = [c \in CPUs |-> 0]
  /\ pending = [c \in CPUs |-> <<>>]
  /\ errStatus = [c \in CPUs |-> 0] /\ count = [c \in CPUs |-> 0]
  /\ stream = [c \in CPUs |-> <<>>]
  /\ ctx = [c \in CPUs |-> CtxInit]
  /\ errorFlag = FALSE
  /\ out = [c \in CPUs |-> <<>>]
  /\ broken = FALSE
  /\ hits = 0 /\ hard = 0 /\ naggs = 0 /\ vsum = 0
  /\ intent = [c \in CPUs |-> <<>>]

-----------------------------------------------------------------------------
(* The map cells and messages the emitted code touches *)

\* Mutant: the stat field maps are plain ARRAYs, one cell for all CPUs.
SharedCell(c) == CHOOSE x \in CPUs : TRUE

\* The scalar stat field maps are BPF_MAP_TYPE_PERCPU_ARRAY: a lookup or
\* update from CPU c reaches c's own copy of the element.
Cell(c) ==
  c

\* emit_statmap_lookup: the field's value, 0 when the lookup fails (never
\* for an ARRAY element inside max_entries).
StatmapLookup(f, c) == stat[f][Cell(c)]

\* emit_statmap_update: map_update_elem of the field's element.
StatmapUpdate(f, c, v) == stat' = [stat EXCEPT ![f][Cell(c)] = v]

\* printf_arg_type: a pe_long argument goes as STP_PRINTF_ARG_LONG.
PrintfArgType(v) == "PRINTF_ARG_LONG"

\* Mutant: the format is sent before the start message.
PrintMsgsFormatFirst(fmt, args) ==
  <<Msg("PRINTF_FORMAT", fmt), Msg("PRINTF_START", Len(args))>>
  \o [i \in DOMAIN args |-> Msg(PrintfArgType(args[i]), args[i])]
  \o <<Msg("PRINTF_END", 0)>>

\* emit_print_format, print to stream: START with the argument count,
\* FORMAT with the interned format, one message per argument, END.
PrintMsgs(fmt, args) ==
  <<Msg("PRINTF_START", Len(args)), Msg("PRINTF_FORMAT", fmt)>>
  \o [i \in DOMAIN args |-> Msg(PrintfArgType(args[i]), args[i])]
  \o <<Msg("PRINTF_END", 0)>>

\* Mutant: flags 0 instead of BPF_F_CURRENT_CPU, the perf buffer of the
\* first CPU.
EmitCpu0(c, m) == stream' = [stream EXCEPT ![CHOOSE x \in CPUs : TRUE] = Append(@, m)]

\* emit_transport_msg: perf_event_output(ctx, perf map, BPF_F_CURRENT_CPU,
\* ...) appends the message to the stream of the CPU it runs on.
Emit(c, m) ==
  stream' = [stream EXCEPT ![c] = Append(@, m)]

-----------------------------------------------------------------------------
(* The probe hits *)

\* The prologue's jumps to the exit block: EXIT is 1, or ERRORS exceeds
\* MAXERRORS (jcond GT).
Tripped ==
  exitFlag = 1 \/ errors > MaxErrors

\* add_prologue: clear error_status; look up EXIT and ERRORS (both created
\* by the loader, so neither lookup fails) and jump to the exit block, whose
\* epilogue sees error_status 0, if EXIT is 1 or ERRORS exceeds MAXERRORS;
\* otherwise run the body.
Prologue(c) ==
  /\ pc[c] = "idle" /\ hits < MaxHits
  /\ hits' = hits + 1
  /\ errStatus' = [errStatus EXCEPT ![c] = 0]
  /\ IF Tripped
       THEN pc' = [pc EXCEPT ![c] = "idle"] /\ UNCHANGED <<todo, outcome>>
       ELSE \E b \in Bodies, o \in Outcomes :
              /\ todo' = [todo EXCEPT ![c] = b]
              /\ outcome' = [outcome EXCEPT ![c] = o]
              /\ pc' = [pc EXCEPT ![c] = "body"]
  /\ UNCHANGED <<exitFlag, errors, stat, val, tmp, pending, count, stream, hard,
                 naggs, vsum, intent>>

NextStmt(c) == /\ pc' = [pc EXCEPT ![c] = "body"]
               /\ todo' = [todo EXCEPT ![c] = Tail(@)]

\* emit_aggregation, first part: evaluate v, look up the count field and
\* branch on count == 0.
AggStart(c) ==
  /\ pc[c] = "body" /\ todo[c] # <<>> /\ Head(todo[c]) = "agg"
  /\ \E v \in AggVals :
       /\ val' = [val EXCEPT ![c] = v]
       /\ naggs' = naggs + 1 /\ vsum' = vsum + v
  /\ pc' = [pc EXCEPT ![c] = IF StatmapLookup("count", c) = 0 THEN "agg_then" ELSE "agg_else"]
  /\ UNCHANGED <<exitFlag, errors, stat, todo, outcome, tmp, pending, errStatus, count,
                 stream, hits, hard, intent>>

AggUnchanged == UNCHANGED <<exitFlag, errors, outcome, val, pending, errStatus, count,
                            stream, hits, hard, naggs, vsum, intent>>

\* then_block: count = 1, then sum = v.
AggThen(c) ==
  /\ \/ /\ pc[c] = "agg_then"
        /\ StatmapUpdate("count", c, 1)
        /\ pc' = [pc EXCEPT ![c] = "agg_then_sum"] /\ UNCHANGED todo
     \/ /\ pc[c] = "agg_then_sum"
        /\ StatmapUpdate("sum", c, val[c])
        /\ NextStmt(c)
  /\ UNCHANGED tmp
  /\ AggUnchanged

\* else_block: count = lookup(count) + 1, then sum = lookup(sum) + v,
\* each a lookup into tmp and an update.
AggElse(c) ==
  /\ \/ /\ pc[c] = "agg_else"
        /\ tmp' = [tmp EXCEPT ![c] = StatmapLookup("count", c)]
        /\ pc' = [pc EXCEPT ![c] = "agg_else_count"]
        /\ UNCHANGED <<stat, todo>>
     \/ /\ pc[c] = "agg_else_count"
        /\ StatmapUpdate("count", c, tmp[c] + 1)
        /\ pc' = [pc EXCEPT ![c] = "agg_else_sum"]
        /\ UNCHANGED <<tmp, todo>>
     \/ /\ pc[c] = "agg_else_sum"
        /\ tmp' = [tmp EXCEPT ![c] = StatmapLookup("sum", c)]
        /\ pc' = [pc EXCEPT ![c] = "agg_else_sum_upd"]
        /\ UNCHANGED <<stat, todo>>
     \/ /\ pc[c] = "agg_else_sum_upd"
        /\ StatmapUpdate("sum", c, tmp[c] + val[c])
        /\ NextStmt(c)
        /\ UNCHANGED tmp
  /\ AggUnchanged

\* visit_print_format: evaluate the arguments and hand the print-to-stream
\* request to emit_print_format.  The hit has now issued the print.
PrintStart(c) ==
  /\ pc[c] = "body" /\ todo[c] # <<>> /\ Head(todo[c]) = "print"
  /\ \E args \in [1..NArgs -> Vals] :
       /\ pending' = [pending EXCEPT ![c] = PrintMsgs(Fmt, args)]
       /\ intent' = [intent EXCEPT ![c] = Append(@, PrintEvent(args))]
  /\ pc' = [pc EXCEPT ![c] = "print"]
  /\ UNCHANGED <<exitFlag, errors, stat, todo, outcome, val, tmp, errStatus, count,
                 stream, hits, hard, naggs, vsum>>

\* One emit_transport_msg of the printf.
PrintSend(c) ==
  /\ pc[c] = "print"
  /\ Emit(c, Head(pending[c]))
  /\ pending' = [pending EXCEPT ![c] = Tail(@)]
  /\ IF Len(pending[c]) = 1 THEN NextStmt(c) ELSE UNCHANGED <<pc, todo>>
  /\ UNCHANGED <<exitFlag, errors, stat, outcome, val, tmp, errStatus, count,
                 hits, hard, naggs, vsum, intent>>

BodyUnchanged == UNCHANGED <<errors, stat, todo, outcome, val, tmp, pending, count,
                             hits, hard, naggs, vsum, intent>>

\* The body falls through to the exit block.
BodyEnd(c) ==
  /\ pc[c] = "body" /\ todo[c] = <<>> /\ outcome[c].kind = "none"
  /\ pc' = [pc EXCEPT ![c] = "epilogue"]
  /\ UNCHANGED <<exitFlag, errStatus, stream>> /\ BodyUnchanged

\* error(m): register_error sets error_status to 1 and sends m as
\* STP_STORE_ERROR_MSG; terminate jumps to the exit block.
RegisterError(c) ==
  /\ pc[c] = "body" /\ todo[c] = <<>> /\ outcome[c].kind = "error"
  /\ errStatus' = [errStatus EXCEPT ![c] = 1]
  /\ Emit(c, Msg("STORE_ERROR_MSG", outcome[c].msg))
  /\ pc' = [pc EXCEPT ![c] = "epilogue"]
  /\ UNCHANGED exitFlag /\ BodyUnchanged

\* exit(): the tapset function stores 1 under EXIT and returns.
Exit(c) ==
  /\ pc[c] = "body" /\ todo[c] = <<>> /\ outcome[c].kind = "exit"
  /\ exitFlag' = 1
  /\ pc' = [pc EXCEPT ![c] = "epilogue"]
  /\ UNCHANGED <<errStatus, stream>> /\ BodyUnchanged

EpiUnchanged == UNCHANGED <<exitFlag, stat, todo, outcome, val, tmp, pending, errStatus,
                            hits, naggs, vsum>>

\* add_epilogue: if error_status is 0, exit; otherwise send
\* STP_PRINT_ERROR_MSG, which has stapbpf print the stored message.
EpilogueTest(c) ==
  /\ pc[c] = "epilogue"
  /\ IF errStatus[c] = 0
       THEN pc' = [pc EXCEPT ![c] = "idle"] /\ UNCHANGED <<stream, intent>>
       ELSE /\ Emit(c, Msg("PRINT_ERROR_MSG", 0))
            /\ intent' = [intent EXCEPT ![c] = Append(@, ErrEvent(outcome[c].msg))]
            /\ pc' = [pc EXCEPT ![c] = "load"]
  /\ UNCHANGED <<errors, count, hard>> /\ EpiUnchanged

\* Look up ERRORS (created by the loader) and load it into error_count.
EpilogueLoad(c) ==
  /\ pc[c] = "load"
  /\ count' = [count EXCEPT ![c] = errors]
  /\ pc' = [pc EXCEPT ![c] = "update"]
  /\ UNCHANGED <<errors, stream, hard, intent>> /\ EpiUnchanged

\* Mutant: the exceeded block jumps to the exit without the message.
EpilogueStoreNoReport(c) ==
  /\ pc[c] = "update"
  /\ errors' = count[c] + 1
  /\ pc' = [pc EXCEPT ![c] = "idle"]
  /\ UNCHANGED <<count, stream, hard, intent>> /\ EpiUnchanged

\* Store error_count + 1 under ERRORS with map_update_elem; jcond LE
\* against the limit goes to the exit, else to the exceeded block.
EpilogueStore(c) ==
  /\ pc[c] = "update"
  /\ errors' = count[c] + 1
  /\ pc' = [pc EXCEPT ![c] = IF count[c] + 1 <= MaxErrors THEN "idle" ELSE "harderr"]
  /\ UNCHANGED <<count, stream, hard, intent>> /\ EpiUnchanged

\* The exceeded block: send STP_ERROR and exit.
EpilogueHardError(c) ==
  /\ pc[c] = "harderr"
  /\ Emit(c, Msg("ERROR", 0))
  /\ hard' = hard + 1
  /\ pc' = [pc EXCEPT ![c] = "idle"]
  /\ UNCHANGED <<errors, count, intent>> /\ EpiUnchanged

-----------------------------------------------------------------------------
(* stapbpf: bpf_handle_transport_msg, on the stream of CPU c *)

\* The context after a message: x is c's context, m the message.  Each
\* handler gives the new context and whether the message was out of place.
OnStart(x, m) ==
  <<[x EXCEPT !.in_printf = TRUE, !.format_no = -1, !.expected_args = m.arg,
              !.printf_args = <<>>], x.in_printf>>
OnFormat(x, m) == <<[x EXCEPT !.format_no = m.arg], ~x.in_printf>>
OnArg(x, m) ==
  <<[x EXCEPT !.printf_args = Append(@, m.arg)],
    ~x.in_printf \/ x.format_no = -1 \/ Len(x.printf_args) >= x.expected_args>>
OnEnd(x, m) ==
  <<[x EXCEPT !.in_printf = FALSE, !.format_no = -1, !.expected_args = 0,
              !.printf_args = <<>>],
    ~x.in_printf \/ Len(x.printf_args) # x.expected_args>>
OnStore(x, m) == <<[x EXCEPT !.error_message = Append(@, m.arg)], FALSE>>
OnPrintError(x, m) ==
  <<[x EXCEPT !.error_message = IF @ = <<>> THEN @ ELSE Tail(@)], x.error_message = <<>>>>

Handler(x, m) ==
  CASE m.type = "PRINTF_START"    -> OnStart(x, m)
    [] m.type = "PRINTF_FORMAT"   -> OnFormat(x, m)
    [] m.type = "PRINTF_ARG_LONG" -> OnArg(x, m)
    [] m.type = "PRINTF_END"      -> OnEnd(x, m)
    [] m.type = "STORE_ERROR_MSG" -> OnStore(x, m)
    [] m.type = "PRINT_ERROR_MSG" -> OnPrintError(x, m)
    [] m.type = "ERROR"           -> <<x, FALSE>>

\* What the message makes stapbpf print: the completed printf, or the
\* oldest stored error message.
Printed(x, m) ==
  CASE m.type = "PRINTF_END" /\ x.in_printf ->
         <<<<"print", x.format_no, x.printf_args>>>>
    [] m.type = "PRINT_ERROR_MSG" /\ x.error_message # <<>> ->
         <<ErrEvent(Head(x.error_message))>>
    [] OTHER -> <<>>

\* stapbpf takes the oldest message of c's perf buffer and handles it;
\* STP_ERROR sets the shared hard error flag.
Receive(c) ==
  /\ stream[c] # <<>>
  /\ LET m == Head(stream[c])
         h == Handler(ctx[c], m)
     IN /\ ctx' = [ctx EXCEPT ![c] = h[1]]
        /\ broken' = (broken \/ h[2])
        /\ out' = [out EXCEPT ![c] = @ \o Printed(ctx[c], m)]
        /\ errorFlag' = (errorFlag \/ m.type = "ERROR")
  /\ stream' = [stream EXCEPT ![c] = Tail(@)]
  /\ UNCHANGED probe

-----------------------------------------------------------------------------

\* Every hit has run and stapbpf has read every message.
Done ==
  /\ hits = MaxHits
  /\ \A c \in CPUs : pc[c] = "idle" /\ stream[c] = <<>>
  /\ UNCHANGED vars

\* The steps of a hit in progress, after its prologue.
Running(c) ==
  \/ AggStart(c) \/ AggThen(c) \/ AggElse(c) \/ PrintStart(c) \/ PrintSend(c)
  \/ BodyEnd(c) \/ RegisterError(c) \/ Exit(c)
  \/ EpilogueTest(c) \/ EpilogueLoad(c) \/ EpilogueStore(c) \/ EpilogueHardError(c)
\* (stapbpf's state is not touched by the probe's steps)
ProbeStep(c) == (Prologue(c) \/ Running(c)) /\ UNCHANGED reader

Next ==
  \/ \E c \in CPUs : ProbeStep(c) \/ Receive(c)
  \/ Done

\* A BPF program, once started, runs to its exit without blocking, and
\* stapbpf keeps polling every CPU's perf buffer; a new hit is not assumed.
Fairness == \A c \in CPUs : WF_vars(Running(c) /\ UNCHANGED reader) /\ WF_vars(Receive(c))

Spec == Init /\ [][Next]_vars /\ Fairness

-----------------------------------------------------------------------------
(* What the emitted code implements *)

PL == INSTANCE PrintLog WITH issued <- intent, shown <- out

AggSteps == {"agg_then", "agg_then_sum", "agg_else", "agg_else_count", "agg_else_sum",
             "agg_else_sum_upd"}

-----------------------------------------------------------------------------
(* Properties *)

\* The side-channel protocol: stapbpf prints, per CPU, exactly the printfs
\* and error messages that CPU's hits issued, in their order, arguments in
\* place.  It rests on emit_print_format's message order and on the
\* STORE/PRINT_ERROR_MSG pair of register_error and add_epilogue.
OutputRefines == PL!Spec

\* stapbpf never meets a message the protocol does not allow where it is:
\* START inside a printf, FORMAT or an argument outside one, an END after
\* the wrong number of arguments, PRINT_ERROR_MSG with no stored message.
ConsumerInSync == ~broken

\* Statistics without locks (emit_aggregation's `??? lock stat`): when no
\* CPU is inside an aggregation, the count and sum that stapbpf_stat_get
\* adds up over the per-CPU cells are the number and sum of the values
\* aggregated; no update of another CPU was lost.
StatsExact ==
  (\A c \in CPUs : pc[c] \notin AggSteps)
    => /\ SumFunction(stat["count"]) = naggs
       /\ SumFunction(stat["sum"]) = vsum

\* Once ERRORS exceeds MAXERRORS (and the prologues start skipping the
\* probe), stapbpf eventually learns of the hard error.
HardErrorReported == (errors > MaxErrors) ~> errorFlag

====
