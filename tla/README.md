# TLA+ models of the systemtap BPF back end and the staprun relay readers

This directory holds TLA+ specifications of parts of `src/`. Each
specification is checked with TLC. `PROJECT.json` lists:

- every component and its status;
- every run and what it shows;
- the mutants that show each passing property can fail;
- the map from each TLA+ definition to the source lines it models;
- the findings;
- the hazards.

## 1. The system

### The BPF translator (`src/bpf-translate.cxx`, `src/bpf-internal.h`, `src/bpf-shared-globals.h`)

The translator turns an elaborated script into one BPF program per
translation unit. It runs single-threaded, once per unit.

Its parts, and how they interact:

- **Storage Layout Planner** (`translate_globals`, `build_internal_globals`).
  It gives every global a BPF map:
  - one map for scalar longs and one for scalar strings;
  - one HASH map per array, with the key size summed over its index types;
  - one PERCPU map per stat field (`count`, `sum`), with aggregate ids in
    `glob.aggregates`.

  The translator reads this plan when it lowers variable accesses.
- **Translator** (`bpf_unparser`). It is a recursive visitor over statements
  and expressions. Its state is:
  - the current block (`this_ins`);
  - the jump-target stacks `loop_break`, `loop_cont`, `func_return` and
    `catch_jump`;
  - the message stack `catch_msg`;
  - the lazily created `exit_block` and `ret0_block`.

  Statements become blocks and edges. Every script function call is inlined
  (`emit_functioncall`).
- **Embedded assembler** (`visit_embeddedcode`). It parses the embedded asm of
  tapset functions. It also takes the control directives `jump_to_catch`
  (raised by `error()`), `terminate` (used by `exit()`), `alloc`,
  `register_error` and `call`.
- **Prologue and epilogue** (`add_prologue`, `get_exit_block`, `add_epilogue`).
  Each unit first checks the exit flag and the error counter, and jumps to the
  shared exit block if either is tripped. The epilogue counts an error in the
  shared internal map and may raise a hard error. The emitted code runs
  concurrently on every CPU.
- **Statistics, strings, printf, foreach.**
  - `emit_aggregation` is a lookup, modify and store for each stat field.
  - `emit_string_copy` copies word by word, with a NUL check and optional
    zero padding.
  - printf is lowered to a sequence of transport messages on the perf
    buffer of the CPU. stapbpf reads each buffer and reassembles the print.
  - `foreach` is lowered to a key iteration over a map.
- **Object emitter** (`output_*`). It writes ELF sections through libelf.

### The staprun relay readers (`src/staprun/relay.c`)

`init_relayfs` starts one `reader_thread` per CPU. Each reader does the
following in a loop:

1. Wait in `ppoll` on its trace channel.
2. Read an `_stp_trace` header, then the body, possibly in pieces.
3. In stream mode, wait under `last_sequence_number_mutex` until the
   message's sequence number is next. The wait times out after 2 s.
4. Switch the output file when `fsize_max` is reached or `switch_file[cpu]`
   is set.
5. Write the message, then publish its sequence number.

`switchfile_handler` (SIGUSR2) sets `switch_file` for every reader and
signals it. `close_relayfs` sets `stop_threads`, signals the readers and
joins them.

Under `-S size,N` a reader rotates numbered output files. `switch_outfile`
opens file `fnum+1`. Once `fnum >= N`, `open_outfile` removes file
`fnum-N`. The name of that file may contain the time it was opened, so it is
rebuilt from `time_backlog[cpu]`. That is a ring of open times whose size
`init_backlog` derives from N: the next power of two at or above N.

### Other sources

These are not modelled, for the reasons given:

- `src/analysis.cxx` is a Dyninst liveness query behind a cache. It is
  single-threaded I/O.
- The loc2c runtime headers are memory-access macros.
- `softfloat` and the uprobes header hold constants.
- `translator-output.h` is an output stream wrapper. `bpfinterp.h` holds only
  declarations; its `bpf_transport_context` is the state of ProbeRuntime's
  reader.

## 2. Modules

### BpfLowering.tla: statement lowering

The **state** models the translator's block and stack state:

- `nblk`: the blocks created so far.
- `cur`: `this_ins.b`, where `NoBlock` is NULL.
- `exitBlk`: `exit_block`.
- `edges`: every edge as a record of `from`, `to` and kind. Each edge also
  carries a ghost `want` field. `want` is the target that the statement's
  lexical position designates, and it is computed from the frames.
- `loopBreak`, `loopCont`, `funcReturn`, `catchJump` and `catchMsg`: the
  vectors of the same names.
- `frames`: the C++ call stack of handlers that are suspended in
  `emit_stmt`.
- Ghost variables: the raises and the values given to catch variables.

**Actions.** A handler that recurses into sub-statements is split at each
`emit_stmt` call. For example, `visit_try_block` becomes three actions:

- `TryBegin`: creates the catch and join blocks and pushes the catch block.
- `TryBodyEnd`: pops the catch block, closes the body, enters the catch block
  and moves `catch_msg.back()` into the catch variable.
- `CatchEnd`.

The statements in between are whatever the model chooses next, so the input
tree is enumerated nondeterministically.

The other actions are:

- `IfBegin`, `ThenEnd`, `ElseEnd`;
- `ForeachBegin`, `ForeachEnd` (`visit_foreach_loop`). `load_block_2` is
  created after the body, as in the code;
- `ForBegin`, `ForEnd`. The kernel target throws; the target is a variable
  `target` fixed in `Init` from the constant set `Targets`;
- `CallBegin`, `CallEnd`;
- `Raise` (`jump_to_catch`) and `Terminate`;
- `Break`, `Continue`, `Return`, `NextStmt` (each throws where the code
  does);
- `Finish` (`translate_probe` / `translate_probe_v` with `get_ret0_block`).

**Conditions.** `EmitCond` is `emit_cond` as a recursive operator:

- `||` and `&&` create a `cont_block`;
- `!` swaps the targets;
- any other expression ends in one jcond.

`CondLoweringCorrect` runs the jconds it emits for every condition of depth
2 over two leaves, under every truth assignment, and compares the result
with the short-circuit reference `Eval`. In the state machine, the condition
of an `if` or `for` is one jcond.

**Initial states.**

- For `translate_probe`, `Init` is the state after `add_prologue`. Its
  intermediate blocks are folded into the entry block.
- For `translate_probe_v`, `Init` is a single block with no exit block.

**Abstractions and input assumptions.**

- Expressions emit no blocks. A condition is one conditional edge.
- The front end removes statements after a jump, so a statement starts only
  in an open block.
- `break` and `continue` occur inside a loop of their own function, or
  outside any function.

### RelayReader.tla: relay readers in stream mode with `-S`

The **state** is one variable per thread-local or shared variable of the
code:

- per reader: `pc`, `msg`, `bufread`, `rc`, `wbytes`, `wbuf`, `wsize` and
  `fnum`;
- shared: `switchFile`, a pending SIGUSR2 per reader (`sig`), `stop`,
  `lastSeq` and the main thread's state.

**Actions.**

- `Poll` and `SigDeliver` model `ppoll`, which returns either because data
  arrived or because a signal interrupted it.
- `Eintr`, `Hdr` and `Body` follow the code's read steps.
- `WaitDone` and `WaitTimeout` model the sequencing wait.
- `Switch` and `Write` (with partial writes) follow the code's switch and
  copy steps.
- `Update` publishes the sequence number.
- `UserSignal` runs `Handler` on the main thread or on a reader in `ppoll`.
- `Close` and `Joined` model `close_relayfs`.

**Abstractions.**

- Each critical section under `mutex[cpu]` is one action, and so is the
  handler. The mutexes therefore need no variable.
- A reader blocks SIGUSR2 outside `ppoll`. A signal sent to a reader stays
  pending until the reader is back in `ppoll`.
- The kernel is the environment. `Produce` and `Lose` emit numbered messages
  or skip a number. The kernel never runs half the sequence space ahead of
  the newest message written (2^31 for a u32).

**Fairness.** Each reader is weakly fair, and so is the final join:

- the scheduler runs a runnable thread;
- a timed wait does end after 2 s;
- `pthread_join` returns once every thread has exited.

The kernel and the user are not fair.

### FileRotation.tla and RelayFiles.tla: the `-S size,N` output files

FileRotation models one reader's rotation state as a record:

- `ring` and `order` are `time_backlog[cpu]` and `backlog_order`;
- `fnum` is the reader's file number;
- `disk` is the set of the reader's file names on disk.

`OutfileName(fnum, t)` stands for `make_outfile_name`. That code is not
under `src/`, so it is modelled from its use: the name depends on the file
number and, through a strftime format, on the open time.

**Operations.** Each one is a function of that record:

- `InitBacklog` is `init_backlog`. Its `Grow` loop is the `while
  (fnum_max >> order)` loop.
- `WriteBacklog` and `ReadBacklog` mask the file number with
  `BACKLOG_MASK` (`BacklogSlot`).
- `OpenOutfile` is `open_outfile`, in the code's order. It reads the
  oldest file's time and removes that file, records the new time, then
  creates the new file.
- `SwitchOutfile` is `switch_outfile`.
- `InitOutfiles` is the switch-file branch of `init_relayfs`.

`Rotate(fm, ts)` folds these over the open times `ts`. It is a recursive
function, so that TLC evaluates it quickly. `Clocks[n]` enumerates every
`time()` sequence of `n` opens. Each sequence starts at 1, because
`time()` is never 0 while the calloc'ed ring is, and then advances by 0
or 1 per open. The clock standing still is the case where two files share
an open time.

RelayFiles composes RelayReader with FileRotation. RelayReader's `Switch`
decides when a reader calls `switch_outfile`. FileRotation decides what
the call does to that reader's files. The files of one reader depend only
on N and the clock, so `RotationKeepsNewest` is a constant of the spec.
`FilesRotate` checks it once, in the initial state.

### CopyLoop.tla: the copy loop of `reader_thread`

After a message is read into `buf`, `reader_thread` loops `while (wbytes
> 0)`. It calls write(2) again after any short write (`relay.c:268-311`).
A copy state is a record: `wbytes`, the offset `wbuf`, `wsize`, the
bytes of the output file, and whether the loop left for `error_out`.
Payload byte i is written as i, and header byte i as `HdrByte + i`.

- `CopyStep` is one iteration. `rc = 0`. In bulk mode, `rc` is the
  header write's result. `rc |= write(payload)` (`IntOr`: -1 has every
  bit set). `rc <= 0` goes to `error_out`, and otherwise `wbytes`,
  `wbuf` and `wsize` all move by `rc`.
- `WriteResults(k)` is what write(2) may return: -1, or 1..k.
- `CopyRuns` unfolds the loop over every sequence of results.

RelayFiles checks `CopyLoopWritesMessage` once, in the initial state, as
`CopyWritesWhole`. In stream mode, for every message of 1..MaxCopy
bytes and every split or failure, the file gets the message's bytes once
and in order, or a prefix of them on failure, and `wsize` counts exactly
those bytes. In bulk mode it holds only when every write is complete.
With short bulk writes the same check fails: the header is written again
on every iteration, and `rc` is the OR of the two counts, not the
payload count, so bytes are skipped or repeated and `wsize` is wrong.
No violation run is left for this, so it is recorded as the hazard at
`relay.c:302`.

### ErrorCounter.tla: the emitted prologue and epilogue on several CPUs

This module models the code that `add_prologue` and `add_epilogue` emit, as
it runs on every CPU that hits the probe. The `EXIT` and `ERRORS` keys of the
internal map (`build_internal_globals`) are one BPF_MAP_TYPE_HASH shared by
all CPUs. The variables `exitFlag` and `errors` model them.

**State.**

- Per CPU: `pc`, plus the `error_status` and `error_count` registers
  (`errStatus` and `count`).
- Ghost variables: `nerr` counts the errors registered, and `hard` counts the
  STP_ERROR messages sent.

**Actions.**

- `Prologue`: clears `error_status`. It skips the body if EXIT is 1 or
  ERRORS exceeds MAXERRORS.
- `Body`: ends normally, after `register_error`, or after `exit()`.
- `EpilogueLoad`: the lookup and load of ERRORS.
- `EpilogueStore`: stores count + 1 with `map_update_elem`, and sends the
  hard error if the limit is passed.

The load and the store are separate steps because the code takes no lock and
uses no atomic add between them. A CPU runs one probe hit at a time.

The errors_lost_update run checks it with MAXERRORS = 1. ProbeRuntime
models the same emitted lines at a finer grain, one map access per step,
together with the rest of the probe. It is not checked against ErrorCounter:
both are models of the same code, so such a check would test one model
against the other rather than against the code.

### ProbeRuntime.tla and PrintLog.tla: the emitted probe, its messages, stapbpf

ProbeRuntime models the emitted probe at the grain of one map access or one
`perf_event_output` call per step. Each hit runs through these stages:

- `Prologue` (`add_prologue`; `Tripped` is its two jumps to the exit block).
- A body from `Bodies`. It holds two kinds of statement:
  - A `s <<< v` on a scalar aggregate. This is `emit_aggregation`:
    - `AggStart` looks up `count` and branches on zero.
    - `AggThen` stores 1 and then v.
    - `AggElse` is a lookup and an update for `count`, then for `sum`.
    - The cell a CPU reaches is `Cell(c)`, its own copy of the
      PERCPU_ARRAY element (`translate_globals`).
  - A printf. `PrintStart` is `visit_print_format`. `PrintMsgs` is the
    message sequence that `emit_print_format` lowers the printf to:
    START(n), FORMAT(fmt), one `printf_arg_type` message per argument, then
    END. `PrintSend` is one `emit_transport_msg`. `Emit` appends a message
    to the perf buffer of the current CPU (`BPF_F_CURRENT_CPU`).
- One of three ends:
  - `BodyEnd`: the fall-through to the ret0 and exit blocks (`translate_probe`).
  - `RegisterError`: `error()`, that is `register_error` and then `terminate`.
    It sets `error_status` and sends STP_STORE_ERROR_MSG.
  - `Exit`: the tapset `exit()`, which stores 1 under EXIT.
- The epilogue, in four steps:
  - `EpilogueTest`: the jcond on `error_status`. When it is set, the step
    also sends STP_PRINT_ERROR_MSG.
  - `EpilogueLoad`: loads ERRORS.
  - `EpilogueStore`: stores the count plus one, followed by the LE jcond.
  - `EpilogueHardError`: sends STP_ERROR.

Register moves and jumps are folded into the map access they precede or
follow. They touch only the CPU's own registers.

`Receive(c)` is stapbpf's `bpf_handle_transport_msg` applied to the oldest
message in CPU c's buffer. Its per-CPU context (`CtxInit`) holds the fields of
`bpf_transport_context`:

- `in_printf`, `format_no`, `expected_args` and `printf_args`;
- the `error_message` queue;
- the shared `*error` flag, modelled as `errorFlag`.

The handler is not in `src/`. The `On*` operators therefore take it from the
specification's side-channel protocol, and they are marked `spec_modelled`.
`broken` records a message that the protocol does not allow at that point.

PrintLog is the abstract promise of the side channel. Each CPU's hits issue
output events (`issued`), and the user side shows exactly those events
(`shown`), in the order they were issued. ProbeRuntime implements it under
this mapping:

- `issued` is the ghost `intent`. A printf is issued when it starts, and an
  error message when the epilogue sends PRINT_ERROR_MSG.
- `shown` is what stapbpf printed (`out`).

**Fairness.** A BPF program that has started runs to its exit without
blocking: the verifier rejects unbounded loops, and the program does not sleep.
stapbpf keeps polling every CPU's perf buffer. So each CPU's in-hit steps and
each reader are weakly fair. New hits (`Prologue`) are not assumed.

### StringCopy.tla: the emitted string copy

This module models the code that `emit_string_copy` and
`emit_simple_literal_str` emit, executed over a byte memory. The memory
holds a destination slot of BPF_MAXSTRINGLEN bytes and a source buffer.
Each action is one emitted block:

- `Literal`: the straight-line stores of a literal. A literal is at most
  BPF_MAXSTRINGLEN-1 bytes long (`emit_literal_string`).
- `NullCheck`: the `src == 0` jump.
- `NullCopy`: stores `""` when zero_pad is not set.
- `CopyWord(i)`: block_A[i] loads word i, stores it, and tests it for a NUL.
- `PadWord(i)`: block_B[i] stores a zero word.

The NUL test is `(-b)|b` per byte, ANDed over the word (`NzByte`, `AllNz`).
It is evaluated with Bitwise on a 16-bit register. TLC integers cannot
hold 64 bits, and the test only needs b < 2^(w-1). `CStr` is the recursive
reference definition of a C string.

### Escapes.tla and StringLiterals.tla: escapes in string literals

`visit_literal_string` passes a literal's text through `translate_escapes`
before `emit_literal_string` puts it in the string table, and the embedded
assembler and the printf lowering use the same function. Escapes.tla
states that function as recursive operators over byte values, following
the iterator `j` step by step:

- `Decode` is the outer loop with `saw_esc`. `SimpleEsc` holds the code's
  cases `\f \n \r \t \v`, and any other escaped character stands for itself
  (`default:`).
- `OctalLoop` is the octal loop. It reads at most three digits and steps
  back onto the last digit used. After a third digit it cannot step back,
  because the loop ends before that test.
- `HexLoop` is the hex loop. It reads every hex digit, steps back on a
  non-digit, and the function returns when the digits run to the end of the
  string.
- Values above 255 are an error (`Error`), and NUL is dropped (`Put`).
- The accumulator is `unsigned int`. TLC's integers are 31 bits wide, so
  the model keeps the accumulator 16 bits wide (`CWidth`). It wraps the
  same way.

`Unescape` is the reference: it reads escapes the way C does (C11
6.4.4.4), the way the function's own comments describe them. Its table of
simple escapes is C's (`CSimpleEsc`), not the code's: it adds `\a` (BEL, 7)
and `\b` (backspace, 8), which the code's switch has no case for. The
property `EscapesAsC` compares the two on every literal of up to
`MaxEscLen` characters. C rejects a `\x` that has no digits. The code
accepts it and emits nothing, and the reference is written to agree.
That divergence is listed as a hazard.

StringLiterals.tla extends StringCopy and Escapes. The decoding is a
constant of the translation. So `EscapesDecoded` checks it in one initial
state of the copy, the NULL source without padding before its entry
block runs. The property is not evaluated in each of the 137,634 initial
states.

The comparison excludes two cases, and each is a divergence from C found
by letting it in. First, `\a` and `\b`: the code falls to `default:` and
keeps the letter, so `"\a"` decodes to `"a"` where C gives BEL. With the
letter `a` in the alphabet, `EscapesAsC` fails on it. `BellOrBackspace`
excludes every literal with a backslash before `a` or `b`, and the case
is a hazard (bpf-translate.cxx:2582). Second, an octal escape whose three digits
are followed by a fourth octal digit loses that digit: `"\1234"` decodes
to `"S"`, where C gives `"S4"`. When those literals are let in,
`EscapesAsC` fails on them. This is a code bug. There is no run slot for
a violation run, so it is recorded as a hazard (bpf-translate.cxx:2597),
and `FourOctal` is the stated precondition. The function's header
comment, "does not translate octal escapes" (PR23559), is stale.

### GlobalsLayout.tla and BpfTranslate.tla: the layout of globals

`translate_globals` runs once per script, before any probe is lowered, and
places each global in BPF maps. GlobalsLayout models it as a left fold
over the declarations (`TranslateGlobals`), one `TranslateGlobal` per
iteration of its loop. A declaration is abstracted to its value type
(long, string, stats), its index types and its `maxsize`.

- `BuildInternalGlobals`: map 0 holds the EXIT and ERRORS slots, map 1 is
  the perf event map.
- `ScalarSlot`: scalar longs and strings share one ARRAY map per type,
  created on first use; each takes `max_entries++`.
- `ScalarStatSlot`: scalar aggregates share one PERCPU_ARRAY map per stat
  field and take the same index in each.
- `ArrayStatSlot`: an array of aggregates gets one PERCPU_HASH map per stat
  field and an aggregate id from `1 + aggregates.size()` inside the field
  loop (`AggregateIds`). Ids come out as 2, 3, ...: id 1 is never used,
  which is harmless because stapbpf keys its table by id.
- `ArraySlot`: any other array gets a HASH map of its own, with the key
  size summed over the index types (`KeySize`).
- `Section`, `Intern`, `Deintern`: the `stapbpf_aggregates` section and the
  encoding of its records.

`GlobalsDisjoint` and `AggregatesResolve` quantify over every script of
at most `MaxGlobals` globals. BpfTranslate composes the layout with
BpfLowering, as `translate_bpf_pass` does. It checks the two as
invariants of the lowering (`LayoutDisjoint`, `AggregatesNamed`). The
layout is a constant of the pass, read by every probe. TLC would evaluate
a constant invariant again in every state, so each check is stated as
`Init => ...` and evaluated once, in the initial states.

### GlobalAccess.tla: loads, stores and deletes of globals

GlobalAccess extends GlobalsLayout with what the lowered code does to the
maps at run time when a statement accesses a global. Each
access of the script becomes one map helper call on a key built on the
stack:

- `EmitStore` (`emit_store`): `map_update_elem` of the scalar's slot index
  in the shared long or string map, or of the element's stack key.
- `VisitSymbol` (`visit_symbol`): a scalar read; a NULL lookup jumps to the
  exit block.
- `VisitArrayindex` (`visit_arrayindex`): an element read; a NULL lookup
  evaluates to 0 (`Default`), which `emit_string_copy` turns into "" for
  a string.
- `VisitArrayIn` (`visit_array_in`): 1 unless the lookup is NULL.
- `VisitDelete` (`visit_delete_statement`): a long scalar is overwritten
  with 0; an element is `map_delete_elem`. Deleting a whole array or a
  string scalar is a translation error, so `AccessesOf` offers neither.
- `StoreKey`, `IndexKey`, `InKey`, `DeleteKey`: the four copies of the
  "iterate over the elements" loop. Each places the indexes from the
  last one down at decreasing frame offsets (`KeyLayout`, with
  `emit_long_arg` and `emit_str_arg`). A key is the function from frame
  offset to index value.
- `EmitAggregation` (`emit_aggregation`, reached from `emit_store` for
  `<<<`): if the count looked up is 0, count := 1 and sum := x;
  otherwise each field is looked up again (`StatmapValue`), increased
  and written back.
- `VisitStatOp` (`visit_stat_op`): `@count` and `@sum` call the
  `stapbpf_stat_get` helper with the aggregate id (`AggOf`). The helper
  (`StatGet`, modelled from its description) finds the field maps
  through the `stapbpf_aggregates` section. An element's key comes from
  a fifth copy of the loop, `StatKey`, whose `key_ofs` is unsigned and
  wraps; `IntOf` converts it back to int at the call. A scalar's slot
  goes as an 8-byte long whose low word is the 4-byte key
  (`ScalarStatKey`, little-endian). Unsigned offsets are 16 bits wide
  in the model (`UWidth`), which wraps the same way for any offset
  inside the 512-byte stack.

The map helpers are the kernel's (`Lookup`, `Update`, `DeleteElem`), not
code of this repository. An ARRAY map holds the cells
0..max_entries-1, zeroed (`MapsInit`). A HASH map update with flags 0 adds
a new key only below max_entries. Their return codes are ignored, as in
the code. String data are model values.

`AccessesAgree` folds every sequence of accesses (up to `MaxOpsOne` on a
script of one global, `MaxOpsTwo` on a script of two) through the emitted
code (`RunEmitted`) and through plain associative arrays
(`ScriptStates`). It compares what each read and `in` test sees. Runs in
which an array outgrows its max_entries are excluded (`WithinCapacity`):
there the emitted store is dropped without an error (see the hazards).
BpfTranslate checks the property as `GlobalAccessesAgree`, beside the
layout.

### EmbeddedAsm.tla: blocks for embedded code

`visit_embeddedcode` lowers a block of BPF embedded code. The block has
already been split into `asm_stmt`s (`AsmStmts`). In the model a
statement is reduced to its kind and its label:

- `label`;
- `op`: any opcode of a non-JMP class, and the `alloc`, `register_error`
  and `call` directives, all straight-line code here;
- `exit`;
- `ja` and `jcond`, which name a label;
- `catch` (`jump_to_catch`) and `terminate`.

The code makes two passes over the statements, and the model follows them.

- **The block table** (`TableStep`, folded by `BlockTable`).
  - A label after other code starts a new block. Consecutive labels share
    a block, and so do labels before any other statement: those name
    `this_ins.b`.
  - A statement of the JMP class (`IsJmpClass`), or one parsed with a
    fallthrough (`BornWithFallthrough`), gives its fallthrough to the
    next statement (`GiveFallthrough`). That is the next label if it is
    a label. Otherwise it is a fresh block under a generated label
    (`FtLabel`, where the code's `;;` keeps it apart from user labels).
  - A final statement that still wants a fallthrough is a SEMANTIC_ERROR.
- **The emission** (`EmitStmt`, then `EmitStep`, folded by
  `VisitEmbeddedcode`).
  - A label gets an explicit `emit_jmp` (`EmitJmp`) unless the previous
    statement moved to it as its fallthrough (`jumped_already`).
  - `op` and `exit` become instructions.
  - `ja` and `jcond` look their labels up the way `emit_asm_opcode` does
    (`LabelBlock`). A missing label gives NULL for `ja`, and an error for
    `jcond`.
  - `jump_to_catch` and `terminate` jump away and continue in a fresh
    block (`JumpAway`).
  - After every statement with a fallthrough, the emission moves to that
    label's block.

A block's terminator is the last jump emitted from it, as `emit_jmp`
replaces `fallthru`. The block left open at the end goes on with the code
after the embedded block.

`AsmLoweringCorrect` is checked over every program of up to `MaxAsmLen`
statements over `AsmLabels`, inside a try and outside one. For each
program the translator accepts, it runs the blocks (`RunBlocks`) with
every sequence of `jcond` outcomes. It compares the result with the
asm's own reading (`RefRun`): the code already in the entry block
(`PreEvent`), the asm's instructions in order, and how the run leaves.

The property is stated for `WellFormed` programs only. Three cases fall
outside it, and each is listed as a hazard:

- **Jumps back to a leading label.** They re-run the code emitted before
  the asm, so on these programs the code does not run the asm as written.
- **Labels defined twice.** The asm gives these no meaning.
- **`ja` to an undefined label.** This gives a jump to NULL.

BpfTranslate checks the property as `AsmBlocksRunAsWritten`.

### BpfPass.tla: the pass and its failures

`translate_bpf_pass` creates the module file, then runs one try block:

1. `translate_globals` and `output_maps`;
2. one program per unit, in the code's order: the begin program, the end
   and error programs, then every kprobe, procfs, perf, timer, tracepoint
   and uprobe probe;
3. the closing sections;
4. `elf_update`.

Three catch handlers follow the try block. Then the pass closes the file
and, on failure, unlinks `s.translated_source`.

The pass runs step by step, with no interleaving. So BpfPass states it as
an operator, not as a state machine. `TranslateBpfPass` maps a script's
probe groups (`PassScripts`, `PassUnits`) and the outcome of each step
to the result. A step ends normally, with a `semantic_error`, with a
`std::runtime_error`, or with anything else. `TryBlock` folds the steps
(`PassSteps`) with a recursive function, in the code's order. A unit sets
the token `t` before it starts, and a `runtime_error` is reported at `t`.
What happens inside a unit is BpfLowering's subject; here a unit only
succeeds or throws.

`PassAllOrNothing` covers every script with up to two further probes,
with the file opened or not, `elf_update` succeeding or not, and every
step (or none) throwing each kind of exception. It states two things:

- the pass returns 0 exactly when every unit and the ELF image were
  written;
- a unit's `runtime_error` is reported at that unit's token.

BpfTranslate checks it as `PassCommitsWhole`. The model shows three things
that are recorded as hazards, not properties:

- The pass unlinks `s.translated_source`. That is not the path it opened
  (`tmpdir/module_filename()`), and both paths are set outside this code.
  So a partial `.bo` may survive a failure.
- A `runtime_error` from the closing sections is reported at the last
  probe's token.
- A failing `elf_version` or `open` returns 1 with no message.

The spec says a failing unit is skipped and translation goes on. In the
code, the first failure ends the whole pass.

## 3. Runs

| run | cfg | expect | what it shows |
|---|---|---|---|
| bpf_lowering | BpfTranslate.cfg | pass | On the user and the kernel target, with nested if/for/foreach/try/call statements plus jumps and raises, every raise, break, continue and return reaches its lexical target (`JumpsReachLexicalTarget`), a catch block is entered only by raises (`CatchEnteredOnlyByRaise`), and every block ends in one jump or two conditional ones (`WellTerminated`). `emit_cond` agrees with short-circuit evaluation, including which operands are evaluated (`CondLoweringCorrect`). For every script of up to three globals, no two globals share a map cell and every slot is in bounds and sized for its type (`LayoutDisjoint`). Every aggregate id resolves to exactly its own field maps (`AggregatesNamed`). Every read and `in` test that the emitted map accesses perform on one or two globals sees the associative-array value, and no scalar read leaves the probe (`GlobalAccessesAgree`). So does every `@count` and `@sum` of what `<<<` aggregated. The blocks built for every embedded-code block of up to five statements run the asm as written (`AsmBlocksRunAsWritten`). Whichever step of the pass throws, and however, the pass returns 0 exactly when every unit and the ELF image were written (`PassCommitsWhole`). |
| bpf_catch_msg | BpfLowering_catchmsg.cfg | violation | `CatchVarFromItsRaise`: with two raises in one try body, the catch variable gets the message register of the other raise. |
| bpf_next_probe_v | BpfLowering_nextv.cfg | violation | `EdgesTargetBlocks`: `next` in a begin/end probe jumps to a NULL `exit_block`. |
| relay_merge | RelayReader.cfg | pass | `OrderedUnlessTimedOut`: with loss, split messages, SIGUSR2 and size switches, output follows kernel order unless a sequencing wait timed out. |
| relay_close | RelayReader_close.cfg (RelayFiles) | pass | `CloseTerminates`: `close_relayfs` returns, whatever point of its loop each reader is at. `FilesRotate`: under `-S size,N`, after any number of switches a reader's files are exactly its newest N (all of them without N), each under the name it was opened with. A wrong ring size, or recording the new time before reading the oldest, breaks this. `CopyWritesWhole`: the stream-mode copy loop writes each byte of a message once and in order, however write(2) splits or fails it, and `wsize` counts the file; in bulk mode with complete writes the file gets the header once, then the message. |
| relay_pieces | RelayReader_pieces.cfg | violation | `MessageWrittenWhole`: a message read in two pieces is written with the last piece's length. |
| relay_sigusr2 | RelayReader_sigusr2.cfg | violation | `FilesInStep`: a SIGUSR2 handled on reader 1 never flags reader 2. |
| relay_seq_wrap | RelayReader_wrap.cfg | violation | `OrderedUnlessTimedOut`: after the sequence counter wraps, a message numbered 0 is written before its predecessor without any timeout. |
| probe_runtime | ProbeRuntime.cfg (MCProbeRuntime) | pass | Two CPUs run prologue, aggregation, printf, error()/exit() and epilogue while stapbpf reads their buffers. The steps implement PrintLog (`OutputRefines`: every CPU's output is printed exactly once, in order, with its arguments). stapbpf's printf context never goes out of step (`ConsumerInSync`). When no aggregation is in flight, the per-CPU count and sum cells add up to the values aggregated (`StatsExact`). Once ERRORS exceeds the limit, stapbpf eventually learns of the hard error (`HardErrorReported`). |
| errors_lost_update | ErrorCounter_lost.cfg | violation | `HardErrorWhenExceeded`: two CPUs load ERRORS = 0 and both store 1. Two errors were registered with MAXERRORS = 1, and no hard error is sent. |
| string_copy | StringCopy.cfg (module StringLiterals) | pass | For literal, NULL and register sources, with and without zero_pad, the slot ends up holding the source's C string (`CopyKeepsString`). No store leaves the slot, and zero_pad stores all of it (`WritesFillSlot`). `translate_escapes` decodes every literal of up to six characters as C does, except for the fourth-octal-digit case and the `\a`/`\b` escapes the code lacks (`EscapesDecoded`). |
| string_pad_garbage | StringCopy_pad.cfg | violation | `PaddedWithZeros`: a zero-padded register copy keeps the source bytes after the NUL in its last copied word. |

The findings in `PROJECT.json` give the source line of each violation and
what the code and the spec or comment say there.

**Bounds.**

- **bpf_lowering.** This run uses 9 blocks, nesting depth 2 and two
  raises. That covers the following:
  - a raise inside a try inside a call;
  - two raises in one try body;
  - a jump inside a catch handler;
  - a break inside an if inside a loop;
  - a `terminate` that creates the exit block.

  Depth 3 with 10 or more blocks does not finish in the time a run is
  allowed. The layout checks enumerate every sequence of up to three
  declarations: 22 kinds, about 10,000 scripts. Three globals are enough
  for two scalars to share a map, and for a scalar aggregate to sit beside
  two aggregate arrays, which is where ids could collide.
  The access check covers every script of one or two globals,
  aggregates included, with maxsize 0 or 3, including two long scalars sharing a map
  and string-then-long two-index keys. Long indexes are {1, 2} and the
  string index is one value. The check runs every sequence of up to
  three accesses on one global, or two accesses on two globals. The pass
  check uses up to two probes after begin/end/error. That gives the two
  token cases for the begin program, a unit after the first and a failure
  in every step position: some 5,000 passes. Two
  accesses are enough for a store then a read or `in` through another
  loop's key. Three are enough for a store, a delete, then a read.
  Embedded code is checked up to five statements over two labels, with
  five events per run and the first three `jcond` outcomes. That allows:
  - a jump over a label to a second label;
  - a conditional loop with code in its body;
  - consecutive labels after a jump;
  - a jump followed by straight-line code, which gets a generated
    fallthrough block.
- **relay_merge.** This run uses:
  - two CPUs and three messages of 1–2 bytes;
  - a 3-bit counter, which does not wrap at this size;
  - `fsize_max` = 2, so size switches happen;
  - one user signal.
- **relay_close.** The liveness run uses two messages, so that its state
  graph stays small. The rotation check covers every N in 0..8 and up to
  10 opens, so each N removes files at least twice. That takes in:
  - the single-slot ring (N = 1);
  - powers of two, where the oldest and the newest file share a slot
    (2, 4, 8);
  - the other values, where the ring is larger than N (3, 5, 6, 7).

  The copy loop is checked for messages of 1 to 6 bytes with an 8-byte
  header, so a message can be split into up to six writes.
- **relay_seq_wrap.** This run uses a 2-bit counter and five messages. That
  is the smallest setting in which the counter wraps while two messages
  are in flight.
- **ErrorCounter.** The violation run uses two CPUs, MAXERRORS = 1 and
  three hits. Three hits are enough for two epilogues to overlap. The CPUs
  are symmetric.
- **probe_runtime.** This run uses:
  - two CPUs and three hits;
  - MAXERRORS = 0, the default when the `-D` constraint is absent, so one
    error exceeds the limit and later hits are skipped;
  - bodies of one aggregation or one printf;
  - one printf argument over two values, and one aggregated value (2, so
    count and sum differ);
  - one error message.

  Three hits let one CPU aggregate twice, through the else branch, while
  the other CPU runs. This run reaches 652,818 distinct states in about
  80 s. With MAXERRORS = 1 or two printf arguments it grows past 1.5
  million states and takes about three minutes. The lost ERRORS increment
  under MAXERRORS = 1 is the errors_lost_update run.
- **StringCopy.** The slot is 8 bytes, so the copy chain has a first and a
  last block, and those are where the special cases lie. Every source buffer
  over the bytes {0, 1, 2, 200} is enumerated. A 12-byte slot also passes,
  in 2m40s. The escape alphabet is backslash, `n`, `x`, the octal digits `0`
  and `7`, the non-octal digit `8`, and the hex letters `a` and `F`. This
  reaches every branch of the decoder: the value-0 drop, an octal value
  over 255 (`\700`), a hex escape at the end of the string, and a hex escape
  followed by a character. Six characters hold `\x` with four digits, or
  an octal escape followed by further escapes. In total 299,593 literals
  are compared. The 32-bit wrap of a hex escape needs nine digits, which is
  out of reach.

## 4. Plan

The modules come in order of importance. Items 1 to 6 and 9 exist now; item 6 also covers the accesses to globals.

1. **BpfLowering**: control lowering (done, partly).
2. **RelayReader**: stream mode (done). The copy loop is done as
   CopyLoop, in both modes. Bulk mode's per-CPU files and a violation
   run for `rc |= write(...)` (`relay.c:302`) under short writes are
   still to add.
3. **ErrorCounter**: the emitted prologue and epilogue run by N CPUs
   (done). The lost increment is a finding.
4. **ProbeRuntime** (done): statistics on PERCPU cells, the printf message
   sequence and stapbpf's reader, refining PrintLog.
   Still to add:
   - aggregates in arrays (PERCPU_HASH);
   - string arguments;
   - a lossy perf buffer (`perf_event_output`'s result is ignored).
5. **StringCopy** and **Escapes** (done). The garbage after the NUL is a
   finding, and so is the swallowed fourth octal digit. Overlapping
   regions (PR23860) are still to be modelled, and so is a violation run
   for the octal case.
6. **GlobalsLayout** and **GlobalAccess** (done). Key sizes are never
   checked against BPF_MAXKEYLEN. The stack keys are now modelled, but
   their `use_tmp_space` reservations are not. A store into a full
   array is lost silently; a run for it awaits a statement of the
   intended behaviour.
7. **Foreach and printf stack offsets**: the foreach key iteration. The
   stack offsets of `emit_transport_msg` belong
   here: each non-literal string argument is placed below
   `max_tmp_space` and then raises it, so a kernel probe reaches the
   512-byte stack limit after about eight such arguments.
8. **Pass loop** (done, as BpfPass). Still to add: a violation run for
   the spec's per-unit recovery, which the code does not do.
9. **EmbeddedAsm** (done for the block structure). Still to add:
   - the tokenizer `parse_asm_stmt`, whose string handling treats `\\"`
     as an escaped quote;
   - a violation run for the leading-label and undefined-`ja` cases.

## 5. Not modelled

- Expressions, register allocation, instruction encoding and the ELF
  output. These are data translation or I/O.
- The Dyninst analysis and the runtime headers. These have no state.
- In the relay readers:
  - monitor mode;
  - `kill_relayfs`;
  - the open and poll error paths that end in `error_out`;
  - the failures of `calloc`, `make_outfile_name` and `open` during a
    rotation, each of which ends staprun;
  - corrupt-header resynchronisation.

  These are planned or are pure I/O error handling.
