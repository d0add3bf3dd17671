---------------------------- MODULE FileRotation ----------------------------
(***************************************************************************)
(* The output-file rotation of staprun's -S size,N mode (src/staprun/     *)
(* relay.c): each reader keeps its own numbered files, switch_outfile     *)
(* opens file fnum+1, and once fnum reaches fnum_max (N) open_outfile     *)
(* removes file fnum-fnum_max.  A file's name may contain the time it was *)
(* opened (a strftime format in -o), so the removal rebuilds the old name *)
(* from a per-CPU ring of open times, time_backlog, whose size           *)
(* init_backlog computes from fnum_max.                                   *)
(*                                                                         *)
(* One reader's files are a pure function of fnum_max and the times its   *)
(* opens see: a left fold of switch_outfile over them.  Other readers     *)
(* have rings and files of their own; RelayReader models when switches    *)
(* happen.  time() is any nondecreasing clock.                            *)
(***************************************************************************)
EXTENDS Naturals, Sequences, SequencesExt, Bitwise

CONSTANTS
  FnumMaxes,     \* fnum_max values (0: keep every file)
  MaxSwitches,   \* switch_outfile calls on one reader
  Ticks          \* how far time() may advance between two opens

\* make_outfile_name (staprun common code): the name of file fnum opened
\* at time t; cpu and bulkmode are the same for every file of a reader.
OutfileName(fnum, t) == <<fnum, t>>

\* A reader's rotation state is a record: time_backlog[cpu] (ring) and
\* backlog_order (order), its fnum, and its files on disk.
NoRing == [i \in {} |-> 0]

\* init_backlog: order = the bit length of fnum_max, less one when
\* fnum_max is a power of two; a calloc'ed ring of 1 << order times.
InitBacklog(fm) ==
  IF fm = 0 THEN [order |-> 0, ring |-> NoRing, fnum |-> 0, disk |-> {}]
  ELSE LET RECURSIVE Grow(_)
           Grow(o) == IF shiftR(fm, o) # 0 THEN Grow(o + 1) ELSE o
           o1 == Grow(0)
           order == IF fm = 2^(o1 - 1) THEN o1 - 1 ELSE o1
       IN [order |-> order, ring |-> [i \in 0..(2^order - 1) |-> 0],
           fnum |-> 0, disk |-> {}]

\* BACKLOG_MASK applied to fnum.
BacklogSlot(st, fnum) == fnum & (2^st.order - 1)

\* write_backlog / read_backlog.
WriteBacklog(st, fnum, t) == [st EXCEPT !.ring[BacklogSlot(st, fnum)] = t]
ReadBacklog(st, fnum) == st.ring[BacklogSlot(st, fnum)]

\* Mutant: the new time recorded before the oldest file's time is read.
OpenOutfileWriteFirst(st, fm, fnum, removeFile, t) ==
  LET st1 == IF fm # 0 THEN WriteBacklog(st, fnum, t) ELSE st
      old == OutfileName(fnum - fm, ReadBacklog(st1, fnum - fm))
      st2 == IF fm # 0 /\ removeFile THEN [st1 EXCEPT !.disk = @ \ {old}] ELSE st1
  IN [st2 EXCEPT !.disk = @ \cup {OutfileName(fnum, t)}, !.fnum = fnum]

\* open_outfile(fnum, cpu, remove_file) at time t: with fnum_max, remove
\* the oldest file (its name rebuilt from the ring; a missing file is
\* ignored) and record t; then create file fnum (O_CREAT|O_TRUNC).
OpenOutfile(st, fm, fnum, removeFile, t) ==
  LET old == OutfileName(fnum - fm, ReadBacklog(st, fnum - fm))
      st1 == IF fm # 0 /\ removeFile THEN [st EXCEPT !.disk = @ \ {old}] ELSE st
      st2 == IF fm # 0 THEN WriteBacklog(st1, fnum, t) ELSE st1
  IN [st2 EXCEPT !.disk = @ \cup {OutfileName(fnum, t)}, !.fnum = fnum]

\* switch_outfile: close, fnum += 1, remove once fnum >= fnum_max.
SwitchOutfile(st, fm, t) ==
  LET n == st.fnum + 1
  IN OpenOutfile(st, fm, n, fm # 0 /\ n >= fm, t)

\* init_relayfs in switch-file mode: init_backlog, then open_outfile(0,
\* cpu, 0).
InitOutfiles(fm, t) ==
  OpenOutfile(InitBacklog(fm), fm, 0, FALSE, t)

\* The reader's files after the opens at times ts: the first by
\* init_relayfs, each later one by switch_outfile.
Rotate(fm, ts) ==
  LET files[k \in 0..(Len(ts) - 1)] ==
        IF k = 0 THEN InitOutfiles(fm, ts[1])
        ELSE SwitchOutfile(files[k - 1], fm, ts[k + 1])
  IN files[Len(ts) - 1]

\* The times of up to MaxSwitches + 1 opens: time() never returns 0 and
\* does not go back.
Clocks[n \in 1..(MaxSwitches + 1)] ==
  IF n = 1 THEN {<<1>>}
  ELSE {c \o <<c[n - 1] + d>> : c \in Clocks[n - 1], d \in Ticks}

-----------------------------------------------------------------------------

\* What -S size,N promises: after any number of switches, the files on
\* disk are exactly the newest fnum_max ones (all of them when fnum_max is
\* 0), each under the name it was created with.  This rests on
\* init_backlog sizing the ring to at least fnum_max slots, and on
\* open_outfile reading the oldest file's time before it overwrites that
\* slot, which share one slot when fnum_max is a power of two.
RotationKeepsNewest ==
  \A fm \in FnumMaxes, n \in 1..(MaxSwitches + 1) : \A ts \in Clocks[n] :
    LET kept == IF fm = 0 \/ n <= fm THEN 0..(n - 1) ELSE (n - fm)..(n - 1)
    IN Rotate(fm, ts).disk = {OutfileName(k, ts[k + 1]) : k \in kept}

====
