---------------------------- MODULE RelayReader ----------------------------
(***************************************************************************)
(* staprun's relayfs readers (src/staprun/relay.c) in stream mode with     *)
(* file switching (-S, fsize_max > 0): one reader_thread per CPU reads     *)
(* _stp_trace messages from its trace channel and merges them into the     *)
(* output in kernel sequence-number order; SIGUSR2 (switchfile_handler)    *)
(* asks every reader to switch to its next output file; close_relayfs     *)
(* stops the readers.                                                      *)
(*                                                                         *)
(* The kernel side (message production, loss on a full sub-buffer) is the *)
(* environment.  A message is an id (its place in the kernel's emission    *)
(* order), its u32 sequence number reduced to SeqBits bits, and its        *)
(* pdu_len in bytes.  Every section under mutex[cpu] is one action, so the *)
(* per-CPU mutexes need no variable; the handler runs atomically.  ppoll   *)
(* unblocks SIGUSR2 only while it waits, so a signal sent to a reader     *)
(* stays pending until the reader is back in ppoll.                        *)
(***************************************************************************)
EXTENDS Naturals, Sequences, SequencesExt

CONSTANTS
  NCpus,        \* ncpus: readers for avail_cpus[0..ncpus-1]
  MaxMsgs,      \* bound on messages the kernel emits
  Lens,         \* possible bufhdr.pdu_len values
  SeqBits,      \* width of the sequence counter (32 in the code)
  FsizeMax,     \* fsize_max (bytes per output file)
  MaxUserSigs   \* bound on SIGUSR2 sent by the user

ASSUME NCpus \in Nat \ {0} /\ MaxMsgs \in Nat /\ SeqBits \in Nat \ {0}
ASSUME Lens \subseteq Nat \ {0} /\ FsizeMax \in Nat \ {0} /\ MaxUserSigs \in Nat

CPUs == 1..NCpus                 \* avail_cpus, in that order
U32Mod == 2 ^ SeqBits
SeqVals == 0..(U32Mod - 1)
Ids == 1..MaxMsgs
MaxLen == Max(Lens)
Msg == [id : Ids, seq : SeqVals, len : Lens]
NoMsg == [id |-> 0, seq |-> 0, len |-> 0]
Main == 0                        \* the main thread, as a handler context

VARIABLES
  chan,        \* chan[c]: messages in trace channel c, not yet read
  nextId,      \* id of the next message the kernel emits
  nextSeq,     \* sequence number of the next message
  pc,          \* reader control point
  msg,         \* bufhdr of the message a reader is handling
  bufread,     \* bytes of it read so far
  rc,          \* rc: result of the last read(2)
  wbytes,      \* bytes left to write
  wbuf,        \* offset of wbuf in buf
  wsize,       \* bytes written to the current output file
  fnum,        \* output file number
  switchFile,  \* switch_file[cpu]
  sig,         \* SIGUSR2 pending on a reader
  stop,        \* stop_threads
  lastSeq,     \* last_sequence_number
  main,        \* "run", "join" (close_relayfs waiting in pthread_join), "closed"
  nusr,        \* SIGUSR2 sent by the user so far
  out,         \* ghost: write(2) calls, as [id, cpu, file, from, n]
  timedOut     \* ghost: some sequencing wait ended in ETIMEDOUT

vars == <<chan, nextId, nextSeq, pc, msg, bufread, rc, wbytes, wbuf, wsize,
          fnum, switchFile, sig, stop, lastSeq, main, nusr, out, timedOut>>
kernel == <<chan, nextId, nextSeq>>
reader == <<pc, msg, bufread, rc, wbytes, wbuf, wsize, fnum, switchFile, sig>>

PCs == {"poll", "eintr", "hdr", "body", "wait", "switch", "write", "update", "done"}

\* init_relayfs, fsize_max mode: open_outfile(0, cpu) for every CPU, then
\* one reader_thread per CPU, each entering ppoll.
Init ==
  /\ chan = [c \in CPUs |-> <<>>]
  /\ nextId = 1 /\ nextSeq = 1
  /\ pc = [c \in CPUs |-> "poll"]
  /\ msg = [c \in CPUs |-> NoMsg]
  /\ bufread = [c \in CPUs |-> 0] /\ rc = [c \in CPUs |-> 0]
  /\ wbytes = [c \in CPUs |-> 0] /\ wbuf = [c \in CPUs |-> 0]
  /\ wsize = [c \in CPUs |-> 0] /\ fnum = [c \in CPUs |-> 0]
  /\ switchFile = [c \in CPUs |-> FALSE] /\ sig = [c \in CPUs |-> FALSE]
  /\ stop = FALSE /\ lastSeq = 0 /\ main = "run" /\ nusr = 0
  /\ out = <<>> /\ timedOut = FALSE

-----------------------------------------------------------------------------
(* The kernel *)

\* The id of the newest message written out.  The kernel never numbers a
\* message half the sequence space (2^31 for a u32) past it.
Published == Max({out[i].id : i \in DOMAIN out} \cup {0})
CanEmit == ~stop /\ nextId <= MaxMsgs /\ nextId - Published <= U32Mod \div 2

\* A message is flushed to CPU c's channel with the next sequence number.
Produce(c) ==
  /\ CanEmit
  /\ \E l \in Lens :
       chan' = [chan EXCEPT ![c] = Append(@, [id |-> nextId, seq |-> nextSeq, len |-> l])]
  /\ nextId' = nextId + 1 /\ nextSeq' = (nextSeq + 1) % U32Mod
  /\ UNCHANGED <<reader, stop, lastSeq, main, nusr, out, timedOut>>

\* A message is lost (its sub-buffer was full): its number is skipped.
Lose ==
  /\ CanEmit
  /\ nextId' = nextId + 1 /\ nextSeq' = (nextSeq + 1) % U32Mod
  /\ UNCHANGED <<chan, reader, stop, lastSeq, main, nusr, out, timedOut>>

-----------------------------------------------------------------------------
(* switchfile_handler, run by thread self (a CPU, or Main) *)

\* Ignored while stopping or while a previous switch is still pending;
\* otherwise set switch_file for the CPUs in avail_cpus order and signal
\* each, stopping at the CPU whose reader is running the handler.
\* s is the set of pending signals when it starts.
Handler(self, s) ==
  IF stop \/ \E c \in CPUs : switchFile[c]
    THEN sig' = s /\ UNCHANGED switchFile
    ELSE LET last == IF self \in CPUs THEN self ELSE NCpus
         IN /\ switchFile' = [c \in CPUs |-> c <= last \/ switchFile[c]]
            /\ sig' = [c \in CPUs |-> (c <= last /\ c # self) \/ s[c]]

\* The user sends SIGUSR2 to staprun: the main thread or a reader waiting
\* in ppoll (the only place a reader accepts it) takes it.
UserSignal ==
  /\ nusr < MaxUserSigs
  /\ nusr' = nusr + 1
  /\ \/ /\ Handler(Main, sig)
        /\ UNCHANGED <<pc, stop>>
     \/ \E c \in CPUs :
          /\ pc[c] = "poll"
          /\ Handler(c, sig)
          /\ pc' = [pc EXCEPT ![c] = "eintr"]
          /\ UNCHANGED stop
  /\ UNCHANGED <<kernel, msg, bufread, rc, wbytes, wbuf, wsize, fnum, lastSeq,
                 main, out, timedOut>>

-----------------------------------------------------------------------------
(* reader_thread(c) *)

\* The do ... while (!stop_threads) test: loop again or return.
Loop(c) == pc' = [pc EXCEPT ![c] = IF stop THEN "done" ELSE "poll"]

\* switch_outfile: next file, wsize = 0, switch_file = 0 (under mutex[c]).
SwitchOut(c) ==
  /\ fnum' = [fnum EXCEPT ![c] = @ + 1]
  /\ wsize' = [wsize EXCEPT ![c] = 0]
  /\ switchFile' = [switchFile EXCEPT ![c] = FALSE]

\* ppoll returns because the channel has data.
Poll(c) ==
  /\ pc[c] = "poll" /\ chan[c] # <<>>
  /\ pc' = [pc EXCEPT ![c] = "hdr"]
  /\ UNCHANGED <<kernel, msg, bufread, rc, wbytes, wbuf, wsize, fnum, switchFile,
                 sig, stop, lastSeq, main, nusr, out, timedOut>>

\* ppoll is interrupted by a pending SIGUSR2: the handler runs first.
SigDeliver(c) ==
  /\ pc[c] = "poll" /\ sig[c]
  /\ Handler(c, [sig EXCEPT ![c] = FALSE])
  /\ pc' = [pc EXCEPT ![c] = "eintr"]
  /\ UNCHANGED <<kernel, msg, bufread, rc, wbytes, wbuf, wsize, fnum, stop,
                 lastSeq, main, nusr, out, timedOut>>

\* errno == EINTR: leave if stopping, else switch files if asked to, then
\* go on to read a header.
Eintr(c) ==
  /\ pc[c] = "eintr"
  /\ IF stop
       THEN /\ pc' = [pc EXCEPT ![c] = "done"]
            /\ UNCHANGED <<fnum, wsize, switchFile>>
       ELSE /\ pc' = [pc EXCEPT ![c] = "hdr"]
            /\ IF switchFile[c] THEN SwitchOut(c) ELSE UNCHANGED <<fnum, wsize, switchFile>>
  /\ UNCHANGED <<kernel, msg, bufread, rc, wbytes, wbuf, sig, stop, lastSeq,
                 main, nusr, out, timedOut>>

\* Read the header; an empty non-blocking channel gives rc 0 or -1, and
\* the thread continues with the loop test.
Hdr(c) ==
  /\ pc[c] = "hdr"
  /\ IF chan[c] = <<>>
       THEN Loop(c) /\ UNCHANGED <<chan, msg, bufread>>
       ELSE /\ msg' = [msg EXCEPT ![c] = Head(chan[c])]
            /\ chan' = [chan EXCEPT ![c] = Tail(@)]
            /\ bufread' = [bufread EXCEPT ![c] = 0]
            /\ pc' = [pc EXCEPT ![c] = "body"]
  /\ UNCHANGED <<nextId, nextSeq, rc, wbytes, wbuf, wsize, fnum, switchFile,
                 sig, stop, lastSeq, main, nusr, out, timedOut>>

\* Mutant: each piece is read with the full pdu_len as the count.
BodyOverread(c) ==
  /\ pc[c] = "body"
  /\ \E k \in 1..msg[c].len :
       /\ bufread' = [bufread EXCEPT ![c] = @ + k]
       /\ rc' = [rc EXCEPT ![c] = k]
       /\ pc' = [pc EXCEPT ![c] = IF bufread[c] + k >= msg[c].len THEN "wait" ELSE "body"]
  /\ UNCHANGED <<kernel, msg, wbytes, wbuf, wsize, fnum, switchFile, sig, stop,
                 lastSeq, main, nusr, out, timedOut>>

\* One read(2) of the body: a piece of 1..pdu_len-bufread bytes (a message
\* crossing a sub-buffer boundary comes in several).
Body(c) ==
  /\ pc[c] = "body"
  /\ \E k \in 1..(msg[c].len - bufread[c]) :
       /\ bufread' = [bufread EXCEPT ![c] = @ + k]
       /\ rc' = [rc EXCEPT ![c] = k]
       /\ pc' = [pc EXCEPT ![c] = IF bufread[c] + k = msg[c].len THEN "wait" ELSE "body"]
  /\ UNCHANGED <<kernel, msg, wbytes, wbuf, wsize, fnum, switchFile, sig, stop,
                 lastSeq, main, nusr, out, timedOut>>

\* The while condition of the sequencing wait, in u32 arithmetic.
NotOurTurn(c) ==
  /\ (lastSeq + 1) % U32Mod # msg[c].seq
  /\ lastSeq < msg[c].seq

\* Our turn, or we are late: go ahead.
WaitDone(c) ==
  /\ pc[c] = "wait" /\ ~NotOurTurn(c)
  /\ pc' = [pc EXCEPT ![c] = "switch"]
  /\ UNCHANGED <<kernel, msg, bufread, rc, wbytes, wbuf, wsize, fnum, switchFile,
                 sig, stop, lastSeq, main, nusr, out, timedOut>>

\* pthread_cond_timedwait returns ETIMEDOUT (2 s passed): go ahead anyway.
WaitTimeout(c) ==
  /\ pc[c] = "wait" /\ NotOurTurn(c)
  /\ pc' = [pc EXCEPT ![c] = "switch"]
  /\ timedOut' = TRUE
  /\ UNCHANGED <<kernel, msg, bufread, rc, wbytes, wbuf, wsize, fnum, switchFile,
                 sig, stop, lastSeq, main, nusr, out>>

\* Mutant: last_sequence_number is published before the copy loop.
SwitchEarlyRelease(c) ==
  /\ pc[c] = "switch"
  /\ wbytes' = [wbytes EXCEPT ![c] = rc[c]]
  /\ wbuf' = [wbuf EXCEPT ![c] = 0]
  /\ IF wsize[c] + rc[c] > FsizeMax \/ switchFile[c]
       THEN SwitchOut(c) ELSE UNCHANGED <<fnum, wsize, switchFile>>
  /\ pc' = [pc EXCEPT ![c] = "write"]
  /\ lastSeq' = IF lastSeq < msg[c].seq THEN msg[c].seq ELSE lastSeq
  /\ UNCHANGED <<kernel, msg, bufread, rc, sig, stop, main, nusr, out, timedOut>>

\* wbytes = rc; then, under mutex[c], switch files if this write would
\* pass fsize_max or a switch was requested.
Switch(c) ==
  /\ pc[c] = "switch"
  /\ wbytes' = [wbytes EXCEPT ![c] = rc[c]]
  /\ wbuf' = [wbuf EXCEPT ![c] = 0]
  /\ IF wsize[c] + rc[c] > FsizeMax \/ switchFile[c]
       THEN SwitchOut(c) ELSE UNCHANGED <<fnum, wsize, switchFile>>
  /\ pc' = [pc EXCEPT ![c] = "write"]
  /\ UNCHANGED <<kernel, msg, bufread, rc, sig, stop, lastSeq, main, nusr, out, timedOut>>

\* One write(2) to out_fd[c], which may write fewer bytes than asked.
Write(c) ==
  /\ pc[c] = "write"
  /\ \E n \in 1..wbytes[c] :
       /\ out' = Append(out, [id |-> msg[c].id, cpu |-> c, file |-> fnum[c],
                              from |-> wbuf[c], n |-> n])
       /\ wbytes' = [wbytes EXCEPT ![c] = @ - n]
       /\ wbuf' = [wbuf EXCEPT ![c] = @ + n]
       /\ wsize' = [wsize EXCEPT ![c] = @ + n]
       /\ pc' = [pc EXCEPT ![c] = IF n = wbytes[c] THEN "update" ELSE "write"]
  /\ UNCHANGED <<kernel, msg, bufread, rc, fnum, switchFile, sig, stop, lastSeq,
                 main, nusr, timedOut>>

\* Publish the sequence number unless someone leapfrogged us, broadcast,
\* and test the loop condition.
Update(c) ==
  /\ pc[c] = "update"
  /\ lastSeq' = IF lastSeq < msg[c].seq THEN msg[c].seq ELSE lastSeq
  /\ msg' = [msg EXCEPT ![c] = NoMsg]
  /\ Loop(c)
  /\ UNCHANGED <<kernel, bufread, rc, wbytes, wbuf, wsize, fnum, switchFile, sig,
                 stop, main, nusr, out, timedOut>>

Reader(c) ==
  \/ Poll(c) \/ SigDeliver(c) \/ Eintr(c) \/ Hdr(c) \/ Body(c)
  \/ WaitDone(c) \/ WaitTimeout(c) \/ Switch(c) \/ Write(c) \/ Update(c)

-----------------------------------------------------------------------------
(* close_relayfs *)

\* Mutant: close_relayfs without the pthread_kill loop.
CloseNoKill ==
  /\ main = "run"
  /\ stop' = TRUE /\ main' = "join"
  /\ UNCHANGED <<kernel, reader, lastSeq, nusr, out, timedOut>>

\* stop_threads = 1, then SIGUSR2 to every reader, then pthread_join.
Close ==
  /\ main = "run"
  /\ stop' = TRUE
  /\ sig' = [c \in CPUs |-> TRUE]
  /\ main' = "join"
  /\ UNCHANGED <<kernel, pc, msg, bufread, rc, wbytes, wbuf, wsize, fnum,
                 switchFile, lastSeq, nusr, out, timedOut>>

\* Every pthread_join has returned.
Joined ==
  /\ main = "join" /\ \A c \in CPUs : pc[c] = "done"
  /\ main' = "closed"
  /\ UNCHANGED <<kernel, reader, stop, lastSeq, nusr, out, timedOut>>

\* staprun has closed the relay files and goes on with its shutdown.
Closed == main = "closed" /\ UNCHANGED vars

Next ==
  \/ \E c \in CPUs : Produce(c) \/ Reader(c)
  \/ Lose \/ UserSignal
  \/ Close \/ Joined \/ Closed

\* Each reader runs whenever it can (the scheduler), and a timed wait
\* does end; the main thread returns from pthread_join once all have.
Fairness == /\ \A c \in CPUs : WF_vars(Reader(c))
            /\ WF_vars(Joined)

Spec == Init /\ [][Next]_vars /\ Fairness

-----------------------------------------------------------------------------
(* Properties *)

TypeOK ==
  /\ chan \in [CPUs -> Seq(Msg)]
  /\ nextId \in 1..(MaxMsgs + 1) /\ nextSeq \in SeqVals
  /\ pc \in [CPUs -> PCs]
  /\ msg \in [CPUs -> Msg \cup {NoMsg}]
  /\ bufread \in [CPUs -> 0..MaxLen] /\ rc \in [CPUs -> 0..MaxLen]
  /\ wbytes \in [CPUs -> 0..MaxLen] /\ wbuf \in [CPUs -> 0..MaxLen]
  /\ wsize \in [CPUs -> Nat] /\ fnum \in [CPUs -> Nat]
  /\ switchFile \in [CPUs -> BOOLEAN] /\ sig \in [CPUs -> BOOLEAN]
  /\ stop \in BOOLEAN /\ lastSeq \in SeqVals
  /\ main \in {"run", "join", "closed"}

\* Cross-CPU merging: unless a sequencing wait timed out, the readers write
\* messages in the order the kernel numbered them, whichever CPU's
\* channel each came from.
OrderedUnlessTimedOut ==
  ~timedOut => \A i, j \in 1..Len(out) : i < j => out[i].id <= out[j].id

\* Bytes of message id written so far.
Written(id) == FoldSeq(LAMBDA r, acc : IF r.id = id THEN acc + r.n ELSE acc, 0, out)

\* The comment "Read the message, perhaps in pieces ... still process it":
\* once a reader has finished writing a message, all pdu_len bytes of it
\* are in the output.
MessageWrittenWhole ==
  \A c \in CPUs : pc[c] = "update" => Written(msg[c].id) = msg[c].len

\* A SIGUSR2 moves every CPU to its next file: counting a pending switch
\* request as done, all CPUs are on the same file number.
Pending(c) == IF switchFile[c] THEN 1 ELSE 0
FilesInStep == \A c, d \in CPUs : fnum[c] + Pending(c) = fnum[d] + Pending(d)

\* close_relayfs returns: once stop_threads is set and the readers are
\* signalled, every reader leaves its loop and pthread_join completes.
CloseTerminates == main = "join" ~> main = "closed"

=============================================================================
