------------------------------ MODULE CopyLoop ------------------------------
(***************************************************************************)
(* The copy loop of reader_thread (src/staprun/relay.c): after a message   *)
(* has been read into buf, write(2) is repeated until wbytes bytes have    *)
(* been written, since a write may write fewer bytes than asked.  In bulk *)
(* mode every iteration writes the _stp_trace header first and ORs the    *)
(* two results.                                                           *)
(*                                                                         *)
(* RelayReader takes one write(2) of stream mode as an action; here the   *)
(* whole loop is a set of outcomes, one per way write(2) may split or    *)
(* fail the writes.  A file is a sequence of bytes: payload byte i is i,  *)
(* header byte i is HdrByte + i.                                          *)
(***************************************************************************)
EXTENDS Naturals, Integers, Sequences, SequencesExt, Bitwise

CONSTANTS
  MaxCopy,     \* message lengths (wbytes) checked: 1..MaxCopy
  HdrLen       \* sizeof(struct _stp_trace)

HdrByte == 1000
Payload(n) == [i \in 1..n |-> i]
Header == [i \in 1..HdrLen |-> HdrByte + i]

\* The results a write(fd, p, k) may return: -1, or a count in 1..k.
WriteResults(k) == {-1} \cup 1..k

\* rc |= write(...) on an int: -1 has every bit set.
IntOr(a, b) == IF a < 0 \/ b < 0 THEN -1 ELSE a | b

\* A reader's copy state: bytes left, offset of wbuf in buf, bytes in the
\* output file (wsize), the file's bytes, and whether it left for
\* error_out.
CopyInit(n) == [wbytes |-> n, wbuf |-> 0, wsize |-> 0, file |-> <<>>, err |-> FALSE]

\* The bytes the two writes add to the file: the first rh bytes of the
\* header, then the rp bytes of buf from wbuf on.
CopyWritten(st, bulk, rh, rp) ==
  st.file \o (IF bulk /\ rh > 0 THEN SubSeq(Header, 1, rh) ELSE <<>>)
          \o [i \in 1..(IF rp > 0 THEN rp ELSE 0) |-> st.wbuf + i]

\* Mutant: wbuf is not advanced past what was written.
CopyStepNoAdvance(st, bulk, rh, rp) ==
  LET rc == IF bulk THEN IntOr(rh, rp) ELSE rp
      file == CopyWritten(st, bulk, rh, rp)
  IN IF rc <= 0 THEN [st EXCEPT !.file = file, !.err = TRUE]
     ELSE [st EXCEPT !.wbytes = @ - rc, !.wsize = @ + rc, !.file = file]

\* One iteration with header result rh and payload result rp: rc = 0;
\* in bulk mode rc = write(header); rc |= write(wbuf, wbytes); rc <= 0
\* goes to error_out; else wbytes -= rc, wbuf += rc, wsize += rc.
CopyStep(st, bulk, rh, rp) ==
  LET rc == IF bulk THEN IntOr(rh, rp) ELSE rp
      file == CopyWritten(st, bulk, rh, rp)
  IN IF rc <= 0 THEN [st EXCEPT !.file = file, !.err = TRUE]
     ELSE [st EXCEPT !.wbytes = @ - rc, !.wbuf = @ + rc, !.wsize = @ + rc, !.file = file]

\* The results the header and payload writes may return: "any" (short
\* or failed writes) or "full" (each write writes all it is given).
HdrResults(bulk, writes) ==
  IF ~bulk THEN {0} ELSE IF writes = "full" THEN {HdrLen} ELSE WriteResults(HdrLen)
PayResults(st, writes) ==
  IF writes = "full" THEN {st.wbytes} ELSE WriteResults(st.wbytes)

\* while (wbytes > 0): the outcomes of the loop from st.
RECURSIVE CopyRuns(_, _, _)
CopyRuns(st, bulk, writes) ==
  IF st.wbytes <= 0 \/ st.err THEN {st}
  ELSE UNION {CopyRuns(CopyStep(st, bulk, rh, rp), bulk, writes) :
                rh \in HdrResults(bulk, writes), rp \in PayResults(st, writes)}

-----------------------------------------------------------------------------

\* In stream mode, however write(2) splits the message or fails, the copy
\* loop writes each byte of the message once and in order and counts in
\* wsize exactly the bytes in the file: all of the message, or a prefix
\* of it when a write failed.  In bulk mode, when the writes are complete,
\* the file receives the header once and then the message.
CopyLoopWritesMessage ==
  \A n \in 1..MaxCopy :
    /\ \A r \in CopyRuns(CopyInit(n), FALSE, "any") :
         /\ r.wsize = Len(r.file)
         /\ IF r.err THEN IsPrefix(r.file, Payload(n)) ELSE r.file = Payload(n)
    /\ \A r \in CopyRuns(CopyInit(n), TRUE, "full") :
         r.file = Header \o Payload(n)

====
