----------------------------- MODULE RelayFiles -----------------------------
(***************************************************************************)
(* The relay readers together with their output files: RelayReader       *)
(* decides when a reader calls switch_outfile (Switch, its fnum),         *)
(* FileRotation what init_relayfs and each switch do to that reader's    *)
(* files.  The rotation of one reader depends only on fnum_max and the    *)
(* times its opens see, so it is a constant of the spec: it is checked    *)
(* once, in the initial state, for every fnum_max and every clock.  So is *)
(* what one pass of the copy loop (CopyLoop) puts in the file.            *)
(***************************************************************************)
EXTENDS RelayReader, FileRotation, CopyLoop

\* Under -S size,N a reader's files are always its newest N ones (all of
\* them without N), each under the name it was opened with, however many
\* times Switch has run: open_outfile's removal through time_backlog
\* (relay.c) never deletes a kept file or leaves an old one behind.
FilesRotate == Init => RotationKeepsNewest

\* Whatever byte counts write(2) returns, the copy loop of reader_thread
\* puts a message into the output file whole, once and in order, and adds
\* to wsize the bytes it wrote (stream mode), so that the fsize_max test
\* of the next message sees the file's real size.
CopyWritesWhole == Init => CopyLoopWritesMessage

====
