\* close_relayfs against readers in every phase of their loop: two readers,
\* two messages (one lost or split), a user SIGUSR2.  The output files of
\* one reader under -S size,N for every N in 0..8 over up to 10 opens.
\* The copy loop for messages of up to 6 bytes, every split of them into
\* writes; the header is sizeof(struct _stp_trace), two u32.
CONSTANTS
  NCpus = 2
  MaxMsgs = 2
  Lens = {2}
  SeqBits = 2
  FsizeMax = 2
  MaxUserSigs = 1
  FnumMaxes = {0, 1, 2, 3, 4, 5, 6, 7, 8}
  MaxSwitches = 9
  Ticks = {0, 1}
  MaxCopy = 6
  HdrLen = 8
SPECIFICATION Spec
\* A hang after close_relayfs is what CloseTerminates reports; the main
\* run (RelayReader.cfg) checks for deadlock.
CHECK_DEADLOCK FALSE
INVARIANTS
  FilesRotate
  CopyWritesWhole
PROPERTIES
  CloseTerminates
