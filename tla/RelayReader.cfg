\* Two readers merging messages of one and two bytes, with message loss,
\* a user SIGUSR2, size-triggered file switches and close_relayfs.
CONSTANTS
  NCpus = 2
  MaxMsgs = 3
  Lens = {1, 2}
  SeqBits = 3
  FsizeMax = 2
  MaxUserSigs = 1
SPECIFICATION Spec
INVARIANTS
  TypeOK
  OrderedUnlessTimedOut
