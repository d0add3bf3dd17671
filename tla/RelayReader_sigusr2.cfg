\* Two readers, no output (fsize_max never reached), one user SIGUSR2.
CONSTANTS
  NCpus = 2
  MaxMsgs = 0
  Lens = {1}
  SeqBits = 2
  FsizeMax = 8
  MaxUserSigs = 1
SPECIFICATION Spec
INVARIANT FilesInStep
