\* One reader, one two-byte message that may arrive in two pieces.
CONSTANTS
  NCpus = 1
  MaxMsgs = 1
  Lens = {2}
  SeqBits = 2
  FsizeMax = 8
  MaxUserSigs = 0
SPECIFICATION Spec
INVARIANT MessageWrittenWhole
