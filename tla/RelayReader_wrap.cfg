\* Two readers and more messages than the sequence counter has values.
CONSTANTS
  NCpus = 2
  MaxMsgs = 5
  Lens = {1}
  SeqBits = 2
  FsizeMax = 8
  MaxUserSigs = 0
SPECIFICATION Spec
INVARIANT OrderedUnlessTimedOut
