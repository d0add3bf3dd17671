\* The emitted probe code on two CPUs and three hits, without a MAXERRORS
\* constraint (limit 0, the default): one error exceeds the limit.  A
\* printf of one argument over two values; one error message.
CONSTANTS
  CPUs = {c1, c2}
  MaxErrors = 0
  MaxHits = 3
  Bodies <- MCBodies
  NArgs = 1
  Vals = {1, 2}
  AggVals = {2}
  ErrMsgs = {m1}
  Fmt = f1

SPECIFICATION Spec

INVARIANTS
  ConsumerInSync
  StatsExact

PROPERTIES
  OutputRefines
  HardErrorReported
