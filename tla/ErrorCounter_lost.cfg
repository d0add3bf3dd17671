\* Two CPUs, three probe hits, MAXERRORS=1.
CONSTANTS
  CPUs = {c1, c2}
  MaxErrors = 1
  MaxHits = 3
SPECIFICATION Spec
INVARIANT HardErrorWhenExceeded
