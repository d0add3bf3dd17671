\* Does a catch variable receive the message of the raise that reached
\* its catch block?
CONSTANTS
  MaxBlocks = 8
  MaxDepth = 2
  MaxRaises = 2
  Targets = {"user"}
  UnitKind = "probe"
  Garbage = Garbage
SPECIFICATION Spec
INVARIANT CatchVarFromItsRaise
