\* A begin/end/error probe (translate_probe_v): does every jump target a
\* block of the program?
CONSTANTS
  MaxBlocks = 6
  MaxDepth = 1
  MaxRaises = 1
  Targets = {"user"}
  UnitKind = "probe_v"
  Garbage = Garbage
SPECIFICATION Spec
INVARIANT EdgesTargetBlocks
