\* The lowering of nested if/for/try/call statements with jumps, for a
\* kprobe-style unit (translate_probe), on the user-space target and on the
\* kernel target, where for loops are refused (PR24528); and the layout of
\* every script of up to three globals, scalar or array, long, string or
\* aggregate, with and without a declared size; every run of up to three
\* accesses to one global, or two to two globals, with keys of up to two indexes;
\* every embedded-code block of up to five statements over two labels;
\* every pass over a script with up to two probes besides begin/end/error,
\* with any step throwing any kind of exception.
CONSTANTS
  MaxBlocks = 9
  MaxDepth = 2
  MaxRaises = 2
  Targets = {"user", "kernel"}
  UnitKind = "probe"
  Garbage = Garbage
  MaxGlobals = 3
  MaxSizes = {0, 3}
  KeyLongs = {1, 2}
  KeyStrs = {s1}
  StoreLong = 5
  StoreStr = x1
  EmptyStr = e0
  MaxOpsOne = 3
  MaxOpsTwo = 2
  AsmLabels = {1, 2}
  MaxAsmLen = 5
  Fuel = 5
  MaxProbes = 2
SPECIFICATION Spec
INVARIANTS
  TypeOK
  JumpsReachLexicalTarget
  CatchEnteredOnlyByRaise
  WellTerminated
  CondLoweringCorrect
  LayoutDisjoint
  AggregatesNamed
  GlobalAccessesAgree
  AsmBlocksRunAsWritten
  PassCommitsWhole
