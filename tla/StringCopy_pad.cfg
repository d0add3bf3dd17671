CONSTANTS
  MaxStr = 8
  Chars = {1, 200}
  Garbage = 7
  Width = 16
SPECIFICATION Spec
INVARIANT PaddedWithZeros
