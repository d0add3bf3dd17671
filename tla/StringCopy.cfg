\* Two-word slot: the chains have a first and a last block, which is where
\* the code's special cases are.  Bytes 1, 2 and 200 (top bit set).
\* Escapes: backslash, n, x, octal 0 and 7, the non-octal digit 8, the
\* lower- and upper-case hex letters a and F; six characters hold "\x"
\* and four hex digits, or an octal escape and two more escapes.
CONSTANTS
  MaxStr = 8
  Chars = {1, 2, 200}
  Garbage = 7
  Width = 16
  EscAlphabet = {92, 110, 120, 48, 55, 56, 97, 70}
  MaxEscLen = 6
SPECIFICATION Spec
INVARIANTS CopyKeepsString WritesFillSlot EscapesDecoded
