------------------------------ MODULE Escapes ------------------------------
(***************************************************************************)
(* translate_escapes (src/bpf-translate.cxx): the BPF back end's decoding *)
(* of the escapes in a string literal, an embedded-code string operand or *)
(* a printf format, before the bytes are stored.  Characters are their    *)
(* byte values; the input alphabet holds a representative of every case  *)
(* the decoder tells apart.                                               *)
(***************************************************************************)
EXTENDS Naturals, Sequences, TLC

CONSTANTS
  EscAlphabet,   \* input bytes
  MaxEscLen      \* input length

Backslash == 92
\* 'f', 'n', 'r', 't', 'v' and what they stand for.
SimpleEsc == (102 :> 12) @@ (110 :> 10) @@ (114 :> 13) @@ (116 :> 9) @@ (118 :> 11)
IsOct(c) == c \in 48..55
IsHex(c) == c \in 48..57 \cup 97..102 \cup 65..70
HexVal(c) == IF c \in 48..57 THEN c - 48 ELSE IF c \in 97..102 THEN c - 87 ELSE c - 55
LetterX == 120

\* The code's "unsigned int c" holds 32 bits; TLC's integers hold 31, so
\* the accumulator is kept 16 bits wide: it wraps the same way, at five
\* hex digits instead of nine (see the hazards).
CWidth == 16

Error == [err |-> TRUE, out |-> <<>>]
Ok(out) == [err |-> FALSE, out |-> out]

\* The octal loop: at most three digits; j is left on the last digit used,
\* unless the third digit is followed by another octal digit.
RECURSIVE OctalLoop(_, _, _, _)
OctalLoop(s, j, c, k) ==
  LET c1 == c * 8 + (s[j] - 48)
  IN IF j + 1 > Len(s) \/ ~IsOct(s[j + 1]) THEN [val |-> c1, j |-> j]
     ELSE IF k = 2 THEN [val |-> c1, j |-> j + 1]
     ELSE OctalLoop(s, j + 1, c1, k + 1)

\* Mutant: the hex loop leaves j on the character after the digits.
RECURSIVE HexLoopNoBackstep(_, _, _)
HexLoopNoBackstep(s, j, c) ==
  IF j > Len(s) THEN [val |-> c, j |-> j]
  ELSE IF IsHex(s[j]) THEN HexLoopNoBackstep(s, j + 1, (c * 16 + HexVal(s[j])) % 2^CWidth)
  ELSE [val |-> c, j |-> j]

\* The hex loop: every hex digit that follows; j = Len(s) + 1 is str.end().
RECURSIVE HexLoop(_, _, _)
HexLoop(s, j, c) ==
  IF j > Len(s) THEN [val |-> c, j |-> j]
  ELSE IF IsHex(s[j]) THEN HexLoop(s, j + 1, (c * 16 + HexVal(s[j])) % 2^CWidth)
  ELSE [val |-> c, j |-> j - 1]

\* '\0' is skipped: it could break a transport tag.
Put(out, c) == IF c # 0 THEN Append(out, c) ELSE out

\* The loop of translate_escapes from position j.
RECURSIVE Decode(_, _, _, _)
Decode(s, j, out, sawEsc) ==
  IF j > Len(s) THEN Ok(out)
  ELSE IF ~sawEsc THEN
    IF s[j] = Backslash THEN Decode(s, j + 1, out, TRUE)
    ELSE Decode(s, j + 1, Append(out, s[j]), FALSE)
  ELSE LET c == s[j] IN
    CASE c \in DOMAIN SimpleEsc -> Decode(s, j + 1, Append(out, SimpleEsc[c]), FALSE)
      [] IsOct(c) ->
           LET r == OctalLoop(s, j, 0, 0)
           IN IF r.val > 255 THEN Error ELSE Decode(s, r.j + 1, Put(out, r.val), FALSE)
      [] c = LetterX ->
           LET r == HexLoop(s, j + 1, 0)
           IN IF r.val > 255 THEN Error
              ELSE IF r.j > Len(s) THEN Ok(Put(out, r.val))
              ELSE Decode(s, r.j + 1, Put(out, r.val), FALSE)
      [] OTHER -> Decode(s, j + 1, Append(out, c), FALSE)

TranslateEscapes(s) == Decode(s, 1, <<>>, FALSE)

-----------------------------------------------------------------------------
(* C's reading of an escape (C11 6.4.4.4), which the lexer's strings and  *)
(* the comments of translate_escapes follow: an octal escape is the      *)
(* longest run of one to three octal digits, a hex escape every hex digit *)
(* that follows, and a value above 0xff is an error.  NUL is dropped as  *)
(* the code does on purpose, and so is a \x with no digit (an error in   *)
(* C; see the hazards); a backslash ending the string yields nothing.    *)

\* The length of the run of characters satisfying P from position j.
RunLen(s, j, P(_), most) ==
  LET ks == {k \in 0..most : \A m \in 0..(k - 1) : j + m <= Len(s) /\ P(s[j + m])}
  IN CHOOSE k \in ks : \A m \in ks : m <= k

\* C's simple escapes: the code's table and '\a' (BEL) and '\b' (BS),
\* which the code lacks.
CSimpleEsc == SimpleEsc @@ (97 :> 7) @@ (98 :> 8)

RECURSIVE Value(_, _, _, _)
Value(s, j, n, base) ==
  IF n = 0 THEN 0
  ELSE Value(s, j, n - 1, base) * base + HexVal(s[j + n - 1])

RECURSIVE Unescape(_, _)
Unescape(s, j) ==
  IF j > Len(s) THEN Ok(<<>>)
  ELSE LET rest(k, out) == LET r == Unescape(s, k)
                            IN IF r.err THEN r ELSE Ok(out \o r.out)
           c == IF j + 1 <= Len(s) THEN s[j + 1] ELSE 0
       IN IF s[j] # Backslash THEN rest(j + 1, <<s[j]>>)
          ELSE IF j = Len(s) THEN Ok(<<>>)
          ELSE IF c \in DOMAIN CSimpleEsc THEN rest(j + 2, <<CSimpleEsc[c]>>)
          ELSE IF IsOct(c) THEN
            LET n == RunLen(s, j + 1, IsOct, 3)
                v == Value(s, j + 1, n, 8)
            IN IF v > 255 THEN Error ELSE rest(j + 1 + n, Put(<<>>, v))
          ELSE IF c = LetterX THEN
            LET n == RunLen(s, j + 2, IsHex, Len(s))
                v == Value(s, j + 2, n, 16)
            IN IF v > 255 THEN Error ELSE rest(j + 2 + n, Put(<<>>, v))
          ELSE rest(j + 2, <<c>>)

Inputs == UNION {[1..n -> EscAlphabet] : n \in 0..MaxEscLen}

\* Three octal digits of an escape followed by a fourth (see the hazards).
FourOctal(s) ==
  \E j \in 1..(Len(s) - 4) :
    s[j] = Backslash /\ \A m \in 1..4 : IsOct(s[j + m])

\* A backslash followed by 'a' or 'b': C reads an escape the code's switch
\* has no case for, so the code keeps the letter (see the hazards).
BellOrBackspace(s) ==
  \E j \in 1..(Len(s) - 1) : s[j] = Backslash /\ s[j + 1] \in {97, 98}

-----------------------------------------------------------------------------

\* translate_escapes decodes every escape as C does, and rejects the same
\* out-of-range values, for every input of up to MaxEscLen bytes except
\* an octal escape whose three digits are followed by a fourth and the
\* escapes \a and \b, which the code does not know.  That
\* rests on the octal and hex loops stepping the iterator back onto the
\* last digit they used, so that the outer loop's ++j lands on the next
\* character, and on the hex loop returning at the end of the string.
EscapesAsC ==
  \A s \in Inputs : ~FourOctal(s) /\ ~BellOrBackspace(s)
                      => TranslateEscapes(s) = Unescape(s, 1)

====
