--------------------------- MODULE StringLiterals ---------------------------
(***************************************************************************)
(* A string literal on its way into a BPF stack slot: visit_literal_string *)
(* decodes its escapes (translate_escapes, Escapes), and the copy code     *)
(* emit_string_copy emits moves the decoded bytes into the slot            *)
(* (StringCopy).  The decoding does not depend on the copy's state: it is *)
(* a constant of the translation, checked once, in one initial state (the *)
(* NULL source without padding, before the entry block runs) rather    *)
(* than in every state.                                                  *)
(***************************************************************************)
EXTENDS StringCopy, Escapes

\* The bytes visit_literal_string hands to the string table are those a C
\* compiler would make of the literal's escapes, for every literal of up
\* to MaxEscLen characters whose octal escapes are not followed by a
\* further octal digit.
EscapesDecoded ==
  (kind = "null" /\ ~zeroPad /\ pc = Blk("entry", 0) /\ written = {}) => EscapesAsC

====
