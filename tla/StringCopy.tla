----------------------------- MODULE StringCopy -----------------------------
(***************************************************************************)
(* The code that bpf_unparser::emit_string_copy and                        *)
(* emit_simple_literal_str (src/bpf-translate.cxx) emit to copy a string   *)
(* into a BPF_MAXSTRINGLEN-byte slot at dest, run over a byte memory.      *)
(*                                                                         *)
(* A literal source is copied by one straight-line run of stores.  A       *)
(* register source is tested for NULL, then copied by the unrolled chain   *)
(* of blocks block_A[i] (load word i, store it, test it for a NUL byte)    *)
(* and, with zero_pad, block_B[i] (store a zero word).  One action is one  *)
(* emitted block.  Words are the 4 bytes of a BPF_W access, little endian. *)
(***************************************************************************)
EXTENDS Naturals, Sequences, SequencesExt, Bitwise

CONSTANTS
  MaxStr,    \* BPF_MAXSTRINGLEN, a multiple of 4
  Chars,     \* non-NUL byte values the sources may hold
  Garbage,   \* a non-NUL byte value: what the slot holds before the copy
  Width      \* register width used for the NUL test (64 in the code)

ASSUME MaxStr % 4 = 0 /\ Garbage \notin {0} /\ 0 \notin Chars

NW == MaxStr \div 4                     \* str_words
Dest == 0                               \* dest + ofs
SrcAt == MaxStr                         \* where a register source points
Addr == 0..(2 * MaxStr - 1)
Slot == Dest..(Dest + MaxStr - 1)
Byte == {0} \cup Chars

VARIABLES
  mem,       \* byte memory: the destination slot and the source buffer
  mem0,      \* ghost: memory before the copy
  kind,      \* the source value: "lit" (is_str), "reg" or "null" (a zero reg)
  lit,       \* the literal's bytes, when kind = "lit"
  zeroPad,   \* the zero_pad argument
  pc,        \* the emitted block being executed
  written    \* ghost: addresses stored to

vars == <<mem, mem0, kind, lit, zeroPad, pc, written>>

Blk(b, i) == [blk |-> b, i |-> i]
Ret == Blk("ret", 0)

WordAt(m, a) == [j \in 1..4 |-> m[a + j - 1]]

\* Store the 4 bytes of w at address a (mk_st BPF_W).
StoreWord(m, a, w) == [x \in DOMAIN m |-> IF x \in a..(a + 3) THEN w[x - a + 1] ELSE m[x]]

Zero == <<0, 0, 0, 0>>

\* Mutant: nz := (-b) & b.
NzByteAnd(b) == ((2^Width - b) % 2^Width) & b

\* nz := (-b) | b on a Width-bit register: 0 iff the byte b is 0.
NzByte(b) ==
  ((2^Width - b) % 2^Width) | b

\* all_nz := nz1 & nz2 & nz3 & nz4, where bj := (word >> 8j) & 0xff.
AllNz(w) == NzByte(w[1]) & NzByte(w[2]) & NzByte(w[3]) & NzByte(w[4])

Init ==
  /\ zeroPad \in BOOLEAN
  /\ kind \in {"lit", "reg", "null"}
  /\ lit \in IF kind = "lit" THEN BoundedSeq(Chars, MaxStr - 1) ELSE {<<>>}
  /\ mem \in {[a \in Addr |-> IF a \in Slot THEN Garbage ELSE b[a]] :
                b \in IF kind = "reg" THEN [Addr \ Slot -> Byte]
                                    ELSE {[a \in Addr \ Slot |-> Garbage]}}
  /\ mem0 = mem
  /\ pc = Blk("entry", 0)
  /\ written = {}

\* Mutant: the zero-pad loop starts one word after the literal.
LiteralPadLate(s) ==
  LET nbytes == Len(s) + 1
      nwords == (nbytes + 3) \div 4
      word(i) == [j \in 1..4 |-> IF i * 4 + j <= nbytes - 1 THEN s[i * 4 + j] ELSE 0]
      stores == 0..(nwords - 1) \cup (IF zeroPad THEN (nwords + 1)..(NW - 1) ELSE {})
  IN /\ mem' = [a \in Addr |-> IF a - Dest \in 0..(4 * NW - 1) /\ (a - Dest) \div 4 \in stores
                                  THEN IF (a - Dest) \div 4 < nwords
                                         THEN word((a - Dest) \div 4)[((a - Dest) % 4) + 1]
                                         ELSE 0
                                  ELSE mem[a]]
     /\ written' = written \cup {a \in Slot : (a - Dest) \div 4 \in stores}

\* emit_simple_literal_str: store the literal word by word, bytes past its
\* end as 0; with zero_pad, store zero words up to BPF_MAXSTRINGLEN.
LiteralStore(s) ==
  LET nbytes == Len(s) + 1
      nwords == (nbytes + 3) \div 4
      word(i) == [j \in 1..4 |-> IF i * 4 + j <= nbytes - 1 THEN s[i * 4 + j] ELSE 0]
      stores == 0..(nwords - 1) \cup (IF zeroPad THEN nwords..(NW - 1) ELSE {})
  IN /\ mem' = [a \in Addr |-> IF a - Dest \in 0..(4 * NW - 1) /\ (a - Dest) \div 4 \in stores
                                  THEN IF (a - Dest) \div 4 < nwords
                                         THEN word((a - Dest) \div 4)[((a - Dest) % 4) + 1]
                                         ELSE 0
                                  ELSE mem[a]]
     /\ written' = written \cup {a \in Slot : (a - Dest) \div 4 \in stores}

\* emit_string_copy with src->is_str(): the literal path.
Literal ==
  /\ pc = Blk("entry", 0) /\ kind = "lit"
  /\ LiteralStore(lit)
  /\ pc' = Ret
  /\ UNCHANGED <<mem0, kind, lit, zeroPad>>

\* The entry block: jcond src == 0 to null_copy_block, which is block_B[0]
\* when zero_pad is set, else to normal_block = block_A[0].
NullCheck ==
  /\ pc = Blk("entry", 0) /\ kind # "lit"
  /\ pc' = IF kind = "null" THEN (IF zeroPad THEN Blk("B", 0) ELSE Blk("null", 0))
                            ELSE Blk("A", 0)
  /\ UNCHANGED <<mem, mem0, kind, lit, zeroPad, written>>

\* null_copy_block without zero_pad: store the literal "" and jump to
\* return_block.
NullCopy ==
  /\ pc = Blk("null", 0)
  /\ LiteralStore(<<>>)
  /\ pc' = Ret
  /\ UNCHANGED <<mem0, kind, lit, zeroPad>>

\* block_A[i]: load word i of src, store it at dest; the last word jumps to
\* return_block unconditionally; otherwise a NUL byte in the word goes to
\* block_B[i+1] (zero_pad) or return_block, and none to block_A[i+1].
CopyWord(i) ==
  LET w == WordAt(mem, SrcAt + 4 * i)
  IN /\ pc = Blk("A", i)
     /\ mem' = StoreWord(mem, Dest + 4 * i, w)
     /\ written' = written \cup (Dest + 4 * i)..(Dest + 4 * i + 3)
     /\ pc' = IF i = NW - 1 THEN Ret
              ELSE IF AllNz(w) = 0 THEN (IF zeroPad THEN Blk("B", i + 1) ELSE Ret)
              ELSE Blk("A", i + 1)
     /\ UNCHANGED <<mem0, kind, lit, zeroPad>>

\* block_B[i]: store a zero word at dest + 4i, then go on to block_B[i+1]
\* or, after the last word, to return_block.
PadWord(i) ==
  /\ pc = Blk("B", i)
  /\ mem' = StoreWord(mem, Dest + 4 * i, Zero)
  /\ written' = written \cup (Dest + 4 * i)..(Dest + 4 * i + 3)
  /\ pc' = IF i < NW - 1 THEN Blk("B", i + 1) ELSE Ret
  /\ UNCHANGED <<mem0, kind, lit, zeroPad>>

\* return_block computes out = dest + ofs; the copy is over.
Done == pc = Ret /\ UNCHANGED vars

Next ==
  \/ Literal \/ NullCheck \/ NullCopy
  \/ \E i \in 0..(NW - 1) : CopyWord(i) \/ PadWord(i)
  \/ Done

Spec == Init /\ [][Next]_vars

-----------------------------------------------------------------------------
(* Reference definitions *)

\* The C string at address a in m: its bytes up to and including the first
\* NUL, or its first n bytes if none of them is NUL.
RECURSIVE CStr(_, _, _)
CStr(m, a, n) ==
  IF n = 0 THEN <<>>
  ELSE IF m[a] = 0 THEN <<0>>
  ELSE <<m[a]>> \o CStr(m, a + 1, n - 1)

SourceStr ==
  CASE kind = "lit"  -> lit \o <<0>>
    [] kind = "null" -> <<0>>
    [] kind = "reg"  -> CStr(mem0, SrcAt, MaxStr)

-----------------------------------------------------------------------------
(* Properties *)

\* After the emitted copy returns, the slot holds the source's string, NUL
\* included; a NULL source gives the empty string.  This relies on the
\* (-b)|b NUL test of block_A[i] and on the early exits of the chain.
CopyKeepsString == pc = Ret => CStr(mem, Dest, MaxStr) = SourceStr

\* The copy never stores outside the BPF_MAXSTRINGLEN slot, and with
\* zero_pad (string map keys, emit_str_arg) it stores every byte of it, on
\* every path: literal, NULL, and every early exit of the word chain.
WritesFillSlot ==
  pc = Ret => /\ written \subseteq Slot
              /\ zeroPad => written = Slot

\* Spec (string handling): with zero_pad the slot holds the string followed
\* by zero bytes up to the fixed width, so equal strings are equal keys.
PaddedWithZeros ==
  pc = Ret /\ zeroPad =>
    \A a \in Slot : a - Dest >= Len(CStr(mem, Dest, MaxStr)) => mem[a] = 0

=============================================================================
