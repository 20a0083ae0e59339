------------------------------ MODULE LineIndex ------------------------------
(***************************************************************************)
(* Positions, byte offsets and the line index of the Rust text buffer      *)
(* (buffer/line_index.rs and the offset arithmetic of text_buffer.rs), as  *)
(* pure operators.  A text is a sequence of characters; what the offset    *)
(* arithmetic can tell apart about a character is how many UTF-8 bytes and *)
(* UTF-16 units it takes, and whether it ends a line.                      *)
(*                                                                         *)
(* Offsets are counted in bytes by the line index, while the rope library  *)
(* cuts its text by character index: Slice, RopeInsert and RopeRemove are  *)
(* the library's operations as the buffer uses them.                       *)
(***************************************************************************)
EXTENDS Integers, SequencesExt

CONSTANTS
  Chars,      (* the alphabet of the texts                                  *)
  Newline,    (* the character '\n'                                         *)
  CarriageReturn, (* the character '\r'                                     *)
  Utf8Len,    (* bytes of a character in UTF-8                              *)
  Utf16Len,   (* code units of a character in UTF-16                        *)
  None        (* Rust's Option::None                                        *)

Text == Seq(Chars)
Position == [line : Nat \ {0}, column : Nat \ {0}]

ASSUME CharsAssumption ==
  /\ {Newline, CarriageReturn} \subseteq Chars
  /\ Utf8Len \in [Chars -> 1..4]
  /\ Utf16Len \in [Chars -> 1..2]
  /\ Utf8Len[Newline] = 1 /\ Utf16Len[Newline] = 1
  /\ None \notin Text \union Nat \union Position

(* Boundaries(w, t)[i] is the width, under w, of the first i characters.   *)
Boundaries(w, t) ==
  LET sum[i \in 0..Len(t)] == IF i = 0 THEN 0 ELSE sum[i - 1] + w[t[i]]
  IN  sum

ByteLen(t)  == Boundaries(Utf8Len, t)[Len(t)]

----------------------------------------------------------------------------
(* The rope library (external).  A range outside the text has no slice.    *)

Slice(t, from, to) ==
  IF from <= to /\ to <= Len(t) THEN SubSeq(t, from + 1, to) ELSE None

(* None stands for the library's panic on an index outside the text.       *)
RopeRemove(t, from, to) ==
  IF from <= to /\ to <= Len(t)
    THEN SubSeq(t, 1, from) \o SubSeq(t, to + 1, Len(t))
    ELSE None

RopeInsert(t, at, new) ==
  IF at <= Len(t)
    THEN SubSeq(t, 1, at) \o new \o SubSeq(t, at + 1, Len(t))
    ELSE None

----------------------------------------------------------------------------
(* The line index: the byte offset at which each line starts.              *)

LineStarts(t) ==
  LET at == Boundaries(Utf8Len, t)
      scan[i \in 0..Len(t)] ==
        IF i = 0 THEN <<0>>
        ELSE IF t[i] = Newline THEN Append(scan[i - 1], at[i]) ELSE scan[i - 1]
  IN  scan[Len(t)]

LineStartOffset(starts, line) ==
  IF line = 0 \/ line > Len(starts) THEN None ELSE starts[line]

(* The end of a line excludes its newline; the last line has no end here   *)
(* and the buffer uses the byte length instead.                            *)
LineEndOffset(t, starts, line) ==
  IF line < Len(starts) THEN Max({starts[line + 1] - 1, 0}) ELSE ByteLen(t)

OffsetToLine(starts, offset) ==
  LET containing == {i \in 1..Len(starts) : starts[i] <= offset}
  IN  IF containing = {} THEN None ELSE Max(containing)

(* A mutant: the line that starts exactly at lineStart is not kept.        *)
UpdateLineStartsStrict(starts, suffix, lineStart) ==
  LET keep  == Max({1} \union {i \in 1..Len(starts) : starts[i] < lineStart})
      found == LineStarts(suffix)
  IN  SubSeq(starts, 1, keep) \o
        [i \in 1..(Len(found) - 1) |-> starts[keep] + found[i + 1]]

(* Rescan from the line that holds lineStart; the lines before it stay.    *)
UpdateLineStarts(starts, suffix, lineStart) ==
  LET keep  == Max({1} \union {i \in 1..Len(starts) : starts[i] <= lineStart})
      found == LineStarts(suffix)
  IN  SubSeq(starts, 1, keep) \o
        [i \in 1..(Len(found) - 1) |-> starts[keep] + found[i + 1]]

----------------------------------------------------------------------------
(* The buffer's conversions between positions and byte offsets.            *)

LineText(t, starts, line) ==
  Slice(t, starts[line], LineEndOffset(t, starts, line))

(* A column beyond the end of its line is clamped to the end of the line.  *)
PositionToOffset(t, starts, pos) ==
  IF LineStartOffset(starts, pos.line) = None
     \/ LineText(t, starts, pos.line) = None
    THEN None
    ELSE LET text  == LineText(t, starts, pos.line)
             units == Boundaries(Utf16Len, text)
             reach == {i \in 0..Len(text) : units[i] >= pos.column - 1}
             chars == Min(reach \union {Len(text)})
         IN  starts[pos.line] + Boundaries(Utf8Len, text)[chars]

(* What stands for the code's panic, which is not a position.              *)
Panic == [panic |-> TRUE]

(* The prefix of the line is cut by bytes, which panics where the offset   *)
(* splits a character of the line.                                         *)
OffsetToPosition(t, starts, offset) ==
  LET line == OffsetToLine(starts, offset)
  IN  IF line = None \/ LineText(t, starts, line) = None THEN None
      ELSE LET text   == LineText(t, starts, line)
               bytes  == Boundaries(Utf8Len, text)
               into   == Min({offset - starts[line], ByteLen(text)})
               splits == {i \in 0..Len(text) : bytes[i] = into}
           IN  IF splits = {} THEN Panic
               ELSE [line   |-> line,
                     column |-> Boundaries(Utf16Len, text)[Max(splits)] + 1]

ValueInRange(t, starts, from, to) ==
  LET s == PositionToOffset(t, starts, from)
      e == PositionToOffset(t, starts, to)
  IN  IF s = None \/ e = None THEN None
      ELSE IF s <= e /\ e <= ByteLen(t) THEN Slice(t, s, e) ELSE None
==============================================================================
