----------------------------- MODULE AgentText -----------------------------
(***************************************************************************)
(* What the tools of mcp/tools.rs compute from the text of a buffer, as    *)
(* pure operators: searches, positions, diffs, symbols, structural edits.  *)
(* The buffer's own arithmetic is that of LineIndex; its line index is the *)
(* scan of the text (TextBuffer, LineIndexCoherent), so that a text stands *)
(* for a buffer.  Texts are of one-byte characters, as there, so that a    *)
(* text in lower case is as long as the text.                              *)
(*                                                                         *)
(* A declaration is a line that begins, but for white space, with Keyword, *)
(* which stands for the nine prefixes ("fn ", "struct ", ...) the tools    *)
(* look for.                                                               *)
(***************************************************************************)
EXTENDS LineIndex, SequencesExt

CONSTANTS
  Whitespace, (* the characters trim_start takes away                       *)
  Lower,      (* per character: what to_lowercase makes of it               *)
  Keyword,    (* what a declaration begins with                             *)
  Letter      (* what a tool writes of its own accord                       *)

ASSUME AgentTextAssumption ==
  /\ {Keyword, Letter} \subseteq Chars \ Whitespace
  /\ {Newline, CarriageReturn} \subseteq Whitespace
  /\ Lower \in [Chars -> Chars]

Change == [start : Position, end : Position, text : Text]

(* apply_change: None when a position has no offset or the offsets are no  *)
(* range of the text.                                                      *)
Changed(t, change) ==
  LET from == PositionToOffset(t, LineStarts(t), change.start)
      to   == PositionToOffset(t, LineStarts(t), change.end)
  IN  IF None \in {from, to} \/ Slice(t, from, to) = None THEN None
      ELSE RopeInsert(RopeRemove(t, from, to), from, change.text)

----------------------------------------------------------------------------
(* Lines.                                                                  *)

(* A mutant: the last line goes without its newline.                       *)
LineRangeBare(t, start, end) ==
  LET starts == LineStarts(t)
      stop   == Min({end, Len(starts)})
  IN  IF start >= stop THEN <<>>
      ELSE Slice(t, starts[start + 1], LineEndOffset(t, starts, stop))

(* get_value_in_line_range: lines start..end - 1, counted from 0.          *)
LineRange(t, start, end) ==
  LET starts == LineStarts(t)
      stop   == Min({end, Len(starts)})
  IN  IF start >= stop THEN <<>>
      ELSE Slice(t, starts[start + 1],
                 IF stop < Len(starts) THEN starts[stop + 1] ELSE ByteLen(t))

(* str::lines: a line goes without its newline, and without a carriage     *)
(* return before that; no line for the rest after a last newline if it is  *)
(* empty.                                                                  *)
LineAt(t, starts, i) ==
  LET line == LineText(t, starts, i)
  IN  IF i < Len(starts) /\ line # <<>> /\ Last(line) = CarriageReturn
        THEN Front(line) ELSE line

LinesOf(t) ==
  LET starts == LineStarts(t)
      lines  == [i \in 1..Len(starts) |-> LineAt(t, starts, i)]
  IN  IF Last(lines) = <<>> THEN Front(lines) ELSE lines

(* A mutant: stops at the end of the shorter text.                         *)
LineDiffOfBoth(old, new) ==
  [i \in 1..Min({Len(LinesOf(old)), Len(LinesOf(new))}) |->
     [kind |-> IF LinesOf(old)[i] = LinesOf(new)[i] THEN "equal" ELSE "changed",
      old  |-> <<LinesOf(old)[i]>>, new |-> <<LinesOf(new)[i]>>]]

(* compute_line_diff compares line by line, from the first; chunk i is     *)
(* about line i of both.                                                   *)
LineDiff(old, new) ==
  LET before == LinesOf(old)
      after  == LinesOf(new)
      At(lines, i) == IF i <= Len(lines) THEN <<lines[i]>> ELSE <<>>
      Kind(o, n) == CASE o = n -> "equal"
                      [] o # n /\ <<>> \notin {o, n} -> "changed"
                      [] o = <<>> /\ n # <<>> -> "added"
                      [] n = <<>> /\ o # <<>> -> "removed"
  IN  [i \in 1..Max({Len(before), Len(after)}) |->
         [kind |-> Kind(At(before, i), At(after, i)),
          old  |-> At(before, i), new |-> At(after, i)]]

HowMany(diff, kind) == Cardinality({i \in 1..Len(diff) : diff[i].kind = kind})

----------------------------------------------------------------------------
(* Offsets and occurrences.                                                *)

Occurs(t, query, offset) ==
  /\ offset + Len(query) <= Len(t)
  /\ SubSeq(t, offset + 1, offset + Len(query)) = query

(* str::find                                                               *)
Find(t, query) ==
  LET at == {o \in 0..Len(t) : Occurs(t, query, o)}
  IN  IF at = {} THEN None ELSE Min(at)

Newlines(t, offset) == {i \in 1..offset : t[i] = Newline}

(* A mutant: the column goes on counting over the ends of lines.           *)
PositionAtUncut(t, offset) ==
  [line |-> Cardinality(Newlines(t, offset)) + 1, column |-> offset + 1]

(* offset_to_position, which counts from 1.                                *)
PositionAt(t, offset) ==
  [line   |-> Cardinality(Newlines(t, offset)) + 1,
   column |-> offset - Max(Newlines(t, offset) \union {0}) + 1]

(* A mutant: a match that begins a line is put at the end of the one       *)
(* before.                                                                 *)
LineColumnLate(t, offset) ==
  LET ends == {i \in 1..offset - 1 : t[i] = Newline}
  IN  [line |-> Cardinality(ends), column |-> offset - Max(ends \union {0})]

(* byte_offset_to_line_col counts from 0.                                  *)
LineColumn(t, offset) ==
  LET ends == Newlines(t, offset)
  IN  [line |-> Cardinality(ends), column |-> offset - Max(ends \union {0})]

Lowered(t) == [i \in DOMAIN t |-> Lower[t[i]]]

(* What is searched, of the text as of the query.                          *)
Searched(t, case_sensitive) == IF case_sensitive THEN t ELSE Lowered(t)

(* match_indices finds no match within another, the search that ignores    *)
(* case does (search_from is the match plus one).  An offset in the text   *)
(* in lower case is taken for one in the text.                             *)
Matches(t, query, case_sensitive) ==
  LET at == {o \in 0..Len(t) : Occurs(Searched(t, case_sensitive),
                                      Searched(query, case_sensitive), o)}
      apart[n \in 0..Len(t) + 1] ==
        IF n = 0 THEN {}
        ELSE LET taken == apart[n - 1]
             IN  IF n - 1 \in at /\ \A o \in taken : o + Len(query) <= n - 1
                   THEN taken \union {n - 1} ELSE taken
      offsets == IF case_sensitive THEN apart[Len(t) + 1] ELSE at
  IN  IF query = <<>> THEN {}
      ELSE {[line   |-> LineColumn(t, o).line + 1,
             column |-> LineColumn(t, o).column + 1,
             byte_offset |-> o, byte_length |-> Len(query)] : o \in offsets}

(* byte_offset_from_line_col compares the column with the offset in the    *)
(* whole text.                                                             *)
OffsetFrom(t, line, column) ==
  Min({o \in 0..Len(t) - 1 : Cardinality(Newlines(t, o)) = line /\ o >= column}
        \union {Len(t)})

----------------------------------------------------------------------------
(* Symbols, as list_symbols and query_symbols take them from the lines.    *)

(* trim_start                                                              *)
Trimmed(line) ==
  SubSeq(line, Min({i \in DOMAIN line : line[i] \notin Whitespace} \union {Len(line) + 1}),
         Len(line))

Declares(line) == Trimmed(line) # <<>> /\ Head(Trimmed(line)) = Keyword

ListSymbols(t) ==
  {[name |-> Tail(Trimmed(LinesOf(t)[i])), line |-> i] :
     i \in {j \in DOMAIN LinesOf(t) : Declares(LinesOf(t)[j])}}

QuerySymbols(t, pattern) ==
  {s \in ListSymbols(t) : Find(Lowered(s.name), Lowered(pattern)) # None}

----------------------------------------------------------------------------
(* Structural edits replace the deepest node that holds an offset.  The    *)
(* syntax tree is that of an external parser: the node may be any part of  *)
(* the text that holds the offset, and of any kind, or the whole text.     *)

Root(t) == [from |-> 0, to |-> Len(t), is_function |-> FALSE]

NodesAt(t, offset) ==
  {Root(t)} \union
  [from : 0..Min({offset, Len(t)}), to : offset + 1..Len(t), is_function : BOOLEAN]

NodeText(t, node) == Slice(t, node.from, node.to)

Replaced(t, node, new) == RopeInsert(RopeRemove(t, node.from, node.to), node.from, new)

(* replacen("fn ", "async fn ", 1)                                         *)
MadeAsync(text) ==
  LET at == Find(text, <<Keyword>>)
  IN  IF at = None THEN text ELSE RopeInsert(text, at, <<Letter>>)

(* compute_structural_edit_preview, with wrappers abstracted to one        *)
(* character; None is a refusal.                                           *)
Restructured(t, node, edit_type, new_name) ==
  LET text == NodeText(t, node)
  IN  CASE edit_type = "rename" -> Replaced(t, node, new_name)
        [] edit_type = "extract_function" ->
             <<Keyword, Letter>> \o text \o <<Newline>> \o Replaced(t, node, <<Letter>>)
        [] edit_type = "wrap_in_try" -> Replaced(t, node, <<Letter>> \o text)
        [] edit_type = "add_async" ->
             IF node.is_function THEN Replaced(t, node, MadeAsync(text)) ELSE None

----------------------------------------------------------------------------
(* What the properties of AgentTools say of answers.                       *)

(* A match of a search is where the answer says: at its offset stands the  *)
(* query, but for case if the search ignores it, and the buffer resolves   *)
(* its line and column to that offset (tools.rs, find_text_matches and     *)
(* byte_offset_to_line_col, against text_buffer.rs, position_to_offset).   *)
IsInPlace(t, query, case_sensitive, m) ==
  /\ Occurs(Searched(t, case_sensitive), Searched(query, case_sensitive), m.byte_offset)
  /\ PositionToOffset(t, LineStarts(t), [line |-> m.line, column |-> m.column])
       = m.byte_offset

(* A diff tells one text's lines from the other's, and its counts add up   *)
(* (tools.rs, compute_line_diff).  Lines are those of str::lines: a diff   *)
(* does not tell a text from one with another last newline, or with        *)
(* carriage returns before newlines.                                       *)
Explains(diff, old, new) ==
  /\ FlattenSeq([i \in DOMAIN diff |-> diff[i].old]) = LinesOf(old)
  /\ FlattenSeq([i \in DOMAIN diff |-> diff[i].new]) = LinesOf(new)
  /\ Len(LinesOf(new)) - Len(LinesOf(old)) =
       HowMany(diff, "added") - HowMany(diff, "removed")
  /\ LinesOf(old) = LinesOf(new) <=> HowMany(diff, "equal") = Len(diff)
==============================================================================
