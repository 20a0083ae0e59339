----------------------------- MODULE TextBuffer -----------------------------
(***************************************************************************)
(* One open document of the editor's backend: buffer/text_buffer.rs with   *)
(* the undo stack of buffer/undo.rs and the line index of LineIndex.tla.   *)
(* Each public method that changes the buffer is one action; the registry  *)
(* runs each of them under the write lock of its buffer.                   *)
(***************************************************************************)
EXTENDS LineIndex, SequencesExt

CONSTANTS
  MaxHistory, (* MAX_HISTORY: snapshots kept in the lineage                 *)
  MaxUndo,    (* max_undo_size: transactions kept, 0 for no limit           *)
  Contents,   (* texts a buffer is opened with or set to                    *)
  Inserts,    (* texts an edit inserts                                      *)
  Positions,  (* positions an edit may name                                 *)
  Batches,    (* the batches of changes given to apply_changes              *)
  MaxVersion, (* bound: edits stop when the version reaches it              *)
  MaxLen      (* bound: edits that would grow the text beyond it are left out *)

ASSUME BufferAssumption ==
  /\ MaxHistory \in Nat \ {0}
  /\ MaxUndo \in Nat
  /\ Contents \subseteq Text
  /\ Inserts \subseteq Text
  /\ Positions \subseteq Position
  /\ Batches \subseteq Seq([start : Position, end : Position, text : Text])
  /\ None \notin [start : Position, end : Position, text : Text]
  /\ None \notin [rope : Text, lines : Seq(Nat)]
  /\ None \notin [old : Text, doc : [rope : Text, lines : Seq(Nat)]]

VARIABLES
  rope,                   (* the text                                       *)
  line_index,             (* byte offsets of the line starts                *)
  version_id,
  alternative_version_id,
  is_dirty,
  eol,                    (* the line ending found when the text was set    *)
  undo_stack,
  redo_stack,
  dirty_line_ranges,
  history,                (* the lineage: bounded snapshots, oldest first   *)
  saved                   (* auxiliary: the text when last opened or saved  *)

text_vars == <<rope, line_index, eol>>
undo_vars == <<undo_stack, redo_stack>>
vars == <<rope, line_index, version_id, alternative_version_id, is_dirty, eol,
          undo_stack, redo_stack, dirty_line_ranges, history, saved>>

----------------------------------------------------------------------------
(* Changes, undo entries, snapshots.                                       *)

Change == [start : Positions, end : Positions, text : Inserts]

DetectEol(t) ==
  IF \E i \in 1..(Len(t) - 1) : t[i] = CarriageReturn /\ t[i + 1] = Newline
    THEN "crlf" ELSE "lf"

(* How often the line ending of the buffer occurs in a text.               *)
EolCount(t, ending) ==
  Cardinality({i \in 1..Len(t) :
    /\ t[i] = Newline
    /\ ending = "crlf" => i > 1 /\ t[i - 1] = CarriageReturn})

EntryFor(ch, old) ==
  [kind  |-> IF old = <<>> /\ ch.text # <<>> THEN "insert"
             ELSE IF old # <<>> /\ ch.text = <<>> THEN "delete" ELSE "replace",
   start |-> ch.start, end |-> ch.end, text |-> ch.text, old |-> old]

Snapshot(content, version, dirty, ending) ==
  [content |-> content, version_id |-> version, is_dirty |-> dirty, eol |-> ending]

(* A mutant: trims one snapshot too late.                                  *)
RecordSnapshotLate(h, snapshot) ==
  Append(IF Len(h) > MaxHistory THEN Tail(h) ELSE h, snapshot)

RecordSnapshot(h, snapshot) ==
  Append(IF Len(h) >= MaxHistory THEN Tail(h) ELSE h, snapshot)

SnapshotAtVersion(h, version) ==
  LET at == {i \in 1..Len(h) : h[i].version_id = version}
  IN  IF version = 0 THEN h[Len(h)]
      ELSE IF at = {} THEN None ELSE h[Min(at)]

(* A mutant: the excess is counted before the transaction is pushed.       *)
PushUndoLate(stack, transaction) ==
  LET excess == Len(stack) - MaxUndo
  IN  Append(IF MaxUndo > 0 /\ excess > 0
               THEN SubSeq(stack, excess + 1, Len(stack)) ELSE stack, transaction)

(* UndoStack::push: a new transaction drops the redo stack and the oldest  *)
(* transactions beyond the limit.                                          *)
PushUndo(stack, transaction) ==
  LET pushed == Append(stack, transaction)
      excess == Len(pushed) - MaxUndo
  IN  IF MaxUndo > 0 /\ excess > 0
        THEN SubSeq(pushed, excess + 1, Len(pushed)) ELSE pushed

(* Mutants: the line the insertion ends in is left out; the line is made   *)
(* zero-based twice.                                                       *)
DirtyRangeShort(ch, ending) ==
  LET from == ch.start.line - 1
  IN  [start |-> from, end |-> Max({from + EolCount(ch.text, ending), ch.end.line})]

DirtyRangeTwice(ch, ending) ==
  LET from == ch.start.line - 2
  IN  [start |-> from, end |-> Max({from + EolCount(ch.text, ending) + 1, ch.end.line})]

(* apply_change counts lines in the coordinates of the text before it.     *)
DirtyRange(ch, ending) ==
  LET from == ch.start.line - 1
  IN  [start |-> from, end |-> Max({from + EolCount(ch.text, ending) + 1, ch.end.line})]

----------------------------------------------------------------------------
(* A document is a text and its line index; the operators below are the    *)
(* splices the buffer makes and what it then does to the index.            *)

Doc(t, starts) == [rope |-> t, lines |-> starts]

UpdateLineIndex(t, starts, at) ==
  LET line   == OffsetToLine(starts, at)
      from   == IF line = None THEN 0 ELSE starts[line]
      suffix == Slice(t, from, ByteLen(t))
  IN  UpdateLineStarts(starts, IF suffix = None THEN <<>> ELSE suffix, from)

(* Remove from..to and insert new at from; None when the rope panics.      *)
Spliced(doc, from, to, new) ==
  LET cut == RopeRemove(doc.rope, from, to)
      put == IF cut = None THEN None ELSE RopeInsert(cut, from, new)
  IN  IF put = None THEN None
      ELSE Doc(put, UpdateLineIndex(put, doc.lines, from))

(* What a change deletes, and the document after it; None when a position  *)
(* has no offset or the offsets are no range of the text.                  *)
Resolved(doc, ch) ==
  LET s == PositionToOffset(doc.rope, doc.lines, ch.start)
      e == PositionToOffset(doc.rope, doc.lines, ch.end)
  IN  IF s = None \/ e = None \/ Slice(doc.rope, s, e) = None THEN None
      ELSE [old |-> Slice(doc.rope, s, e), doc |-> Spliced(doc, s, e, ch.text)]

(* One undo or redo entry replaces from..to by new and reports the change  *)
(* [en.start, EndIn(the document after)] := new.  An entry whose offsets   *)
(* do not resolve is skipped; one that finds no position for the end it    *)
(* would report changes the text silently; one whose offsets lie outside   *)
(* the text, or whose end then splits a character, panics, and what is     *)
(* left of its transaction is not reached.                                 *)
Applied(doc, en, from, to, new, EndIn(_)) ==
  LET none == None \in {from, to}
      next == IF none THEN None ELSE Spliced(doc, from, to, new)
  IN  IF next = None THEN [doc |-> doc, change |-> None, panic |-> ~none]
      ELSE [doc    |-> next, panic |-> EndIn(next) = Panic,
            change |-> IF EndIn(next) \in {None, Panic} THEN None
                       ELSE [start |-> en.start, end |-> EndIn(next), text |-> new]]

(* An end that is first tried as a slice: None instead of a panic.         *)
Sliced(doc, from, to) ==
  IF None \in {from, to} \/ Slice(doc.rope, from, to) = None THEN None ELSE to

Plus(offset, text) ==
  IF None \in {offset, text} THEN None ELSE offset + ByteLen(text)

(* A mutant: undoing an insertion removes the range the change replaced.   *)
UndoEntryByRange(doc, en) ==
  LET at      == PositionToOffset(doc.rope, doc.lines, en.start)
      to      == PositionToOffset(doc.rope, doc.lines, en.end)
      current == ValueInRange(doc.rope, doc.lines, en.start, en.end)
  IN  CASE en.kind = "insert" ->
             Applied(doc, en, at, Sliced(doc, at, to), <<>>,
                     LAMBDA d : OffsetToPosition(d.rope, d.lines, at))
        [] en.kind = "delete" ->
             Applied(doc, en, at, at, en.old, LAMBDA d : en.start)
        [] en.kind = "replace" ->
             Applied(doc, en, at, Plus(at, current), en.old,
                     LAMBDA d : OffsetToPosition(d.rope, d.lines, Plus(at, en.old)))

UndoEntry(doc, en) ==
  LET at      == PositionToOffset(doc.rope, doc.lines, en.start)
      current == ValueInRange(doc.rope, doc.lines, en.start, en.end)
  IN  CASE en.kind = "insert" ->
             Applied(doc, en, at, Sliced(doc, at, Plus(at, en.text)), <<>>,
                     LAMBDA d : OffsetToPosition(d.rope, d.lines, at))
        [] en.kind = "delete" ->
             Applied(doc, en, at, at, en.old, LAMBDA d : en.start)
        [] en.kind = "replace" ->
             Applied(doc, en, at, Plus(at, current), en.old,
                     LAMBDA d : OffsetToPosition(d.rope, d.lines, Plus(at, en.old)))

RedoEntry(doc, en) ==
  LET at == PositionToOffset(doc.rope, doc.lines, en.start)
      to == PositionToOffset(doc.rope, doc.lines, en.end)
  IN  CASE en.kind = "insert" ->
             Applied(doc, en, at, at, en.text, LAMBDA d : en.start)
        [] en.kind = "delete" ->
             Applied(doc, en, at, Sliced(doc, at, to), <<>>, LAMBDA d : en.end)
        [] en.kind = "replace" ->
             Applied(doc, en, at, Plus(at, en.old), en.text,
                     LAMBDA d : OffsetToPosition(d.rope, d.lines, Plus(at, en.text)))

(* A transaction is undone from its last entry to its first, redone from   *)
(* the first to the last; the entries that report a change are its event.  *)
Chain(Step(_, _), doc, entries) ==
  LET Next(acc, en) ==
        LET out == Step(acc.doc, en)
        IN  IF acc.panic THEN acc
            ELSE [doc     |-> out.doc, panic |-> out.panic,
                  changes |-> IF out.change = None THEN acc.changes
                              ELSE Append(acc.changes, out.change)]
  IN  FoldLeft(Next, [doc |-> doc, changes |-> <<>>, panic |-> FALSE], entries)

UndoTransaction(doc, entries) == Chain(UndoEntry, doc, Reverse(entries))
RedoTransaction(doc, entries) == Chain(RedoEntry, doc, entries)

(* apply_changes resolves each change against the text its predecessors    *)
(* left, and skips the ones that do not resolve.  A range within the byte  *)
(* length but outside the characters abandons the batch where it stands.   *)
ApplyBatch(doc, changes) ==
  LET Next(acc, ch) ==
        LET s == PositionToOffset(acc.doc.rope, acc.doc.lines, ch.start)
            e == PositionToOffset(acc.doc.rope, acc.doc.lines, ch.end)
            r == Resolved(acc.doc, ch)
            skip == None \in {s, e} \/ s > e \/ e > ByteLen(acc.doc.rope)
        IN  IF acc.abandoned \/ skip THEN acc
            ELSE IF r = None THEN [acc EXCEPT !.abandoned = TRUE]
            ELSE [acc EXCEPT !.doc = r.doc,
                             !.entries = Append(@, EntryFor(ch, r.old)),
                             !.applied = Append(@, ch)]
  IN  FoldLeft(Next, [doc |-> doc, entries |-> <<>>, applied |-> <<>>,
                      abandoned |-> FALSE], changes)

----------------------------------------------------------------------------
Init ==
  \E t \in Contents :
    /\ rope = t /\ saved = t
    /\ line_index = LineStarts(t)
    /\ version_id = 1 /\ alternative_version_id = 1
    /\ is_dirty = FALSE
    /\ eol = DetectEol(t)
    /\ undo_stack = <<>> /\ redo_stack = <<>>
    /\ dirty_line_ranges = <<>>
    /\ history = <<Snapshot(t, 1, FALSE, DetectEol(t))>>

document == Doc(rope, line_index)

SetText(d) ==
  /\ rope' = d.rope
  /\ line_index' = d.lines

VersionBound == version_id < MaxVersion

(* Mutants: the snapshot is taken before the text changes; a buffer with   *)
(* nothing left to undo counts as clean; the version follows the           *)
(* alternative one, which undo and redo leave alone.                       *)
NewVersionEarly ==
  /\ version_id' = version_id + 1
  /\ is_dirty' = TRUE
  /\ history' = RecordSnapshot(history, Snapshot(rope, version_id + 1, TRUE, eol'))

NewVersionClean ==
  /\ version_id' = version_id + 1
  /\ is_dirty' = (undo_stack' # <<>>)
  /\ history' = RecordSnapshot(history, Snapshot(rope', version_id + 1, is_dirty', eol'))

NewVersionAlternative ==
  /\ version_id' = alternative_version_id + 1
  /\ is_dirty' = TRUE
  /\ history' = RecordSnapshot(history, Snapshot(rope', version_id', TRUE, eol'))

(* The version, the dirty flag and the lineage move with every change.     *)
NewVersion ==
  /\ version_id' = version_id + 1
  /\ is_dirty' = TRUE
  /\ history' = RecordSnapshot(history, Snapshot(rope', version_id + 1, TRUE, eol'))

PushTransaction(entries) ==
  /\ undo_stack' = PushUndo(undo_stack, entries)
  /\ redo_stack' = <<>>

(* apply_change returns early, with nothing changed, when the change does  *)
(* not resolve: the action is then disabled.                               *)
ApplyChange(ch) ==
  LET r == Resolved(document, ch)
  IN  /\ VersionBound
      /\ r # None
      /\ Len(r.doc.rope) <= MaxLen
      /\ SetText(r.doc)
      /\ PushTransaction(<<EntryFor(ch, r.old)>>)
      /\ alternative_version_id' = alternative_version_id + 1
      /\ dirty_line_ranges' = Append(dirty_line_ranges, DirtyRange(ch, eol))
      /\ UNCHANGED <<eol, saved>>
      /\ NewVersion

ApplyChanges(changes) ==
  LET b == ApplyBatch(document, changes)
  IN  /\ VersionBound
      /\ Len(b.doc.rope) <= MaxLen
      /\ SetText(b.doc)
      /\ UNCHANGED <<eol, saved>>
      /\ IF b.abandoned \/ b.applied = <<>>
           THEN UNCHANGED <<version_id, alternative_version_id, is_dirty, history,
                            undo_stack, redo_stack, dirty_line_ranges>>
           ELSE /\ PushTransaction(b.entries)
                /\ alternative_version_id' = alternative_version_id + 1
                /\ dirty_line_ranges' = dirty_line_ranges \o
                     [i \in 1..Len(b.applied) |-> DirtyRange(b.applied[i], eol)]
                /\ NewVersion

(* set_value records one replace entry whose range is that of the old      *)
(* text, and panics, with nothing changed, where its end has no position.  *)
SetValue(t) ==
  LET end == OffsetToPosition(rope, line_index, ByteLen(rope))
      all == [start |-> [line |-> 1, column |-> 1],
              end   |-> IF end = None THEN [line |-> 1, column |-> 1] ELSE end,
              text  |-> t]
  IN  /\ VersionBound
      /\ t # rope
      /\ end # Panic
      /\ PushTransaction(<<[EntryFor(all, rope) EXCEPT !.kind = "replace"]>>)
      /\ SetText(Doc(t, LineStarts(t)))
      /\ eol' = DetectEol(t)
      /\ alternative_version_id' = alternative_version_id + 1
      /\ UNCHANGED <<dirty_line_ranges, saved>>
      /\ NewVersion

MarkAsSaved ==
  /\ is_dirty' = FALSE
  /\ alternative_version_id' = version_id
  /\ saved' = rope
  /\ UNCHANGED <<text_vars, undo_vars, version_id, dirty_line_ranges, history>>

(* The transaction changes stacks before its entries are applied; when     *)
(* none of them reports a change, undo returns None and stops there, and   *)
(* so does a panic (the buffer's lock is released without being poisoned). *)
Report(result) ==
  /\ Len(result.doc.rope) <= MaxLen
  /\ SetText(result.doc)
  /\ UNCHANGED <<alternative_version_id, eol, dirty_line_ranges, saved>>
  /\ IF result.panic \/ result.changes = <<>>
       THEN UNCHANGED <<version_id, is_dirty, history>>
       ELSE NewVersion

Undo ==
  /\ VersionBound
  /\ undo_stack # <<>>
  /\ undo_stack' = Front(undo_stack)
  /\ redo_stack' = Append(redo_stack, Last(undo_stack))
  /\ Report(UndoTransaction(document, Last(undo_stack)))

Redo ==
  /\ VersionBound
  /\ redo_stack # <<>>
  /\ redo_stack' = Front(redo_stack)
  /\ undo_stack' = Append(undo_stack, Last(redo_stack))
  /\ Report(RedoTransaction(document, Last(redo_stack)))

ClearDirtyLines ==
  /\ dirty_line_ranges # <<>>
  /\ dirty_line_ranges' = <<>>
  /\ UNCHANGED <<text_vars, undo_vars, version_id, alternative_version_id,
                 is_dirty, history, saved>>

Next ==
  \/ \E ch \in Change : ApplyChange(ch)
  \/ \E batch \in Batches : ApplyChanges(batch)
  \/ \E t \in Contents : SetValue(t)
  \/ MarkAsSaved
  \/ Undo
  \/ Redo
  \/ ClearDirtyLines

Spec == Init /\ [][Next]_vars

----------------------------------------------------------------------------
(* Properties.                                                             *)

Entry == [kind : {"insert", "delete", "replace"}, start : Position,
          end : Position, text : Text, old : Text]

(* Every variable holds a value of its type.                               *)
TypeOK ==
  /\ rope \in Text /\ saved \in Text
  /\ line_index \in Seq(Nat)
  /\ version_id \in Nat \ {0} /\ alternative_version_id \in Nat \ {0}
  /\ is_dirty \in BOOLEAN
  /\ eol \in {"lf", "crlf"}
  /\ undo_stack \in Seq(Seq(Entry)) /\ redo_stack \in Seq(Seq(Entry))
  /\ dirty_line_ranges \in Seq([start : Nat, end : Nat])
  /\ history \in Seq([content : Text, version_id : Nat \ {0},
                      is_dirty : BOOLEAN, eol : {"lf", "crlf"}])

(* The index maintained edit by edit, rescanning only from the edited line *)
(* on (text_buffer.rs, update_line_index), is the one a scan of the whole  *)
(* text would build.                                                       *)
LineIndexCoherent == line_index = LineStarts(rope)

(* The lineage is the last versions, without gap or repetition, and ends   *)
(* with the current one: asking it for any version it still covers finds   *)
(* exactly one snapshot.                                                   *)
LineageContiguous ==
  /\ Len(history) \in 1..MaxHistory
  /\ \A i \in 1..Len(history) :
       history[i].version_id = version_id - Len(history) + i

(* An undo or redo that reports no change: it returns before the version   *)
(* moves, and of a transaction of several changes it may have applied some *)
(* all the same, by an entry that has nothing to report or before a panic. *)
PartlyDone ==
  /\ version_id' = version_id
  /\ \/ Undo /\ Len(Last(undo_stack)) > 1
     \/ Redo /\ Len(Last(redo_stack)) > 1

LineageHasText == SnapshotAtVersion(history, version_id).content = rope

SavedWhenClean == ~is_dirty => rope = saved

(* The newest snapshot of the lineage is the text as it is, and only an    *)
(* undo or redo of several changes that reports nothing can change the     *)
(* text and leave the lineage behind (text_buffer.rs, record_snapshot).    *)
LineageCurrent ==
  LineageHasText /\ [][LineageHasText => LineageHasText' \/ PartlyDone]_vars

(* A buffer that says it is clean holds the text that was last saved, and  *)
(* again only such an undo or redo can end that (undo and redo return      *)
(* before is_dirty is set).                                                *)
CleanMeansSaved ==
  SavedWhenClean /\ [][SavedWhenClean => SavedWhenClean' \/ PartlyDone]_vars

(* The undo and redo stacks together never exceed the configured limit,    *)
(* although redo pushes on the undo stack without trimming it.             *)
UndoBounded ==
  MaxUndo > 0 => Len(undo_stack) + Len(redo_stack) <= MaxUndo

(* No step takes a version back or skips one, and none changes the text    *)
(* without giving it a new version, but for an undo or redo of several     *)
(* changes that reports nothing: a client that compares versions           *)
(* (expected_version, semantic token result ids) sees every other change.  *)
ChangesAreVersioned ==
  [][/\ version_id' \in {version_id, version_id + 1}
     /\ rope' # rope => version_id' = version_id + 1 \/ PartlyDone]_vars

Lines(t) ==
  LET starts == LineStarts(t)
  IN  [i \in 1..Len(starts) |->
         SubSeq(t, starts[i] + 1,
                IF i < Len(starts) THEN starts[i + 1] ELSE Len(t))]

(* The range apply_change records covers what it changed: the lines before *)
(* it are the old ones, and so are the lines after it, counted from the    *)
(* end.  (Texts of one-byte characters; see the runs for line endings.)    *)
DirtyRangeCovers ==
  [][Len(dirty_line_ranges') = Len(dirty_line_ranges) + 1 =>
       LET r   == Last(dirty_line_ranges')
           old == Lines(rope)
           new == Lines(rope')
       IN  /\ \A i \in 1..Min({r.start, Len(old)}) : new[i] = old[i]
           /\ \A i \in (r.end + 1)..Len(new) :
                new[i] = old[Len(old) - (Len(new) - i)]]_vars
==============================================================================
