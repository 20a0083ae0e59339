---------------------------- MODULE BufferClients ----------------------------
(***************************************************************************)
(* A text buffer together with its user, who expects undo to bring back    *)
(* the texts of the past.                                                  *)
(***************************************************************************)
EXTENDS TextBuffer

CONSTANT Kinds   (* which of "insert", "delete", "replace", "clamped" edits
                    the client makes                                         *)

ASSUME KindsAssumption == Kinds \subseteq {"insert", "delete", "replace", "clamped"}

VARIABLES past, future  (* auxiliary: the texts before and after the present one *)

clients == <<past, future>>
allVars == <<vars, clients>>

(* A position names a place of the text exactly unless its column is past  *)
(* the end of the line, where the buffer clamps it.                        *)
IsExact(pos) ==
  /\ pos.line <= Len(line_index)
  /\ pos.column <= Len(LineText(rope, line_index, pos.line)) + 1

EditKind(ch) ==
  IF ~(IsExact(ch.start) /\ IsExact(ch.end)) THEN "clamped"
  ELSE EntryFor(ch, Resolved(document, ch).old).kind

CInit ==
  /\ Init
  /\ past = <<>> /\ future = <<>>

Remember ==
  /\ LET pushed == Append(past, rope)
     IN  past' = SubSeq(pushed, Len(pushed) - Len(undo_stack') + 1, Len(pushed))
  /\ future' = <<>>

Edit(ch) ==
  /\ ApplyChange(ch)
  /\ EditKind(ch) \in Kinds
  /\ Remember

UndoEdit ==
  /\ Undo
  /\ past' = Front(past)
  /\ future' = Append(future, rope)

RedoEdit ==
  /\ Redo
  /\ future' = Front(future)
  /\ past' = Append(past, rope)

Save == MarkAsSaved /\ UNCHANGED clients

CNext ==
  \/ \E ch \in Change : Edit(ch)
  \/ UndoEdit
  \/ RedoEdit
  \/ Save

CSpec == CInit /\ [][CNext]_allVars

----------------------------------------------------------------------------
History == INSTANCE UndoHistory
             WITH Texts <- Text, past <- past, present <- rope, future <- future

(* The buffer implements the undo history: an undo brings back the text    *)
(* before the last edit still on the stack, a redo the text after it, and  *)
(* an edit forgets what was undone (text_buffer.rs, undo and redo).        *)
UndoRestores == History!Spec
==============================================================================
