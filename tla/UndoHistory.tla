----------------------------- MODULE UndoHistory -----------------------------
(***************************************************************************)
(* What the undo stack promises its user, with no offsets and no entries:  *)
(* a present text between the texts undo goes back to and the texts redo   *)
(* returns to.  (buffer/undo.rs: "groups multiple content changes together *)
(* for atomic undo/redo".)                                                 *)
(***************************************************************************)
EXTENDS Sequences, Naturals

CONSTANT Texts

VARIABLES past, present, future

hist == <<past, present, future>>

Init == past = <<>> /\ present \in Texts /\ future = <<>>

(* A new text; the oldest past may be forgotten, the future is.            *)
Edit ==
  /\ present' \in Texts
  /\ \E forgotten \in 0..(Len(past) + 1) :
       past' = SubSeq(Append(past, present), forgotten + 1, Len(past) + 1)
  /\ future' = <<>>

GoBack ==
  /\ past # <<>>
  /\ present' = past[Len(past)]
  /\ past' = SubSeq(past, 1, Len(past) - 1)
  /\ future' = Append(future, present)

GoForward ==
  /\ future # <<>>
  /\ present' = future[Len(future)]
  /\ future' = SubSeq(future, 1, Len(future) - 1)
  /\ past' = Append(past, present)

Next == Edit \/ GoBack \/ GoForward

Spec == Init /\ [][Next]_hist
==============================================================================
