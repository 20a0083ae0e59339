----------------------------- MODULE EditorSync -----------------------------
(***************************************************************************)
(* The web view and the host keep each open document twice: the editor's   *)
(* model (tauri/index.html) and the buffer (host_handlers.rs, main.rs).    *)
(* The view sends what its model went through with apply_edits and saves   *)
(* with save_document; the host answers each apply_edits with an event to  *)
(* all views, the sender included, and a version guard is to keep the      *)
(* sender from applying its own changes again.                             *)
(*                                                                         *)
(* Calls reach the host, and events the view, in the order they were sent. *)
(* Per document only: nothing depends on the order across documents.  The  *)
(* documents are open from the start.  What the guard reads of Monaco's    *)
(* model is its version: one more after each content change, whatever the  *)
(* number of ranges it changes.                                            *)
(***************************************************************************)
EXTENDS Naturals, SequencesExt

CONSTANTS
  Paths,
  Texts,       (* the texts the documents are opened with                   *)
  Edits,       (* what the user may do at once: sequences of changes        *)
  MaxVersion,  (* bound: nobody edits a document at that version            *)
  MaxCalls     (* bound: the calls on their way, per document               *)

Text == Seq(STRING)
Change == [at : Nat, cut : Nat, put : Text]

ASSUME EditorSyncAssumption ==
  /\ Texts \subseteq Text
  /\ Edits \subseteq Seq(Change) \ {<<>>}
  /\ MaxVersion \in Nat /\ MaxCalls \in Nat

VARIABLES
  model,    (* per path, the view's: text, alternative version              *)
  current,  (* state.currentPath                                            *)
  calls,    (* per path: the calls on their way to the host                 *)
  buffer,   (* per path, the host's: text, version, dirty flag              *)
  events,   (* per path: the buffer-content-changed events on their way     *)
  disk      (* per path: the file                                           *)

vars == <<model, current, calls, buffer, events, disk>>
host == <<buffer, disk>>

----------------------------------------------------------------------------
(* Both sides clamp a position to the text.                                *)
Clamp(t, i) == IF i < Len(t) THEN i ELSE Len(t)

Splice(t, ch) ==
  SubSeq(t, 1, Clamp(t, ch.at)) \o ch.put
    \o SubSeq(t, Clamp(t, ch.at + ch.cut) + 1, Len(t))

Spliced(t, edits) == FoldLeft(Splice, t, edits)

(* A text and the version its side knows it under.                         *)
Stand(doc) == [text |-> doc.text, version |-> doc.version]

(* A mutant: versions start at zero.                                       *)
InitFromZero ==
  \E t \in [Paths -> Texts] :
    /\ model = [p \in Paths |-> [text |-> t[p], version |-> 0]]
    /\ current \in Paths
    /\ calls = [p \in Paths |-> <<>>]
    /\ buffer = [p \in Paths |-> [text |-> t[p], version |-> 0, dirty |-> FALSE]]
    /\ events = [p \in Paths |-> <<>>]
    /\ disk = t

Init ==
  \E t \in [Paths -> Texts] :
    /\ model = [p \in Paths |-> [text |-> t[p], version |-> 1]]
    /\ current \in Paths
    /\ calls = [p \in Paths |-> <<>>]
    /\ buffer = [p \in Paths |-> [text |-> t[p], version |-> 1, dirty |-> FALSE]]
    /\ events = [p \in Paths |-> <<>>]
    /\ disk = t

----------------------------------------------------------------------------
(* The view.                                                               *)

(* A call carries the edits, or the text to save; from and to are          *)
(* auxiliary: where the model that made the call, of, stood before and     *)
(* after.                                                                  *)
Call(kind, of, edits, to) ==
  [kind |-> kind, edits |-> edits, of |-> of, from |-> Stand(model[of]), to |-> Stand(to)]

(* A mutant: a call that waits is replaced by the newest.                  *)
SendLatest(p, edits, after) ==
  calls' = [calls EXCEPT ![current] = <<Call("edit", p, edits, after)>>]

(* onDidChangeContent: the handler of every model sends its changes to the *)
(* document that is current.                                               *)
SendEdits(p, edits, after) ==
  calls' = [calls EXCEPT ![current] = Append(@, Call("edit", p, edits, after))]

Edited(m, edits) == [text |-> Spliced(m.text, edits), version |-> m.version + 1]

CanEdit(p) ==
  /\ model[p].version < MaxVersion /\ buffer[p].version < MaxVersion
  /\ Len(calls[p]) < MaxCalls

Type(edits) ==
  LET p     == current
      after == Edited(model[p], edits)
  IN  /\ CanEdit(p)
      /\ model' = [model EXCEPT ![p] = after]
      /\ SendEdits(p, edits, after)
      /\ UNCHANGED <<current, host, events>>

SaveCurrentDocument ==
  /\ Len(calls[current]) < MaxCalls
  /\ calls' = [calls EXCEPT ![current] =
                 Append(@, Call("save", current, <<>>, model[current]))]
  /\ UNCHANGED <<model, current, host, events>>

ActivateTab(p) ==
  /\ p # current
  /\ current' = p
  /\ UNCHANGED <<model, calls, host, events>>

(* A mutant: an event of the version of the model is new.                  *)
IsStaleStrict(p, event) == event.version < model[p].version

(* The version guard of the listener.                                      *)
IsStale(p, event) == event.version <= model[p].version

(* Monaco applies a remote change outside its undo stack; the model's      *)
(* handler runs inside and returns early only if the current document is   *)
(* the one being changed.                                                  *)
ApplyRemote(p, edits) ==
  LET after == Edited(model[p], edits)
  IN  /\ model' = [model EXCEPT ![p] = after]
      /\ IF current = p THEN UNCHANGED calls ELSE SendEdits(p, edits, after)

Receive(p) ==
  /\ events[p] # <<>>
  /\ events' = [events EXCEPT ![p] = Tail(@)]
  /\ IF IsStale(p, Head(events[p]))
       THEN UNCHANGED <<model, calls>>
       ELSE ApplyRemote(p, Head(events[p]).edits)
  /\ UNCHANGED <<current, host>>

----------------------------------------------------------------------------
(* A mutant: each call moves the version once more than it has changes.    *)
HandleEditsBumped(p) ==
  LET call    == Head(calls[p])
      version == buffer[p].version + Len(call.edits) + 1
  IN  /\ calls[p] # <<>>
      /\ call.kind = "edit"
      /\ buffer' = [buffer EXCEPT ![p] =
           [text |-> Spliced(@.text, call.edits), version |-> version, dirty |-> TRUE]]
      /\ events' = [events EXCEPT ![p] =
                      Append(@, [version |-> version, edits |-> call.edits])]
      /\ calls' = [calls EXCEPT ![p] = Tail(@)]
      /\ UNCHANGED <<model, current, disk>>

(* A mutant: an edit leaves the dirty flag as it is.                       *)
HandleEditsClean(p) ==
  LET call    == Head(calls[p])
      version == buffer[p].version + Len(call.edits)
  IN  /\ calls[p] # <<>>
      /\ call.kind = "edit"
      /\ buffer' = [buffer EXCEPT ![p] =
           [text |-> Spliced(@.text, call.edits), version |-> version, dirty |-> @.dirty]]
      /\ events' = [events EXCEPT ![p] =
                      Append(@, [version |-> version, edits |-> call.edits])]
      /\ calls' = [calls EXCEPT ![p] = Tail(@)]
      /\ UNCHANGED <<model, current, disk>>

(* The host.  Each change of an apply_edits is an edit of its own to the   *)
(* buffer, with a version of its own; the event carries the last.          *)
HandleEdits(p) ==
  LET call    == Head(calls[p])
      version == buffer[p].version + Len(call.edits)
  IN  /\ calls[p] # <<>>
      /\ call.kind = "edit"
      /\ buffer' = [buffer EXCEPT ![p] =
           [text |-> Spliced(@.text, call.edits), version |-> version, dirty |-> TRUE]]
      /\ events' = [events EXCEPT ![p] =
                      Append(@, [version |-> version, edits |-> call.edits])]
      /\ calls' = [calls EXCEPT ![p] = Tail(@)]
      /\ UNCHANGED <<model, current, disk>>

(* The content comes with the call; the buffer is marked saved as it is.   *)
HandleSave(p) ==
  LET call == Head(calls[p])
  IN  /\ calls[p] # <<>>
      /\ call.kind = "save"
      /\ disk' = [disk EXCEPT ![p] = call.to.text]
      /\ buffer' = [buffer EXCEPT ![p].dirty = FALSE]
      /\ calls' = [calls EXCEPT ![p] = Tail(@)]
      /\ UNCHANGED <<model, current, events>>

----------------------------------------------------------------------------
Handle(p) == HandleEdits(p) \/ HandleSave(p)

User ==
  \/ \E edits \in Edits : Type(edits)
  \/ SaveCurrentDocument
  \/ \E p \in Paths : ActivateTab(p)

Next ==
  \/ User
  \/ \E p \in Paths : Receive(p)
  \/ \E p \in Paths : Handle(p)

(* Calls are handled and events delivered; nobody has to edit.             *)
Fairness == \A p \in Paths : WF_vars(Receive(p)) /\ WF_vars(Handle(p))

Spec == Init /\ [][Next]_vars /\ Fairness

----------------------------------------------------------------------------
(* Properties.                                                             *)

Place == [text : Text, version : Nat \ {0}]
CallRecord == [kind : {"edit", "save"}, edits : Seq(Change), of : Paths,
               from : Place, to : Place]

(* Every variable holds a value of its type.                               *)
TypeOK ==
  /\ \A p \in Paths :
       /\ model[p] \in Place
       /\ calls[p] \in Seq(CallRecord)
       /\ buffer[p] \in [text : Text, version : Nat \ {0}, dirty : BOOLEAN]
       /\ events[p] \in Seq([version : Nat, edits : Seq(Change)])
       /\ disk[p] \in Text
  /\ current \in Paths

(* Where the host stands after the first n of the calls.                   *)
StandAfter(p, n) == IF n = 0 THEN Stand(buffer[p]) ELSE calls[p][n].to

(* The calls on their way lead from where the host stands to where the     *)
(* view stands, text and version alike: nothing the user did is lost or    *)
(* applied twice, and the two agree whenever nothing is on its way.        *)
CallsConnect ==
  \A p \in Paths :
    /\ \A n \in 1..Len(calls[p]) : calls[p][n].from = StandAfter(p, n - 1)
    /\ StandAfter(p, Len(calls[p])) = Stand(model[p])

(* The events a view gets about its own edits are older than its model, so *)
(* that the guard drops each of them (index.html, "Version guard: skip     *)
(* stale events").                                                         *)
EchoesAreStale ==
  \A p \in Paths : \A i \in 1..Len(events[p]) : IsStale(p, events[p][i])

(* A buffer that is not dirty is what the file holds, although the text    *)
(* that is written comes from the view and the flag that is cleared is the *)
(* host's (host_handlers.rs, save_document).                               *)
CleanMeansOnDisk ==
  \A p \in Paths : ~buffer[p].dirty => disk[p] = buffer[p].text

(* Once the user pauses, view and host hold the same text.                 *)
EventuallyInSync == \A p \in Paths : []<>(model[p].text = buffer[p].text)

(* "Concurrent remote edits on different buffers do not interfere"         *)
(* (ADVERSARIAL_ROADMAP.md, A.6): no document is sent another's changes.   *)
EditsStayHome ==
  \A p \in Paths : \A i \in 1..Len(calls[p]) : calls[p][i].of = p
==============================================================================
