---------------------------- MODULE HostDocuments ----------------------------
(***************************************************************************)
(* The document commands of the host (main.rs, host_handlers.rs) and the   *)
(* six books they keep of a document: the file, the buffer in the          *)
(* registry, the quota of the sandbox, the text the web view shows, the    *)
(* copy of the language server and the changes waiting for it.             *)
(*                                                                         *)
(* Commands run one after the other on the main thread, a debounce task    *)
(* sends waiting changes between any two (DidChange has its locks).  The   *)
(* view has caught up before the next command (EditorSync has its lag).  A *)
(* text is a value with a size; a change leads from one text to another    *)
(* and does not fit a third.  The default principal is granted every       *)
(* permission the commands check, so that no check refuses.                *)
(***************************************************************************)
EXTENDS Naturals, SequencesExt

CONSTANTS
  Paths,
  Dirs,        (* the directories the documents are in                      *)
  DirOf,       (* the directory of a path                                   *)
  Home,        (* the directory the program is started in                   *)
  Texts,
  Binary,      (* the texts that are not UTF-8                              *)
  Size,        (* the bytes of a text                                       *)
  MaxOpen,     (* max_open_buffers                                          *)
  MaxFile,     (* max_file_size_bytes                                       *)
  MaxMemory,   (* max_total_memory_bytes                                    *)
  MaxVersion,  (* bound, per path: the last version an edit leads to        *)
  MaxBatch,    (* bound: the changes of one apply_edits                     *)
  MaxWaiting,  (* bound: the changes that wait, per path                    *)
  None,        (* no file, no buffer, no document                           *)
  Unknown      (* what a write that failed, or a change that does not fit,
                  leaves                                                    *)

ASSUME HostDocumentsAssumption ==
  /\ DirOf \in [Paths -> Dirs] /\ Home \in Dirs
  /\ Binary \subseteq Texts
  /\ Size \in [Texts -> Nat]
  /\ MaxOpen \in Nat /\ MaxFile \in Nat /\ MaxMemory \in Nat
  /\ MaxVersion \in [Paths -> Nat] /\ MaxBatch \in Nat \ {0} /\ MaxWaiting \in Nat
  /\ None \notin Texts \union {Unknown} /\ Unknown \notin Texts
  /\ None \notin [text : Texts \union {Unknown}, version : Nat]

VARIABLES
  roots,    (* the directories that are workspace roots                     *)
  disk,     (* per path: the file                                           *)
  buffer,   (* per path: the buffer: text, version, dirty flag              *)
  quota,    (* the sandbox's count of buffers and bytes                     *)
  view,     (* per path: the text a tab of the web view shows               *)
  server,   (* per path: what the language server was told: text, version   *)
  pending,  (* per path: the changes that wait, the last version            *)
  unseen,   (* auxiliary: paths whose view was not told what happened       *)
  untold    (* auxiliary: paths whose server was not told what happened     *)

told == <<unseen, untold>>
vars == <<roots, disk, buffer, quota, view, server, pending, told>>

Utf8 == Texts \ Binary
IsOpen(p) == buffer[p] # None

(* validate_read_path, validate_write_path: a path is under some root.     *)
UnderRoot(p) == DirOf[p] \in roots

Fresh(text) == [text |-> text, version |-> 1, dirty |-> FALSE]
Document(text, version) == [text |-> text, version |-> version]

Nothing == [changes |-> <<>>, version |-> 0]
IsWaiting(p) == pending[p].changes # <<>>

Init ==
  /\ roots = {Home}
  /\ disk \in [Paths -> Texts \union {None}]
  /\ buffer = [p \in Paths |-> None]
  /\ quota = [open |-> 0, memory |-> 0]
  /\ view = [p \in Paths |-> None]
  /\ server = [p \in Paths |-> None]
  /\ pending = [p \in Paths |-> Nothing]
  /\ unseen = {}
  /\ untold = {}

----------------------------------------------------------------------------
(* The sandbox's quota (sandbox.rs).                                       *)

CanOpen(size) ==
  /\ quota.open < MaxOpen
  /\ size <= MaxFile
  /\ quota.memory + size <= MaxMemory

Opened(q, size) == [open |-> q.open + 1, memory |-> q.memory + size]

(* A mutant: a buffer that is not open is counted back too.                *)
ClosedBelowZero(q, size) == [open |-> q.open - 1, memory |-> q.memory - size]

Closed(q, size) ==
  [open   |-> IF q.open > 0 THEN q.open - 1 ELSE 0,
   memory |-> IF q.memory > size THEN q.memory - size ELSE 0]

----------------------------------------------------------------------------
(* set_primary_root: the old roots stay.  Which of them is the primary one *)
(* makes no difference to the commands below.                              *)
SetPrimaryRoot(d) ==
  /\ roots' = roots \union {d}
  /\ UNCHANGED <<disk, buffer, quota, view, server, pending, told>>

Including(ps, p, condition) == IF condition THEN ps \union {p} ELSE ps \ {p}

(* open_document of a path that is open answers from the buffer, if it can *)
(* stat the file.                                                          *)
AnswerOpen(p) ==
  /\ IsOpen(p)
  /\ \/ UNCHANGED view
     \/ view' = [view EXCEPT ![p] = buffer[p].text]
  /\ UNCHANGED <<disk, buffer, quota, server, pending, told>>

(* One that is not is read, weighed, opened and booked, and announced if   *)
(* the file can be stat'ed still.  Changes that wait from before its last  *)
(* close are not for the text that is announced.                           *)
OpenFresh(p) ==
  /\ ~IsOpen(p) /\ disk[p] \in Utf8 /\ CanOpen(Size[disk[p]])
  /\ buffer' = [buffer EXCEPT ![p] = Fresh(disk[p])]
  /\ quota' = Opened(quota, Size[disk[p]])
  /\ \/ /\ server' = [server EXCEPT ![p] = Document(disk[p], 1)]
        /\ view' = [view EXCEPT ![p] = disk[p]]
        /\ unseen' = unseen \ {p}
        /\ untold' = Including(untold, p, IsWaiting(p))
     \/ /\ unseen' = unseen \union {p}
        /\ untold' = untold \union {p}
        /\ UNCHANGED <<server, view>>
  /\ UNCHANGED <<disk, pending>>

(* Nothing happens if the file is missing, too large or not UTF-8.         *)
OpenDocument(p) ==
  /\ UnderRoot(p)
  /\ \/ AnswerOpen(p)
     \/ OpenFresh(p)
     \/ /\ ~IsOpen(p)
        /\ disk[p] \in Utf8 => ~CanOpen(Size[disk[p]])
        /\ UNCHANGED <<disk, buffer, quota, view, server, pending, told>>
  /\ UNCHANGED roots

(* The content written is what the view shows; the buffer, whatever it     *)
(* holds, counts as saved.  A write that fails leaves the buffer.          *)
SaveDocument(p) ==
  /\ UnderRoot(p) /\ view[p] # None
  /\ \/ /\ disk' = [disk EXCEPT ![p] = view[p]]
        /\ buffer' = IF IsOpen(p) THEN [buffer EXCEPT ![p].dirty = FALSE] ELSE buffer
     \/ /\ disk' = [disk EXCEPT ![p] = Unknown]
        /\ UNCHANGED buffer
  /\ UNCHANGED <<roots, quota, view, server, pending, told>>

(* save_document_as writes what the view shows, closes the source in the   *)
(* registry and opens the target, which keeps the buffer it has; the quota *)
(* is not touched.  The content came as a string, so that it is UTF-8.     *)
SaveAs(source, target, text) ==
  LET others == [buffer EXCEPT ![source] = None]
      kept   == others[target] # None
  IN  /\ disk' = [disk EXCEPT ![target] = text]
      /\ buffer' = IF kept THEN others ELSE [others EXCEPT ![target] = Fresh(text)]
      /\ view' = [view EXCEPT ![source] = None, ![target] = text]
      /\ server' = [server EXCEPT ![source] = None, ![target] = Document(text, 1)]
      /\ unseen' = Including(unseen \ {source}, target, kept)
      /\ untold' = Including(untold \ {source}, target, kept \/ IsWaiting(target))

SaveDocumentAs(source, target, overwrite) ==
  /\ UnderRoot(target) /\ view[source] # None
  /\ disk[target] = None \/ overwrite
  /\ \/ SaveAs(source, target, view[source])
     \/ /\ disk' = [disk EXCEPT ![target] = Unknown]
        /\ UNCHANGED <<buffer, view, server, told>>
  /\ UNCHANGED <<roots, quota, pending>>

----------------------------------------------------------------------------
(* close_document releases the size the buffer has by then, or a buffer    *)
(* of no size if none is open, and leaves the waiting changes waiting.     *)
Close(p) ==
  /\ buffer' = [buffer EXCEPT ![p] = None]
  /\ quota' = Closed(quota, IF IsOpen(p) THEN Size[buffer[p].text] ELSE 0)
  /\ server' = [server EXCEPT ![p] = None]
  /\ unseen' = unseen \ {p}
  /\ untold' = untold \ {p}
  /\ UNCHANGED <<roots, pending>>

(* The view drops its tab whatever the answer is.                          *)
CloseDocument(p, save_if_dirty) ==
  /\ view' = [view EXCEPT ![p] = None]
  /\ IF save_if_dirty /\ IsOpen(p) /\ buffer[p].dirty
       THEN /\ UnderRoot(p)
            /\ \/ /\ disk' = [disk EXCEPT ![p] = buffer[p].text]
                  /\ Close(p)
               \/ /\ disk' = [disk EXCEPT ![p] = Unknown]
                  /\ UNCHANGED <<roots, buffer, quota, server, pending, told>>
       ELSE Close(p) /\ UNCHANGED disk

(* close_buffers_batch tells neither the server nor the sandbox nor the    *)
(* view.                                                                   *)
CloseBuffersBatch(ps) ==
  /\ buffer' = [p \in Paths |-> IF p \in ps THEN None ELSE buffer[p]]
  /\ unseen' = unseen \ ps
  /\ untold' = untold \ ps
  /\ UNCHANGED <<roots, disk, quota, view, server, pending>>

----------------------------------------------------------------------------
Steps(texts) == [i \in 1..Len(texts) - 1 |-> [from |-> texts[i], to |-> texts[i + 1]]]

(* A mutant: the changes replace those that wait.                          *)
QueueOnlyLast(p, changes, version) ==
  /\ Len(pending[p].changes) + Len(changes) <= MaxWaiting
  /\ pending' = [pending EXCEPT ![p] = [changes |-> changes, version |-> version]]

(* queue_did_change: the changes join those that wait, the version         *)
(* replaces the version they would be sent under.                          *)
QueueDidChange(p, changes, version) ==
  /\ Len(pending[p].changes) + Len(changes) <= MaxWaiting
  /\ pending' = [pending EXCEPT ![p] =
                   [changes |-> @.changes \o changes, version |-> version]]

(* A mutant: the flag of before stays.                                     *)
ChangedQuietly(p, texts) ==
  LET version == buffer[p].version + Len(texts)
  IN  /\ version <= MaxVersion[p]
      /\ buffer' = [buffer EXCEPT ![p].text = Last(texts), ![p].version = version]

(* The buffer of p moves through the texts.                                *)
Changed(p, texts) ==
  LET version == buffer[p].version + Len(texts)
  IN  /\ version <= MaxVersion[p]
      /\ buffer' = [buffer EXCEPT ![p] =
                      [text |-> Last(texts), version |-> version, dirty |-> TRUE]]

(* A view that shows what the buffer holds goes where it is told; in any   *)
(* other the same changes lead anywhere.                                   *)
ViewFollows(p, text) ==
  \/ /\ view[p] \in {None, buffer[p].text}
     /\ view' = IF view[p] = None THEN view ELSE [view EXCEPT ![p] = text]
  \/ /\ view[p] \notin {None, buffer[p].text}
     /\ \E other \in Utf8 : view' = [view EXCEPT ![p] = other]

(* apply_edits, of what was typed into the view: texts are those the       *)
(* buffer goes through, one per change that is not refused; nothing is     *)
(* queued if all are.                                                      *)
ApplyEdits(p, texts) ==
  /\ IsOpen(p) /\ view[p] # None
  /\ IF texts = <<>>
       THEN /\ ViewFollows(p, buffer[p].text)
            /\ UNCHANGED <<buffer, pending>>
       ELSE /\ Changed(p, texts)
            /\ QueueDidChange(p, Steps(<<buffer[p].text>> \o texts), buffer'[p].version)
            /\ ViewFollows(p, Last(texts))
  /\ UNCHANGED <<roots, disk, quota, server, told>>

(* Typed into a view whose buffer was closed: the host refuses it all.     *)
TypeIntoClosed(p, text) ==
  /\ ~IsOpen(p) /\ view[p] # None
  /\ view' = [view EXCEPT ![p] = text]
  /\ UNCHANGED <<roots, disk, buffer, quota, server, pending, told>>

(* undo and redo find something to go back to only in a buffer that was    *)
(* edited.  The server and the view are told the changes it reports, which *)
(* may lead to another text than what it did (the README tells when).      *)
UndoRedo(p, text, reported) ==
  /\ IsOpen(p)
  /\ \/ UNCHANGED <<buffer, view, pending, told>>
     \/ /\ buffer[p].version > 1
        /\ Changed(p, <<text>>)
        /\ QueueDidChange(p, Steps(<<buffer[p].text, reported>>), buffer'[p].version)
        /\ ViewFollows(p, reported)
        /\ unseen' = IF reported = text THEN unseen ELSE unseen \union {p}
        /\ untold' = IF reported = text THEN untold ELSE untold \union {p}
  /\ UNCHANGED <<roots, disk, quota, server>>

(* A tool of an agent edits a buffer (AgentTools): nothing is queued for   *)
(* the server and the view hears nothing.                                  *)
AgentEdit(p, text) ==
  /\ IsOpen(p)
  /\ Changed(p, <<text>>)
  /\ unseen' = unseen \union {p}
  /\ untold' = untold \union {p}
  /\ UNCHANGED <<roots, disk, quota, view, server, pending>>

----------------------------------------------------------------------------
Fit(text, change) == IF text = change.from THEN change.to ELSE Unknown
Replayed(text, changes) == FoldLeft(Fit, text, changes)

(* A debounce task sends what waits; a server without the document has     *)
(* nothing to apply it to.                                                 *)
SendPending(p) ==
  LET text == Replayed(server[p].text, pending[p].changes)
  IN  /\ IsWaiting(p)
      /\ server' = IF server[p] = None THEN server
                   ELSE [server EXCEPT ![p] = Document(text, pending[p].version)]
      /\ pending' = [pending EXCEPT ![p] = Nothing]
      /\ UNCHANGED <<roots, disk, buffer, quota, view, told>>

----------------------------------------------------------------------------
Batches == UNION {[1..n -> Utf8] : n \in 0..MaxBatch}

Files ==
  \E p \in Paths :
    \/ OpenDocument(p)
    \/ SaveDocument(p)
    \/ \E target \in Paths, overwrite \in BOOLEAN : SaveDocumentAs(p, target, overwrite)
    \/ \E save_if_dirty \in BOOLEAN : CloseDocument(p, save_if_dirty)

Edits ==
  \E p \in Paths :
    \/ \E texts \in Batches : ApplyEdits(p, texts)
    \/ \E text, reported \in Utf8 : UndoRedo(p, text, reported)
    \/ \E text \in Utf8 : AgentEdit(p, text) \/ TypeIntoClosed(p, text)

Next ==
  \/ \E d \in Dirs : SetPrimaryRoot(d)
  \/ Files
  \/ Edits
  \/ \E ps \in SUBSET Paths : CloseBuffersBatch(ps)
  \/ \E p \in Paths : SendPending(p)

Spec == Init /\ [][Next]_vars

----------------------------------------------------------------------------
(* Properties.                                                             *)

Copy == [text : Texts \union {Unknown}, version : Nat]
ChangeRecord == [from : Texts, to : Texts]

(* Every variable holds a value of its type.                               *)
TypeOK ==
  /\ roots \subseteq Dirs
  /\ disk \in [Paths -> Texts \union {None, Unknown}]
  /\ \A p \in Paths :
       /\ buffer[p] \in {None} \union [text : Utf8, version : Nat \ {0}, dirty : BOOLEAN]
       /\ view[p] \in {None} \union Utf8
       /\ server[p] \in {None} \union Copy
       /\ pending[p] \in [changes : Seq(ChangeRecord), version : Nat]
  /\ quota \in [open : Nat, memory : Nat]
  /\ unseen \subseteq Paths /\ untold \subseteq Paths

(* The language server was told of every open buffer, and its copy with    *)
(* the waiting changes applied is the buffer; with none waiting it also    *)
(* knows the buffer's version (host_handlers.rs, queue_did_change and      *)
(* did_open).  Not so, until the next close, a document an agent edited,   *)
(* an undo misreported, that was opened while changes waited or with its   *)
(* file gone by then, or that another was saved as.                        *)
ServerInStep ==
  \A p \in Paths : IsOpen(p) /\ p \notin untold =>
    /\ server[p] # None
    /\ Replayed(server[p].text, pending[p].changes) = buffer[p].text
    /\ ~IsWaiting(p) => server[p].version = buffer[p].version

(* A buffer that is not dirty is what the file holds, unless a save of it  *)
(* failed half-way (host_handlers.rs, save_document and save_document_as,  *)
(* which write what the view shows).  Not so, until the next close, a      *)
(* document an agent edited, an undo misreported, that was opened with its *)
(* file gone by then, or that another was saved as.                        *)
CleanMeansOnDisk ==
  \A p \in Paths :
    IsOpen(p) /\ ~buffer[p].dirty /\ p \notin unseen =>
      disk[p] \in {buffer[p].text, Unknown}
==============================================================================
