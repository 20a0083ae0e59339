------------------------- MODULE HostDocuments_proof -------------------------
(***************************************************************************)
(* Proofs about the books of the host, for any number of documents, texts  *)
(* and limits.                                                             *)
(***************************************************************************)
EXTENDS HostDocuments, FoldTheorems, SequenceTheorems, TLAPS

BufferRecord == [text : Utf8, version : Nat, dirty : BOOLEAN]

(* The file, the buffer and the view of one document: the view shows what  *)
(* the buffer holds, and a clean buffer is in the file, or a write of it   *)
(* failed; nothing is said of one whose view was not told what happened.   *)
Kept(file, b, shown, is_unseen) ==
  b # None /\ ~is_unseen =>
    /\ shown \in {None, b.text}
    /\ ~b.dirty => file \in {b.text, Unknown}

Shapes ==
  /\ disk = [p \in Paths |-> disk[p]]
  /\ buffer \in [Paths -> {None} \union BufferRecord]
  /\ view \in [Paths -> {None} \union Utf8]
  /\ quota \in [open : Nat, memory : Nat]

AllKept == \A p \in Paths : Kept(disk[p], buffer[p], view[p], p \in unseen)

Inv == Shapes /\ AllKept

----------------------------------------------------------------------------
LEMMA ClosedShape ==
  ASSUME NEW q \in [open : Nat, memory : Nat], NEW size \in Nat
  PROVE  Closed(q, size) \in [open : Nat, memory : Nat]
<1> DEFINE o == IF q.open > 0 THEN q.open - 1 ELSE 0
           m == IF q.memory > size THEN q.memory - size ELSE 0
<1>1. o \in Nat /\ m \in Nat
  OBVIOUS
<1>2. Closed(q, size) = [open |-> o, memory |-> m]
  BY DEF Closed
<1> HIDE DEF o, m
<1> QED BY <1>1, <1>2

(* Sizes are those of texts; a buffer just opened is one.                  *)
LEMMA Sizes ==
  ASSUME NEW text \in Utf8
  PROVE  /\ Size[text] \in Nat /\ text \in Texts /\ text # None
         /\ Fresh(text) \in BufferRecord /\ Fresh(text).text = text
  BY HostDocumentsAssumption DEF HostDocumentsAssumption, Utf8, Fresh, BufferRecord

(* A buffer that moved through texts is at the last of them, dirty.        *)
LEMMA ChangedShape ==
  ASSUME Shapes, NEW p \in Paths, IsOpen(p), NEW texts \in Seq(Utf8), texts # <<>>,
         Changed(p, texts)
  PROVE  \E b \in BufferRecord : /\ b.dirty /\ b.text = Last(texts)
                                 /\ buffer' = [buffer EXCEPT ![p] = b]
<1> DEFINE b == [text |-> Last(texts), version |-> buffer[p].version + Len(texts),
                 dirty |-> TRUE]
<1>1. Len(texts) \in Nat /\ Last(texts) \in Utf8
  BY LenProperties, ElementOfSeq, EmptySeq DEF Last
<1>2. buffer[p].version \in Nat
  BY DEF Shapes, IsOpen, BufferRecord
<1>3. b \in BufferRecord /\ b.dirty /\ b.text = Last(texts)
  BY <1>1, <1>2 DEF BufferRecord
<1>4. buffer' = [buffer EXCEPT ![p] = b]
  BY DEF Changed
<1> QED BY <1>3, <1>4
----------------------------------------------------------------------------
LEMMA InitInv == Init => Inv
  BY HostDocumentsAssumption
     DEF HostDocumentsAssumption, Init, Inv, Shapes, AllKept, Kept

LEMMA OpenDocumentInv ==
  ASSUME Inv, NEW p \in Paths, OpenDocument(p)
  PROVE  Inv'
<1>1. CASE UNCHANGED <<disk, buffer, quota, view, unseen>>
  BY <1>1 DEF Inv, Shapes, AllKept, Kept
<1>2. CASE AnswerOpen(p) /\ view' = [view EXCEPT ![p] = buffer[p].text]
  <2>1. buffer[p].text \in Utf8 /\ UNCHANGED <<disk, buffer, quota, unseen>>
    BY <1>2 DEF AnswerOpen, IsOpen, Inv, Shapes, BufferRecord, told
  <2>2. Shapes'
    BY <1>2, <2>1 DEF Inv, Shapes
  <2>3. ASSUME NEW o \in Paths PROVE Kept(disk'[o], buffer'[o], view'[o], o \in unseen')
    BY <1>2, <2>1 DEF Inv, Shapes, AllKept, Kept
  <2> QED BY <2>2, <2>3 DEF Inv, AllKept
<1>3. CASE OpenFresh(p)
  <2>1. /\ disk[p] \in Utf8 /\ UNCHANGED disk
        /\ buffer' = [buffer EXCEPT ![p] = Fresh(disk[p])]
        /\ quota' = Opened(quota, Size[disk[p]])
        /\ \/ /\ view' = [view EXCEPT ![p] = disk[p]]
              /\ unseen' = unseen \ {p}
           \/ unseen' = unseen \union {p} /\ UNCHANGED view
    BY <1>3 DEF OpenFresh
  <2>2. Fresh(disk[p]) \in BufferRecord /\ Fresh(disk[p]).text = disk[p] /\ Size[disk[p]] \in Nat
    BY <2>1, Sizes
  <2>3. quota' \in [open : Nat, memory : Nat]
    BY <2>1, <2>2 DEF Inv, Shapes, Opened
  <2>4. Shapes'
    BY <2>1, <2>2, <2>3 DEF Inv, Shapes
  <2>5. ASSUME NEW o \in Paths PROVE Kept(disk'[o], buffer'[o], view'[o], o \in unseen')
    BY <2>1, <2>2 DEF Inv, Shapes, AllKept, Kept
  <2> QED BY <2>4, <2>5 DEF Inv, AllKept
<1> QED BY <1>1, <1>2, <1>3 DEF OpenDocument, AnswerOpen, told

(* What a save writes is what the view shows, which is what the buffer     *)
(* holds if the view was told what happened.                               *)
LEMMA SaveDocumentInv ==
  ASSUME Inv, NEW p \in Paths, SaveDocument(p)
  PROVE  Inv'
<1>1. view[p] # None /\ UNCHANGED <<quota, view, unseen>>
  BY DEF SaveDocument, told
<1>2. CASE disk' = [disk EXCEPT ![p] = Unknown] /\ UNCHANGED buffer
  BY <1>1, <1>2 DEF Inv, Shapes, AllKept, Kept
<1>3. CASE /\ disk' = [disk EXCEPT ![p] = view[p]]
           /\ buffer' = IF IsOpen(p) THEN [buffer EXCEPT ![p].dirty = FALSE] ELSE buffer
  <2>1. CASE IsOpen(p)
    <3> DEFINE b == [buffer[p] EXCEPT !.dirty = FALSE]
    <3>1. buffer[p] \in BufferRecord /\ buffer[p] # None
      BY <2>1 DEF Inv, Shapes, IsOpen
    <3>2. b \in BufferRecord /\ b.text = buffer[p].text
      BY <3>1 DEF BufferRecord
    <3>3. buffer' = [buffer EXCEPT ![p] = b]
      BY <1>3, <2>1
    <3> HIDE DEF b
    <3>4. Shapes'
      BY <1>1, <1>3, <3>2, <3>3 DEF Inv, Shapes
    <3>5. p \notin unseen => view[p] = buffer[p].text
      BY <1>1, <3>1 DEF Inv, AllKept, Kept
    <3>6. ASSUME NEW o \in Paths PROVE Kept(disk'[o], buffer'[o], view'[o], o \in unseen')
      BY <1>1, <1>3, <3>2, <3>3, <3>5 DEF Inv, Shapes, AllKept, Kept
    <3> QED BY <3>4, <3>6 DEF Inv, AllKept
  <2>2. CASE ~IsOpen(p)
    <3>1. buffer' = buffer /\ buffer[p] = None
      BY <1>3, <2>2 DEF IsOpen
    <3>2. ASSUME NEW o \in Paths PROVE Kept(disk'[o], buffer'[o], view'[o], o \in unseen')
      BY <1>1, <1>3, <3>1 DEF Inv, Shapes, AllKept, Kept
    <3>3. Shapes'
      BY <1>1, <1>3, <3>1 DEF Inv, Shapes
    <3> QED BY <3>2, <3>3 DEF Inv, AllKept
  <2> QED BY <2>1, <2>2
<1> QED BY <1>2, <1>3 DEF SaveDocument

(* The source is closed before the target is looked for, so that a file    *)
(* saved as itself is opened anew.                                         *)
LEMMA SaveAsInv ==
  ASSUME Inv, NEW source \in Paths, NEW target \in Paths, NEW text \in Utf8,
         SaveAs(source, target, text), quota' = quota
  PROVE  Inv'
<1> DEFINE others == [buffer EXCEPT ![source] = None]
           kept == others[target] # None
<1>1. others \in [Paths -> {None} \union BufferRecord]
  BY DEF Inv, Shapes
<1>2. Fresh(text) \in BufferRecord /\ Fresh(text).text = text
  BY Sizes
<1>3. \A o \in Paths : others[o] = None \/ (o # source /\ others[o] = buffer[o])
  BY DEF Inv, Shapes
<1>4. /\ disk' = [disk EXCEPT ![target] = text]
      /\ buffer' = IF kept THEN others ELSE [others EXCEPT ![target] = Fresh(text)]
      /\ view' = [view EXCEPT ![source] = None, ![target] = text]
      /\ unseen' = IF kept THEN (unseen \ {source}) \union {target}
                           ELSE (unseen \ {source}) \ {target}
  BY DEF SaveAs, Including
<1> HIDE DEF others, kept
<1>5. Shapes'
  BY <1>1, <1>2, <1>4 DEF Inv, Shapes
<1>6. ASSUME NEW o \in Paths PROVE Kept(disk'[o], buffer'[o], view'[o], o \in unseen')
  <2>1. CASE o = target /\ kept
    BY <1>4, <2>1 DEF Kept
  <2>2. CASE o = target /\ ~kept
    BY <1>1, <1>2, <1>4, <2>2 DEF Kept, Inv, Shapes
  <2>3. CASE o # target
    <3>1. buffer'[o] = others[o] /\ disk'[o] = disk[o]
      BY <1>1, <1>4, <2>3 DEF Inv, Shapes
    <3>2. o # source => view'[o] = view[o] /\ (o \in unseen' <=> o \in unseen)
      BY <1>4, <2>3 DEF Inv, Shapes
    <3> QED BY <1>3, <3>1, <3>2 DEF Inv, AllKept, Kept
  <2> QED BY <2>1, <2>2, <2>3
<1> QED BY <1>5, <1>6 DEF Inv, AllKept

LEMMA SaveDocumentAsInv ==
  ASSUME Inv, NEW source \in Paths, NEW target \in Paths, NEW overwrite \in BOOLEAN,
         SaveDocumentAs(source, target, overwrite)
  PROVE  Inv'
<1>1. view[source] \in Utf8 /\ quota' = quota
  BY DEF SaveDocumentAs, Inv, Shapes
<1>2. CASE disk' = [disk EXCEPT ![target] = Unknown] /\ UNCHANGED <<buffer, view, server, told>>
  BY <1>1, <1>2 DEF Inv, Shapes, AllKept, Kept, told
<1>3. CASE SaveAs(source, target, view[source])
  BY <1>1, <1>3, SaveAsInv
<1> QED BY <1>2, <1>3 DEF SaveDocumentAs
----------------------------------------------------------------------------
(* Whatever the last write did to the file of a document that is closed.   *)
LEMMA CloseInv ==
  ASSUME Inv, NEW p \in Paths, Close(p), NEW content,
         disk' = disk \/ disk' = [disk EXCEPT ![p] = content],
         view' = [view EXCEPT ![p] = None]
  PROVE  Inv'
<1>1. /\ buffer' = [buffer EXCEPT ![p] = None]
      /\ unseen' = unseen \ {p}
  BY DEF Close
<1>2. (IF IsOpen(p) THEN Size[buffer[p].text] ELSE 0) \in Nat
  BY Sizes DEF Inv, Shapes, IsOpen, BufferRecord
<1>3. quota' \in [open : Nat, memory : Nat]
  BY <1>2, ClosedShape DEF Close, Inv, Shapes
<1>4. Shapes'
  BY <1>1, <1>3 DEF Inv, Shapes
<1>5. ASSUME NEW o \in Paths PROVE Kept(disk'[o], buffer'[o], view'[o], o \in unseen')
  BY <1>1 DEF Inv, Shapes, AllKept, Kept
<1> QED BY <1>4, <1>5 DEF Inv, AllKept

LEMMA CloseDocumentInv ==
  ASSUME Inv, NEW p \in Paths, NEW save_if_dirty \in BOOLEAN,
         CloseDocument(p, save_if_dirty)
  PROVE  Inv'
<1>1. view' = [view EXCEPT ![p] = None]
  BY DEF CloseDocument
<1>2. CASE Close(p) /\ (disk' = disk \/ disk' = [disk EXCEPT ![p] = buffer[p].text])
  BY <1>1, <1>2, CloseInv
<1>3. CASE disk' = [disk EXCEPT ![p] = Unknown] /\ UNCHANGED <<buffer, quota, told>>
  <2>1. Shapes'
    BY <1>1, <1>3 DEF Inv, Shapes
  <2>2. ASSUME NEW o \in Paths PROVE Kept(disk'[o], buffer'[o], view'[o], o \in unseen')
    BY <1>1, <1>3 DEF Inv, Shapes, AllKept, Kept, told
  <2> QED BY <2>1, <2>2 DEF Inv, AllKept
<1> QED BY <1>2, <1>3 DEF CloseDocument

LEMMA CloseBuffersBatchInv ==
  ASSUME Inv, NEW ps \in SUBSET Paths, CloseBuffersBatch(ps)
  PROVE  Inv'
<1>1. /\ buffer' = [p \in Paths |-> IF p \in ps THEN None ELSE buffer[p]]
      /\ unseen' = unseen \ ps
      /\ UNCHANGED <<disk, quota, view>>
  BY DEF CloseBuffersBatch
<1>2. Shapes'
  BY <1>1 DEF Inv, Shapes
<1>3. ASSUME NEW o \in Paths PROVE Kept(disk'[o], buffer'[o], view'[o], o \in unseen')
  BY <1>1 DEF Inv, Shapes, AllKept, Kept
<1> QED BY <1>2, <1>3 DEF Inv, AllKept

----------------------------------------------------------------------------
(* A view that is told where the buffer went still shows what it holds.    *)
LEMMA FollowedInv ==
  ASSUME Inv, NEW p \in Paths, IsOpen(p), NEW b \in BufferRecord,
         buffer' = [buffer EXCEPT ![p] = b], NEW text \in Utf8, ViewFollows(p, text),
         b.dirty \/ b = buffer[p],
         p \in unseen' \/ b.text = text,
         unseen' \in {unseen, unseen \union {p}}, UNCHANGED <<disk, quota>>
  PROVE  Inv'
<1>1. \E shown \in {None} \union Utf8 : view' = [view EXCEPT ![p] = shown]
  <2>1. CASE view[p] = None
    BY <2>1 DEF ViewFollows, Inv, Shapes
  <2>2. CASE view[p] # None
    BY <2>2 DEF ViewFollows
  <2> QED BY <2>1, <2>2
<1>2. Shapes'
  BY <1>1 DEF Inv, Shapes
<1>3. p \notin unseen' => view'[p] \in {None, b.text}
  <2> SUFFICES ASSUME p \notin unseen' PROVE view'[p] \in {None, b.text}
    OBVIOUS
  <2>1. view[p] \in {None, buffer[p].text} /\ b.text = text
    BY DEF Inv, AllKept, Kept, IsOpen
  <2>2. view' = IF view[p] = None THEN view ELSE [view EXCEPT ![p] = text]
    BY <2>1 DEF ViewFollows
  <2> QED BY <2>1, <2>2 DEF Inv, Shapes
<1>4. ASSUME NEW o \in Paths PROVE Kept(disk'[o], buffer'[o], view'[o], o \in unseen')
  <2>1. CASE o = p
    BY <1>3, <2>1 DEF Inv, Shapes, AllKept, Kept
  <2>2. CASE o # p
    <3>1. view'[o] = view[o] /\ buffer'[o] = buffer[o] /\ (o \in unseen' <=> o \in unseen)
      BY <1>1, <2>2 DEF Inv, Shapes
    <3> QED BY <3>1 DEF Inv, AllKept
  <2> QED BY <2>1, <2>2
<1> QED BY <1>2, <1>4 DEF Inv, AllKept

LEMMA EditsInv ==
  ASSUME Inv, Edits
  PROVE  Inv'
<1>1. ASSUME NEW p \in Paths, NEW texts \in Batches, ApplyEdits(p, texts)
      PROVE  Inv'
  <2>1. texts \in Seq(Utf8) /\ IsOpen(p) /\ UNCHANGED <<disk, quota, unseen>>
    BY <1>1 DEF Batches, ApplyEdits, told
  <2>2. CASE texts = <<>>
    <3>1. buffer[p] \in BufferRecord /\ buffer[p].text \in Utf8
          /\ buffer' = [buffer EXCEPT ![p] = buffer[p]]
      BY <1>1, <2>1, <2>2 DEF ApplyEdits, IsOpen, Inv, Shapes, BufferRecord
    <3>2. ViewFollows(p, buffer[p].text)
      BY <1>1, <2>2 DEF ApplyEdits
    <3> QED BY <2>1, <3>1, <3>2, FollowedInv
  <2>3. CASE texts # <<>>
    <3>1. Changed(p, texts) /\ ViewFollows(p, Last(texts))
      BY <1>1, <2>3 DEF ApplyEdits
    <3>2. PICK b \in BufferRecord : /\ b.dirty /\ b.text = Last(texts)
                                    /\ buffer' = [buffer EXCEPT ![p] = b]
      BY <2>1, <2>3, <3>1, ChangedShape DEF Inv
    <3>3. Last(texts) \in Utf8
      BY <3>2 DEF BufferRecord
    <3> QED BY <2>1, <3>1, <3>2, <3>3, FollowedInv
  <2> QED BY <2>2, <2>3
<1>2. ASSUME NEW p \in Paths, NEW text \in Utf8, NEW reported \in Utf8,
             UndoRedo(p, text, reported)
      PROVE  Inv'
  <2>1. <<text>> \in Seq(Utf8) /\ <<text>> # <<>> /\ Last(<<text>>) = text
    BY DEF Last
  <2>2. IsOpen(p) /\ UNCHANGED <<disk, quota>>
    BY <1>2 DEF UndoRedo
  <2>3. CASE UNCHANGED <<buffer, view, pending, told>>
    BY <2>2, <2>3 DEF Inv, Shapes, AllKept, Kept, told
  <2>4. CASE /\ Changed(p, <<text>>) /\ ViewFollows(p, reported)
             /\ unseen' = IF reported = text THEN unseen ELSE unseen \union {p}
    <3> DEFINE texts == <<text>>
    <3>4. Changed(p, texts) /\ texts \in Seq(Utf8) /\ texts # <<>> /\ Last(texts) = text
      BY <2>1, <2>4
    <3> HIDE DEF texts
    <3>5. \E b \in BufferRecord : /\ b.dirty /\ b.text = Last(texts)
                                  /\ buffer' = [buffer EXCEPT ![p] = b]
      BY <2>2, <3>4, ChangedShape DEF Inv
    <3>1. PICK b \in BufferRecord : /\ b.dirty /\ b.text = text
                                    /\ buffer' = [buffer EXCEPT ![p] = b]
      BY <3>4, <3>5
    <3>2. unseen' \in {unseen, unseen \union {p}} /\ (p \in unseen' \/ text = reported)
      BY <2>4
    <3>3. ViewFollows(p, reported)
      BY <2>4
    <3> QED BY <2>2, <3>1, <3>2, <3>3, FollowedInv
  <2> QED BY <1>2, <2>3, <2>4 DEF UndoRedo
<1>3. ASSUME NEW p \in Paths, NEW text \in Utf8, AgentEdit(p, text)
      PROVE  Inv'
  <2>1. <<text>> \in Seq(Utf8) /\ <<text>> # <<>>
    OBVIOUS
  <2>2. IsOpen(p) /\ Changed(p, <<text>>) /\ unseen' = unseen \union {p}
        /\ UNCHANGED <<disk, quota, view>>
    BY <1>3 DEF AgentEdit
  <2>3. PICK b \in BufferRecord : buffer' = [buffer EXCEPT ![p] = b]
    BY <2>1, <2>2, ChangedShape DEF Inv
  <2>4. Shapes'
    BY <2>2, <2>3 DEF Inv, Shapes
  <2>5. ASSUME NEW o \in Paths PROVE Kept(disk'[o], buffer'[o], view'[o], o \in unseen')
    BY <2>2, <2>3 DEF Inv, Shapes, AllKept, Kept
  <2> QED BY <2>4, <2>5 DEF Inv, AllKept
<1>4. ASSUME NEW p \in Paths, NEW text \in Utf8, TypeIntoClosed(p, text)
      PROVE  Inv'
  <2>1. /\ buffer[p] = None /\ view' = [view EXCEPT ![p] = text]
        /\ UNCHANGED <<disk, buffer, quota, unseen>>
    BY <1>4 DEF TypeIntoClosed, IsOpen, told
  <2>2. Shapes'
    BY <2>1 DEF Inv, Shapes
  <2>3. ASSUME NEW o \in Paths PROVE Kept(disk'[o], buffer'[o], view'[o], o \in unseen')
    BY <2>1 DEF Inv, Shapes, AllKept, Kept
  <2> QED BY <2>2, <2>3 DEF Inv, AllKept
<1> QED BY <1>1, <1>2, <1>3, <1>4 DEF Edits

LEMMA StepInv ==
  ASSUME Inv, [Next]_vars
  PROVE  Inv'
<1>1. CASE Files
  BY <1>1, OpenDocumentInv, SaveDocumentInv, SaveDocumentAsInv, CloseDocumentInv DEF Files
<1>2. CASE UNCHANGED <<disk, buffer, quota, view, unseen>>
  BY <1>2 DEF Inv, Shapes, AllKept, Kept
<1>3. CASE (\E d \in Dirs : SetPrimaryRoot(d)) \/ (\E p \in Paths : SendPending(p))
             \/ UNCHANGED vars
  BY <1>2, <1>3 DEF SetPrimaryRoot, SendPending, vars, told
<1> QED BY <1>1, <1>3, EditsInv, CloseBuffersBatchInv DEF Next

----------------------------------------------------------------------------
(* Changes replayed one after the other: h is the text after each.         *)
Along(h, text, changes) ==
  /\ h[0] = text
  /\ \A i \in 1..Len(changes) : h[i] = Fit(h[i - 1], changes[i])

LEMMA ReplayedAlong ==
  ASSUME NEW text, NEW X, NEW changes \in Seq(X)
  PROVE  \E h : Along(h, text, changes) /\ Replayed(text, changes) = h[Len(changes)]
<1> DEFINE n == Len(changes)
           D == 1..n
           A == {text, Unknown} \union {changes[i].to : i \in D}
           F == [i \in D |-> [a \in A |-> Fit(a, changes[i])]]
           Eq(f) == f = [s \in SUBSET D |->
                           IF s = {} THEN text
                           ELSE Fit(f[s \ {Max(s)}], changes[Max(s)])]
           it == CHOOSE f : Eq(f)
           h == [i \in 0..n |-> it[1..i]]
<1>1. n \in Nat /\ DOMAIN changes = D
  BY LenProperties
<1> HIDE DEF n
<1>2. F \in [D -> [A -> A]]
  BY DEF Fit
<1>3. text \in A
  OBVIOUS
<1>4. Chooses(Latest(n), D) /\ \A i \in D : Max(1..i) = i
  BY <1>1, LatestChooses
<1> HIDE DEF A, F
<1>5. PICK g \in [SUBSET D -> A] : Folds(g, SUBSET D, text, F, Latest(n))
  BY <1>2, <1>3, <1>4, FoldExists
<1>6. Eq(g)
  <2>1. ASSUME NEW s \in SUBSET D, s # {}
        PROVE  g[s] = Fit(g[s \ {Max(s)}], changes[Max(s)])
    <3>1. Max(s) \in D /\ Latest(n)[s] = Max(s)
      BY <1>4, <2>1 DEF Chooses, Latest
    <3>2. g[s] = F[Max(s)][g[s \ {Max(s)}]] /\ g[s \ {Max(s)}] \in A
      BY <1>5, <2>1, <3>1 DEF Folds
    <3> QED BY <3>1, <3>2 DEF F
  <2>2. g[{}] = text
    BY <1>5 DEF Folds
  <2> QED BY <2>1, <2>2
<1>7. Eq(it)
  <2> HIDE DEF Eq
  <2> QED BY <1>6
<1>8. Replayed(text, changes) = it[D]
  BY <1>1 DEF Replayed, FoldLeft, MapThenFoldSet
<1> HIDE DEF it
<1>9. it[{}] = text
  BY <1>7
<1>10. ASSUME NEW i \in D PROVE it[1..i] = Fit(it[1..(i - 1)], changes[i])
  <2>1. 1..i \in SUBSET D /\ 1..i # {} /\ (1..i) \ {i} = 1..(i - 1)
    <3>1. i \in 1..n /\ i \in 1..i
      BY <1>1
    <3>2. \A j \in 1..i : j \in 1..n
      BY <1>1, <3>1
    <3>3. \A j \in Int : (1 <= j /\ j <= i /\ j # i) <=> (1 <= j /\ j <= i - 1)
      BY <1>1, <3>1
    <3> QED BY <3>1, <3>2, <3>3
  <2>2. it[1..i] = Fit(it[(1..i) \ {Max(1..i)}], changes[Max(1..i)])
    BY <1>7, <2>1
  <2> QED BY <1>4, <2>1, <2>2
<1>11. 1..0 = {}
  OBVIOUS
<1>12. Along(h, text, changes)
  BY <1>1, <1>9, <1>10, <1>11 DEF Along, n
<1>13. Replayed(text, changes) = h[n]
  BY <1>1, <1>8
<1> QED BY <1>12, <1>13 DEF n

(* ... which is the only way to replay them.                               *)
LEMMA ReplayedBy ==
  ASSUME NEW text, NEW X, NEW changes \in Seq(X), NEW f, Along(f, text, changes)
  PROVE  Replayed(text, changes) = f[Len(changes)]
<1>1. PICK h : Along(h, text, changes) /\ Replayed(text, changes) = h[Len(changes)]
  BY ReplayedAlong
<1> DEFINE P == {i \in Nat : i <= Len(changes) => h[i] = f[i]}
<1>2. 0 \in P
  BY <1>1 DEF Along
<1>3. ASSUME NEW i \in Nat, i \in P PROVE i + 1 \in P
  <2> SUFFICES ASSUME i + 1 <= Len(changes) PROVE h[i + 1] = f[i + 1]
    OBVIOUS
  <2>1. i + 1 \in 1..Len(changes) /\ (i + 1) - 1 = i /\ i <= Len(changes)
    BY LenProperties
  <2>2. h[i] = f[i]
    BY <1>3, <2>1
  <2>3. h[i + 1] = Fit(h[i], changes[i + 1]) /\ f[i + 1] = Fit(f[i], changes[i + 1])
    BY <1>1, <2>1 DEF Along
  <2> QED BY <2>2, <2>3
<1> HIDE DEF P
<1>4. \A i \in Nat : i \in P
  BY <1>2, <1>3, SetNatInduction
<1> QED BY <1>1, <1>4, LenProperties DEF P

LEMMA ReplayedNone ==
  ASSUME NEW text
  PROVE  Replayed(text, <<>>) = text
<1> DEFINE f == [i \in {0} |-> text]
<1>1. Along(f, text, <<>>)
  BY DEF Along
<1>2. <<>> \in Seq({}) /\ Len(<<>>) = 0
  OBVIOUS
<1> HIDE DEF f
<1>3. Replayed(text, <<>>) = f[0]
  BY <1>1, <1>2, ReplayedBy
<1> QED BY <1>3 DEF f

(* Changes that join others are replayed after them.                       *)
LEMMA ReplayedAfter ==
  ASSUME NEW text, NEW X, NEW first \in Seq(X), NEW rest \in Seq(X)
  PROVE  Replayed(text, first \o rest) = Replayed(Replayed(text, first), rest)
<1> DEFINE m == Len(first)
           n == Len(rest)
<1>1. PICK f : Along(f, text, first) /\ Replayed(text, first) = f[m]
  BY ReplayedAlong
<1>2. PICK g : Along(g, f[m], rest) /\ Replayed(f[m], rest) = g[n]
  BY ReplayedAlong
<1> DEFINE h == [i \in 0..(m + n) |-> IF i <= m THEN f[i] ELSE g[i - m]]
<1>3. /\ m \in Nat /\ n \in Nat
      /\ first \o rest \in Seq(X)
      /\ Len(first \o rest) = m + n
      /\ \A i \in 1..(m + n) : (first \o rest)[i] = IF i <= m THEN first[i] ELSE rest[i - m]
  BY ConcatProperties, LenProperties
<1>4. g[0] = f[m] /\ h[0] = text /\ h[m + n] = g[n]
  BY <1>1, <1>2, <1>3 DEF Along
<1>5. ASSUME NEW i \in 1..(m + n) PROVE h[i] = Fit(h[i - 1], (first \o rest)[i])
  <2>1. CASE i <= m
    <3>1. f[i] = Fit(f[i - 1], first[i])
      BY <1>1, <1>3, <2>1 DEF Along
    <3> QED BY <1>3, <2>1, <3>1
  <2>2. CASE ~(i <= m)
    <3>1. i - m \in 1..n /\ (i - 1) - m = (i - m) - 1
      BY <1>3, <2>2
    <3>2. g[i - m] = Fit(g[(i - m) - 1], rest[i - m])
      BY <1>2, <3>1 DEF Along
    <3>3. h[i] = g[i - m] /\ (first \o rest)[i] = rest[i - m]
      BY <1>3, <2>2
    <3>4. h[i - 1] = g[(i - m) - 1]
      <4>1. CASE i - 1 = m
        BY <1>3, <1>4, <4>1
      <4>2. CASE i - 1 # m
        <5>1. i - 1 \in 0..(m + n) /\ ~(i - 1 <= m)
          BY <1>3, <2>2, <4>2
        <5>2. h[i - 1] = g[(i - 1) - m]
          BY <5>1
        <5> QED BY <3>1, <5>2
      <4> QED BY <4>1, <4>2
    <3> QED BY <3>2, <3>3, <3>4
  <2> QED BY <2>1, <2>2
<1> HIDE DEF h, m, n
<1>6. Along(h, text, first \o rest)
  BY <1>3, <1>4, <1>5 DEF Along
<1>7. Replayed(text, first \o rest) = h[m + n]
  BY <1>3, <1>6, ReplayedBy
<1> QED BY <1>1, <1>2, <1>4, <1>7

(* The steps through some texts lead from the first to the last.           *)
LEMMA ReplayedSteps ==
  ASSUME NEW texts \in Seq(Texts), texts # <<>>
  PROVE  /\ Steps(texts) \in Seq(ChangeRecord)
         /\ Len(Steps(texts)) = Len(texts) - 1
         /\ Replayed(texts[1], Steps(texts)) = Last(texts)
<1> DEFINE n == Len(texts) - 1
           f == [i \in 0..n |-> texts[i + 1]]
<1>1. n \in Nat /\ \A i \in 1..(n + 1) : texts[i] \in Texts
  BY LenProperties, EmptySeq, ElementOfSeq
<1>2. Steps(texts) = [i \in 1..n |-> [from |-> texts[i], to |-> texts[i + 1]]]
  BY DEF Steps
<1>3. Steps(texts) \in [1..n -> ChangeRecord]
  BY <1>1, <1>2 DEF ChangeRecord
<1>4. Steps(texts) \in Seq(ChangeRecord) /\ Len(Steps(texts)) = n
  BY <1>1, <1>3
<1>5. Along(f, texts[1], Steps(texts))
  <2>1. f[0] = texts[1]
    BY <1>1
  <2>2. ASSUME NEW i \in 1..n PROVE f[i] = Fit(f[i - 1], Steps(texts)[i])
    <3>1. f[i] = texts[i + 1] /\ f[i - 1] = texts[i]
      BY <1>1
    <3>2. Steps(texts)[i] = [from |-> texts[i], to |-> texts[i + 1]]
      BY <1>2
    <3> HIDE DEF f
    <3> QED BY <3>1, <3>2 DEF Fit
  <2> HIDE DEF f
  <2> QED BY <1>4, <2>1, <2>2 DEF Along
<1>6. Replayed(texts[1], Steps(texts)) = f[n]
  <2> HIDE DEF f
  <2> QED BY <1>4, <1>5, ReplayedBy
<1>7. f[n] = Last(texts)
  BY <1>1 DEF Last
<1> QED BY <1>4, <1>6, <1>7

----------------------------------------------------------------------------
(* The copy of the language server.  Document and buffer are of their      *)
(* types; the copy of an open buffer whose server was told what happened   *)
(* is the buffer once the changes that wait are replayed, and then has its *)
(* version.                                                                *)
Buffers == [text : Utf8, version : Nat \ {0}, dirty : BOOLEAN]
Waiting == [changes : Seq(ChangeRecord), version : Nat]

Typed ==
  /\ roots \subseteq Dirs
  /\ disk \in [Paths -> Texts \union {None, Unknown}]
  /\ buffer \in [Paths -> {None} \union Buffers]
  /\ server \in [Paths -> {None} \union Copy]
  /\ pending \in [Paths -> Waiting]
  /\ unseen \subseteq Paths /\ untold \subseteq Paths

Matches(b, s, w, is_untold) ==
  b # None /\ ~is_untold =>
    /\ s # None
    /\ Replayed(s.text, w.changes) = b.text
    /\ (IF w.changes = <<>> THEN s.version ELSE w.version) = b.version

Told == \A p \in Paths : Matches(buffer[p], server[p], pending[p], p \in untold)

LEMMA NewCopies ==
  /\ Nothing \in Waiting
  /\ \A text \in Utf8 : /\ Fresh(text) \in Buffers /\ text \in Texts
                        /\ Document(text, 1) \in Copy /\ Document(text, 1) # None
<1>2. \A text \in Utf8 : Document(text, 1) \in Copy /\ Fresh(text) \in Buffers /\ text \in Texts
  BY DEF Document, Copy, Fresh, Buffers, Utf8
<1>3. None \notin Copy
  BY HostDocumentsAssumption DEF Copy
<1>4. Nothing \in Waiting
  BY DEF Nothing, Waiting
<1> QED BY <1>2, <1>3, <1>4

LEMMA FreshMatches ==
  ASSUME NEW text \in Utf8, NEW w \in Waiting, w.changes = <<>>
  PROVE  Matches(Fresh(text), Document(text, 1), w, FALSE)
<1>1. Document(text, 1).text = text /\ Document(text, 1).version = 1
  BY DEF Document
<1>2. Fresh(text).text = text /\ Fresh(text).version = 1
  BY DEF Fresh
<1>3. Replayed(text, <<>>) = text
  BY ReplayedNone
<1> QED BY <1>1, <1>2, <1>3, NewCopies DEF Matches

(* Changes that are queued take the copy where the buffer is.              *)
LEMMA QueuedMatches ==
  ASSUME NEW p \in Paths, Typed, Told, IsOpen(p), NEW texts \in Seq(Utf8), texts # <<>>,
         Changed(p, texts),
         QueueDidChange(p, Steps(<<buffer[p].text>> \o texts), buffer'[p].version)
  PROVE  /\ buffer' \in [Paths -> {None} \union Buffers]
         /\ pending' \in [Paths -> Waiting]
         /\ Matches(buffer'[p], server[p], pending'[p], p \in untold)
         /\ \A o \in Paths \ {p} : buffer'[o] = buffer[o] /\ pending'[o] = pending[o]
<1> DEFINE b == buffer[p]
           w == pending[p]
           now == [text |-> Last(texts), version |-> b.version + Len(texts), dirty |-> TRUE]
           all == <<b.text>> \o texts
           waits == [changes |-> w.changes \o Steps(all), version |-> now.version]
<1>1. b \in Buffers /\ w \in Waiting /\ server[p] \in {None} \union Copy
  BY DEF Typed, IsOpen
<1>2. Len(texts) \in Nat \ {0} /\ Last(texts) \in Utf8
  BY LenProperties, ElementOfSeq, EmptySeq DEF Last
<1>3. now \in Buffers
  BY <1>1, <1>2 DEF Buffers
<1>4. buffer' = [buffer EXCEPT ![p] = now]
  BY DEF Changed
<1>5. buffer'[p] = now
  BY <1>4 DEF Typed
<1>6. pending' = [pending EXCEPT ![p] = waits]
  BY <1>5 DEF QueueDidChange
<1>7. /\ all \in Seq(Texts) /\ all # <<>>
      /\ all[1] = b.text /\ Last(all) = Last(texts) /\ Len(all) = Len(texts) + 1
  <2>1. b.text \in Texts /\ <<b.text>> \in Seq(Texts) /\ texts \in Seq(Texts)
    BY <1>1 DEF Buffers, Utf8
  <2>2. /\ all \in Seq(Texts) /\ Len(all) = 1 + Len(texts)
        /\ \A i \in 1..(1 + Len(texts)) :
             all[i] = IF i <= 1 THEN <<b.text>>[i] ELSE texts[i - 1]
    BY <2>1, ConcatProperties
  <2>3. all[1] = b.text /\ all[1 + Len(texts)] = texts[Len(texts)]
    BY <1>2, <2>2
  <2> HIDE DEF all, b
  <2>4. all # <<>>
    BY <1>2, <2>2
  <2> QED BY <1>2, <2>2, <2>3, <2>4 DEF Last
<1> HIDE DEF all
<1>8. /\ Steps(all) \in Seq(ChangeRecord) /\ Len(Steps(all)) = Len(texts)
      /\ Replayed(b.text, Steps(all)) = Last(texts)
  BY <1>2, <1>7, ReplayedSteps
<1>9. w.changes \in Seq(ChangeRecord) /\ now.version \in Nat
  BY <1>1, <1>3 DEF Waiting, Buffers
<1>10. waits.changes \in Seq(ChangeRecord) /\ waits.changes # <<>>
  <2> DEFINE more == Steps(all)
  <2>1. more \in Seq(ChangeRecord) /\ Len(more) # 0 /\ Len(more) \in Nat
    BY <1>2, <1>8
  <2> HIDE DEF more, w
  <2>2. w.changes \o more \in Seq(ChangeRecord) /\ Len(w.changes \o more) # 0
    BY <1>9, <2>1, ConcatProperties, LenProperties
  <2>3. w.changes \o more # <<>>
    BY <2>2, EmptySeq
  <2> QED BY <2>2, <2>3 DEF more
<1>11. waits \in Waiting
  BY <1>9, <1>10 DEF Waiting
<1>12. Matches(now, server[p], waits, p \in untold)
  <2> SUFFICES ASSUME server[p] # None, p \notin untold
               PROVE  Replayed(server[p].text, waits.changes) = Last(texts)
    BY <1>10, NewCopies DEF Matches, Told, IsOpen
  <2>1. Replayed(server[p].text, w.changes) = b.text
    BY DEF Told, Matches, IsOpen
  <2>2. Replayed(server[p].text, w.changes \o Steps(all)) = Replayed(b.text, Steps(all))
    BY <1>8, <1>9, <2>1, ReplayedAfter
  <2> QED BY <1>8, <2>2
<1> HIDE DEF now, waits
<1> QED BY <1>3, <1>4, <1>6, <1>11, <1>12 DEF Typed

(* Changes that do not fit leave something unknown, all others a text.     *)
LEMMA ReplayedText ==
  ASSUME NEW text \in Texts \union {Unknown}, NEW changes \in Seq(ChangeRecord)
  PROVE  Replayed(text, changes) \in Texts \union {Unknown}
<1>1. PICK h : Along(h, text, changes) /\ Replayed(text, changes) = h[Len(changes)]
  BY ReplayedAlong
<1> DEFINE P == {i \in Nat : i <= Len(changes) => h[i] \in Texts \union {Unknown}}
<1>2. 0 \in P
  BY <1>1 DEF Along
<1>3. ASSUME NEW i \in Nat, i \in P PROVE i + 1 \in P
  <2> SUFFICES ASSUME i + 1 <= Len(changes) PROVE h[i + 1] \in Texts \union {Unknown}
    OBVIOUS
  <2>1. i + 1 \in 1..Len(changes)
    BY LenProperties
  <2>2. changes[i + 1] \in ChangeRecord
    BY <2>1, ElementOfSeq
  <2>3. h[i + 1] = Fit(h[(i + 1) - 1], changes[i + 1])
    BY <1>1, <2>1 DEF Along
  <2> QED BY <2>2, <2>3 DEF Fit, ChangeRecord
<1> HIDE DEF P
<1>4. \A i \in Nat : i \in P
  BY <1>2, <1>3, SetNatInduction
<1> QED BY <1>1, <1>4, LenProperties DEF P

TextInv == Typed /\ Told

LEMMA OpenDocumentTold ==
  ASSUME TextInv, NEW p \in Paths, OpenDocument(p)
  PROVE  TextInv'
<1>1. UNCHANGED roots
  BY DEF OpenDocument
<1>2. CASE UNCHANGED <<disk, buffer, server, pending, told>>
  BY <1>1, <1>2 DEF TextInv, Typed, Told, told
<1>3. CASE OpenFresh(p)
  <2>1. /\ disk[p] \in Utf8
        /\ buffer' = [buffer EXCEPT ![p] = Fresh(disk[p])]
        /\ unseen' \subseteq Paths
        /\ UNCHANGED <<disk, pending>>
    BY <1>3 DEF OpenFresh, TextInv, Typed
  <2>2. CASE /\ server' = [server EXCEPT ![p] = Document(disk[p], 1)]
             /\ untold' = Including(untold, p, IsWaiting(p))
    <3>1. p \notin untold' => Matches(buffer'[p], server'[p], pending'[p], FALSE)
      <4> SUFFICES ASSUME p \notin untold'
                   PROVE  Matches(buffer'[p], server'[p], pending'[p], FALSE)
        OBVIOUS
      <4>1. pending[p] \in Waiting /\ pending[p].changes = <<>>
        BY <2>2 DEF TextInv, Typed, Including, IsWaiting
      <4>2. Matches(Fresh(disk[p]), Document(disk[p], 1), pending[p], FALSE)
        BY <2>1, <4>1, FreshMatches
      <4> QED BY <2>1, <2>2, <4>2 DEF TextInv, Typed
    <3>2. \A o \in Paths \ {p} : o \in untold' <=> o \in untold
      BY <2>2 DEF Including
    <3>3. ASSUME NEW o \in Paths PROVE Matches(buffer'[o], server'[o], pending'[o], o \in untold')
      <4>1. CASE o = p
        BY <3>1, <4>1 DEF Matches
      <4>2. CASE o # p
        BY <2>1, <2>2, <3>2, <4>2 DEF TextInv, Told, Typed
      <4> QED BY <4>1, <4>2
    <3>4. Typed'
      BY <1>1, <2>1, <2>2, NewCopies DEF TextInv, Typed, Including
    <3> QED BY <3>3, <3>4 DEF TextInv, Told
  <2>3. CASE untold' = untold \union {p} /\ UNCHANGED server
    <3>1. ASSUME NEW o \in Paths PROVE Matches(buffer'[o], server'[o], pending'[o], o \in untold')
      <4>1. CASE o = p
        BY <2>3, <4>1 DEF Matches
      <4>2. CASE o # p
        BY <2>1, <2>3, <4>2 DEF TextInv, Told, Typed
      <4> QED BY <4>1, <4>2
    <3>2. Typed'
      BY <1>1, <2>1, <2>3, NewCopies DEF TextInv, Typed
    <3> QED BY <3>1, <3>2 DEF TextInv, Told
  <2> QED BY <1>3, <2>2, <2>3 DEF OpenFresh
<1> QED BY <1>2, <1>3 DEF OpenDocument, AnswerOpen

(* A save changes the file and, at most, the flag.                         *)
LEMMA SavedTold ==
  ASSUME TextInv, NEW p \in Paths,
         NEW content \in Texts \union {Unknown}, disk' = [disk EXCEPT ![p] = content],
         \/ buffer' = buffer
         \/ IsOpen(p) /\ buffer' = [buffer EXCEPT ![p].dirty = FALSE],
         UNCHANGED <<roots, server, pending, told>>
  PROVE  TextInv'
<1>1. disk' \in [Paths -> Texts \union {None, Unknown}]
  BY DEF TextInv, Typed
<1>2. CASE buffer' = buffer
  BY <1>1, <1>2 DEF TextInv, Typed, Told, told
<1>3. CASE IsOpen(p) /\ buffer' = [buffer EXCEPT ![p].dirty = FALSE]
  <2> DEFINE b == [buffer[p] EXCEPT !.dirty = FALSE]
  <2>1. buffer[p] \in Buffers
    BY <1>3 DEF TextInv, Typed, IsOpen
  <2>2. b \in Buffers /\ b.text = buffer[p].text /\ b.version = buffer[p].version
    BY <2>1 DEF Buffers
  <2>3. buffer' = [buffer EXCEPT ![p] = b]
    BY <1>3
  <2> HIDE DEF b
  <2>4. Typed'
    BY <1>1, <2>2, <2>3 DEF TextInv, Typed, told
  <2>5. Matches(b, server[p], pending[p], p \in untold)
    BY <1>3, <2>2 DEF TextInv, Told, Matches, IsOpen
  <2>6. Told'
    BY <2>3, <2>5 DEF TextInv, Told, Typed, told
  <2> QED BY <2>4, <2>6 DEF TextInv
<1> QED BY <1>2, <1>3

LEMMA SaveDocumentTold ==
  ASSUME TextInv, Inv, NEW p \in Paths, SaveDocument(p)
  PROVE  TextInv'
<1>1. view[p] \in Texts /\ UNCHANGED <<roots, server, pending, told>>
  BY DEF SaveDocument, Inv, Shapes, Utf8
<1>2. CASE disk' = [disk EXCEPT ![p] = Unknown] /\ buffer' = buffer
  BY <1>1, <1>2, SavedTold
<1>3. CASE /\ disk' = [disk EXCEPT ![p] = view[p]]
           /\ buffer' = IF IsOpen(p) THEN [buffer EXCEPT ![p].dirty = FALSE] ELSE buffer
  <2>1. buffer' = buffer \/ (IsOpen(p) /\ buffer' = [buffer EXCEPT ![p].dirty = FALSE])
    BY <1>3
  <2> QED BY <1>1, <1>3, <2>1, SavedTold
<1> QED BY <1>2, <1>3 DEF SaveDocument

(* A target that was open keeps its buffer, of which the server was told   *)
(* something else.                                                         *)
LEMMA SaveAsTold ==
  ASSUME TextInv, NEW source \in Paths, NEW target \in Paths, NEW text \in Utf8,
         SaveAs(source, target, text), UNCHANGED <<roots, pending>>
  PROVE  TextInv'
<1> DEFINE others == [buffer EXCEPT ![source] = None]
           kept == others[target] # None
<1>1. others \in [Paths -> {None} \union Buffers]
  BY DEF TextInv, Typed
<1>2. /\ disk' = [disk EXCEPT ![target] = text]
      /\ buffer' = IF kept THEN others ELSE [others EXCEPT ![target] = Fresh(text)]
      /\ server' = [server EXCEPT ![source] = None, ![target] = Document(text, 1)]
      /\ unseen' \subseteq Paths
      /\ untold' = IF kept \/ IsWaiting(target) THEN (untold \ {source}) \union {target}
                   ELSE (untold \ {source}) \ {target}
  BY DEF SaveAs, Including, TextInv, Typed
<1>3. \A o \in Paths : others[o] = None \/ (o # source /\ others[o] = buffer[o])
  BY DEF TextInv, Typed
<1> HIDE DEF others, kept
<1>4. Typed'
  BY <1>1, <1>2, NewCopies DEF TextInv, Typed
<1>5. ASSUME NEW o \in Paths PROVE Matches(buffer'[o], server'[o], pending'[o], o \in untold')
  <2>1. CASE o = target /\ (kept \/ IsWaiting(target))
    BY <1>2, <2>1 DEF Matches
  <2>2. CASE o = target /\ ~(kept \/ IsWaiting(target))
    <3>1. server'[o] = Document(text, 1) /\ buffer'[o] = Fresh(text)
      BY <1>1, <1>2, <2>2 DEF TextInv, Typed
    <3>2. pending'[o] \in Waiting /\ pending'[o].changes = <<>>
      BY <2>2 DEF IsWaiting, TextInv, Typed
    <3>3. Matches(buffer'[o], server'[o], pending'[o], FALSE)
      BY <3>1, <3>2, FreshMatches
    <3> QED BY <3>3 DEF Matches
  <2>3. CASE o # target
    <3>1. buffer'[o] = others[o]
      BY <1>1, <1>2, <2>3
    <3>2. CASE others[o] = None
      BY <3>1, <3>2 DEF Matches
    <3>3. CASE o # source /\ others[o] = buffer[o]
      <4>1. server'[o] = server[o] /\ pending'[o] = pending[o]
            /\ (o \in untold' <=> o \in untold)
        BY <1>2, <2>3, <3>3 DEF TextInv, Typed
      <4> QED BY <3>1, <3>3, <4>1 DEF TextInv, Told
    <3> QED BY <1>3, <3>2, <3>3
  <2> QED BY <2>1, <2>2, <2>3
<1> QED BY <1>4, <1>5 DEF TextInv, Told

LEMMA SaveDocumentAsTold ==
  ASSUME TextInv, Inv, NEW source \in Paths, NEW target \in Paths, NEW overwrite \in BOOLEAN,
         SaveDocumentAs(source, target, overwrite)
  PROVE  TextInv'
<1>1. view[source] \in Utf8 /\ UNCHANGED <<roots, pending>>
  BY DEF SaveDocumentAs, Inv, Shapes
<1>2. CASE disk' = [disk EXCEPT ![target] = Unknown] /\ UNCHANGED <<buffer, view, server, told>>
  BY <1>1, <1>2, SavedTold
<1>3. CASE SaveAs(source, target, view[source])
  BY <1>1, <1>3, SaveAsTold
<1> QED BY <1>2, <1>3 DEF SaveDocumentAs

(* A document that is closed matches whatever its copy is.                 *)
LEMMA ClosedTold ==
  ASSUME TextInv, NEW ps \in SUBSET Paths, NEW copies \in [Paths -> {None} \union Copy],
         \A o \in Paths \ ps : copies[o] = server[o],
         buffer' = [p \in Paths |-> IF p \in ps THEN None ELSE buffer[p]],
         server' = copies, unseen' \subseteq Paths, untold' = untold \ ps,
         disk' \in [Paths -> Texts \union {None, Unknown}], UNCHANGED <<roots, pending>>
  PROVE  TextInv'
<1>1. Typed'
  BY DEF TextInv, Typed
<1>2. Told'
  BY DEF TextInv, Told, Matches
<1> QED BY <1>1, <1>2 DEF TextInv

LEMMA CloseDocumentTold ==
  ASSUME TextInv, NEW p \in Paths, NEW save_if_dirty \in BOOLEAN,
         CloseDocument(p, save_if_dirty)
  PROVE  TextInv'
<1>1. CASE Close(p) /\ (disk' = disk \/ (IsOpen(p) /\ disk' = [disk EXCEPT ![p] = buffer[p].text]))
  <2> DEFINE copies == [server EXCEPT ![p] = None]
  <2>1. buffer' = [o \in Paths |-> IF o \in {p} THEN None ELSE buffer[o]]
    BY <1>1 DEF Close, TextInv, Typed
  <2>2. copies \in [Paths -> {None} \union Copy] /\ \A o \in Paths \ {p} : copies[o] = server[o]
    BY DEF TextInv, Typed
  <2>3. server' = copies /\ unseen' \subseteq Paths /\ untold' = untold \ {p}
        /\ UNCHANGED <<roots, pending>>
    BY <1>1 DEF Close, TextInv, Typed
  <2>4. disk' \in [Paths -> Texts \union {None, Unknown}]
    <3>1. IsOpen(p) => buffer[p].text \in Texts
      BY DEF IsOpen, TextInv, Typed, Buffers, Utf8
    <3> QED BY <1>1, <3>1 DEF TextInv, Typed
  <2> HIDE DEF copies
  <2> QED BY <2>1, <2>2, <2>3, <2>4, ClosedTold
<1>2. CASE disk' = [disk EXCEPT ![p] = Unknown]
           /\ UNCHANGED <<roots, buffer, quota, server, pending, told>>
  BY <1>2, SavedTold
<1> QED BY <1>1, <1>2 DEF CloseDocument

LEMMA OneAfterOne ==
  ASSUME NEW a, NEW b
  PROVE  <<a>> \o <<b>> = <<a, b>>
<1> DEFINE S == {a, b}
<1>1. <<a>> \in Seq(S) /\ <<b>> \in Seq(S) /\ <<a, b>> \in Seq(S)
  OBVIOUS
<1>2. Len(<<a>>) = 1 /\ Len(<<b>>) = 1 /\ Len(<<a, b>>) = 2
  OBVIOUS
<1> HIDE DEF S
<1>3. /\ <<a>> \o <<b>> \in Seq(S)
      /\ Len(<<a>> \o <<b>>) = 2
      /\ \A i \in 1..2 : (<<a>> \o <<b>>)[i] = IF i <= 1 THEN <<a>>[i] ELSE <<b>>[i - 1]
  BY <1>1, <1>2, ConcatProperties
<1>4. (<<a>> \o <<b>>)[1] = a /\ (<<a>> \o <<b>>)[2] = b
  BY <1>3
<1> DEFINE joined == <<a>> \o <<b>>
<1> HIDE DEF joined
<1>5. \A i \in 1..Len(joined) : joined[i] = <<a, b>>[i]
  <2>1. 1..Len(joined) = {1, 2}
    BY <1>3 DEF joined
  <2> QED BY <1>4, <2>1 DEF joined
<1> QED BY <1>1, <1>2, <1>3, <1>5, SeqEqual DEF joined

(* Changes are queued for the server, maybe others than those made.        *)
LEMMA QueuedTold ==
  ASSUME TextInv, NEW p \in Paths, NEW texts \in Seq(Utf8), texts # <<>>, IsOpen(p),
         Changed(p, texts),
         QueueDidChange(p, Steps(<<buffer[p].text>> \o texts), buffer'[p].version),
         UNCHANGED <<roots, disk, server, told>>
  PROVE  TextInv'
<1>1. /\ buffer' \in [Paths -> {None} \union Buffers]
      /\ pending' \in [Paths -> Waiting]
      /\ Matches(buffer'[p], server[p], pending'[p], p \in untold)
      /\ \A o \in Paths \ {p} : buffer'[o] = buffer[o] /\ pending'[o] = pending[o]
  BY QueuedMatches DEF TextInv
<1>2. ASSUME NEW o \in Paths PROVE Matches(buffer'[o], server'[o], pending'[o], o \in untold')
  BY <1>1 DEF TextInv, Told, Typed, told
<1>3. Typed'
  BY <1>1 DEF TextInv, Typed, told
<1> QED BY <1>2, <1>3 DEF TextInv, Told

LEMMA UntoldInv ==
  ASSUME TextInv, NEW p \in Paths, NEW b \in Buffers, buffer' = [buffer EXCEPT ![p] = b],
         pending' \in [Paths -> Waiting],
         \A o \in Paths \ {p} : pending'[o] = pending[o],
         unseen' \subseteq Paths, untold' = untold \union {p}, UNCHANGED <<roots, disk, server>>
  PROVE  TextInv'
<1>1. Typed'
  BY DEF TextInv, Typed
<1>2. ASSUME NEW o \in Paths PROVE Matches(buffer'[o], server'[o], pending'[o], o \in untold')
  <2>1. CASE o = p
    BY <2>1 DEF Matches
  <2>2. CASE o # p
    BY <2>2 DEF TextInv, Told, Typed
  <2> QED BY <2>1, <2>2
<1> QED BY <1>1, <1>2 DEF TextInv, Told

LEMMA OneChanged ==
  ASSUME TextInv, NEW p \in Paths, IsOpen(p), NEW text \in Utf8, Changed(p, <<text>>)
  PROVE  \E b \in Buffers : buffer' = [buffer EXCEPT ![p] = b] /\ buffer'[p] = b
<1> DEFINE b == [text |-> text, version |-> buffer[p].version + 1, dirty |-> TRUE]
<1>1. Last(<<text>>) = text /\ Len(<<text>>) = 1
  BY DEF Last
<1>2. buffer' = [buffer EXCEPT ![p] = b]
  BY <1>1 DEF Changed
<1>3. b \in Buffers
  BY DEF IsOpen, TextInv, Typed, Buffers
<1> HIDE DEF b
<1> QED BY <1>2, <1>3 DEF TextInv, Typed

LEMMA EditsTold ==
  ASSUME TextInv, Edits
  PROVE  TextInv'
<1>1. ASSUME NEW p \in Paths, NEW texts \in Batches, ApplyEdits(p, texts)
      PROVE  TextInv'
  <2>1. texts \in Seq(Utf8) /\ IsOpen(p) /\ UNCHANGED <<roots, disk, server, told>>
    BY <1>1 DEF Batches, ApplyEdits
  <2>2. CASE texts = <<>>
    BY <1>1, <2>1, <2>2 DEF ApplyEdits, TextInv, Typed, Told, told
  <2>3. CASE texts # <<>>
    <3>1. /\ Changed(p, texts)
          /\ QueueDidChange(p, Steps(<<buffer[p].text>> \o texts), buffer'[p].version)
      BY <1>1, <2>3 DEF ApplyEdits
    <3> QED BY <2>1, <2>3, <3>1, QueuedTold
  <2> QED BY <2>2, <2>3
<1>2. ASSUME NEW p \in Paths, NEW text \in Utf8, NEW reported \in Utf8,
             UndoRedo(p, text, reported)
      PROVE  TextInv'
  <2>1. IsOpen(p) /\ UNCHANGED <<roots, disk, server>>
    BY <1>2 DEF UndoRedo
  <2>2. CASE UNCHANGED <<buffer, view, pending, told>>
    BY <2>1, <2>2 DEF TextInv, Typed, Told, told
  <2>3. CASE ~UNCHANGED <<buffer, view, pending, told>>
    <3>1. /\ Changed(p, <<text>>)
          /\ QueueDidChange(p, Steps(<<buffer[p].text, reported>>), buffer'[p].version)
          /\ unseen' = IF reported = text THEN unseen ELSE unseen \union {p}
          /\ untold' = IF reported = text THEN untold ELSE untold \union {p}
      BY <1>2, <2>3 DEF UndoRedo
    <3>2. CASE reported = text
      <4>1. <<text>> \in Seq(Utf8) /\ <<text>> # <<>>
            /\ <<buffer[p].text>> \o <<text>> = <<buffer[p].text, text>>
        BY OneAfterOne
      <4>2. QueueDidChange(p, Steps(<<buffer[p].text>> \o <<text>>), buffer'[p].version)
        BY <3>1, <3>2, <4>1
      <4>3. UNCHANGED told
        BY <3>1, <3>2 DEF told
      <4> QED BY <2>1, <3>1, <4>1, <4>2, <4>3, QueuedTold
    <3>3. CASE reported # text
      <4> DEFINE texts == <<buffer[p].text, reported>>
                 waits == [changes |-> pending[p].changes \o Steps(texts),
                           version |-> buffer'[p].version]
      <4>1. PICK b \in Buffers : buffer' = [buffer EXCEPT ![p] = b] /\ buffer'[p] = b
        BY <2>1, <3>1, OneChanged
      <4>2. Steps(texts) \in Seq(ChangeRecord)
        <5>1. buffer[p].text \in Texts /\ reported \in Texts
          BY <2>1 DEF IsOpen, TextInv, Typed, Buffers, Utf8
        <5>2. texts \in Seq(Texts) /\ texts # <<>>
          BY <5>1
        <5> HIDE DEF texts
        <5> QED BY <5>2, ReplayedSteps
      <4>3. pending[p].changes \in Seq(ChangeRecord)
        BY DEF TextInv, Typed, Waiting
      <4>4. pending[p].changes \o Steps(texts) \in Seq(ChangeRecord)
        BY <4>2, <4>3, ConcatProperties
      <4>5. waits \in Waiting
        BY <4>1, <4>4 DEF Waiting, Buffers
      <4>6. pending' = [pending EXCEPT ![p] = waits]
        BY <3>1 DEF QueueDidChange
      <4> HIDE DEF waits
      <4>7. pending' \in [Paths -> Waiting] /\ \A o \in Paths \ {p} : pending'[o] = pending[o]
        BY <4>5, <4>6 DEF TextInv, Typed
      <4>8. unseen' \subseteq Paths /\ untold' = untold \union {p}
        BY <3>1, <3>3 DEF TextInv, Typed
      <4> QED BY <2>1, <4>1, <4>7, <4>8, UntoldInv
    <3> QED BY <3>2, <3>3
  <2> QED BY <2>2, <2>3
<1>3. ASSUME NEW p \in Paths, NEW text \in Utf8, AgentEdit(p, text)
      PROVE  TextInv'
  <2>1. /\ IsOpen(p) /\ Changed(p, <<text>>)
        /\ unseen' = unseen \union {p} /\ untold' = untold \union {p}
        /\ UNCHANGED <<roots, disk, server, pending>>
    BY <1>3 DEF AgentEdit
  <2>2. PICK b \in Buffers : buffer' = [buffer EXCEPT ![p] = b]
    BY <2>1, OneChanged
  <2>3. unseen' \subseteq Paths /\ pending' \in [Paths -> Waiting]
    BY <2>1 DEF TextInv, Typed
  <2> QED BY <2>1, <2>2, <2>3, UntoldInv
<1>4. ASSUME NEW p \in Paths, NEW text \in Utf8, TypeIntoClosed(p, text)
      PROVE  TextInv'
  BY <1>4 DEF TypeIntoClosed, TextInv, Typed, Told, told
<1> QED BY <1>1, <1>2, <1>3, <1>4 DEF Edits

LEMMA SendPendingTold ==
  ASSUME TextInv, NEW p \in Paths, SendPending(p)
  PROVE  TextInv'
<1> DEFINE text == Replayed(server[p].text, pending[p].changes)
           copy == Document(text, pending[p].version)
<1>1. /\ pending[p].changes # <<>>
      /\ server' = IF server[p] = None THEN server ELSE [server EXCEPT ![p] = copy]
      /\ pending' = [pending EXCEPT ![p] = Nothing]
      /\ UNCHANGED <<roots, disk, buffer, told>>
  BY DEF SendPending, IsWaiting
<1>2. pending[p] \in Waiting /\ server[p] \in {None} \union Copy
  BY DEF TextInv, Typed
<1>3. server[p] # None => copy \in Copy
  <2>1. server[p] # None => text \in Texts \union {Unknown}
    BY <1>2, ReplayedText DEF Waiting, Copy
  <2> QED BY <1>2, <2>1 DEF Document, Copy, Waiting
<1>4. copy.text = text /\ copy.version = pending[p].version
  BY DEF Document
<1>5. Replayed(text, <<>>) = text
  BY ReplayedNone
<1>6. Nothing.changes = <<>>
  BY DEF Nothing
<1>7. server[p] # None => Matches(buffer[p], copy, Nothing, p \in untold)
  <2> SUFFICES ASSUME server[p] # None, buffer[p] # None, p \notin untold
               PROVE  Matches(buffer[p], copy, Nothing, FALSE)
    BY DEF Matches
  <2>1. text = buffer[p].text /\ pending[p].version = buffer[p].version
    BY <1>1 DEF TextInv, Told, Matches
  <2>2. copy # None
    BY <1>3, HostDocumentsAssumption DEF Copy
  <2> HIDE DEF copy, text
  <2> QED BY <1>4, <1>5, <1>6, <2>1, <2>2 DEF Matches
<1>8. server[p] = None => Matches(buffer[p], server[p], Nothing, p \in untold)
  BY DEF TextInv, Told, Matches
<1> HIDE DEF copy, text
<1>9. Typed'
  BY <1>1, <1>3, NewCopies DEF TextInv, Typed, told
<1>10. Told'
  BY <1>1, <1>7, <1>8 DEF TextInv, Told, Typed, told
<1> QED BY <1>9, <1>10 DEF TextInv

LEMMA TextStep ==
  ASSUME TextInv, Inv, [Next]_vars
  PROVE  TextInv'
<1>1. CASE Files
  BY <1>1, OpenDocumentTold, SaveDocumentTold, SaveDocumentAsTold, CloseDocumentTold DEF Files
<1>2. ASSUME NEW d \in Dirs, SetPrimaryRoot(d) PROVE TextInv'
  BY <1>2 DEF SetPrimaryRoot, TextInv, Typed, Told, told
<1>3. ASSUME NEW ps \in SUBSET Paths, CloseBuffersBatch(ps) PROVE TextInv'
  BY <1>3, ClosedTold DEF CloseBuffersBatch, TextInv, Typed
<1>4. CASE UNCHANGED vars
  BY <1>4 DEF vars, told, TextInv, Typed, Told
<1> QED BY <1>1, <1>2, <1>3, <1>4, EditsTold, SendPendingTold DEF Next

LEMMA TextInit == Init => TextInv
  BY NewCopies, HostDocumentsAssumption
     DEF HostDocumentsAssumption, Init, TextInv, Typed, Told, Matches

----------------------------------------------------------------------------
(* A clean buffer holds what is in its file, but for writes that failed,   *)
(* until an agent edits it, an undo misreports, its file goes while it is  *)
(* opened or another document is saved as it (host_handlers.rs,            *)
(* save_document and save_document_as, which write what the view shows).   *)
THEOREM CleanStaysOnDisk == Spec => []CleanMeansOnDisk
<1>1. Inv => CleanMeansOnDisk
  BY DEF Inv, AllKept, Kept, CleanMeansOnDisk, IsOpen
<1>2. Inv /\ [Next]_vars => Inv'
  BY StepInv
<1> QED BY InitInv, <1>1, <1>2, PTL DEF Spec

(* The texts and copies of documents: every change to a buffer is sent or  *)
(* waits, or the document is among those of which the server was told      *)
(* something else.                                                         *)
THEOREM CopiesMatch == Spec => [](Inv /\ TextInv)
<1>1. Inv /\ TextInv /\ [Next]_vars => (Inv /\ TextInv)'
  BY StepInv, TextStep
<1>2. Init => Inv /\ TextInv
  BY InitInv, TextInit
<1> QED BY <1>1, <1>2, PTL DEF Spec

(* The language server has an open buffer as it is, once the changes that  *)
(* wait are replayed to it, and knows its version when none waits          *)
(* (queue_did_change, did_open); until an agent edits it, an undo          *)
(* misreports, it is opened while changes wait or its file goes, or        *)
(* another document is saved as it.                                        *)
THEOREM ServerStaysInStep == Spec => []ServerInStep
<1>1. TextInv => ServerInStep
  BY DEF TextInv, Told, Matches, ServerInStep, IsOpen, IsWaiting
<1> QED BY <1>1, CopiesMatch, PTL

(* Every variable of the host's books holds a value of its type.           *)
THEOREM TypeCorrect == Spec => []TypeOK
<1>1. Inv /\ TextInv => TypeOK
  BY DEF Inv, Shapes, TextInv, Typed, TypeOK, Buffers, Waiting
<1> QED BY <1>1, CopiesMatch, PTL
===============================================================================
