-------------------------- MODULE EditorSync_proof --------------------------
(***************************************************************************)
(* Proofs about the web view and the host: as long as each edit is one     *)
(* change, the two keep the same versions of the same texts, however many  *)
(* documents there are and however far the host lags behind.  With more    *)
(* changes to an edit this is false (run misdirected_edits).               *)
(*                                                                         *)
(* For this the texts stay untyped and the splicing unopened: it only      *)
(* matters that both sides do the same.  The last section types them, for  *)
(* edits of any number of changes.                                         *)
(***************************************************************************)
EXTENDS EditorSync, FoldTheorems, TLAPS

OneChangePerEdit == \A edits \in Edits : Len(edits) = 1

(* What a call says of where the model was and is.                         *)
Honest(call) ==
  \/ /\ call.kind = "edit"
     /\ Len(call.edits) = 1
     /\ call.to = [text    |-> Spliced(call.from.text, call.edits),
                   version |-> call.from.version + 1]
  \/ /\ call.kind = "save"
     /\ call.to = call.from

(* Where host h stands after the first n of the calls cs.                  *)
After(h, cs, n) == IF n = 0 THEN Stand(h) ELSE cs[n].to

Connected(m, h, cs) ==
  /\ \A n \in 1..Len(cs) : cs[n].from = After(h, cs, n - 1)
  /\ After(h, cs, Len(cs)) = Stand(m)

(* The model is at least as new as all that is on its way.                 *)
Newest(m, cs, es) ==
  /\ \A n \in 1..Len(cs) : cs[n].to.version \in Nat /\ cs[n].to.version <= m.version
  /\ \A n \in 1..Len(es) : es[n].version \in Nat /\ es[n].version <= m.version

(* One document: its model, the host's buffer, calls, events and file.     *)
Coherent(m, h, cs, es, file) ==
  /\ m.version \in Nat
  /\ h \in [text : {h.text}, version : Nat, dirty : BOOLEAN]
  /\ IsSeq(cs) /\ IsSeq(es)
  /\ \A n \in 1..Len(cs) : Honest(cs[n])
  /\ Connected(m, h, cs)
  /\ Newest(m, cs, es)
  /\ ~h.dirty => file = h.text

Shapes ==
  /\ current \in Paths
  /\ model = [p \in Paths |-> model[p]]
  /\ calls = [p \in Paths |-> calls[p]]
  /\ buffer = [p \in Paths |-> buffer[p]]
  /\ events = [p \in Paths |-> events[p]]
  /\ disk = [p \in Paths |-> disk[p]]

Inv ==
  /\ Shapes
  /\ \A p \in Paths : Coherent(model[p], buffer[p], calls[p], events[p], disk[p])

----------------------------------------------------------------------------
(* What each action does to the document it is about.                      *)

LEMMA OpenedIsCoherent ==
  ASSUME NEW t
  PROVE  Coherent([text |-> t, version |-> 1], [text |-> t, version |-> 1, dirty |-> FALSE],
                  <<>>, <<>>, t)
<1>1. IsSeq(<<>>) /\ Len(<<>>) = 0  BY EmptySeq DEF IsSeq
<1> QED BY <1>1 DEF Coherent, Connected, Newest, After, Stand

(* A call appended that starts where the model is.                         *)
LEMMA SentIsCoherent ==
  ASSUME NEW m, NEW h, NEW cs, NEW es, NEW file, Coherent(m, h, cs, es, file),
         NEW after, NEW call, Honest(call),
         call.from = Stand(m), call.to = Stand(after),
         after.version \in Nat, m.version <= after.version
  PROVE  Coherent(after, h, Append(cs, call), es, file)
<1> DEFINE ds == Append(cs, call)
<1>1. /\ IsSeq(ds) /\ Len(cs) \in Nat /\ Len(ds) = Len(cs) + 1
      /\ \A n \in 1..Len(cs) : ds[n] = cs[n]
      /\ ds[Len(cs) + 1] = call
  BY AppendShape DEF Coherent
<1> HIDE DEF ds
<1>2. \A n \in 1..Len(ds) : Honest(ds[n])
  BY <1>1 DEF Coherent
<1>3. \A n \in 0..Len(cs) : After(h, ds, n) = After(h, cs, n)
  BY <1>1 DEF After
<1>4. Connected(after, h, ds)
  <2>1. ASSUME NEW n \in 1..Len(ds)
        PROVE  ds[n].from = After(h, ds, n - 1)
    <3>1. CASE n \in 1..Len(cs)
      BY <1>1, <1>3, <3>1 DEF Coherent, Connected
    <3>2. CASE n = Len(cs) + 1
      BY <1>1, <1>3, <3>2 DEF Coherent, Connected
    <3> QED BY <1>1, <3>1, <3>2
  <2>2. After(h, ds, Len(ds)) = Stand(after)
    BY <1>1 DEF After
  <2> QED BY <2>1, <2>2 DEF Connected
<1>5. Newest(after, ds, es)
  <2>1. m.version \in Nat  BY DEF Coherent
  <2>2. call.to.version = after.version  BY DEF Stand
  <2>3. \A n \in 1..Len(ds) : ds[n].to.version \in Nat /\ ds[n].to.version <= after.version
    BY <1>1, <2>1, <2>2 DEF Coherent, Newest
  <2>4. \A n \in 1..Len(es) : es[n].version \in Nat /\ es[n].version <= after.version
    BY <2>1 DEF Coherent, Newest
  <2> QED BY <2>3, <2>4 DEF Newest
<1> QED BY <1>1, <1>2, <1>4, <1>5 DEF Coherent, ds

(* The user edits.                                                         *)
LEMMA TypedIsCoherent ==
  ASSUME NEW m, NEW h, NEW cs, NEW es, NEW file, Coherent(m, h, cs, es, file),
         NEW edits, Len(edits) = 1, NEW of,
         NEW call,
         call = [kind |-> "edit", edits |-> edits, of |-> of,
                 from |-> Stand(m), to |-> Stand(Edited(m, edits))]
  PROVE  Coherent(Edited(m, edits), h, Append(cs, call), es, file)
<1> DEFINE after == Edited(m, edits)
<1>1. /\ after.text = Spliced(m.text, edits)
      /\ after.version = m.version + 1
  BY DEF Edited
<1>2. m.version \in Nat  BY DEF Coherent
<1> HIDE DEF after
<1>3. call = [kind |-> "edit", edits |-> edits, of |-> of,
              from |-> Stand(m), to |-> Stand(after)]
  BY DEF after
<1>4. Honest(call)
  BY <1>1, <1>3 DEF Honest, Stand
<1>5. after.version \in Nat /\ m.version <= after.version
  BY <1>1, <1>2
<1>6. call.from = Stand(m) /\ call.to = Stand(after)
  BY <1>3
<1>7. Coherent(after, h, Append(cs, call), es, file)
  BY <1>4, <1>5, <1>6, SentIsCoherent
<1> QED BY <1>7 DEF after

(* The user saves.                                                         *)
LEMMA SaveSentIsCoherent ==
  ASSUME NEW m, NEW h, NEW cs, NEW es, NEW file, Coherent(m, h, cs, es, file),
         NEW of, NEW call,
         call = [kind |-> "save", edits |-> <<>>, of |-> of,
                 from |-> Stand(m), to |-> Stand(m)]
  PROVE  Coherent(m, h, Append(cs, call), es, file)
<1>1. Honest(call) /\ call.from = Stand(m) /\ call.to = Stand(m)  BY DEF Honest
<1>2. m.version \in Nat /\ m.version <= m.version  BY DEF Coherent
<1> QED BY <1>1, <1>2, SentIsCoherent

(* A stale event is dropped.                                               *)
LEMMA DroppedIsCoherent ==
  ASSUME NEW m, NEW h, NEW cs, NEW es, NEW file, Coherent(m, h, cs, es, file),
         es # <<>>
  PROVE  /\ Head(es).version <= m.version
         /\ Coherent(m, h, cs, Tail(es), file)
<1> DEFINE fs == Tail(es)
<1>1. /\ IsSeq(fs) /\ Len(es) \in Nat \ {0} /\ Head(es) = es[1]
      /\ Len(fs) = Len(es) - 1
      /\ \A n \in 1..(Len(es) - 1) : fs[n] = es[n + 1]
  BY TailShape DEF Coherent
<1> HIDE DEF fs
<1>2. \A n \in 1..Len(fs) : es[n + 1].version \in Nat /\ es[n + 1].version <= m.version
  BY <1>1 DEF Coherent, Newest
<1>3. Newest(m, cs, fs)
  BY <1>1, <1>2 DEF Coherent, Newest
<1>4. Head(es).version <= m.version
  BY <1>1 DEF Coherent, Newest
<1> QED BY <1>1, <1>3, <1>4 DEF Coherent, fs

(* A call taken by the host, after which it stands where the call says.    *)
LEMMA TakenIsConnected ==
  ASSUME NEW m, NEW h, NEW cs, NEW es, NEW file, Coherent(m, h, cs, es, file),
         cs # <<>>, NEW g, Stand(g) = cs[1].to
  PROVE  /\ IsSeq(Tail(cs))
         /\ \A n \in 1..Len(Tail(cs)) : Honest(Tail(cs)[n])
         /\ Connected(m, g, Tail(cs))
         /\ Newest(m, Tail(cs), es)
<1> DEFINE ds == Tail(cs)
<1>1. /\ IsSeq(ds) /\ Len(cs) \in Nat \ {0} /\ Len(ds) = Len(cs) - 1
      /\ \A n \in 1..(Len(cs) - 1) : ds[n] = cs[n + 1]
  BY TailShape DEF Coherent
<1> HIDE DEF ds
<1>2. \A n \in 1..Len(ds) : ds[n] = cs[n + 1] /\ n + 1 \in 1..Len(cs)
  BY <1>1
<1>3. \A n \in 0..Len(ds) : After(g, ds, n) = After(h, cs, n + 1)
  BY <1>1, <1>2 DEF After
<1>4. Connected(m, g, ds)
  <2>1. ASSUME NEW n \in 1..Len(ds)
        PROVE  ds[n].from = After(g, ds, n - 1)
    <3>1. n - 1 \in 0..Len(ds) /\ (n - 1) + 1 = (n + 1) - 1  BY <1>1
    <3>2. cs[n + 1].from = After(h, cs, (n + 1) - 1)
      BY <1>2 DEF Coherent, Connected
    <3> QED BY <1>2, <1>3, <3>1, <3>2
  <2>2. After(g, ds, Len(ds)) = Stand(m)
    <3>1. Len(ds) \in 0..Len(ds) /\ Len(ds) + 1 = Len(cs)  BY <1>1
    <3> QED BY <1>3, <3>1 DEF Coherent, Connected
  <2> QED BY <2>1, <2>2 DEF Connected
<1>5. Newest(m, ds, es)
  BY <1>2 DEF Coherent, Newest
<1>6. \A n \in 1..Len(ds) : Honest(ds[n])
  BY <1>2 DEF Coherent
<1> QED BY <1>1, <1>4, <1>5, <1>6 DEF ds

(* The host applies the edits of a call.                                   *)
LEMMA AppliedIsCoherent ==
  ASSUME NEW m, NEW h, NEW cs, NEW es, NEW file, Coherent(m, h, cs, es, file),
         cs # <<>>, NEW call, call = Head(cs), call.kind = "edit",
         NEW version, version = h.version + Len(call.edits)
  PROVE  Coherent(m,
                  [text |-> Spliced(h.text, call.edits), version |-> version, dirty |-> TRUE],
                  Tail(cs),
                  Append(es, [version |-> version, edits |-> call.edits]),
                  file)
<1> DEFINE g  == [text |-> Spliced(h.text, call.edits), version |-> version, dirty |-> TRUE]
           ev == [version |-> version, edits |-> call.edits]
           fs == Append(es, ev)
<1>1. call = cs[1] /\ Len(cs) \in Nat \ {0}  BY TailShape DEF Coherent
<1>2. Honest(call)  BY <1>1 DEF Coherent
<1>3. call.from = Stand(h)  BY <1>1 DEF Coherent, Connected, After
<1>4. /\ version = h.version + 1
      /\ call.to = [text |-> Spliced(h.text, call.edits), version |-> version]
  <2>1. /\ Len(call.edits) = 1
        /\ call.to = [text    |-> Spliced(call.from.text, call.edits),
                      version |-> call.from.version + 1]
    BY <1>2 DEF Honest
  <2>2. call.from.text = h.text /\ call.from.version = h.version
    BY <1>3 DEF Stand
  <2> QED BY <2>1, <2>2
<1>5. call.to.version = version /\ version \in Nat /\ version <= m.version
  BY <1>1, <1>4 DEF Coherent, Newest
<1>6. /\ Stand(g) = call.to
      /\ g \in [text : {g.text}, version : Nat, dirty : BOOLEAN]
      /\ g.version = version /\ g.dirty
  BY <1>4, <1>5 DEF Stand
<1> HIDE DEF g
<1>7. /\ IsSeq(Tail(cs))
      /\ \A n \in 1..Len(Tail(cs)) : Honest(Tail(cs)[n])
      /\ Connected(m, g, Tail(cs))
      /\ Newest(m, Tail(cs), es)
  BY <1>1, <1>6, TakenIsConnected
<1>8. ev.version = version  OBVIOUS
<1> HIDE DEF ev
<1>9. /\ IsSeq(fs) /\ Len(es) \in Nat /\ Len(fs) = Len(es) + 1
      /\ \A n \in 1..Len(es) : fs[n] = es[n]
      /\ fs[Len(es) + 1] = ev
  BY AppendShape DEF Coherent
<1> HIDE DEF fs
<1>10. \A n \in 1..Len(fs) : fs[n].version \in Nat /\ fs[n].version <= m.version
  BY <1>5, <1>7, <1>8, <1>9 DEF Newest
<1>11. Newest(m, Tail(cs), fs)
  BY <1>7, <1>10 DEF Newest
<1>12. Coherent(m, g, Tail(cs), fs, file)
  BY <1>5, <1>6, <1>7, <1>9, <1>11 DEF Coherent
<1> QED BY <1>12 DEF g, fs, ev

(* The host writes the text of a call and clears the dirty flag.           *)
LEMMA SavedIsCoherent ==
  ASSUME NEW m, NEW h, NEW cs, NEW es, NEW file, Coherent(m, h, cs, es, file),
         cs # <<>>, NEW call, call = Head(cs), call.kind = "save"
  PROVE  Coherent(m, [h EXCEPT !.dirty = FALSE], Tail(cs), es, call.to.text)
<1> DEFINE g == [h EXCEPT !.dirty = FALSE]
<1>1. call = cs[1] /\ Len(cs) \in Nat \ {0}  BY TailShape DEF Coherent
<1>2. Honest(call)  BY <1>1 DEF Coherent
<1>3. call.from = Stand(h)  BY <1>1 DEF Coherent, Connected, After
<1>4. call.to = Stand(h)  BY <1>2, <1>3 DEF Honest
<1>5. /\ g \in [text : {h.text}, version : {h.version}, dirty : BOOLEAN]
      /\ ~g.dirty
  <2>1. h \in [text : {h.text}, version : {h.version}, dirty : BOOLEAN]  BY DEF Coherent
  <2> QED BY <2>1
<1>6. /\ g.text = h.text /\ g.version = h.version /\ h.version \in Nat
      /\ Stand(g) = Stand(h)
      /\ g \in [text : {g.text}, version : Nat, dirty : BOOLEAN]
  BY <1>5 DEF Coherent, Stand
<1>7. call.to.text = g.text  BY <1>4, <1>6 DEF Stand
<1> HIDE DEF g
<1>8. /\ IsSeq(Tail(cs))
      /\ \A n \in 1..Len(Tail(cs)) : Honest(Tail(cs)[n])
      /\ Connected(m, g, Tail(cs))
      /\ Newest(m, Tail(cs), es)
  BY <1>1, <1>4, <1>6, TakenIsConnected
<1>9. Coherent(m, g, Tail(cs), es, call.to.text)
  BY <1>5, <1>6, <1>7, <1>8 DEF Coherent
<1> QED BY <1>9 DEF g

----------------------------------------------------------------------------
(* The steps of the system.                                                *)

LEMMA InitInv == Init => Inv
<1> SUFFICES ASSUME Init PROVE Inv  OBVIOUS
<1>1. PICK t \in [Paths -> Texts] :
        /\ model = [p \in Paths |-> [text |-> t[p], version |-> 1]]
        /\ current \in Paths
        /\ calls = [p \in Paths |-> <<>>]
        /\ buffer = [p \in Paths |-> [text |-> t[p], version |-> 1, dirty |-> FALSE]]
        /\ events = [p \in Paths |-> <<>>]
        /\ disk = t
  BY DEF Init
<1>2. Shapes  BY <1>1 DEF Shapes
<1>3. ASSUME NEW p \in Paths
      PROVE  Coherent(model[p], buffer[p], calls[p], events[p], disk[p])
  <2>1. Coherent([text |-> t[p], version |-> 1],
                 [text |-> t[p], version |-> 1, dirty |-> FALSE], <<>>, <<>>, t[p])
    BY OpenedIsCoherent
  <2> QED BY <1>1, <2>1
<1> QED BY <1>2, <1>3 DEF Inv

(* A step that changes one document and leaves it coherent.                *)
LEMMA OneDocument ==
  ASSUME Inv, Shapes', NEW p \in Paths,
         \A q \in Paths \ {p} :
           /\ model'[q] = model[q] /\ buffer'[q] = buffer[q] /\ calls'[q] = calls[q]
           /\ events'[q] = events[q] /\ disk'[q] = disk[q],
         Coherent(model'[p], buffer'[p], calls'[p], events'[p], disk'[p])
  PROVE  Inv'
<1>1. ASSUME NEW q \in Paths
      PROVE  Coherent(model'[q], buffer'[q], calls'[q], events'[q], disk'[q])
  <2>1. CASE q = p  BY <2>1
  <2>2. CASE q # p
    <3>1. Coherent(model[q], buffer[q], calls[q], events[q], disk[q])  BY DEF Inv
    <3> QED BY <2>2, <3>1
  <2> QED BY <2>1, <2>2
<1>2. (\A q \in Paths : Coherent(model[q], buffer[q], calls[q], events[q], disk[q]))'
  BY <1>1
<1> QED BY <1>2 DEF Inv

LEMMA TypeStep ==
  ASSUME OneChangePerEdit, Inv, NEW edits \in Edits, Type(edits)
  PROVE  Inv'
<1> DEFINE p     == current
           after == Edited(model[p], edits)
           call  == Call("edit", p, edits, after)
<1>1. /\ p \in Paths
      /\ Coherent(model[p], buffer[p], calls[p], events[p], disk[p])
  BY DEF Inv, Shapes
<1>2. /\ model' = [model EXCEPT ![p] = after]
      /\ calls' = [calls EXCEPT ![p] = Append(@, call)]
      /\ UNCHANGED <<current, host, events>>
  BY DEF Type, SendEdits
<1>3. call = [kind |-> "edit", edits |-> edits, of |-> p,
              from |-> Stand(model[p]), to |-> Stand(Edited(model[p], edits))]
  BY DEF Call
<1>4. Len(edits) = 1  BY DEF OneChangePerEdit
<1> HIDE DEF call
<1>5. Coherent(Edited(model[p], edits), buffer[p], Append(calls[p], call), events[p], disk[p])
  BY <1>1, <1>3, <1>4, TypedIsCoherent
<1> HIDE DEF after, p
<1>6. Coherent(after, buffer[p], Append(calls[p], call), events[p], disk[p])
  BY <1>5 DEF after
<1>7. Shapes'  BY <1>1, <1>2 DEF Inv, Shapes, host
<1>8. /\ model'[p] = after /\ calls'[p] = Append(calls[p], call)
      /\ buffer' = buffer /\ events' = events /\ disk' = disk
      /\ \A q \in Paths \ {p} : model'[q] = model[q] /\ calls'[q] = calls[q]
  BY <1>1, <1>2 DEF Inv, Shapes, host
<1> QED BY <1>1, <1>6, <1>7, <1>8, OneDocument

LEMMA SaveStep ==
  ASSUME Inv, SaveCurrentDocument
  PROVE  Inv'
<1> DEFINE p    == current
           call == Call("save", p, <<>>, model[p])
<1>1. /\ p \in Paths
      /\ Coherent(model[p], buffer[p], calls[p], events[p], disk[p])
  BY DEF Inv, Shapes
<1>2. /\ calls' = [calls EXCEPT ![p] = Append(@, call)]
      /\ UNCHANGED <<model, current, host, events>>
  BY DEF SaveCurrentDocument
<1>3. call = [kind |-> "save", edits |-> <<>>, of |-> p,
              from |-> Stand(model[p]), to |-> Stand(model[p])]
  BY DEF Call
<1> HIDE DEF call
<1>4. Coherent(model[p], buffer[p], Append(calls[p], call), events[p], disk[p])
  BY <1>1, <1>3, SaveSentIsCoherent
<1> HIDE DEF p
<1>5. Shapes'  BY <1>1, <1>2 DEF Inv, Shapes, host
<1>6. /\ calls'[p] = Append(calls[p], call)
      /\ model' = model /\ buffer' = buffer /\ events' = events /\ disk' = disk
      /\ \A q \in Paths \ {p} : calls'[q] = calls[q]
  BY <1>1, <1>2 DEF Inv, Shapes, host
<1> QED BY <1>1, <1>4, <1>5, <1>6, OneDocument

LEMMA ReceiveStep ==
  ASSUME Inv, NEW p \in Paths, Receive(p)
  PROVE  Inv'
<1>1. Coherent(model[p], buffer[p], calls[p], events[p], disk[p])  BY DEF Inv
<1>2. events[p] # <<>>  BY DEF Receive
<1>3. /\ Head(events[p]).version <= model[p].version
      /\ Coherent(model[p], buffer[p], calls[p], Tail(events[p]), disk[p])
  BY <1>1, <1>2, DroppedIsCoherent
<1>4. /\ events' = [events EXCEPT ![p] = Tail(@)]
      /\ UNCHANGED <<model, calls, current, host>>
  BY <1>3 DEF Receive, IsStale
<1>5. Shapes'  BY <1>4 DEF Inv, Shapes, host
<1>6. /\ events'[p] = Tail(events[p])
      /\ model' = model /\ buffer' = buffer /\ calls' = calls /\ disk' = disk
      /\ \A q \in Paths \ {p} : events'[q] = events[q]
  BY <1>4 DEF Inv, Shapes, host
<1> QED BY <1>3, <1>5, <1>6, OneDocument

LEMMA HandleEditsStep ==
  ASSUME Inv, NEW p \in Paths, HandleEdits(p)
  PROVE  Inv'
<1> DEFINE call    == Head(calls[p])
           version == buffer[p].version + Len(call.edits)
           g       == [text |-> Spliced(buffer[p].text, call.edits),
                       version |-> version, dirty |-> TRUE]
           event   == [version |-> version, edits |-> call.edits]
<1>1. Coherent(model[p], buffer[p], calls[p], events[p], disk[p])  BY DEF Inv
<1>2. /\ calls[p] # <<>> /\ call.kind = "edit"
      /\ buffer' = [buffer EXCEPT ![p] = g]
      /\ events' = [events EXCEPT ![p] = Append(@, event)]
      /\ calls' = [calls EXCEPT ![p] = Tail(@)]
      /\ UNCHANGED <<model, current, disk>>
  BY DEF HandleEdits
<1>3. Coherent(model[p], g, Tail(calls[p]), Append(events[p], event), disk[p])
  BY <1>1, <1>2, AppliedIsCoherent
<1> HIDE DEF call, version, g, event
<1>4. Shapes'  BY <1>2 DEF Inv, Shapes
<1>5. /\ buffer'[p] = g /\ events'[p] = Append(events[p], event) /\ calls'[p] = Tail(calls[p])
      /\ model' = model /\ disk' = disk
      /\ \A q \in Paths \ {p} :
           buffer'[q] = buffer[q] /\ events'[q] = events[q] /\ calls'[q] = calls[q]
  BY <1>2 DEF Inv, Shapes
<1> QED BY <1>3, <1>4, <1>5, OneDocument

LEMMA HandleSaveStep ==
  ASSUME Inv, NEW p \in Paths, HandleSave(p)
  PROVE  Inv'
<1> DEFINE call == Head(calls[p])
           g    == [buffer[p] EXCEPT !.dirty = FALSE]
<1>1. Coherent(model[p], buffer[p], calls[p], events[p], disk[p])  BY DEF Inv
<1>2. /\ calls[p] # <<>> /\ call.kind = "save"
      /\ disk' = [disk EXCEPT ![p] = call.to.text]
      /\ buffer' = [buffer EXCEPT ![p] = g]
      /\ calls' = [calls EXCEPT ![p] = Tail(@)]
      /\ UNCHANGED <<model, current, events>>
  BY DEF HandleSave
<1>3. Coherent(model[p], g, Tail(calls[p]), events[p], call.to.text)
  BY <1>1, <1>2, SavedIsCoherent
<1> HIDE DEF call, g
<1>4. Shapes'  BY <1>2 DEF Inv, Shapes
<1>5. /\ buffer'[p] = g /\ disk'[p] = call.to.text /\ calls'[p] = Tail(calls[p])
      /\ model' = model /\ events' = events
      /\ \A q \in Paths \ {p} :
           buffer'[q] = buffer[q] /\ disk'[q] = disk[q] /\ calls'[q] = calls[q]
  BY <1>2 DEF Inv, Shapes
<1> QED BY <1>3, <1>4, <1>5, OneDocument

LEMMA NextInv ==
  ASSUME OneChangePerEdit, Inv, [Next]_vars
  PROVE  Inv'
<1>1. ASSUME NEW edits \in Edits, Type(edits) PROVE Inv'  BY <1>1, TypeStep
<1>2. CASE SaveCurrentDocument  BY <1>2, SaveStep
<1>3. ASSUME NEW p \in Paths, ActivateTab(p) PROVE Inv'
  BY <1>3 DEF ActivateTab, Inv, Shapes, host
<1>4. ASSUME NEW p \in Paths, Receive(p) PROVE Inv'  BY <1>4, ReceiveStep
<1>5. ASSUME NEW p \in Paths, HandleEdits(p) PROVE Inv'  BY <1>5, HandleEditsStep
<1>6. ASSUME NEW p \in Paths, HandleSave(p) PROVE Inv'  BY <1>6, HandleSaveStep
<1>7. CASE UNCHANGED vars
  BY <1>7 DEF vars, Inv, Shapes
<1> QED BY <1>1, <1>2, <1>3, <1>4, <1>5, <1>6, <1>7 DEF Next, User, Handle

LEMMA Invariance ==
  ASSUME OneChangePerEdit
  PROVE  Spec => []Inv
<1>1. Init => Inv  BY InitInv
<1>2. Inv /\ [Next]_vars => Inv'  BY NextInv
<1> QED BY <1>1, <1>2, PTL DEF Spec

----------------------------------------------------------------------------
(* What the user did is in the calls on their way, once and in order, with *)
(* the versions both sides will give it (onDidChangeContent, apply_edits). *)
THEOREM CallsAlwaysConnect ==
  ASSUME OneChangePerEdit
  PROVE  Spec => []CallsConnect
<1>1. Inv => CallsConnect
  <2> SUFFICES ASSUME Inv, NEW p \in Paths
               PROVE  /\ \A n \in 1..Len(calls[p]) : calls[p][n].from = StandAfter(p, n - 1)
                      /\ StandAfter(p, Len(calls[p])) = Stand(model[p])
    BY DEF CallsConnect
  <2>1. Connected(model[p], buffer[p], calls[p])  BY DEF Inv, Coherent
  <2>2. \A n : StandAfter(p, n) = After(buffer[p], calls[p], n)  BY DEF StandAfter, After
  <2> QED BY <2>1, <2>2 DEF Connected
<1> QED BY <1>1, Invariance, PTL

(* The version guard of the listener drops every event about the view's    *)
(* own edits: none is applied a second time (index.html).                  *)
THEOREM EchoesAreAlwaysStale ==
  ASSUME OneChangePerEdit
  PROVE  Spec => []EchoesAreStale
<1>1. Inv => EchoesAreStale
  BY DEF Inv, Coherent, Newest, EchoesAreStale, IsStale
<1> QED BY <1>1, Invariance, PTL

(* save_document may write the view's text and clear the host's flag: they *)
(* belong together when the call is handled.                               *)
THEOREM CleanIsAlwaysOnDisk ==
  ASSUME OneChangePerEdit
  PROVE  Spec => []CleanMeansOnDisk
<1>1. Inv => CleanMeansOnDisk
  BY DEF Inv, Coherent, CleanMeansOnDisk
<1> QED BY <1>1, Invariance, PTL

----------------------------------------------------------------------------
(* The types, whatever the edits are.                                      *)

LEMMA SpliceType ==
  ASSUME NEW t \in Text, NEW ch \in Change
  PROVE  Splice(t, ch) \in Text
<1> DEFINE n == Len(t)
           at == ch.at
           over == ch.at + ch.cut
           from == Clamp(t, at)
           to == Clamp(t, over)
           first == to + 1
           a == SubSeq(t, 1, from)
           b == SubSeq(t, first, n)
           put == ch.put
<1>1. n \in Nat /\ at \in Nat /\ over \in Nat /\ put \in Seq(STRING)
  BY LenProperties DEF Text, Change
<1> HIDE DEF at, over
<1>2. from \in Nat /\ from <= n /\ to \in Nat /\ to <= n
  BY <1>1 DEF Clamp
<1>3. Splice(t, ch) = a \o put \o b
  BY DEF Splice, at, over
<1> HIDE DEF from, to, put
<1>4. a \in Seq(STRING)
  <2>1. t \in Seq(STRING) /\ from <= Len(t)
    BY <1>2 DEF Text
  <2> QED BY <1>2, <2>1, FirstPart
<1>5. b \in Seq(STRING)
  <2>1. t \in Seq(STRING) /\ n <= Len(t) /\ first = to + 1
    BY <1>1 DEF Text
  <2> HIDE DEF n, first
  <2> QED BY <1>1, <1>2, <2>1, PartShape
<1> HIDE DEF a, b
<1>6. a \o put \in Seq(STRING)
  BY <1>1, <1>4, ConcatProperties
<1> DEFINE both == a \o put
<1> HIDE DEF both
<1>7. both \o b \in Seq(STRING)
  BY <1>5, <1>6, ConcatProperties DEF both
<1> QED BY <1>3, <1>7 DEF both, Text

LEMMA SplicedType ==
  ASSUME NEW t \in Text, NEW edits \in Seq(Change)
  PROVE  Spliced(t, edits) \in Text
<1> DEFINE n == Len(edits)
           I == 1..n
           A == Text
           Go(a, ch) == Splice(a, ch)
           F == [i \in I |-> [a \in A |-> Go(a, edits[i])]]
           Eq(f) == f = [s \in SUBSET I |->
                           IF s = {} THEN t ELSE Go(f[s \ {Max(s)}], edits[Max(s)])]
           it == CHOOSE f : Eq(f)
<1>1. n \in Nat /\ DOMAIN edits = I /\ \A i \in I : edits[i] \in Change
  BY LenProperties, ElementOfSeq
<1>2. Spliced(t, edits) = it[I]
  BY <1>1 DEF Spliced, FoldLeft, MapThenFoldSet
<1>3. \A a \in A : \A ch \in Change : Go(a, ch) \in A
  BY SpliceType
<1> HIDE DEF n, A, Go
<1>4. F \in [I -> [A -> A]]
  BY <1>1, <1>3
<1> HIDE DEF F
<1>5. t \in A
  BY DEF A
<1>6. PICK g \in [SUBSET I -> A] : InOrder(g, n, A, t, F)
  BY <1>1, <1>4, <1>5, FoldInOrder
<1>7. Eq(g)
  <2>1. ASSUME NEW s \in SUBSET I, s # {}
        PROVE  g[s] = Go(g[s \ {Max(s)}], edits[Max(s)])
    <3>1. Max(s) \in I /\ g[s \ {Max(s)}] \in A /\ g[s] = F[Max(s)][g[s \ {Max(s)}]]
      BY <1>6, <2>1 DEF InOrder
    <3> QED BY <3>1 DEF F
  <2> QED BY <1>6, <2>1 DEF InOrder
<1>8. Eq(it)
  <2> HIDE DEF Eq
  <2> QED BY <1>7
<1> HIDE DEF it
<1>9. it[{}] = t
  BY <1>8
<1>10. GoesOn(it, n, A, F)
  <2> SUFFICES ASSUME NEW s \in SUBSET I, s # {}, it[s \ {Max(s)}] \in A
               PROVE  it[s] = F[Max(s)][it[s \ {Max(s)}]]
    BY DEF GoesOn
  <2>1. Max(s) \in I
    BY <1>6 DEF InOrder
  <2>2. it[s] = Go(it[s \ {Max(s)}], edits[Max(s)])
    BY <1>8
  <2> QED BY <2>1, <2>2 DEF F
<1>11. PICK h \in [0..n -> A] : it[I] = h[n]
  <2>1. Unfolds(it, n, A, t, F)
    BY <1>1, <1>4, <1>5, <1>9, <1>10 DEF Unfolds
  <2> QED BY <2>1, FoldUnfolds
<1>12. h[n] \in A
  BY <1>1
<1> QED BY <1>2, <1>11, <1>12 DEF A

Held == [text : Text, version : Nat \ {0}, dirty : BOOLEAN]
Event == [version : Nat, edits : Seq(Change)]

Typed ==
  /\ current \in Paths
  /\ model \in [Paths -> Place]
  /\ calls \in [Paths -> Seq(CallRecord)]
  /\ buffer \in [Paths -> Held]
  /\ events \in [Paths -> Seq(Event)]
  /\ disk \in [Paths -> Text]

LEMMA TypedInit == Init => Typed
<1> SUFFICES ASSUME Init PROVE Typed  OBVIOUS
<1>1. PICK t \in [Paths -> Texts] :
        /\ model = [p \in Paths |-> [text |-> t[p], version |-> 1]]
        /\ buffer = [p \in Paths |-> [text |-> t[p], version |-> 1, dirty |-> FALSE]]
        /\ disk = t
  BY DEF Init
<1>2. \A p \in Paths : t[p] \in Text
  BY EditorSyncAssumption
<1>3. model \in [Paths -> Place] /\ buffer \in [Paths -> Held] /\ disk \in [Paths -> Text]
  BY <1>1, <1>2 DEF Place, Held
<1>4. <<>> \in Seq(CallRecord) /\ <<>> \in Seq(Event)
  BY EmptySeq
<1> QED BY <1>3, <1>4 DEF Typed, Init

LEMMA EditedType ==
  ASSUME NEW m \in Place, NEW edits \in Seq(Change)
  PROVE  Edited(m, edits) \in Place
<1>1. m.text \in Text /\ m.version + 1 \in Nat \ {0}
  BY DEF Place
<1>2. Spliced(m.text, edits) \in Text
  BY <1>1, SplicedType
<1> QED BY <1>1, <1>2 DEF Edited, Place

LEMMA CallType ==
  ASSUME Typed, NEW kind \in {"edit", "save"}, NEW of \in Paths, NEW edits \in Seq(Change),
         NEW to \in Place
  PROVE  Call(kind, of, edits, to) \in CallRecord
<1>1. Stand(model[of]) \in Place /\ Stand(to) \in Place
  BY DEF Typed, Place, Stand
<1> QED BY <1>1 DEF Call, CallRecord

(* A model changes and its edits are sent to the current document.         *)
LEMMA SendTypes ==
  ASSUME Typed, NEW p \in Paths, NEW edits \in Seq(Change),
         SendEdits(p, edits, Edited(model[p], edits))
  PROVE  /\ Edited(model[p], edits) \in Place
         /\ calls' \in [Paths -> Seq(CallRecord)]
<1> DEFINE after == Edited(model[p], edits)
           call == Call("edit", p, edits, after)
<1>1. after \in Place
  BY EditedType DEF Typed
<1> HIDE DEF after
<1>2. call \in CallRecord
  BY <1>1, CallType
<1>3. calls' = [calls EXCEPT ![current] = Append(@, call)]
  BY DEF SendEdits, after
<1> HIDE DEF call
<1>4. Append(calls[current], call) \in Seq(CallRecord)
  BY <1>2, AppendProperties DEF Typed
<1> QED BY <1>1, <1>3, <1>4 DEF Typed, after

LEMMA ChangedModel ==
  ASSUME Typed, NEW p \in Paths, NEW after \in Place, model' = [model EXCEPT ![p] = after],
         calls' \in [Paths -> Seq(CallRecord)], events' \in [Paths -> Seq(Event)],
         UNCHANGED <<current, host>>
  PROVE  Typed'
BY DEF Typed, host

LEMMA TypedHandleEdits ==
  ASSUME Typed, NEW p \in Paths, HandleEdits(p)
  PROVE  Typed'
<1> DEFINE call    == Head(calls[p])
           edits   == call.edits
           size    == Len(edits)
           old     == buffer[p]
           version == old.version + size
           text    == Spliced(old.text, edits)
           g       == [text |-> text, version |-> version, dirty |-> TRUE]
           event   == [version |-> version, edits |-> edits]
<1>1. /\ calls[p] # <<>>
      /\ buffer' = [buffer EXCEPT ![p] = g]
      /\ events' = [events EXCEPT ![p] = Append(@, event)]
      /\ calls' = [calls EXCEPT ![p] = Tail(@)]
      /\ UNCHANGED <<model, current, disk>>
  BY DEF HandleEdits
<1>2. call \in CallRecord /\ Tail(calls[p]) \in Seq(CallRecord)
  BY <1>1, HeadTailProperties DEF Typed
<1> HIDE DEF call
<1>3. edits \in Seq(Change)
  BY <1>2 DEF CallRecord
<1> HIDE DEF edits
<1>4. size \in Nat /\ old.text \in Text /\ old.version \in Nat \ {0}
  BY <1>3, LenProperties DEF Typed, Held
<1> HIDE DEF size, old
<1>5. text \in Text /\ version \in Nat \ {0}
  BY <1>3, <1>4, SplicedType
<1> HIDE DEF text, version
<1>6. g \in Held /\ event \in Event
  BY <1>3, <1>5 DEF Held, Event
<1> HIDE DEF g, event
<1>7. Append(events[p], event) \in Seq(Event)
  BY <1>6, AppendProperties DEF Typed
<1> QED BY <1>1, <1>2, <1>6, <1>7 DEF Typed

LEMMA TypedHandleSave ==
  ASSUME Typed, NEW p \in Paths, HandleSave(p)
  PROVE  Typed'
<1> DEFINE call == Head(calls[p])
           text == call.to.text
           g    == [buffer[p] EXCEPT !.dirty = FALSE]
<1>1. /\ calls[p] # <<>>
      /\ disk' = [disk EXCEPT ![p] = text]
      /\ buffer' = [buffer EXCEPT ![p] = g]
      /\ calls' = [calls EXCEPT ![p] = Tail(@)]
      /\ UNCHANGED <<model, current, events>>
  BY DEF HandleSave
<1>2. call \in CallRecord /\ Tail(calls[p]) \in Seq(CallRecord)
  BY <1>1, HeadTailProperties DEF Typed
<1> HIDE DEF call
<1>3. text \in Text
  BY <1>2 DEF CallRecord, Place
<1>4. g \in Held
  BY DEF Typed, Held
<1> HIDE DEF text, g
<1> QED BY <1>1, <1>2, <1>3, <1>4 DEF Typed

LEMMA TypedReceive ==
  ASSUME Typed, NEW p \in Paths, Receive(p)
  PROVE  Typed'
<1> DEFINE event == Head(events[p])
           edits == event.edits
           after == Edited(model[p], edits)
<1>1. /\ events[p] # <<>>
      /\ events' = [events EXCEPT ![p] = Tail(@)]
      /\ UNCHANGED <<current, host>>
      /\ (UNCHANGED <<model, calls>> \/ ApplyRemote(p, edits))
  BY DEF Receive
<1>2. event \in Event /\ Tail(events[p]) \in Seq(Event)
  BY <1>1, HeadTailProperties DEF Typed
<1> HIDE DEF event
<1>3. edits \in Seq(Change)
  BY <1>2 DEF Event
<1> HIDE DEF edits
<1>4. events' \in [Paths -> Seq(Event)]
  BY <1>1, <1>2 DEF Typed
<1>5. CASE UNCHANGED <<model, calls>>
  BY <1>1, <1>4, <1>5 DEF Typed, host
<1>6. CASE ApplyRemote(p, edits)
  <2>1. /\ model' = [model EXCEPT ![p] = after]
        /\ (UNCHANGED calls \/ SendEdits(p, edits, after))
    BY <1>6 DEF ApplyRemote
  <2>2. after \in Place
    BY <1>3, EditedType DEF Typed
  <2>3. calls' \in [Paths -> Seq(CallRecord)]
    BY <1>3, <2>1, SendTypes DEF Typed
  <2> HIDE DEF after
  <2> QED BY <1>1, <1>4, <2>1, <2>2, <2>3, ChangedModel
<1> QED BY <1>1, <1>5, <1>6

LEMMA TypedNext == Typed /\ [Next]_vars => Typed'
<1> SUFFICES ASSUME Typed, [Next]_vars PROVE Typed'  OBVIOUS
<1>1. ASSUME NEW edits \in Edits, Type(edits) PROVE Typed'
  <2> DEFINE after == Edited(model[current], edits)
  <2>1. /\ model' = [model EXCEPT ![current] = after]
        /\ SendEdits(current, edits, after)
        /\ UNCHANGED <<current, host, events>>
    BY <1>1 DEF Type
  <2>2. edits \in Seq(Change) /\ current \in Paths
    BY EditorSyncAssumption DEF Typed
  <2>3. after \in Place /\ calls' \in [Paths -> Seq(CallRecord)]
    BY <2>1, <2>2, SendTypes
  <2> HIDE DEF after
  <2> QED BY <2>1, <2>2, <2>3, ChangedModel DEF Typed
<1>2. CASE SaveCurrentDocument
  <2> DEFINE none == <<>>
             call == Call("save", current, none, model[current])
  <2>1. /\ calls' = [calls EXCEPT ![current] = Append(@, call)]
        /\ UNCHANGED <<model, current, host, events>>
    BY <1>2 DEF SaveCurrentDocument
  <2>2. none \in Seq(Change) /\ current \in Paths /\ model[current] \in Place
    BY EmptySeq DEF Typed
  <2> HIDE DEF none
  <2>3. call \in CallRecord
    BY <2>2, CallType
  <2> HIDE DEF call
  <2>4. Append(calls[current], call) \in Seq(CallRecord)
    BY <2>2, <2>3, AppendProperties DEF Typed
  <2> QED BY <2>1, <2>4 DEF Typed, host
<1>3. ASSUME NEW p \in Paths, ActivateTab(p) PROVE Typed'
  BY <1>3 DEF ActivateTab, Typed, host
<1>4. ASSUME NEW p \in Paths, Receive(p) PROVE Typed'
  BY <1>4, TypedReceive
<1>5. ASSUME NEW p \in Paths, HandleEdits(p) PROVE Typed'
  BY <1>5, TypedHandleEdits
<1>6. ASSUME NEW p \in Paths, HandleSave(p) PROVE Typed'
  BY <1>6, TypedHandleSave
<1>7. CASE UNCHANGED vars
  BY <1>7 DEF vars, Typed
<1> QED BY <1>1, <1>2, <1>3, <1>4, <1>5, <1>6, <1>7 DEF Next, User, Handle

(* Whatever is typed, saved, applied and echoed, of any number of changes: *)
(* texts stay texts, and versions count from one on both sides.            *)
THEOREM TypeCorrect == Spec => []TypeOK
<1>1. Typed => TypeOK
  BY DEF Typed, TypeOK, Held, Event
<1> QED BY <1>1, TypedInit, TypedNext, PTL DEF Spec
=============================================================================
