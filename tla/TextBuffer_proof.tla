-------------------------- MODULE TextBuffer_proof --------------------------
(***************************************************************************)
(* Proofs about the text buffer, for every bound:                          *)
(*                                                                         *)
(*   - of every alphabet and every text: the lineage of snapshots is       *)
(*     gapless and answers for each version it covers, the undo memory     *)
(*     stays within its limit, and every variable keeps its type;          *)
(*   - of one-byte characters: the line index kept up edit by edit is the  *)
(*     one a scan of the text would build;                                 *)
(*   - and if no call applies more than one change: the newest snapshot is *)
(*     the text, a clean buffer holds what was saved, and every change of  *)
(*     the text has a version of its own;                                  *)
(*   - of characters of one byte and one UTF-16 unit, inserted and         *)
(*     deleted: undo and redo bring back the texts of the past and of the  *)
(*     future, as UndoHistory says (the last part of this module).         *)
(*                                                                         *)
(* What undo and redo do to the text does not matter to the lineage and to *)
(* the undo memory: a stack is there some sequence, of whatever.           *)
(***************************************************************************)
EXTENDS BufferClients, FoldTheorems, TLAPS

(* The version is a number, and the lineage and the stacks are sequences.  *)
Shapes ==
  /\ version_id \in Nat \ {0}
  /\ IsSeq(history)
  /\ IsSeq(undo_stack)
  /\ IsSeq(redo_stack)

Inv == Shapes /\ LineageContiguous /\ UndoBounded

----------------------------------------------------------------------------
(* What the sequence operations do to a sequence of anything.              *)

LEMMA SubSeqShape ==
  ASSUME NEW s, IsSeq(s), NEW m \in Nat \ {0}, NEW n \in Nat, n <= Len(s)
  PROVE  /\ IsSeq(SubSeq(s, m, n))
         /\ Len(SubSeq(s, m, n)) = IF m <= n THEN n - m + 1 ELSE 0
<1>1. PICK S : s \in Seq(S)  BY DEF IsSeq
<1>2. \A i \in m..n : s[i] \in S  BY <1>1, LenProperties, ElementOfSeq
<1> QED BY <1>2, SubSeqProperties DEF IsSeq

LEMMA FrontShape ==
  ASSUME NEW s, IsSeq(s), s # <<>>
  PROVE  /\ IsSeq(Front(s))
         /\ Len(s) \in Nat \ {0}
         /\ Len(Front(s)) = Len(s) - 1
<1>1. Len(s) \in Nat \ {0}  BY TailShape
<1>2. Front(s) = SubSeq(s, 1, Len(s) - 1)  BY DEF Front
<1> DEFINE n == Len(s) - 1
<1>3. n \in Nat /\ n <= Len(s) /\ 1 \in Nat \ {0}  BY <1>1
<1> HIDE DEF n
<1>4. /\ IsSeq(SubSeq(s, 1, n))
      /\ Len(SubSeq(s, 1, n)) = IF 1 <= n THEN n - 1 + 1 ELSE 0
  BY <1>3, SubSeqShape
<1>5. Len(SubSeq(s, 1, n)) = n  BY <1>3, <1>4
<1> QED BY <1>1, <1>2, <1>4, <1>5 DEF n

----------------------------------------------------------------------------
(* UndoStack::push keeps the stack within its limit, if there is one.      *)
LEMMA PushShape ==
  ASSUME NEW stack, IsSeq(stack), NEW transaction
  PROVE  /\ IsSeq(PushUndo(stack, transaction))
         /\ Len(PushUndo(stack, transaction)) \in Nat
         /\ MaxUndo > 0 => Len(PushUndo(stack, transaction)) <= MaxUndo
<1> DEFINE pushed == Append(stack, transaction)
           excess == Len(pushed) - MaxUndo
<1>1. IsSeq(pushed) /\ Len(pushed) \in Nat  BY AppendShape
<1>2. MaxUndo \in Nat  BY BufferAssumption
<1> HIDE DEF pushed
<1>3. CASE MaxUndo > 0 /\ excess > 0
  <2>1. PushUndo(stack, transaction) = SubSeq(pushed, excess + 1, Len(pushed))
    BY <1>3 DEF PushUndo, pushed
  <2>2. excess + 1 \in Nat \ {0}  BY <1>1, <1>2, <1>3
  <2>3. Len(SubSeq(pushed, excess + 1, Len(pushed))) = MaxUndo
    BY <1>1, <1>2, <1>3, <2>2, SubSeqShape
  <2> QED BY <1>1, <1>2, <2>1, <2>2, <2>3, SubSeqShape
<1>4. CASE ~(MaxUndo > 0 /\ excess > 0)
  <2>1. PushUndo(stack, transaction) = pushed  BY <1>4 DEF PushUndo, pushed
  <2> QED BY <1>1, <1>2, <1>4, <2>1
<1> QED BY <1>3, <1>4

(* record_snapshot extends a gapless lineage by the next version.          *)
LEMMA LineageGrows ==
  ASSUME IsSeq(history), LineageContiguous, version_id \in Nat \ {0},
         IsSeq(history'), version_id' = version_id + 1,
         NEW snapshot, snapshot.version_id = version_id + 1,
         history' = RecordSnapshot(history, snapshot)
  PROVE  LineageContiguous'
<1> DEFINE kept == IF Len(history) >= MaxHistory THEN Tail(history) ELSE history
<1>1. MaxHistory \in Nat \ {0}  BY BufferAssumption
<1>2. Len(history) \in 1..MaxHistory /\ history # <<>>
  BY EmptyShape DEF LineageContiguous
<1>3. /\ IsSeq(kept) /\ Len(kept) \in 0..(MaxHistory - 1)
      /\ \A i \in 1..Len(kept) : kept[i].version_id = version_id - Len(kept) + i
  <2>1. CASE Len(history) >= MaxHistory
    <3>1. kept = Tail(history) /\ Len(kept) = Len(history) - 1 /\ IsSeq(kept)
      BY <1>2, <2>1, TailShape
    <3>2. \A i \in 1..Len(kept) : kept[i] = history[i + 1]
      BY <1>2, <3>1, TailShape
    <3> HIDE DEF kept
    <3>3. \A i \in 1..Len(kept) : kept[i].version_id = version_id - Len(kept) + i
      <4>1. TAKE i \in 1..Len(kept)
      <4>2. i + 1 \in 1..Len(history)  BY <1>2, <3>1
      <4>3. history[i + 1].version_id = version_id - Len(history) + (i + 1)
        BY <4>2 DEF LineageContiguous
      <4> QED BY <1>2, <3>1, <3>2, <4>3
    <3> QED BY <1>1, <1>2, <3>1, <3>3
  <2>2. CASE ~(Len(history) >= MaxHistory)
    BY <1>1, <1>2, <2>2 DEF LineageContiguous
  <2> QED BY <2>1, <2>2
<1>4. history' = Append(kept, snapshot)  BY DEF RecordSnapshot
<1> HIDE DEF kept
<1>5. /\ Len(history') = Len(kept) + 1
      /\ \A i \in 1..Len(kept) : history'[i] = kept[i]
      /\ history'[Len(kept) + 1] = snapshot
  BY <1>3, <1>4, AppendShape
<1>6. ASSUME NEW i \in 1..Len(history')
      PROVE  history'[i].version_id = version_id' - Len(history') + i
  <2>1. CASE i \in 1..Len(kept)  BY <1>3, <1>5, <2>1
  <2>2. CASE i = Len(kept) + 1  BY <1>3, <1>5, <2>2
  <2> QED BY <1>3, <1>5, <2>1, <2>2
<1> QED BY <1>1, <1>3, <1>5, <1>6 DEF LineageContiguous

(* The same for the record_snapshot of each operation of the buffer.       *)
LEMMA NewVersionKeepsLineage ==
  ASSUME Shapes, LineageContiguous, NewVersion
  PROVE  /\ version_id' \in Nat \ {0}
         /\ IsSeq(history')
         /\ LineageContiguous'
<1> DEFINE snapshot == Snapshot(rope', version_id + 1, TRUE, eol')
<1>1. /\ version_id' = version_id + 1
      /\ history' = RecordSnapshot(history, snapshot)
  BY DEF NewVersion
<1>2. snapshot.version_id = version_id + 1  BY DEF Snapshot
<1>3. IsSeq(history')
  <2>1. history # <<>>  BY BufferAssumption, EmptyShape DEF LineageContiguous
  <2>2. IsSeq(IF Len(history) >= MaxHistory THEN Tail(history) ELSE history)
    BY <2>1, TailShape DEF Shapes
  <2> QED BY <1>1, <2>2, AppendShape DEF RecordSnapshot
<1> HIDE DEF snapshot
<1> QED BY <1>1, <1>2, <1>3, LineageGrows DEF Shapes

(* An operation that leaves version and lineage alone keeps the lineage.   *)
LEMMA SameVersionKeepsLineage ==
  ASSUME Shapes, LineageContiguous, UNCHANGED <<version_id, history>>
  PROVE  /\ version_id' \in Nat \ {0}
         /\ IsSeq(history')
         /\ LineageContiguous'
BY DEF Shapes, LineageContiguous

(* A new transaction: what the stacks are afterwards.                      *)
LEMMA PushKeepsBound ==
  ASSUME Shapes, NEW entries, PushTransaction(entries)
  PROVE  IsSeq(undo_stack') /\ IsSeq(redo_stack') /\ UndoBounded'
<1>1. /\ undo_stack' = PushUndo(undo_stack, entries)
      /\ redo_stack' = <<>>
  BY DEF PushTransaction
<1>2. /\ IsSeq(undo_stack') /\ Len(undo_stack') \in Nat
      /\ MaxUndo > 0 => Len(undo_stack') <= MaxUndo
  BY <1>1, PushShape DEF Shapes
<1>3. IsSeq(redo_stack') /\ Len(redo_stack') = 0  BY <1>1, EmptyShape
<1> QED BY <1>2, <1>3, BufferAssumption DEF UndoBounded

LEMMA SameStacksKeepBound ==
  ASSUME Shapes, UndoBounded, UNCHANGED <<undo_stack, redo_stack>>
  PROVE  IsSeq(undo_stack') /\ IsSeq(redo_stack') /\ UndoBounded'
BY DEF Shapes, UndoBounded

(* Undo and redo move one transaction from one stack to the other.         *)
LEMMA MoveKeepsLength ==
  ASSUME NEW from, NEW to, IsSeq(from), IsSeq(to), from # <<>>
  PROVE  /\ IsSeq(Front(from)) /\ IsSeq(Append(to, Last(from)))
         /\ Len(Front(from)) + Len(Append(to, Last(from))) = Len(from) + Len(to)
<1>1. /\ IsSeq(Front(from)) /\ Len(from) \in Nat \ {0}
      /\ Len(Front(from)) = Len(from) - 1
  BY FrontShape
<1>2. /\ IsSeq(Append(to, Last(from))) /\ Len(to) \in Nat
      /\ Len(Append(to, Last(from))) = Len(to) + 1
  BY AppendShape
<1> QED BY <1>1, <1>2

----------------------------------------------------------------------------
LEMMA InitInv == Init => Inv
<1> SUFFICES ASSUME Init PROVE Inv  OBVIOUS
<1>1. PICK t \in Contents : history = <<Snapshot(t, 1, FALSE, DetectEol(t))>>
  BY DEF Init
<1> DEFINE first == Snapshot(t, 1, FALSE, DetectEol(t))
<1>2. first.version_id = 1  BY DEF Snapshot
<1> HIDE DEF first
<1>3. IsSeq(history) /\ Len(history) = 1 /\ history[1] = first
  <2>1. history \in Seq({first})  BY <1>1 DEF first
  <2> QED BY <1>1, <2>1 DEF IsSeq, first
<1>4. version_id = 1 /\ undo_stack = <<>> /\ redo_stack = <<>>  BY DEF Init
<1>5. LineageContiguous
  BY <1>2, <1>3, <1>4, BufferAssumption DEF LineageContiguous
<1> QED BY <1>3, <1>4, <1>5, EmptyShape, BufferAssumption DEF Inv, Shapes, UndoBounded

(* The version half of the invariant.                                      *)
Lineage == version_id \in Nat \ {0} /\ IsSeq(history) /\ LineageContiguous

(* The stack half.                                                         *)
Stacks == IsSeq(undo_stack) /\ IsSeq(redo_stack) /\ UndoBounded

LEMMA Halves == (Inv <=> Lineage /\ Stacks)
BY DEF Inv, Shapes, Lineage, Stacks

LEMMA StepLineage == Inv /\ [Next]_vars => Lineage'
<1> SUFFICES ASSUME Inv, [Next]_vars PROVE Lineage'  OBVIOUS
<1>1. ASSUME NewVersion PROVE Lineage'
  BY <1>1, NewVersionKeepsLineage DEF Inv, Lineage
<1>2. ASSUME UNCHANGED <<version_id, history>> PROVE Lineage'
  BY <1>2, SameVersionKeepsLineage DEF Inv, Lineage
<1>3. ASSUME NEW result, Report(result) PROVE Lineage'
  BY <1>1, <1>2, <1>3 DEF Report
<1>4. ASSUME NEW ch \in Change, ApplyChange(ch) PROVE Lineage'
  BY <1>1, <1>4 DEF ApplyChange
<1>5. ASSUME NEW batch \in Batches, ApplyChanges(batch) PROVE Lineage'
  BY <1>1, <1>2, <1>5 DEF ApplyChanges
<1>6. ASSUME NEW t \in Contents, SetValue(t) PROVE Lineage'
  BY <1>1, <1>6 DEF SetValue
<1>7. CASE MarkAsSaved  BY <1>2, <1>7 DEF MarkAsSaved
<1>8. CASE Undo  BY <1>3, <1>8 DEF Undo
<1>9. CASE Redo  BY <1>3, <1>9 DEF Redo
<1>10. CASE ClearDirtyLines  BY <1>2, <1>10 DEF ClearDirtyLines
<1>11. CASE UNCHANGED vars  BY <1>2, <1>11 DEF vars
<1> QED BY <1>4, <1>5, <1>6, <1>7, <1>8, <1>9, <1>10, <1>11 DEF Next

LEMMA StepStacks == Inv /\ [Next]_vars => Stacks'
<1> SUFFICES ASSUME Inv, [Next]_vars PROVE Stacks'  OBVIOUS
<1>1. ASSUME NEW entries, PushTransaction(entries) PROVE Stacks'
  BY <1>1, PushKeepsBound DEF Inv, Stacks
<1>2. ASSUME UNCHANGED <<undo_stack, redo_stack>> PROVE Stacks'
  BY <1>2, SameStacksKeepBound DEF Inv, Stacks
<1>3. ASSUME NEW ch \in Change, ApplyChange(ch) PROVE Stacks'
  BY <1>1, <1>3 DEF ApplyChange
<1>4. ASSUME NEW batch \in Batches, ApplyChanges(batch) PROVE Stacks'
  BY <1>1, <1>2, <1>4 DEF ApplyChanges
<1>5. ASSUME NEW t \in Contents, SetValue(t) PROVE Stacks'
  BY <1>1, <1>5 DEF SetValue
<1>6. CASE MarkAsSaved  BY <1>2, <1>6 DEF MarkAsSaved, undo_vars
<1>7. CASE Undo
  <2>1. /\ undo_stack # <<>>
        /\ undo_stack' = Front(undo_stack)
        /\ redo_stack' = Append(redo_stack, Last(undo_stack))
    BY <1>7 DEF Undo
  <2>2. /\ IsSeq(undo_stack') /\ IsSeq(redo_stack')
        /\ Len(undo_stack') + Len(redo_stack') = Len(undo_stack) + Len(redo_stack)
    BY <2>1, MoveKeepsLength DEF Inv, Shapes
  <2> QED BY <2>2 DEF Inv, UndoBounded, Stacks
<1>8. CASE Redo
  <2>1. /\ redo_stack # <<>>
        /\ redo_stack' = Front(redo_stack)
        /\ undo_stack' = Append(undo_stack, Last(redo_stack))
    BY <1>8 DEF Redo
  <2>2. /\ IsSeq(undo_stack') /\ IsSeq(redo_stack')
        /\ Len(redo_stack') + Len(undo_stack') = Len(redo_stack) + Len(undo_stack)
    BY <2>1, MoveKeepsLength DEF Inv, Shapes
  <2>3. /\ Len(undo_stack) \in Nat /\ Len(redo_stack) \in Nat
        /\ Len(undo_stack') \in Nat /\ Len(redo_stack') \in Nat
    BY <2>2, AppendShape DEF Inv, Shapes
  <2> QED BY <2>2, <2>3 DEF Inv, UndoBounded, Stacks
<1>9. CASE ClearDirtyLines  BY <1>2, <1>9 DEF ClearDirtyLines, undo_vars
<1>10. CASE UNCHANGED vars  BY <1>2, <1>10 DEF vars
<1> QED BY <1>3, <1>4, <1>5, <1>6, <1>7, <1>8, <1>9, <1>10 DEF Next

(* The lineage and the stacks keep their shapes whatever the texts are:    *)
(* the invariant the next theorems rest on.                                *)
THEOREM Invariance == Spec => []Inv
<1>1. Inv /\ [Next]_vars => Inv'
  BY StepLineage, StepStacks, Halves DEF Inv, Shapes, Lineage, Stacks
<1> QED BY InitInv, <1>1, PTL DEF Spec

(* Every buffer, whatever is edited, undone, redone, set or saved, has a   *)
(* lineage of consecutive versions that ends with the current one          *)
(* (text_buffer.rs, record_snapshot).                                      *)
THEOREM LineageIsContiguous == Spec => []LineageContiguous
<1>1. Inv => LineageContiguous  BY DEF Inv
<1> QED BY Invariance, <1>1, PTL

(* The undo and redo stacks never hold more transactions than              *)
(* with_max_undo allows (undo.rs, UndoStack).                              *)
THEOREM UndoIsBounded == Spec => []UndoBounded
<1>1. Inv => UndoBounded  BY DEF Inv
<1> QED BY Invariance, <1>1, PTL

(* No operation takes the version back or skips one.                       *)
THEOREM VersionsStep == Spec => [][version_id' \in {version_id, version_id + 1}]_vars
<1>1. [Next]_vars => [version_id' \in {version_id, version_id + 1}]_vars
  <2> SUFFICES ASSUME Next PROVE version_id' \in {version_id, version_id + 1}
    OBVIOUS
  <2>1. ASSUME NewVersion \/ UNCHANGED version_id
        PROVE  version_id' \in {version_id, version_id + 1}
    BY <2>1 DEF NewVersion
  <2> QED BY <2>1 DEF Next, ApplyChange, ApplyChanges, SetValue, MarkAsSaved,
                     Undo, Redo, Report, ClearDirtyLines
<1> QED BY <1>1, PTL DEF Spec

(* Version 0 asks for the newest snapshot.                                 *)
Covered == ((version_id - Len(history) + 1)..version_id) \ {0}

LEMMA Answers ==
  ASSUME Inv, NEW v \in Covered
  PROVE  /\ SnapshotAtVersion(history, v) \in {history[i] : i \in 1..Len(history)}
         /\ SnapshotAtVersion(history, v).version_id = v
<1> DEFINE k == v - version_id + Len(history)
           at == {i \in 1..Len(history) : history[i].version_id = v}
<1>1. version_id \in Nat /\ Len(history) \in Nat /\ v \in Int /\ v # 0
  BY DEF Inv, Shapes, LineageContiguous, Covered
<1>2. k \in 1..Len(history)  BY <1>1 DEF Covered
<1>3. ASSUME NEW i \in 1..Len(history)
      PROVE  history[i].version_id = v <=> i = k
  BY <1>1, <1>3 DEF Inv, LineageContiguous
<1>4. at = {k}  BY <1>2, <1>3
<1>5. Min(at) = k  BY <1>2, <1>4 DEF Min
<1> HIDE DEF k
<1>6. SnapshotAtVersion(history, v) = history[k]
  BY <1>1, <1>4, <1>5 DEF SnapshotAtVersion
<1> QED BY <1>2, <1>3, <1>6

(* Asked for any version the lineage still covers, the buffer finds a      *)
(* snapshot of that version (text_buffer.rs, get_snapshot_at_version).     *)
THEOREM LineageAnswers ==
  Spec => [](\A v \in Covered : SnapshotAtVersion(history, v).version_id = v)
<1>1. Inv => \A v \in Covered : SnapshotAtVersion(history, v).version_id = v
  BY Answers
<1> QED BY Invariance, <1>1, PTL

----------------------------------------------------------------------------
(* Widths.  Boundaries counts on from character to character.              *)
LEMMA BoundariesCount ==
  ASSUME NEW w \in [Chars -> Nat], NEW t \in Text
  PROVE  /\ Boundaries(w, t) \in [0..Len(t) -> Nat]
         /\ Boundaries(w, t)[0] = 0
         /\ \A i \in 1..Len(t) : Boundaries(w, t)[i] = Boundaries(w, t)[i - 1] + w[t[i]]
<1> DEFINE n == Len(t)
           F == [i \in 1..n |-> [a \in Nat |-> a + w[t[i]]]]
           Sums(f) == f = [i \in 0..n |-> IF i = 0 THEN 0 ELSE f[i - 1] + w[t[i]]]
           sum == CHOOSE f : Sums(f)
           zero == 0
           A == Nat
<1>1. n \in Nat /\ \A i \in 1..n : t[i] \in Chars
  BY LenProperties, ElementOfSeq DEF Text
<1>2. Boundaries(w, t) = sum
  BY DEF Boundaries
<1> HIDE DEF n
<1>3. F \in [1..n -> [A -> A]] /\ zero \in A
  BY <1>1
<1>4. \A i \in 0..n : i = 0 \/ i \in 1..n
  BY <1>1
<1> HIDE DEF A, F, zero
<1>5. PICK h \in [0..n -> A] : StepByStep(h, n, zero, F)
  BY <1>1, <1>3, RecursionSteps
<1>6. ASSUME NEW i \in 1..n PROVE h[i] = h[i - 1] + w[t[i]]
  <2>1. h[i - 1] \in A /\ F[i] = [a \in A |-> a + w[t[i]]]
    BY <1>1 DEF F, A
  <2> QED BY <1>5, <2>1 DEF StepByStep
<1>7. Sums(h)
  <2>1. h = [i \in 0..n |-> h[i]]
    OBVIOUS
  <2>2. \A i \in 0..n : h[i] = IF i = 0 THEN 0 ELSE h[i - 1] + w[t[i]]
    BY <1>4, <1>5, <1>6 DEF StepByStep, zero
  <2> QED BY <2>1, <2>2
<1>8. Sums(sum)
  <2> HIDE DEF Sums
  <2> QED BY <1>7
<1> HIDE DEF sum
<1>9. sum = [i \in 0..n |-> sum[i]] /\ Unrolls(sum, n, A, zero, F)
  <2>1. 0 \in 0..n /\ \A i \in 1..n : i \in 0..n /\ i # 0
    BY <1>1
  <2>2. sum = [i \in 0..n |-> IF i = 0 THEN 0 ELSE sum[i - 1] + w[t[i]]]
    BY <1>8
  <2> QED BY <2>1, <2>2 DEF Unrolls, F, A, zero
<1> HIDE DEF Sums
<1>10. \A i \in 0..n : sum[i] = h[i]
  <2>1. n \in Nat /\ Unrolls(sum, n, A, zero, F)
    BY <1>1, <1>9
  <2> QED BY <1>3, <1>5, <2>1, RecursionIs
<1>11. sum = h
  <2>1. h = [i \in 0..n |-> h[i]]
    OBVIOUS
  <2> QED BY <1>9, <1>10, <2>1
<1> QED BY <1>2, <1>5, <1>6, <1>11 DEF n, A, zero, StepByStep

LEMMA ByteWidths == Utf8Len \in [Chars -> Nat] /\ Utf16Len \in [Chars -> Nat]
BY CharsAssumption DEF CharsAssumption

LEMMA ByteLenType ==
  ASSUME NEW t \in Text
  PROVE  ByteLen(t) \in Nat
<1>1. Len(t) \in 0..Len(t)
  BY LenProperties DEF Text
<1> QED BY <1>1, ByteWidths, BoundariesCount DEF ByteLen

(* The scan for line starts, character by character.                       *)
Scans(h, t) ==
  /\ h[0] = <<0>>
  /\ \A i \in 1..Len(t) :
       h[i] = IF t[i] = Newline THEN Append(h[i - 1], Boundaries(Utf8Len, t)[i]) ELSE h[i - 1]

LEMMA LineStartsScan ==
  ASSUME NEW t \in Text
  PROVE  \E h \in [0..Len(t) -> Seq(Nat)] : Scans(h, t) /\ LineStarts(t) = h[Len(t)]
<1> DEFINE n == Len(t)
           A == Seq(Nat)
           at == Boundaries(Utf8Len, t)
           Scan(starts, i) == IF t[i] = Newline THEN Append(starts, at[i]) ELSE starts
           base == <<0>>
           F == [i \in 1..n |-> [a \in A |-> Scan(a, i)]]
           Eq(f) == f = [i \in 0..n |->
                           IF i = 0 THEN <<0>>
                           ELSE IF t[i] = Newline THEN Append(f[i - 1], at[i]) ELSE f[i - 1]]
           scan == CHOOSE f : Eq(f)
<1>1. n \in Nat /\ 0 \in 0..n /\ n \in 0..n /\ \A i \in 1..n : i \in 0..n /\ i # 0
  BY LenProperties DEF Text
<1>2. LineStarts(t) = scan[n]
  BY DEF LineStarts
<1>3. \A i \in 1..n : at[i] \in Nat
  <2>1. at \in [0..n -> Nat]
    BY ByteWidths, BoundariesCount
  <2> HIDE DEF at
  <2> QED BY <1>1, <2>1
<1> HIDE DEF n, at
<1>4. ASSUME NEW a \in A, NEW i \in 1..n PROVE Scan(a, i) \in A
  BY <1>3, AppendProperties
<1>5. F \in [1..n -> [A -> A]] /\ base \in A
  BY <1>4
<1> HIDE DEF A, F, Scan, base
<1>6. PICK h \in [0..n -> A] : StepByStep(h, n, base, F)
  BY <1>1, <1>5, RecursionSteps
<1>7. ASSUME NEW i \in 1..n PROVE h[i] = Scan(h[i - 1], i)
  <2>1. h[i - 1] \in A
    BY <1>1
  <2> QED BY <1>6, <2>1 DEF F, StepByStep
<1>8. Eq(h)
  <2>1. \A i \in 0..n : i = 0 \/ i \in 1..n
    BY <1>1
  <2>2. h = [i \in 0..n |-> h[i]]
    OBVIOUS
  <2>3. \A i \in 0..n : h[i] = IF i = 0 THEN base ELSE Scan(h[i - 1], i)
    BY <1>6, <1>7, <2>1 DEF StepByStep
  <2> QED BY <2>2, <2>3 DEF Scan, base
<1>9. Eq(scan)
  <2> HIDE DEF Eq
  <2> QED BY <1>8
<1> HIDE DEF scan
<1>10. Unrolls(scan, n, A, base, F)
  <2>1. scan = [i \in 0..n |-> IF i = 0 THEN base ELSE Scan(scan[i - 1], i)]
    BY <1>9 DEF Scan, base
  <2> HIDE DEF Eq
  <2>2. scan[0] = base /\ \A i \in 1..n : scan[i] = Scan(scan[i - 1], i)
    BY <1>1, <2>1
  <2> QED BY <2>2 DEF Unrolls, F
<1> HIDE DEF Eq
<1>11. scan[n] = h[n]
  BY <1>1, <1>5, <1>6, <1>10, RecursionIs
<1>12. Scans(h, t)
  BY <1>6, <1>7 DEF Scans, Scan, StepByStep, n, at, base
<1> QED BY <1>2, <1>6, <1>11, <1>12 DEF n, A

(* An index begins with the first line.                                    *)
LEMMA LineStartsType ==
  ASSUME NEW t \in Text
  PROVE  LineStarts(t) \in Seq(Nat) /\ Len(LineStarts(t)) \in Nat \ {0}
<1> DEFINE n == Len(t)
<1>1. n \in Nat
  BY LenProperties DEF Text
<1>2. PICK h \in [0..n -> Seq(Nat)] : Scans(h, t) /\ LineStarts(t) = h[n]
  BY LineStartsScan
<1>3. \A i \in 1..n : Boundaries(Utf8Len, t)[i] \in Nat
  <2>1. Boundaries(Utf8Len, t) \in [0..n -> Nat]
    BY ByteWidths, BoundariesCount
  <2> QED BY <1>1, <2>1
<1> DEFINE P == {i \in Nat : i <= n => Len(h[i]) \in Nat \ {0}}
<1>4. 0 \in P
  <2>1. h[0] = <<0>> /\ Len(<<0>>) = 1
    BY <1>2 DEF Scans
  <2>2. Len(h[0]) \in Nat \ {0}
    BY <2>1
  <2> QED BY <2>2
<1>5. ASSUME NEW i \in Nat, i \in P PROVE i + 1 \in P
  <2> SUFFICES ASSUME i + 1 <= n PROVE Len(h[i + 1]) \in Nat \ {0}
    OBVIOUS
  <2> DEFINE j == i + 1
             b == Boundaries(Utf8Len, t)[j]
             hi == h[i]
  <2>1. j \in 1..n /\ j - 1 = i /\ hi \in Seq(Nat) /\ Len(hi) \in Nat \ {0} /\ b \in Nat
    BY <1>1, <1>3, <1>5
  <2> HIDE DEF j, b
  <2>2. h[j] = IF t[j] = Newline THEN Append(hi, b) ELSE hi
    BY <1>2, <2>1 DEF Scans, n, b
  <2> HIDE DEF hi
  <2>3. Len(Append(hi, b)) = Len(hi) + 1
    BY <2>1, AppendProperties
  <2> QED BY <2>1, <2>2, <2>3 DEF j
<1> HIDE DEF P
<1>6. \A i \in Nat : i \in P
  BY <1>4, <1>5, SetNatInduction
<1>7. Len(h[n]) \in Nat \ {0}
  BY <1>1, <1>6 DEF P
<1> QED BY <1>1, <1>2, <1>7

----------------------------------------------------------------------------
(* Texts of one-byte characters.  Offsets are then numbers of characters,  *)
(* which is what the rope cuts by; of other texts the index does not keep  *)
(* up (UnicodeLineIndex.cfg).                                              *)
OneByte == \A c \in Chars : Utf8Len[c] = 1

LEMMA BytesAreChars ==
  ASSUME OneByte, NEW t \in Text
  PROVE  /\ \A i \in 0..Len(t) : Boundaries(Utf8Len, t)[i] = i
         /\ ByteLen(t) = Len(t)
<1> DEFINE n == Len(t)
           at == Boundaries(Utf8Len, t)
           P == {i \in Nat : i <= n => at[i] = i}
<1>1. n \in Nat /\ \A i \in 1..n : t[i] \in Chars
  BY LenProperties, ElementOfSeq DEF Text
<1>2. at[0] = 0 /\ \A i \in 1..n : at[i] = at[i - 1] + Utf8Len[t[i]]
  BY ByteWidths, BoundariesCount
<1> HIDE DEF at, n
<1>3. 0 \in P
  BY <1>2
<1>4. ASSUME NEW i \in Nat, i \in P PROVE i + 1 \in P
  <2> SUFFICES ASSUME i + 1 <= n PROVE at[i + 1] = i + 1
    OBVIOUS
  <2>1. i + 1 \in 1..n /\ (i + 1) - 1 = i /\ at[i] = i
    BY <1>1, <1>4
  <2>2. at[i + 1] = at[i] + Utf8Len[t[i + 1]] /\ Utf8Len[t[i + 1]] = 1
    BY <1>1, <1>2, <2>1 DEF OneByte
  <2> QED BY <2>1, <2>2
<1> HIDE DEF P
<1>5. \A i \in Nat : i \in P
  BY <1>3, <1>4, SetNatInduction
<1>6. \A i \in 0..n : at[i] = i
  BY <1>1, <1>5 DEF P
<1>7. ByteLen(t) = at[n]
  BY DEF ByteLen, at, n
<1> QED BY <1>1, <1>6, <1>7 DEF at, n

(* The starts among the first i characters are in order, and all but the   *)
(* first are those of lines that follow a newline.                         *)
Ascending(starts, i) ==
  /\ starts \in Seq(Nat) /\ Len(starts) \in Nat \ {0} /\ starts[1] = 0
  /\ \A k \in 1..Len(starts) : starts[k] \in 0..i /\ (k # 1 => starts[k] >= 1)
  /\ \A k, l \in 1..Len(starts) : k <= l => starts[k] <= starts[l]
  /\ \A k, l \in 1..Len(starts) : k < l => starts[k] < starts[l]

LEMMA AscendingGoesOn ==
  ASSUME NEW starts, NEW i \in Nat, Ascending(starts, i), NEW j, j = i + 1
  PROVE  Ascending(starts, j) /\ Ascending(Append(starts, j), j)
<1> DEFINE n == Len(starts)
           more == Append(starts, j)
<1>1. /\ starts \in Seq(Nat) /\ n \in Nat \ {0} /\ starts[1] = 0 /\ j \in Nat /\ j >= 1
      /\ \A k \in 1..n : starts[k] \in 0..i /\ (k # 1 => starts[k] >= 1)
      /\ \A k, l \in 1..n : k <= l => starts[k] <= starts[l]
      /\ \A k, l \in 1..n : k < l => starts[k] < starts[l]
  BY DEF Ascending
<1>2. /\ more \in Seq(Nat) /\ Len(more) = n + 1 /\ more[n + 1] = j
      /\ \A k \in 1..n : more[k] = starts[k]
  BY <1>1, AppendProperties
<1> HIDE DEF n, more
<1>3. \A k \in 1..n : starts[k] \in 0..j
  BY <1>1
<1>4. Ascending(starts, j)
  BY <1>1, <1>3 DEF Ascending, n
<1>5. ASSUME NEW k \in 1..Len(more)
      PROVE  more[k] \in 0..j /\ (k # 1 => more[k] >= 1)
  <2>1. CASE k \in 1..n
    BY <1>1, <1>2, <1>3, <2>1
  <2>2. CASE k = n + 1
    BY <1>1, <1>2, <2>2
  <2> QED BY <1>1, <1>2, <2>1, <2>2
<1>6. ASSUME NEW k \in 1..Len(more), NEW l \in 1..Len(more), k <= l
      PROVE  more[k] <= more[l]
  <2>1. CASE l \in 1..n
    <3>1. k \in 1..n
      BY <1>1, <1>6, <2>1
    <3> QED BY <1>1, <1>2, <1>6, <2>1, <3>1
  <2>2. CASE l = n + 1
    <3>1. more[l] = j
      BY <1>2, <2>2
    <3>2. more[k] \in 0..j
      BY <1>5
    <3> QED BY <3>1, <3>2
  <2> QED BY <1>1, <1>2, <2>1, <2>2
<1>7. ASSUME NEW k \in 1..Len(more), NEW l \in 1..Len(more), k < l
      PROVE  more[k] < more[l]
  <2>1. k \in 1..n
    BY <1>1, <1>2, <1>7
  <2>2. CASE l \in 1..n
    BY <1>1, <1>2, <1>7, <2>1, <2>2
  <2>3. CASE l = n + 1
    <3>1. more[l] = j /\ more[k] = starts[k] /\ starts[k] \in 0..i
      BY <1>1, <1>2, <2>1, <2>3
    <3> QED BY <3>1
  <2> QED BY <1>1, <1>2, <2>2, <2>3
<1>8. more[1] = 0 /\ Len(more) \in Nat \ {0}
  BY <1>1, <1>2
<1>9. Ascending(more, j)
  BY <1>2, <1>5, <1>6, <1>7, <1>8 DEF Ascending
<1> QED BY <1>4, <1>9 DEF more

LEMMA StartsAscend ==
  ASSUME OneByte, NEW t \in Text
  PROVE  Ascending(LineStarts(t), Len(t))
<1> DEFINE n == Len(t)
<1>1. n \in Nat
  BY LenProperties DEF Text
<1>2. PICK h \in [0..n -> Seq(Nat)] : Scans(h, t) /\ LineStarts(t) = h[n]
  BY LineStartsScan
<1>3. /\ h[0] = <<0>>
      /\ \A i \in 1..n : h[i] = IF t[i] = Newline THEN Append(h[i - 1], i) ELSE h[i - 1]
  <2>1. \A i \in 1..n : Boundaries(Utf8Len, t)[i] = i
    BY <1>1, BytesAreChars
  <2> QED BY <1>2, <2>1 DEF Scans
<1> HIDE DEF n
<1> DEFINE P == {i \in Nat : i <= n => Ascending(h[i], i)}
<1>4. 0 \in P
  <2> DEFINE first == h[0]
  <2>1. first \in Seq(Nat) /\ Len(first) = 1 /\ first[1] = 0
    BY <1>3
  <2> HIDE DEF first
  <2>2. \A k \in 1..Len(first) : k = 1
    BY <2>1
  <2>3. Ascending(first, 0)
    BY <2>1, <2>2 DEF Ascending
  <2> QED BY <2>3 DEF first
<1>5. ASSUME NEW i \in Nat, i \in P PROVE i + 1 \in P
  <2> SUFFICES ASSUME i + 1 <= n PROVE Ascending(h[i + 1], i + 1)
    OBVIOUS
  <2> DEFINE j == i + 1
  <2>1. j \in 1..n /\ j - 1 = i /\ Ascending(h[i], i)
    BY <1>1, <1>5
  <2> HIDE DEF j
  <2>2. h[j] = IF t[j] = Newline THEN Append(h[i], j) ELSE h[i]
    BY <1>3, <2>1
  <2>3. Ascending(h[i], j) /\ Ascending(Append(h[i], j), j)
    <3>1. j = i + 1
      BY DEF j
    <3> DEFINE hi == h[i]
    <3> HIDE DEF hi
    <3>2. Ascending(hi, i)
      BY <2>1 DEF hi
    <3>3. Ascending(hi, j) /\ Ascending(Append(hi, j), j)
      BY <3>1, <3>2, AscendingGoesOn
    <3> QED BY <3>3 DEF hi
  <2> QED BY <2>2, <2>3 DEF j
<1> HIDE DEF P
<1>6. \A i \in Nat : i \in P
  BY <1>4, <1>5, SetNatInduction
<1> QED BY <1>1, <1>2, <1>6 DEF P, n

(* The starts of the lines of a text that follows another one of length d. *)
Moved(starts, d) == [i \in 1..(Len(starts) - 1) |-> d + starts[i + 1]]

LEMMA MovedShape ==
  ASSUME NEW starts \in Seq(Nat), Len(starts) \in Nat \ {0}, NEW d \in Nat
  PROVE  /\ Moved(starts, d) \in Seq(Nat) /\ Len(Moved(starts, d)) = Len(starts) - 1
         /\ \A i \in 1..(Len(starts) - 1) : Moved(starts, d)[i] = d + starts[i + 1]
<1> DEFINE n == Len(starts)
           m == n - 1
<1>1. n \in Nat \ {0} /\ m \in Nat /\ \A i \in 1..m : i + 1 \in 1..n
  OBVIOUS
<1>2. \A i \in 1..n : starts[i] \in Nat
  BY ElementOfSeq
<1>3. \A i \in 1..m : d + starts[i + 1] \in Nat
  BY <1>1, <1>2
<1>4. Moved(starts, d) = [i \in 1..m |-> d + starts[i + 1]]
  BY DEF Moved
<1> HIDE DEF m
<1> QED BY <1>1, <1>3, <1>4 DEF m

MovesOn(starts, d, j, one) == Moved(Append(starts, j), d) = Append(Moved(starts, d), one)

LEMMA MovedGoesOn ==
  ASSUME NEW starts \in Seq(Nat), Len(starts) \in Nat \ {0}, NEW d \in Nat, NEW j \in Nat,
         NEW one \in Nat, one = d + j
  PROVE  MovesOn(starts, d, j, one)
<1> DEFINE n == Len(starts)
           more == Append(starts, j)
           moved == Moved(starts, d)
           x == Moved(more, d)
           y == Append(moved, one)
<1>1. /\ n \in Nat \ {0} /\ one \in Nat
      /\ more \in Seq(Nat) /\ Len(more) = n + 1 /\ more[n + 1] = j
      /\ \A i \in 1..n : more[i] = starts[i]
  BY AppendProperties
<1>2. moved \in Seq(Nat) /\ Len(moved) = n - 1
      /\ \A i \in 1..(n - 1) : moved[i] = d + starts[i + 1]
  BY MovedShape
<1> HIDE DEF n, more, moved
<1>3. Len(more) \in Nat \ {0}
  BY <1>1
<1>4. x \in Seq(Nat) /\ Len(x) = Len(more) - 1
      /\ \A i \in 1..(Len(more) - 1) : x[i] = d + more[i + 1]
  BY <1>1, <1>3, MovedShape
<1> HIDE DEF x
<1>5. y \in Seq(Nat) /\ Len(y) = Len(moved) + 1 /\ y[Len(moved) + 1] = one
      /\ \A i \in 1..Len(moved) : y[i] = moved[i]
  BY <1>1, <1>2, AppendProperties
<1> HIDE DEF y
<1>6. Len(x) = n /\ Len(y) = n
  BY <1>1, <1>2, <1>4, <1>5
<1>7. ASSUME NEW i \in 1..n PROVE x[i] = y[i]
  <2>1. x[i] = d + more[i + 1]
    BY <1>1, <1>4
  <2>2. CASE i \in 1..(n - 1)
    <3>1. i + 1 \in 1..n
      BY <1>1, <2>2
    <3> QED BY <1>1, <1>2, <1>5, <2>1, <2>2, <3>1
  <2>3. CASE i = n
    <3>1. y[n] = one /\ more[i + 1] = j
      BY <1>1, <1>2, <1>5, <2>3
    <3> QED BY <2>1, <2>3, <3>1
  <2> QED BY <1>1, <2>2, <2>3
<1>8. x = y
  BY <1>4, <1>5, <1>6, <1>7, SeqEqual
<1> QED BY <1>8 DEF MovesOn, x, y, more, moved

(* The lines of two texts, one after the other.                            *)
LEMMA StartsOfConcat ==
  ASSUME OneByte, NEW a \in Text, NEW b \in Text
  PROVE  LineStarts(a \o b) = LineStarts(a) \o Moved(LineStarts(b), Len(a))
<1> DEFINE c == a \o b
           d == Len(a)
           m == Len(b)
<1>1. /\ d \in Nat /\ m \in Nat /\ c \in Text /\ Len(c) = d + m
      /\ \A i \in 1..(d + m) : c[i] = IF i <= d THEN a[i] ELSE b[i - d]
  BY ConcatProperties, LenProperties DEF Text
<1>2. ASSUME NEW t \in Text, NEW n \in Nat, Len(t) = n
      PROVE  \E h \in [0..n -> Seq(Nat)] :
               /\ LineStarts(t) = h[n] /\ h[0] = <<0>>
               /\ \A i \in 1..n : h[i] = IF t[i] = Newline THEN Append(h[i - 1], i) ELSE h[i - 1]
  <2>1. PICK h \in [0..Len(t) -> Seq(Nat)] : Scans(h, t) /\ LineStarts(t) = h[Len(t)]
    BY LineStartsScan
  <2>2. \A i \in 1..n : Boundaries(Utf8Len, t)[i] = i
    BY <1>2, BytesAreChars
  <2>3. h \in [0..n -> Seq(Nat)] /\ LineStarts(t) = h[n] /\ h[0] = <<0>>
    BY <1>2, <2>1 DEF Scans
  <2>4. ASSUME NEW i \in 1..n
        PROVE  h[i] = IF t[i] = Newline THEN Append(h[i - 1], i) ELSE h[i - 1]
    BY <1>2, <2>1, <2>2 DEF Scans
  <2> QED BY <2>3, <2>4
<1> HIDE DEF c
<1>3. PICK ha \in [0..d -> Seq(Nat)] :
        /\ LineStarts(a) = ha[d] /\ ha[0] = <<0>>
        /\ \A i \in 1..d : ha[i] = IF a[i] = Newline THEN Append(ha[i - 1], i) ELSE ha[i - 1]
  BY <1>1, <1>2
<1>4. PICK hb \in [0..m -> Seq(Nat)] :
        /\ LineStarts(b) = hb[m] /\ hb[0] = <<0>>
        /\ \A i \in 1..m : hb[i] = IF b[i] = Newline THEN Append(hb[i - 1], i) ELSE hb[i - 1]
  BY <1>1, <1>2
<1>5. PICK hc \in [0..(d + m) -> Seq(Nat)] :
        /\ LineStarts(c) = hc[d + m] /\ hc[0] = <<0>>
        /\ \A i \in 1..(d + m) :
             hc[i] = IF c[i] = Newline THEN Append(hc[i - 1], i) ELSE hc[i - 1]
  <2>1. d + m \in Nat
    BY <1>1
  <2> QED BY <1>1, <1>2, <2>1
<1> HIDE DEF d, m
<1> DEFINE P == {i \in Nat : i <= d => hc[i] = ha[i]}
<1>6. 0 \in P
  BY <1>3, <1>5
<1>7. ASSUME NEW i \in Nat, i \in P PROVE i + 1 \in P
  <2> SUFFICES ASSUME i + 1 <= d PROVE hc[i + 1] = ha[i + 1]
    OBVIOUS
  <2> DEFINE j == i + 1
  <2>1. j \in 1..d /\ j \in 1..(d + m) /\ j - 1 = i /\ hc[i] = ha[i] /\ j <= d
    BY <1>1, <1>7
  <2> HIDE DEF j
  <2>2. c[j] = a[j]
    BY <1>1, <2>1
  <2>3. hc[j] = IF a[j] = Newline THEN Append(hc[i], j) ELSE hc[i]
    BY <1>5, <2>1, <2>2
  <2>4. ha[j] = IF a[j] = Newline THEN Append(ha[i], j) ELSE ha[i]
    BY <1>3, <2>1
  <2> QED BY <2>1, <2>3, <2>4 DEF j
<1> HIDE DEF P
<1>8. \A i \in Nat : i \in P
  BY <1>6, <1>7, SetNatInduction
<1>9. hc[d] = ha[d]
  BY <1>1, <1>8 DEF P
<1> DEFINE start == ha[d]
           Q == {j \in Nat : j <= m => /\ Len(hb[j]) \in Nat \ {0}
                                      /\ hc[d + j] = start \o Moved(hb[j], d)}
<1>10. start \in Seq(Nat)
  BY <1>1
<1> HIDE DEF start
<1>11. 0 \in Q
  <2> DEFINE first == hb[0]
  <2>1. first \in Seq(Nat) /\ Len(first) = 1
    BY <1>4
  <2> HIDE DEF first
  <2>2. Len(first) \in Nat \ {0}
    BY <2>1
  <2>3. Moved(first, d) \in Seq(Nat) /\ Len(Moved(first, d)) = Len(first) - 1
    BY <1>1, <2>1, <2>2, MovedShape
  <2>4. Moved(first, d) = <<>>
    BY <2>1, <2>3, EmptySeq
  <2>5. start \o <<>> = start /\ d + 0 = d
    BY <1>1, <1>10, ConcatEmptySeq
  <2> QED BY <1>9, <2>2, <2>4, <2>5 DEF first, start
<1>12. ASSUME NEW j \in Nat, j \in Q PROVE j + 1 \in Q
  <2> SUFFICES ASSUME j + 1 <= m
               PROVE  /\ Len(hb[j + 1]) \in Nat \ {0}
                      /\ hc[d + (j + 1)] = start \o Moved(hb[j + 1], d)
    OBVIOUS
  <2> DEFINE k == j + 1
             s == hb[j]
             at == d + k
  <2>1. /\ k \in 1..m /\ k - 1 = j /\ k \in Nat /\ s \in Seq(Nat) /\ Len(s) \in Nat \ {0}
        /\ hc[d + j] = start \o Moved(s, d)
    <3>1. j \in 0..m /\ j <= m /\ k \in 1..m /\ k - 1 = j /\ k \in Nat
      BY <1>1
    <3>2. s \in Seq(Nat)
      BY <3>1
    <3>3. Len(hb[j]) \in Nat \ {0} /\ hc[d + j] = start \o Moved(hb[j], d)
      BY <1>12, <3>1
    <3> QED BY <3>1, <3>2, <3>3
  <2>2. /\ at \in 1..(d + m) /\ ~(at <= d) /\ at - d = k /\ at - 1 = d + j /\ at \in Nat
        /\ at = d + k
    BY <1>1, <2>1
  <2> HIDE DEF k, at
  <2>3. c[at] = b[k] /\ hb[k] = IF b[k] = Newline THEN Append(s, k) ELSE s
    BY <1>1, <1>4, <2>1, <2>2
  <2> HIDE DEF s
  <2>4. hc[at] = IF b[k] = Newline THEN Append(start \o Moved(s, d), at)
                 ELSE start \o Moved(s, d)
    <3>1. hc[at] = IF c[at] = Newline THEN Append(hc[at - 1], at) ELSE hc[at - 1]
      BY <1>5, <2>2
    <3>2. hc[at - 1] = start \o Moved(s, d)
      BY <2>1, <2>2
    <3> QED BY <2>3, <3>1, <3>2
  <2>5. EndsLonger(start, Moved(s, d), at)
    <3>1. Moved(s, d) \in Seq(Nat)
      BY <1>1, <2>1, MovedShape
    <3> QED BY <1>10, <2>2, <3>1, AppendToConcat
  <2>6. MovesOn(s, d, k, at)
    BY <1>1, <2>1, <2>2, MovedGoesOn
  <2>7. Len(Append(s, k)) = Len(s) + 1
    BY <2>1, AppendProperties
  <2>8. Len(hb[k]) \in Nat \ {0} /\ hc[at] = start \o Moved(hb[k], d)
    <3>1. CASE b[k] = Newline
      <4>1. hb[k] = Append(s, k) /\ hc[at] = start \o Moved(hb[k], d)
        BY <2>3, <2>4, <2>5, <2>6, <3>1 DEF EndsLonger, MovesOn
      <4>2. Len(hb[k]) = Len(s) + 1
        BY <2>7, <4>1
      <4>3. Len(s) \in Nat \ {0}
        BY <2>1
      <4>4. Len(hb[k]) \in Nat \ {0}
        BY <4>2, <4>3
      <4> QED BY <4>1, <4>4
    <3>2. CASE b[k] # Newline
      <4>1. hb[k] = s /\ hc[at] = start \o Moved(s, d) /\ Len(s) \in Nat \ {0}
        BY <2>1, <2>3, <2>4, <3>2
      <4> QED BY <4>1
    <3> QED BY <3>1, <3>2
  <2> QED BY <2>8 DEF k, at
<1> HIDE DEF Q
<1>13. \A j \in Nat : j \in Q
  BY <1>11, <1>12, SetNatInduction
<1>14. hc[d + m] = start \o Moved(hb[m], d)
  <2>1. m \in Q /\ m <= m
    BY <1>1, <1>13
  <2> QED BY <2>1 DEF Q
<1> QED BY <1>3, <1>4, <1>5, <1>14 DEF start, c, d

(* An index with a first line, and what rescanning makes of it.            *)
Index == {starts \in Seq(Nat) : Len(starts) \in Nat \ {0}}

Updated(starts, suffix, at, keep) ==
  /\ keep = Max({1} \union {i \in 1..Len(starts) : starts[i] <= at})
  /\ UpdateLineStarts(starts, suffix, at) =
       SubSeq(starts, 1, keep) \o Moved(LineStarts(suffix), starts[keep])
  /\ UpdateLineStarts(starts, suffix, at) \in Index

LEMMA UpdatedIs ==
  ASSUME NEW starts \in Index, NEW suffix \in Text, NEW at
  PROVE  \E keep : Updated(starts, suffix, at, keep)
<1> DEFINE n == Len(starts)
           T == {1} \union {i \in 1..n : starts[i] <= at}
           keep == Max(T)
           found == LineStarts(suffix)
           d == starts[keep]
           kept == SubSeq(starts, 1, keep)
           new == UpdateLineStarts(starts, suffix, at)
<1>1. starts \in Seq(Nat) /\ n \in Nat \ {0}
  BY DEF Index
<1>2. T \in SUBSET (1..n) /\ T # {}
  BY <1>1
<1>3. new = kept \o Moved(found, d)
  BY DEF UpdateLineStarts, Moved
<1> HIDE DEF T, n, new
<1>4. keep \in 1..n
  BY <1>1, <1>2, MaxIsGreatest
<1>5. d \in Nat
  BY <1>1, <1>4, ElementOfSeq DEF n
<1> HIDE DEF keep
<1>6. keep \in Nat /\ keep <= Len(starts)
  BY <1>1, <1>4 DEF n
<1>7. kept \in Seq(Nat) /\ Len(kept) = keep
  BY <1>1, <1>6, FirstPart
<1>8. found \in Seq(Nat) /\ Len(found) \in Nat \ {0}
  BY LineStartsType
<1> HIDE DEF d, kept, found
<1>9. Moved(found, d) \in Seq(Nat) /\ Len(Moved(found, d)) = Len(found) - 1
  BY <1>5, <1>8, MovedShape
<1> DEFINE moved == Moved(found, d)
           both == kept \o moved
<1> HIDE DEF moved
<1>10. moved \in Seq(Nat) /\ Len(moved) = Len(found) - 1
  BY <1>9 DEF moved
<1>11. both \in Seq(Nat) /\ Len(both) = Len(kept) + Len(moved)
  <2>1. kept \in Seq(Nat) /\ moved \in Seq(Nat)
    BY <1>7, <1>10
  <2> QED BY <2>1, ConcatProperties
<1> HIDE DEF both
<1>12. Len(both) \in Nat \ {0}
  <2> DEFINE x == Len(kept)
             y == Len(moved)
             z == Len(found)
  <2>1. x = keep /\ y = z - 1 /\ z \in Nat \ {0} /\ Len(both) = x + y
    BY <1>7, <1>8, <1>10, <1>11
  <2>2. keep \in Nat /\ 1 <= keep
    BY <1>4, <1>6
  <2> HIDE DEF x, y, z
  <2> QED BY <2>1, <2>2
<1>13. new = both
  BY <1>3 DEF both, moved
<1>14. new \in Index
  BY <1>11, <1>12, <1>13 DEF Index
<1> QED BY <1>3, <1>14 DEF Updated, keep, T, n, new, d, kept, found

LEMMA MovedBeyond ==
  ASSUME OneByte, NEW t \in Text, NEW d \in Nat
  PROVE  \A i \in 1..(Len(LineStarts(t)) - 1) : Moved(LineStarts(t), d)[i] > d
<1> DEFINE starts == LineStarts(t)
           n == Len(starts)
<1>1. /\ n \in Nat \ {0} /\ starts \in Seq(Nat)
      /\ \A i \in 1..n : (i # 1 => starts[i] >= 1) /\ starts[i] \in Nat
  BY StartsAscend, ElementOfSeq DEF Ascending
<1>2. \A i \in 1..(n - 1) : Moved(starts, d)[i] = d + starts[i + 1]
  BY <1>1, MovedShape
<1> HIDE DEF starts, n
<1>3. ASSUME NEW i \in 1..(n - 1) PROVE Moved(starts, d)[i] > d
  <2>1. i + 1 \in 1..n /\ i + 1 # 1
    BY <1>1
  <2> DEFINE x == starts[i + 1]
  <2>2. x >= 1 /\ x \in Nat /\ Moved(starts, d)[i] = d + x
    BY <1>1, <1>2, <2>1
  <2> HIDE DEF x
  <2> QED BY <2>2
<1> QED BY <1>3 DEF starts, n

LEMMA NotBelow ==
  ASSUME NEW x \in Nat, NEW y \in Nat, x > y
  PROVE  ~(x <= y)
OBVIOUS

(* If the texts agree up to the start of a line of the first, rescanning   *)
(* the second from there gives its index.                                  *)
LEMMA Rescan ==
  ASSUME OneByte, NEW t \in Text, NEW put \in Text,
         NEW l \in 1..Len(LineStarts(t)), NEW from, from = LineStarts(t)[l],
         from <= Len(t), from <= Len(put), SubSeq(put, 1, from) = SubSeq(t, 1, from),
         NEW first, first = from + 1
  PROVE  UpdateLineStarts(LineStarts(t), SubSeq(put, first, Len(put)), from) = LineStarts(put)
<1> DEFINE starts == LineStarts(t)
           a == SubSeq(t, 1, from)
           b == SubSeq(t, first, Len(t))
           suffix == SubSeq(put, first, Len(put))
           sa == LineStarts(a)
           sb == LineStarts(b)
           mb == Moved(sb, from)
           k == Len(sa)
           n == Len(starts)
           T == {1} \union {i \in 1..n : starts[i] <= from}
<1>1. starts \in Seq(Nat) /\ n \in Nat \ {0} /\ from \in Nat
  BY LineStartsType, ElementOfSeq
<1>2. a \in Text /\ Len(a) = from /\ b \in Text /\ suffix \in Text
  <2>1. Len(t) \in Nat /\ Len(put) \in Nat
    BY LenProperties DEF Text
  <2>2. a \in Text /\ Len(a) = from
    <3>1. t \in Seq(Chars) /\ from \in Nat /\ from <= Len(t)
      BY <1>1 DEF Text
    <3>2. a \in Seq(Chars) /\ Len(a) = from
      BY <3>1, FirstPart
    <3> QED BY <3>2 DEF Text
  <2> DEFINE x == Len(t)
             y == Len(put)
  <2>3. x \in Nat /\ y \in Nat /\ from <= x /\ from <= y /\ x <= Len(t) /\ y <= Len(put)
    BY <2>1
  <2> HIDE DEF x, y
  <2>4. SubSeq(t, first, x) \in Text /\ SubSeq(put, first, y) \in Text
    BY <1>1, <2>3, PartShape DEF Text
  <2> QED BY <2>2, <2>4 DEF x, y
<1>3. a \o b = t /\ a \o suffix = put
  <2>1. SubSeq(t, 1, from) \o SubSeq(t, first, Len(t)) = t
    BY <1>1, CutInTwo DEF Text
  <2>2. SubSeq(put, 1, from) \o SubSeq(put, first, Len(put)) = put
    BY <1>1, CutInTwo DEF Text
  <2> QED BY <2>1, <2>2
<1> HIDE DEF a, b, suffix
<1>4. starts = sa \o mb /\ LineStarts(put) = sa \o Moved(LineStarts(suffix), from)
  <2>1. LineStarts(a \o b) = sa \o mb
    BY <1>2, StartsOfConcat
  <2>2. LineStarts(a \o suffix) = sa \o Moved(LineStarts(suffix), from)
    BY <1>2, StartsOfConcat
  <2> QED BY <1>3, <2>1, <2>2
<1>5. /\ sa \in Seq(Nat) /\ k \in Nat \ {0} /\ \A i \in 1..k : sa[i] \in 0..from
      /\ \A i, j \in 1..k : i <= j => sa[i] <= sa[j]
  BY <1>2, StartsAscend DEF Ascending
<1>6. /\ sb \in Seq(Nat) /\ Len(sb) \in Nat \ {0}
      /\ \A i \in 1..Len(sb) : i # 1 => sb[i] >= 1
      /\ \A i \in 1..Len(sb) : sb[i] \in Nat
  BY <1>2, StartsAscend, ElementOfSeq DEF Ascending
<1>7. /\ mb \in Seq(Nat) /\ Len(mb) = Len(sb) - 1
      /\ \A i \in 1..(Len(sb) - 1) : mb[i] = from + sb[i + 1]
  BY <1>1, <1>6, MovedShape
<1>8. \A i \in 1..(Len(sb) - 1) : mb[i] > from
  BY <1>1, <1>2, MovedBeyond
<1> HIDE DEF starts, sa, sb, mb
<1>9. \A i \in 1..Len(mb) : mb[i] > from
  BY <1>7, <1>8
<1>10. /\ Len(sa \o mb) = Len(sa) + Len(mb)
      /\ \A i \in 1..(Len(sa) + Len(mb)) :
           (sa \o mb)[i] = IF i <= Len(sa) THEN sa[i] ELSE mb[i - Len(sa)]
  <2>1. sa \in Seq(Nat) /\ mb \in Seq(Nat)
    BY <1>5, <1>7
  <2> QED BY <2>1, ConcatProperties
<1>11. /\ n = k + Len(mb) /\ Len(mb) \in Nat
       /\ \A i \in 1..n : starts[i] = IF i <= k THEN sa[i] ELSE mb[i - k]
  <2> DEFINE both == sa \o mb
  <2>1. starts = both /\ Len(both) = k + Len(mb)
        /\ \A i \in 1..(k + Len(mb)) : both[i] = IF i <= k THEN sa[i] ELSE mb[i - k]
    BY <1>4, <1>10
  <2> HIDE DEF both, k
  <2>2. Len(mb) \in Nat
    BY <1>6, <1>7
  <2> QED BY <2>1, <2>2
<1> HIDE DEF k, n
<1>12. T = 1..k
  <2>1. ASSUME NEW i \in 1..n PROVE starts[i] <= from <=> i <= k
    <3>1. CASE i <= k
      BY <1>1, <1>5, <1>11, <3>1
    <3>2. CASE ~(i <= k)
      <4>1. i - k \in 1..Len(mb) /\ starts[i] = mb[i - k]
        <5>1. k \in Nat /\ n = k + Len(mb) /\ Len(mb) \in Nat
          BY <1>5, <1>11
        <5>2. starts[i] = IF i <= k THEN sa[i] ELSE mb[i - k]
          BY <1>11
        <5> QED BY <3>2, <5>1, <5>2
      <4>2. starts[i] > from /\ starts[i] \in Nat
        <5>1. starts[i] \in Nat
          BY <1>1, ElementOfSeq DEF n
        <5>2. mb[i - k] > from
          BY <1>9, <4>1
        <5> QED BY <4>1, <5>1, <5>2
      <4>3. from \in Nat
        BY <1>1
      <4>4. ~(starts[i] <= from)
        BY <4>2, <4>3, NotBelow
      <4> QED BY <3>2, <4>4
    <3> QED BY <3>1, <3>2
  <2>2. 1 \in 1..k /\ \A i : i \in 1..k <=> i \in 1..n /\ i <= k
    BY <1>5, <1>11
  <2> QED BY <2>1, <2>2
<1>13. Max(T) = k
  <2>1. k \in 1..k
    BY <1>5
  <2> QED BY <1>5, <1>12, <2>1, LatestChooses
<1>14. starts[k] = from
  <2>1. l \in T /\ starts[l] = from /\ l \in 1..n
    BY <1>1 DEF starts, n
  <2>2. l \in 1..k /\ k \in 1..k /\ k \in 1..n /\ l <= k
    <3>1. k \in Nat \ {0} /\ n = k + Len(mb) /\ Len(mb) \in Nat
      BY <1>5, <1>11
    <3> QED BY <1>12, <2>1, <3>1
  <2>3. starts[l] = sa[l] /\ starts[k] = sa[k] /\ sa[l] <= sa[k] /\ sa[k] \in 0..from
    <3>1. starts[l] = sa[l] /\ starts[k] = sa[k]
      BY <1>11, <2>1, <2>2
    <3> QED BY <1>5, <2>2, <3>1
  <2> DEFINE x == sa[l]
             y == sa[k]
  <2>4. from = x /\ starts[k] = y /\ x <= y /\ y \in 0..from /\ from \in Nat
    BY <1>1, <2>1, <2>3
  <2> HIDE DEF x, y
  <2> QED BY <2>4
<1>15. SubSeq(starts, 1, k) = sa
  <2> DEFINE x == SubSeq(starts, 1, k)
  <2>1. k \in Nat /\ k <= Len(starts)
    BY <1>5, <1>11 DEF n
  <2>2. x \in Seq(Nat) /\ Len(x) = k /\ \A i \in 1..k : x[i] = starts[i]
    BY <1>1, <2>1, FirstPart
  <2> HIDE DEF x
  <2>3. ASSUME NEW i \in 1..Len(x) PROVE x[i] = sa[i]
    <3>1. i \in 1..k /\ i \in 1..n /\ i <= k
      BY <1>5, <1>11, <2>2
    <3> QED BY <1>11, <2>2, <3>1
  <2>4. x = sa
    BY <1>5, <2>2, <2>3, SeqEqual DEF k
  <2> QED BY <2>4 DEF x
<1>16. starts \in Index
  BY <1>1 DEF Index, n
<1>17. PICK keep : Updated(starts, suffix, from, keep)
  BY <1>2, <1>16, UpdatedIs
<1>18. keep = k
  BY <1>13, <1>17 DEF Updated, n
<1>19. UpdateLineStarts(starts, suffix, from) = sa \o Moved(LineStarts(suffix), from)
  BY <1>14, <1>15, <1>17, <1>18 DEF Updated
<1> QED BY <1>4, <1>19 DEF starts, suffix

----------------------------------------------------------------------------
(* Documents.  What the rope gives back is a text, or None.                *)
LEMMA SliceShape ==
  ASSUME NEW t \in Text, NEW from \in Nat, NEW to \in Nat
  PROVE  /\ Slice(t, from, to) \in Text \union {None}
         /\ Slice(t, from, to) # None => Slice(t, from, to) \in Text /\ from <= to /\ to <= Len(t)
         /\ from <= to /\ to <= Len(t) => Slice(t, from, to) = SubSeq(t, from + 1, to)
                                          /\ Slice(t, from, to) # None
<1> DEFINE first == from + 1
<1>1. CASE from <= to /\ to <= Len(t)
  <2>1. Slice(t, from, to) = SubSeq(t, first, to)
    BY <1>1 DEF Slice
  <2>2. first = from + 1
    OBVIOUS
  <2> HIDE DEF first
  <2>3. SubSeq(t, first, to) \in Text
    BY <1>1, <2>2, PartShape DEF Text
  <2>4. None \notin Text
    BY CharsAssumption DEF CharsAssumption, Text
  <2> QED BY <1>1, <2>1, <2>3, <2>4 DEF first
<1>2. CASE ~(from <= to /\ to <= Len(t))
  BY <1>2 DEF Slice
<1> QED BY <1>1, <1>2

(* What is kept of a text and what is put into it.                         *)
LEMMA RemoveShape ==
  ASSUME NEW t \in Text, NEW from \in Nat, NEW to \in Nat, from <= to, to <= Len(t)
  PROVE  /\ RopeRemove(t, from, to) \in Text
         /\ from <= Len(RopeRemove(t, from, to))
         /\ \A i \in 1..from : RopeRemove(t, from, to)[i] = t[i]
<1> DEFINE n == Len(t)
           first == to + 1
           a == SubSeq(t, 1, from)
           b == SubSeq(t, first, n)
           c == a \o b
<1>1. n \in Nat /\ n <= Len(t) /\ to <= n /\ from <= Len(t) /\ first = to + 1
  BY LenProperties DEF Text
<1>2. RopeRemove(t, from, to) = c
  BY DEF RopeRemove
<1>3. a \in Text /\ Len(a) = from /\ \A i \in 1..from : a[i] = t[i]
  BY <1>1, FirstPart DEF Text
<1> HIDE DEF first, n
<1>4. b \in Text /\ Len(b) \in Nat
  <2>1. b \in Text
    BY <1>1, PartShape DEF Text
  <2> HIDE DEF b
  <2> QED BY <2>1, LenProperties DEF Text
<1> HIDE DEF a, b
<1>5. c \in Text /\ Len(c) = Len(a) + Len(b)
      /\ \A i \in 1..(Len(a) + Len(b)) : c[i] = IF i <= Len(a) THEN a[i] ELSE b[i - Len(a)]
  BY <1>3, <1>4, ConcatProperties DEF Text
<1> HIDE DEF c
<1>6. from <= Len(c)
  BY <1>3, <1>4, <1>5
<1>7. ASSUME NEW i \in 1..from PROVE c[i] = t[i]
  <2>1. i \in 1..(Len(a) + Len(b)) /\ i <= Len(a)
    BY <1>3, <1>4
  <2> QED BY <1>3, <1>5, <2>1
<1> QED BY <1>2, <1>5, <1>6, <1>7

LEMMA InsertShape ==
  ASSUME NEW t \in Text, NEW at \in Nat, NEW new \in Text, at <= Len(t)
  PROVE  /\ RopeInsert(t, at, new) \in Text
         /\ at <= Len(RopeInsert(t, at, new))
         /\ at + Len(new) <= Len(RopeInsert(t, at, new))
         /\ \A i \in 1..at : RopeInsert(t, at, new)[i] = t[i]
<1> DEFINE n == Len(t)
           first == at + 1
           a == SubSeq(t, 1, at)
           b == SubSeq(t, first, n)
           an == a \o new
           c == an \o b
<1>1. n \in Nat /\ n <= Len(t) /\ at <= n /\ first = at + 1
  BY LenProperties DEF Text
<1>2. RopeInsert(t, at, new) = c
  BY DEF RopeInsert
<1>3. a \in Text /\ Len(a) = at /\ \A i \in 1..at : a[i] = t[i]
  BY <1>1, FirstPart DEF Text
<1> HIDE DEF first, n
<1>4. b \in Text /\ Len(b) \in Nat /\ Len(new) \in Nat
  <2>1. b \in Text
    BY <1>1, PartShape DEF Text
  <2> HIDE DEF b
  <2> QED BY <2>1, LenProperties DEF Text
<1> HIDE DEF a, b
<1>5. an \in Text /\ Len(an) = Len(a) + Len(new)
      /\ \A i \in 1..(Len(a) + Len(new)) : an[i] = IF i <= Len(a) THEN a[i] ELSE new[i - Len(a)]
  BY <1>3, ConcatProperties DEF Text
<1> HIDE DEF an
<1>6. c \in Text /\ Len(c) = Len(an) + Len(b)
      /\ \A i \in 1..(Len(an) + Len(b)) : c[i] = IF i <= Len(an) THEN an[i] ELSE b[i - Len(an)]
  <2>1. an \in Text /\ b \in Text
    BY <1>4, <1>5
  <2> QED BY <2>1, ConcatProperties DEF Text
<1> HIDE DEF c
<1>7. at <= Len(c) /\ at + Len(new) <= Len(c)
  BY <1>3, <1>4, <1>5, <1>6
<1>8. ASSUME NEW i \in 1..at PROVE c[i] = t[i]
  <2>1. i \in 1..(Len(an) + Len(b)) /\ i <= Len(an) /\ i <= Len(a) /\ i \in 1..(Len(a) + Len(new))
    BY <1>3, <1>4, <1>5
  <2> QED BY <1>3, <1>5, <1>6, <2>1
<1> QED BY <1>2, <1>6, <1>7, <1>8

(* A splice keeps the text before it.                                      *)
Put(doc, from, to, new) == RopeInsert(RopeRemove(doc.rope, from, to), from, new)

TDoc == [rope : Text, lines : Index]

LEMMA SpliceShape ==
  ASSUME NEW doc \in TDoc, NEW from \in Nat, NEW to \in Nat, NEW new \in Text
  PROVE  /\ from <= to /\ to <= Len(doc.rope) =>
              /\ Put(doc, from, to, new) \in Text
              /\ from <= Len(Put(doc, from, to, new))
              /\ from + Len(new) <= Len(Put(doc, from, to, new))
              /\ \A i \in 1..from : Put(doc, from, to, new)[i] = doc.rope[i]
              /\ Spliced(doc, from, to, new) =
                   Doc(Put(doc, from, to, new),
                       UpdateLineIndex(Put(doc, from, to, new), doc.lines, from))
         /\ ~(from <= to /\ to <= Len(doc.rope)) => Spliced(doc, from, to, new) = None
<1> DEFINE t == doc.rope
           cut == RopeRemove(t, from, to)
           put == RopeInsert(cut, from, new)
<1>1. t \in Text /\ None \notin Text
  BY CharsAssumption DEF CharsAssumption, Text, TDoc
<1>2. CASE from <= to /\ to <= Len(doc.rope)
  <2>1. cut \in Text /\ from <= Len(cut) /\ \A i \in 1..from : cut[i] = t[i]
    BY <1>1, <1>2, RemoveShape
  <2>2. Put(doc, from, to, new) = put
    BY DEF Put
  <2>3. Spliced(doc, from, to, new) =
          IF put = None THEN None ELSE Doc(put, UpdateLineIndex(put, doc.lines, from))
    BY <1>1, <2>1 DEF Spliced
  <2> HIDE DEF cut
  <2>4. put \in Text /\ from <= Len(put) /\ from + Len(new) <= Len(put)
        /\ \A i \in 1..from : put[i] = cut[i]
    BY <2>1, InsertShape
  <2> HIDE DEF put
  <2>5. put # None
    BY <1>1, <2>4
  <2> QED BY <1>2, <2>1, <2>2, <2>3, <2>4, <2>5
<1>3. CASE ~(from <= to /\ to <= Len(doc.rope))
  BY <1>3 DEF Spliced, RopeRemove
<1> QED BY <1>2, <1>3

(* The index that goes with a text after a splice.                         *)
LEMMA LineIsIndex ==
  ASSUME NEW starts \in Index, NEW at \in Nat
  PROVE  /\ OffsetToLine(starts, at) \in (1..Len(starts)) \union {None}
         /\ OffsetToLine(starts, at) # None =>
              /\ OffsetToLine(starts, at) \in 1..Len(starts)
              /\ starts[OffsetToLine(starts, at)] \in Nat
              /\ starts[OffsetToLine(starts, at)] <= at
<1> DEFINE n == Len(starts)
           T == {i \in 1..n : starts[i] <= at}
<1>1. n \in Nat /\ \A i \in 1..n : starts[i] \in Nat
  BY ElementOfSeq DEF Index
<1>2. OffsetToLine(starts, at) = IF T = {} THEN None ELSE Max(T)
  BY DEF OffsetToLine
<1>3. T \in SUBSET (1..n)
  OBVIOUS
<1>4. ASSUME T # {} PROVE Max(T) \in 1..n /\ starts[Max(T)] \in Nat /\ starts[Max(T)] <= at
  <2> HIDE DEF n
  <2>1. Max(T) \in T
    <3> HIDE DEF T
    <3> QED BY <1>1, <1>3, <1>4, MaxIsGreatest
  <2> QED BY <1>1, <2>1
<1> QED BY <1>2, <1>4

LEMMA IndexIsIndex ==
  ASSUME NEW t \in Text, NEW starts \in Index, NEW at \in Nat
  PROVE  UpdateLineIndex(t, starts, at) \in Index
<1> DEFINE line == OffsetToLine(starts, at)
           from == IF line = None THEN 0 ELSE starts[line]
           to == ByteLen(t)
           s == Slice(t, from, to)
           suffix == IF s = None THEN <<>> ELSE s
<1>1. UpdateLineIndex(t, starts, at) = UpdateLineStarts(starts, suffix, from)
  BY DEF UpdateLineIndex
<1>2. from \in Nat
  <2>1. line # None => starts[line] \in Nat
    BY LineIsIndex
  <2> HIDE DEF line
  <2> QED BY <2>1
<1>3. to \in Nat
  BY ByteLenType
<1> HIDE DEF from, to
<1>4. s # None => s \in Text
  BY <1>2, <1>3, SliceShape
<1> HIDE DEF s
<1>5. suffix \in Text
  BY <1>4, EmptySeq DEF Text
<1> HIDE DEF suffix
<1>6. PICK keep : Updated(starts, suffix, from, keep)
  BY <1>5, UpdatedIs
<1> QED BY <1>1, <1>6 DEF Updated

(* Rescanning from the line the splice starts in brings the index up to    *)
(* date.                                                                   *)
LEMMA IndexIsUpdated ==
  ASSUME OneByte, NEW t \in Text, NEW put \in Text, NEW at \in Nat,
         at <= Len(t), at <= Len(put), \A i \in 1..at : put[i] = t[i]
  PROVE  UpdateLineIndex(put, LineStarts(t), at) = LineStarts(put)
<1> DEFINE starts == LineStarts(t)
           line == OffsetToLine(starts, at)
           from == IF line = None THEN 0 ELSE starts[line]
           first == from + 1
           n == Len(put)
           s == Slice(put, from, n)
           suffix == IF s = None THEN <<>> ELSE s
<1>1. starts \in Index /\ starts[1] = 0 /\ n \in Nat /\ Len(t) \in Nat
  BY LineStartsType, StartsAscend, LenProperties DEF Index, Ascending, Text
<1>2. UpdateLineIndex(put, starts, at) = UpdateLineStarts(starts, suffix, from)
  BY BytesAreChars DEF UpdateLineIndex
<1>3. PICK l \in 1..Len(starts) : from = starts[l] /\ from \in Nat /\ from <= at
  <2>1. line # None => line \in 1..Len(starts) /\ starts[line] \in Nat /\ starts[line] <= at
    BY <1>1, LineIsIndex
  <2>2. 1 \in 1..Len(starts)
    BY <1>1 DEF Index
  <2> HIDE DEF line, starts
  <2>3. CASE line = None
    BY <1>1, <2>2, <2>3
  <2>4. CASE line # None
    BY <2>1, <2>4
  <2> QED BY <2>3, <2>4
<1>4. first = from + 1
  OBVIOUS
<1> HIDE DEF starts, from, first
<1>5. from <= Len(t) /\ from <= n /\ n <= Len(put)
  BY <1>1, <1>3
<1>6. suffix = SubSeq(put, first, n)
  <2>1. n \in Nat /\ from \in Nat /\ from <= n
    BY <1>1, <1>3, <1>5
  <2>2. s = SubSeq(put, from + 1, n) /\ s # None
    <3> HIDE DEF n
    <3> QED BY <1>5, <2>1, SliceShape
  <2> QED BY <1>4, <2>2
<1>7. SubSeq(put, 1, from) = SubSeq(t, 1, from)
  <2> DEFINE x == SubSeq(put, 1, from)
             y == SubSeq(t, 1, from)
  <2>1. x \in Text /\ Len(x) = from /\ \A i \in 1..from : x[i] = put[i]
    BY <1>3, <1>5, FirstPart DEF Text, n
  <2>2. y \in Text /\ Len(y) = from /\ \A i \in 1..from : y[i] = t[i]
    BY <1>3, <1>5, FirstPart DEF Text
  <2> HIDE DEF x, y
  <2>3. \A i \in 1..from : i \in 1..at
    BY <1>3
  <2>4. \A i \in 1..Len(x) : x[i] = y[i]
    BY <2>1, <2>2, <2>3
  <2>5. x = y
    BY <2>1, <2>2, <2>4, SeqEqual DEF Text
  <2> QED BY <2>5 DEF x, y
<1>8. UpdateLineStarts(LineStarts(t), SubSeq(put, first, Len(put)), from) = LineStarts(put)
  <2>1. l \in 1..Len(LineStarts(t)) /\ from = LineStarts(t)[l] /\ from <= Len(put)
    BY <1>3, <1>5 DEF starts, n
  <2> QED BY <1>4, <1>5, <1>7, <2>1, Rescan
<1> QED BY <1>2, <1>6, <1>8 DEF starts, n

(* Sets of documents no splice leads out of: all of them, and, of one-byte *)
(* texts, those with the index a scan would build.                         *)
Closed(D) ==
  /\ D \subseteq TDoc
  /\ \A doc \in D, from \in Nat, to \in Nat, new \in Text :
       /\ Spliced(doc, from, to, new) \in D \union {None}
       /\ from <= to /\ to <= Len(doc.rope) => Spliced(doc, from, to, new) \in D

CDoc == {Doc(t, LineStarts(t)) : t \in Text}

LEMMA DocumentsClosed == Closed(TDoc)
<1> SUFFICES ASSUME NEW doc \in TDoc, NEW from \in Nat, NEW to \in Nat, NEW new \in Text
             PROVE  /\ Spliced(doc, from, to, new) \in TDoc \union {None}
                    /\ from <= to /\ to <= Len(doc.rope) => Spliced(doc, from, to, new) \in TDoc
  BY DEF Closed
<1> DEFINE put == Put(doc, from, to, new)
<1>1. CASE from <= to /\ to <= Len(doc.rope)
  <2>1. put \in Text /\ Spliced(doc, from, to, new) = Doc(put, UpdateLineIndex(put, doc.lines, from))
    BY <1>1, SpliceShape
  <2> HIDE DEF put
  <2>2. doc.lines \in Index
    BY DEF TDoc
  <2>3. UpdateLineIndex(put, doc.lines, from) \in Index
    BY <2>1, <2>2, IndexIsIndex
  <2> QED BY <2>1, <2>3 DEF TDoc, Doc
<1>2. CASE ~(from <= to /\ to <= Len(doc.rope))
  BY <1>2, SpliceShape
<1> QED BY <1>1, <1>2

LEMMA CoherentClosed ==
  ASSUME OneByte
  PROVE  Closed(CDoc)
<1>1. ASSUME NEW t \in Text
      PROVE  /\ Doc(t, LineStarts(t)) \in TDoc
             /\ Doc(t, LineStarts(t)).rope = t /\ Doc(t, LineStarts(t)).lines = LineStarts(t)
  BY LineStartsType DEF Doc, TDoc, Index
<1>2. CDoc \subseteq TDoc
  BY <1>1 DEF CDoc
<1> SUFFICES ASSUME NEW doc \in CDoc, NEW from \in Nat, NEW to \in Nat, NEW new \in Text
             PROVE  /\ Spliced(doc, from, to, new) \in CDoc \union {None}
                    /\ from <= to /\ to <= Len(doc.rope) => Spliced(doc, from, to, new) \in CDoc
  BY <1>2 DEF Closed
<1>3. PICK t \in Text : doc = Doc(t, LineStarts(t))
  BY DEF CDoc
<1>4. doc.rope = t /\ doc.lines = LineStarts(t) /\ doc \in TDoc
  BY <1>1, <1>3
<1> DEFINE put == Put(doc, from, to, new)
<1>5. CASE from <= to /\ to <= Len(doc.rope)
  <2>1. /\ put \in Text /\ from <= Len(put) /\ \A i \in 1..from : put[i] = doc.rope[i]
        /\ Spliced(doc, from, to, new) = Doc(put, UpdateLineIndex(put, doc.lines, from))
    BY <1>4, <1>5, SpliceShape
  <2> HIDE DEF put
  <2>2. from <= Len(t) /\ \A i \in 1..from : put[i] = t[i]
    <3>1. Len(t) \in Nat
      BY LenProperties DEF Text
    <3> QED BY <1>4, <1>5, <2>1, <3>1
  <2>3. UpdateLineIndex(put, LineStarts(t), from) = LineStarts(put)
    BY <2>1, <2>2, IndexIsUpdated
  <2> QED BY <1>4, <2>1, <2>3 DEF CDoc
<1>6. CASE ~(from <= to /\ to <= Len(doc.rope))
  BY <1>4, <1>6, SpliceShape
<1> QED BY <1>5, <1>6

----------------------------------------------------------------------------
(* Positions and offsets.                                                  *)
LEMMA LineTextShape ==
  ASSUME NEW t \in Text, NEW starts \in Index, NEW line \in 1..Len(starts)
  PROVE  LineText(t, starts, line) # None => LineText(t, starts, line) \in Text
<1> DEFINE from == starts[line]
           to == LineEndOffset(t, starts, line)
           next == starts[line + 1]
<1>1. \A i \in 1..Len(starts) : starts[i] \in Nat
  BY ElementOfSeq DEF Index
<1>2. from \in Nat
  BY <1>1
<1>3. to \in Nat
  <2>1. CASE line < Len(starts)
    <3>1. Len(starts) \in Nat
      BY DEF Index
    <3>2. line + 1 \in 1..Len(starts)
      BY <2>1, <3>1
    <3>3. next \in Nat
      BY <1>1, <3>2
    <3>4. to = Max({next - 1, 0})
      BY <2>1 DEF LineEndOffset
    <3> HIDE DEF next, to
    <3> DEFINE T == {next - 1, 0}
    <3>5. \E x \in T : \A y \in T : x >= y
      BY <3>3
    <3>6. Max(T) \in T /\ \A y \in T : Max(T) >= y
      <4> HIDE DEF T
      <4> QED BY <3>5 DEF Max
    <3> DEFINE m == Max(T)
    <3>7. m \in {next - 1, 0} /\ m >= 0
      BY <3>6
    <3> HIDE DEF m
    <3>8. m \in Nat
      BY <3>3, <3>7
    <3> QED BY <3>4, <3>8 DEF m
  <2>2. CASE ~(line < Len(starts))
    BY <2>2, ByteLenType DEF LineEndOffset
  <2> QED BY <2>1, <2>2
<1>4. LineText(t, starts, line) = Slice(t, from, to)
  BY DEF LineText
<1> HIDE DEF from, to
<1> QED BY <1>2, <1>3, <1>4, SliceShape

LEMMA OffsetType ==
  ASSUME NEW doc \in TDoc, NEW pos \in Position
  PROVE  PositionToOffset(doc.rope, doc.lines, pos) # None =>
           PositionToOffset(doc.rope, doc.lines, pos) \in Nat
<1> DEFINE t == doc.rope
           starts == doc.lines
           line == pos.line
           text == LineText(t, starts, line)
           units == Boundaries(Utf16Len, text)
           bytes == Boundaries(Utf8Len, text)
           n == Len(text)
           reach == {i \in 0..n : units[i] >= pos.column - 1}
           T == reach \union {n}
           chars == Min(T)
<1> SUFFICES ASSUME PositionToOffset(t, starts, pos) # None
             PROVE  PositionToOffset(t, starts, pos) \in Nat
  OBVIOUS
<1>1. t \in Text /\ starts \in Index /\ line \in Nat \ {0}
  BY DEF TDoc, Position
<1>2. /\ LineStartOffset(starts, line) # None /\ text # None
      /\ PositionToOffset(t, starts, pos) = starts[line] + bytes[chars]
  BY DEF PositionToOffset
<1>3. line \in 1..Len(starts)
  <2>1. Len(starts) \in Nat
    BY <1>1 DEF Index
  <2> QED BY <1>1, <1>2, <2>1 DEF LineStartOffset
<1> HIDE DEF t, starts, line
<1>4. text \in Text
  BY <1>1, <1>2, <1>3, LineTextShape
<1>5. starts[line] \in Nat
  BY <1>1, <1>3, ElementOfSeq DEF Index
<1> HIDE DEF text
<1>6. n \in Nat
  BY <1>4, LenProperties DEF Text
<1>7. bytes \in [0..n -> Nat]
  BY <1>4, ByteWidths, BoundariesCount
<1> HIDE DEF n, units, bytes
<1>8. T \subseteq 0..n /\ T \subseteq Nat /\ T # {}
  BY <1>6
<1> HIDE DEF T
<1>9. chars \in 0..n
  BY <1>8, MinIsLeast
<1> HIDE DEF chars
<1>10. bytes[chars] \in Nat
  BY <1>7, <1>9
<1> QED BY <1>2, <1>5, <1>10

LEMMA PositionType ==
  ASSUME NEW doc \in TDoc, NEW offset \in Nat
  PROVE  OffsetToPosition(doc.rope, doc.lines, offset) \notin {None, Panic} =>
           OffsetToPosition(doc.rope, doc.lines, offset) \in Position
<1> DEFINE t == doc.rope
           starts == doc.lines
           line == OffsetToLine(starts, offset)
           text == LineText(t, starts, line)
           bytes == Boundaries(Utf8Len, text)
           units == Boundaries(Utf16Len, text)
           into == Min({offset - starts[line], ByteLen(text)})
           n == Len(text)
           splits == {i \in 0..n : bytes[i] = into}
           at == Max(splits)
           column == units[at] + 1
<1> SUFFICES ASSUME OffsetToPosition(t, starts, offset) \notin {None, Panic}
             PROVE  OffsetToPosition(t, starts, offset) \in Position
  OBVIOUS
<1>1. t \in Text /\ starts \in Index
  BY DEF TDoc
<1>2. /\ line # None /\ text # None /\ splits # {}
      /\ OffsetToPosition(t, starts, offset) = [line |-> line, column |-> column]
  BY DEF OffsetToPosition
<1> HIDE DEF t, starts
<1>3. line \in 1..Len(starts)
  BY <1>1, <1>2, LineIsIndex
<1> HIDE DEF line
<1>4. text \in Text
  BY <1>1, <1>2, <1>3, LineTextShape
<1> HIDE DEF text
<1>5. n \in Nat
  BY <1>4, LenProperties DEF Text
<1>6. units \in [0..n -> Nat]
  BY <1>4, ByteWidths, BoundariesCount
<1> HIDE DEF n, units, bytes, into
<1>7. splits \in SUBSET (0..n)
  OBVIOUS
<1> HIDE DEF splits
<1>8. at \in 0..n
  BY <1>2, <1>5, <1>7, MaxFromZero
<1> HIDE DEF at
<1>9. units[at] \in Nat
  BY <1>6, <1>8
<1>10. column \in Nat \ {0}
  BY <1>9
<1> HIDE DEF column
<1>11. line \in Nat \ {0}
  BY <1>3
<1> QED BY <1>2, <1>10, <1>11 DEF Position

(* What an undone or redone entry puts in or measures is a text or None.   *)
LEMMA ValueType ==
  ASSUME NEW doc \in TDoc, NEW from \in Position, NEW to \in Position
  PROVE  ValueInRange(doc.rope, doc.lines, from, to) \in Text \union {None}
<1> DEFINE s == PositionToOffset(doc.rope, doc.lines, from)
           e == PositionToOffset(doc.rope, doc.lines, to)
<1>1. (s # None => s \in Nat) /\ (e # None => e \in Nat)
  BY OffsetType
<1>2. ValueInRange(doc.rope, doc.lines, from, to) =
        IF s = None \/ e = None THEN None
        ELSE IF s <= e /\ e <= ByteLen(doc.rope) THEN Slice(doc.rope, s, e) ELSE None
  BY DEF ValueInRange
<1>3. doc.rope \in Text
  BY DEF TDoc
<1> HIDE DEF s, e
<1> QED BY <1>1, <1>2, <1>3, SliceShape

LEMMA PlusType ==
  ASSUME NEW offset, offset # None => offset \in Nat, NEW text \in Text \union {None}
  PROVE  Plus(offset, text) # None => Plus(offset, text) \in Nat
<1>1. None \notin Text
  BY CharsAssumption DEF CharsAssumption, Text
<1>2. CASE offset = None \/ text = None
  BY <1>2 DEF Plus
<1>3. CASE offset # None /\ text # None
  <2>1. offset \in Nat /\ ByteLen(text) \in Nat
    BY <1>3, ByteLenType
  <2>2. Plus(offset, text) = offset + ByteLen(text)
    BY <1>3 DEF Plus
  <2> QED BY <2>1, <2>2
<1> QED BY <1>2, <1>3

LEMMA SlicedType ==
  ASSUME NEW doc, NEW from, NEW to, to # None => to \in Nat
  PROVE  Sliced(doc, from, to) # None => Sliced(doc, from, to) \in Nat
BY DEF Sliced

----------------------------------------------------------------------------
(* What one entry leaves of a document: it replaces from..to by new, or    *)
(* leaves the document as it is.                                           *)
Outcome(doc, from, to, new) ==
  IF None \in {from, to} \/ Spliced(doc, from, to, new) = None THEN doc
  ELSE Spliced(doc, from, to, new)

LEMMA OutcomeKeeps ==
  ASSUME NEW D, Closed(D), NEW doc \in D, NEW new \in Text,
         NEW from, from # None => from \in Nat, NEW to, to # None => to \in Nat
  PROVE  Outcome(doc, from, to, new) \in D
<1>1. CASE None \in {from, to}
  BY <1>1 DEF Outcome
<1>2. CASE None \notin {from, to}
  <2>1. Spliced(doc, from, to, new) \in D \union {None}
    BY <1>2 DEF Closed
  <2> QED BY <2>1 DEF Outcome
<1> QED BY <1>1, <1>2

LEMMA UndoKeeps ==
  ASSUME NEW D, Closed(D), NEW doc \in D, NEW en \in Entry
  PROVE  UndoEntry(doc, en).doc \in D /\ UndoEntry(doc, en).panic \in BOOLEAN
<1> DEFINE at == PositionToOffset(doc.rope, doc.lines, en.start)
           current == ValueInRange(doc.rope, doc.lines, en.start, en.end)
           inserted == Sliced(doc, at, Plus(at, en.text))
           replaced == Plus(at, current)
           empty == <<>>
           out == UndoEntry(doc, en)
<1>1. doc \in TDoc
  BY DEF Closed
<1>2. /\ en.start \in Position /\ en.end \in Position /\ en.text \in Text /\ en.old \in Text
      /\ en.kind \in {"insert", "delete", "replace"}
  BY DEF Entry
<1>3. at # None => at \in Nat
  BY <1>1, <1>2, OffsetType
<1>4. current \in Text \union {None}
  BY <1>1, <1>2, ValueType
<1>5. empty \in Text
  BY EmptySeq DEF Text
<1>6. /\ en.kind = "insert" => out.doc = Outcome(doc, at, inserted, empty) /\ out.panic \in BOOLEAN
      /\ en.kind = "delete" => out.doc = Outcome(doc, at, at, en.old) /\ out.panic \in BOOLEAN
      /\ en.kind = "replace" => out.doc = Outcome(doc, at, replaced, en.old) /\ out.panic \in BOOLEAN
  BY DEF UndoEntry, Applied, Outcome
<1> HIDE DEF at, current
<1>7. inserted # None => inserted \in Nat
  BY <1>2, <1>3, PlusType, SlicedType
<1>8. replaced # None => replaced \in Nat
  BY <1>3, <1>4, PlusType
<1> HIDE DEF inserted, replaced, empty, out
<1>9. /\ Outcome(doc, at, inserted, empty) \in D
      /\ Outcome(doc, at, at, en.old) \in D
      /\ Outcome(doc, at, replaced, en.old) \in D
  BY <1>2, <1>3, <1>5, <1>7, <1>8, OutcomeKeeps
<1> QED BY <1>2, <1>6, <1>9 DEF out

LEMMA RedoKeeps ==
  ASSUME NEW D, Closed(D), NEW doc \in D, NEW en \in Entry
  PROVE  RedoEntry(doc, en).doc \in D /\ RedoEntry(doc, en).panic \in BOOLEAN
<1> DEFINE at == PositionToOffset(doc.rope, doc.lines, en.start)
           to == PositionToOffset(doc.rope, doc.lines, en.end)
           deleted == Sliced(doc, at, to)
           replaced == Plus(at, en.old)
           empty == <<>>
           out == RedoEntry(doc, en)
<1>1. doc \in TDoc
  BY DEF Closed
<1>2. /\ en.start \in Position /\ en.end \in Position /\ en.text \in Text /\ en.old \in Text
      /\ en.kind \in {"insert", "delete", "replace"}
  BY DEF Entry
<1>3. (at # None => at \in Nat) /\ (to # None => to \in Nat)
  BY <1>1, <1>2, OffsetType
<1>4. empty \in Text
  BY EmptySeq DEF Text
<1>5. /\ en.kind = "insert" => out.doc = Outcome(doc, at, at, en.text) /\ out.panic \in BOOLEAN
      /\ en.kind = "delete" => out.doc = Outcome(doc, at, deleted, empty) /\ out.panic \in BOOLEAN
      /\ en.kind = "replace" => out.doc = Outcome(doc, at, replaced, en.text) /\ out.panic \in BOOLEAN
  BY DEF RedoEntry, Applied, Outcome
<1> HIDE DEF at, to
<1>6. deleted # None => deleted \in Nat
  BY <1>3, SlicedType
<1>7. replaced # None => replaced \in Nat
  BY <1>2, <1>3, PlusType
<1> HIDE DEF deleted, replaced, empty, out
<1>8. /\ Outcome(doc, at, at, en.text) \in D
      /\ Outcome(doc, at, deleted, empty) \in D
      /\ Outcome(doc, at, replaced, en.text) \in D
  BY <1>2, <1>3, <1>4, <1>6, <1>7, OutcomeKeeps
<1> QED BY <1>2, <1>5, <1>8 DEF out

----------------------------------------------------------------------------
(* What a transaction leaves of a document, entry by entry.                *)
Started(doc) == [doc |-> doc, changes |-> <<>>, panic |-> FALSE]

Went(acc, out) ==
  IF acc.panic THEN acc
  ELSE [doc     |-> out.doc, panic |-> out.panic,
        changes |-> IF out.change = None THEN acc.changes
                    ELSE Append(acc.changes, out.change)]

UndoSteps(h, doc, entries) ==
  /\ h[0] = Started(doc)
  /\ \A i \in 1..Len(entries) : h[i] = Went(h[i - 1], UndoEntry(h[i - 1].doc, entries[i]))
  /\ h[Len(entries)] = Chain(UndoEntry, doc, entries)

LEMMA UndoChain ==
  ASSUME NEW D, Closed(D), NEW doc \in D, NEW entries \in Seq(Entry)
  PROVE  \E h : UndoSteps(h, doc, entries) /\ \A i \in 0..Len(entries) : h[i].doc \in D
<1> DEFINE n == Len(entries)
           I == 1..n
           C == {UndoEntry(d, e).change : d \in D, e \in Entry}
           A == [doc : D, changes : Seq(C), panic : BOOLEAN]
           Go(acc, en) == Went(acc, UndoEntry(acc.doc, en))
           base == Started(doc)
           F == [i \in I |-> [a \in A |-> Go(a, entries[i])]]
           Eq(f) == f = [s \in SUBSET I |->
                           IF s = {} THEN base ELSE Go(f[s \ {Max(s)}], entries[Max(s)])]
           it == CHOOSE f : Eq(f)
<1>1. n \in Nat /\ DOMAIN entries = I /\ \A i \in I : entries[i] \in Entry
  BY LenProperties, ElementOfSeq
<1>2. Chain(UndoEntry, doc, entries) = it[I]
  BY <1>1 DEF Chain, FoldLeft, MapThenFoldSet, Went, Started
<1>3. base \in A
  BY EmptySeq DEF Started
<1>4. ASSUME NEW a \in A, NEW en \in Entry PROVE Go(a, en) \in A
  <2>1. a.doc \in D /\ a.changes \in Seq(C) /\ a.panic \in BOOLEAN
    OBVIOUS
  <2> DEFINE out == UndoEntry(a.doc, en)
             changes == a.changes
             change == out.change
             more == Append(changes, change)
  <2>2. out.doc \in D /\ out.panic \in BOOLEAN
    BY <2>1, UndoKeeps
  <2>3. change \in C
    BY <2>1
  <2>4. more \in Seq(C)
    <3>1. changes \in Seq(C)
      BY <2>1
    <3> HIDE DEF changes, change, C
    <3> QED BY <2>3, <3>1, AppendProperties
  <2>5. Go(a, en) = IF a.panic THEN a
                    ELSE [doc |-> out.doc, panic |-> out.panic,
                          changes |-> IF change = None THEN changes ELSE more]
    BY DEF Went
  <2> HIDE DEF out, change, more, Go, C
  <2> QED BY <2>1, <2>2, <2>4, <2>5
<1> HIDE DEF n, A, Go, base
<1>5. F \in [I -> [A -> A]]
  BY <1>1, <1>4
<1> HIDE DEF F
<1>6. PICK g \in [SUBSET I -> A] : InOrder(g, n, A, base, F)
  BY <1>1, <1>3, <1>5, FoldInOrder
<1>7. Eq(g)
  <2>1. ASSUME NEW s \in SUBSET I, s # {}
        PROVE  g[s] = Go(g[s \ {Max(s)}], entries[Max(s)])
    <3>1. Max(s) \in I /\ g[s \ {Max(s)}] \in A /\ g[s] = F[Max(s)][g[s \ {Max(s)}]]
      BY <1>6, <2>1 DEF InOrder
    <3> QED BY <3>1 DEF F
  <2> QED BY <1>6, <2>1 DEF InOrder
<1>8. Eq(it)
  <2> HIDE DEF Eq
  <2> QED BY <1>7
<1> HIDE DEF it
<1>9. it[{}] = base
  BY <1>8
<1>10. GoesOn(it, n, A, F)
  <2> SUFFICES ASSUME NEW s \in SUBSET I, s # {}, it[s \ {Max(s)}] \in A
               PROVE  it[s] = F[Max(s)][it[s \ {Max(s)}]]
    BY DEF GoesOn
  <2>1. Max(s) \in I
    BY <1>6 DEF InOrder
  <2>2. it[s] = Go(it[s \ {Max(s)}], entries[Max(s)])
    BY <1>8
  <2> QED BY <2>1, <2>2 DEF F
<1>11. PICK h \in [0..n -> A] : it[I] = h[n] /\ StepByStep(h, n, base, F)
  <2>1. Unfolds(it, n, A, base, F)
    BY <1>1, <1>3, <1>5, <1>9, <1>10 DEF Unfolds
  <2> QED BY <2>1, FoldUnfolds
<1>12. ASSUME NEW i \in 1..n PROVE h[i] = Go(h[i - 1], entries[i])
  <2>1. h[i - 1] \in A
    BY <1>1
  <2> QED BY <1>11, <2>1 DEF F, StepByStep
<1>13. \A i \in 0..n : h[i].doc \in D
  <2>1. \A a \in A : a.doc \in D
    BY DEF A
  <2> QED BY <2>1
<1>14. UndoSteps(h, doc, entries)
  BY <1>2, <1>11, <1>12 DEF UndoSteps, StepByStep, Go, base, n
<1> QED BY <1>13, <1>14 DEF n

LEMMA UndoChainKeeps ==
  ASSUME NEW D, Closed(D), NEW doc \in D, NEW entries \in Seq(Entry)
  PROVE  Chain(UndoEntry, doc, entries).doc \in D
<1>1. PICK h : UndoSteps(h, doc, entries) /\ \A i \in 0..Len(entries) : h[i].doc \in D
  BY UndoChain
<1>2. Len(entries) \in 0..Len(entries)
  BY LenProperties
<1> QED BY <1>1, <1>2 DEF UndoSteps

RedoSteps(h, doc, entries) ==
  /\ h[0] = Started(doc)
  /\ \A i \in 1..Len(entries) : h[i] = Went(h[i - 1], RedoEntry(h[i - 1].doc, entries[i]))
  /\ h[Len(entries)] = Chain(RedoEntry, doc, entries)

LEMMA RedoChain ==
  ASSUME NEW D, Closed(D), NEW doc \in D, NEW entries \in Seq(Entry)
  PROVE  \E h : RedoSteps(h, doc, entries) /\ \A i \in 0..Len(entries) : h[i].doc \in D
<1> DEFINE n == Len(entries)
           I == 1..n
           C == {RedoEntry(d, e).change : d \in D, e \in Entry}
           A == [doc : D, changes : Seq(C), panic : BOOLEAN]
           Go(acc, en) == Went(acc, RedoEntry(acc.doc, en))
           base == Started(doc)
           F == [i \in I |-> [a \in A |-> Go(a, entries[i])]]
           Eq(f) == f = [s \in SUBSET I |->
                           IF s = {} THEN base ELSE Go(f[s \ {Max(s)}], entries[Max(s)])]
           it == CHOOSE f : Eq(f)
<1>1. n \in Nat /\ DOMAIN entries = I /\ \A i \in I : entries[i] \in Entry
  BY LenProperties, ElementOfSeq
<1>2. Chain(RedoEntry, doc, entries) = it[I]
  BY <1>1 DEF Chain, FoldLeft, MapThenFoldSet, Went, Started
<1>3. base \in A
  BY EmptySeq DEF Started
<1>4. ASSUME NEW a \in A, NEW en \in Entry PROVE Go(a, en) \in A
  <2>1. a.doc \in D /\ a.changes \in Seq(C) /\ a.panic \in BOOLEAN
    OBVIOUS
  <2> DEFINE out == RedoEntry(a.doc, en)
             changes == a.changes
             change == out.change
             more == Append(changes, change)
  <2>2. out.doc \in D /\ out.panic \in BOOLEAN
    BY <2>1, RedoKeeps
  <2>3. change \in C
    BY <2>1
  <2>4. more \in Seq(C)
    <3>1. changes \in Seq(C)
      BY <2>1
    <3> HIDE DEF changes, change, C
    <3> QED BY <2>3, <3>1, AppendProperties
  <2>5. Go(a, en) = IF a.panic THEN a
                    ELSE [doc |-> out.doc, panic |-> out.panic,
                          changes |-> IF change = None THEN changes ELSE more]
    BY DEF Went
  <2> HIDE DEF out, change, more, Go, C
  <2> QED BY <2>1, <2>2, <2>4, <2>5
<1> HIDE DEF n, A, Go, base
<1>5. F \in [I -> [A -> A]]
  BY <1>1, <1>4
<1> HIDE DEF F
<1>6. PICK g \in [SUBSET I -> A] : InOrder(g, n, A, base, F)
  BY <1>1, <1>3, <1>5, FoldInOrder
<1>7. Eq(g)
  <2>1. ASSUME NEW s \in SUBSET I, s # {}
        PROVE  g[s] = Go(g[s \ {Max(s)}], entries[Max(s)])
    <3>1. Max(s) \in I /\ g[s \ {Max(s)}] \in A /\ g[s] = F[Max(s)][g[s \ {Max(s)}]]
      BY <1>6, <2>1 DEF InOrder
    <3> QED BY <3>1 DEF F
  <2> QED BY <1>6, <2>1 DEF InOrder
<1>8. Eq(it)
  <2> HIDE DEF Eq
  <2> QED BY <1>7
<1> HIDE DEF it
<1>9. it[{}] = base
  BY <1>8
<1>10. GoesOn(it, n, A, F)
  <2> SUFFICES ASSUME NEW s \in SUBSET I, s # {}, it[s \ {Max(s)}] \in A
               PROVE  it[s] = F[Max(s)][it[s \ {Max(s)}]]
    BY DEF GoesOn
  <2>1. Max(s) \in I
    BY <1>6 DEF InOrder
  <2>2. it[s] = Go(it[s \ {Max(s)}], entries[Max(s)])
    BY <1>8
  <2> QED BY <2>1, <2>2 DEF F
<1>11. PICK h \in [0..n -> A] : it[I] = h[n] /\ StepByStep(h, n, base, F)
  <2>1. Unfolds(it, n, A, base, F)
    BY <1>1, <1>3, <1>5, <1>9, <1>10 DEF Unfolds
  <2> QED BY <2>1, FoldUnfolds
<1>12. ASSUME NEW i \in 1..n PROVE h[i] = Go(h[i - 1], entries[i])
  <2>1. h[i - 1] \in A
    BY <1>1
  <2> QED BY <1>11, <2>1 DEF F, StepByStep
<1>13. \A i \in 0..n : h[i].doc \in D
  <2>1. \A a \in A : a.doc \in D
    BY DEF A
  <2> QED BY <2>1
<1>14. RedoSteps(h, doc, entries)
  BY <1>2, <1>11, <1>12 DEF RedoSteps, StepByStep, Go, base, n
<1> QED BY <1>13, <1>14 DEF n

LEMMA RedoChainKeeps ==
  ASSUME NEW D, Closed(D), NEW doc \in D, NEW entries \in Seq(Entry)
  PROVE  Chain(RedoEntry, doc, entries).doc \in D
<1>1. PICK h : RedoSteps(h, doc, entries) /\ \A i \in 0..Len(entries) : h[i].doc \in D
  BY RedoChain
<1>2. Len(entries) \in 0..Len(entries)
  BY LenProperties
<1> QED BY <1>1, <1>2 DEF RedoSteps

LEMMA ReverseType ==
  ASSUME NEW S, NEW s \in Seq(S)
  PROVE  Reverse(s) \in Seq(S)
<1> DEFINE n == Len(s)
<1>1. n \in Nat /\ \A i \in 1..n : s[i] \in S
  BY LenProperties, ElementOfSeq
<1>2. Reverse(s) = [i \in 1..n |-> s[(n - i) + 1]]
  BY DEF Reverse
<1> HIDE DEF n
<1>3. \A i \in 1..n : (n - i) + 1 \in 1..n
  BY <1>1
<1>4. \A i \in 1..n : s[(n - i) + 1] \in S
  BY <1>1, <1>3
<1> QED BY <1>1, <1>2, <1>4

LEMMA TransactionsKeep ==
  ASSUME NEW D, Closed(D), NEW doc \in D, NEW entries \in Seq(Entry)
  PROVE  UndoTransaction(doc, entries).doc \in D /\ RedoTransaction(doc, entries).doc \in D
<1> DEFINE back == Reverse(entries)
<1>1. back \in Seq(Entry)
  BY ReverseType
<1> HIDE DEF back
<1>2. Chain(UndoEntry, doc, back).doc \in D
  BY <1>1, UndoChainKeeps
<1>3. Chain(RedoEntry, doc, entries).doc \in D
  BY RedoChainKeeps
<1> QED BY <1>2, <1>3 DEF UndoTransaction, RedoTransaction, back

(* What a change that resolves leaves of a document, and what it replaces. *)
AChange == [start : Position, end : Position, text : Text]

LEMMA ResolvedKeeps ==
  ASSUME NEW D, Closed(D), NEW doc \in D, NEW ch \in AChange, Resolved(doc, ch) # None
  PROVE  Resolved(doc, ch).old \in Text /\ Resolved(doc, ch).doc \in D
<1> DEFINE s == PositionToOffset(doc.rope, doc.lines, ch.start)
           e == PositionToOffset(doc.rope, doc.lines, ch.end)
           cut == Slice(doc.rope, s, e)
           new == ch.text
           next == Spliced(doc, s, e, new)
<1>1. /\ s # None /\ e # None /\ cut # None
      /\ Resolved(doc, ch) = [old |-> cut, doc |-> next]
  BY DEF Resolved
<1>2. doc \in TDoc /\ ch.start \in Position /\ ch.end \in Position /\ new \in Text
  BY DEF Closed, AChange
<1>3. s \in Nat /\ e \in Nat /\ doc.rope \in Text
  BY <1>1, <1>2, OffsetType DEF TDoc
<1> HIDE DEF s, e, new
<1>4. cut \in Text /\ s <= e /\ e <= Len(doc.rope)
  BY <1>1, <1>3, SliceShape
<1>5. next \in D
  BY <1>2, <1>3, <1>4 DEF Closed
<1> HIDE DEF cut, next
<1> QED BY <1>1, <1>4, <1>5

LEMMA EntryType ==
  ASSUME NEW ch \in AChange, NEW old \in Text
  PROVE  EntryFor(ch, old) \in Entry /\ [EntryFor(ch, old) EXCEPT !.kind = "replace"] \in Entry
<1>1. ch.start \in Position /\ ch.end \in Position /\ ch.text \in Text
  BY DEF AChange
<1>2. EntryFor(ch, old) \in Entry
  BY <1>1 DEF EntryFor, Entry
<1>3. [EntryFor(ch, old) EXCEPT !.kind = "replace"] \in Entry
  <2> DEFINE en == EntryFor(ch, old)
  <2> HIDE DEF en
  <2>1. en \in Entry
    BY <1>2 DEF en
  <2>2. [en EXCEPT !.kind = "replace"] \in Entry
    BY <2>1 DEF Entry
  <2> QED BY <2>2 DEF en
<1> QED BY <1>2, <1>3

(* One change of a batch.                                                  *)
Tried(acc, ch) ==
  LET s == PositionToOffset(acc.doc.rope, acc.doc.lines, ch.start)
      e == PositionToOffset(acc.doc.rope, acc.doc.lines, ch.end)
      r == Resolved(acc.doc, ch)
      skip == None \in {s, e} \/ s > e \/ e > ByteLen(acc.doc.rope)
  IN  IF acc.abandoned \/ skip THEN acc
      ELSE IF r = None THEN [acc EXCEPT !.abandoned = TRUE]
      ELSE [acc EXCEPT !.doc = r.doc,
                       !.entries = Append(@, EntryFor(ch, r.old)),
                       !.applied = Append(@, ch)]

Opened(doc) == [doc |-> doc, entries |-> <<>>, applied |-> <<>>, abandoned |-> FALSE]

BatchSteps(h, doc, changes) ==
  /\ h[0] = Opened(doc)
  /\ \A i \in 1..Len(changes) : h[i] = Tried(h[i - 1], changes[i])
  /\ h[Len(changes)] = ApplyBatch(doc, changes)

Batched(D) == [doc : D, entries : Seq(Entry), applied : Seq(AChange), abandoned : BOOLEAN]

LEMMA BatchChain ==
  ASSUME NEW D, Closed(D), NEW doc \in D, NEW changes \in Seq(AChange)
  PROVE  \E h \in [0..Len(changes) -> Batched(D)] : BatchSteps(h, doc, changes)
<1> DEFINE n == Len(changes)
           I == 1..n
           A == Batched(D)
           Go(acc, ch) == Tried(acc, ch)
           base == Opened(doc)
           F == [i \in I |-> [a \in A |-> Go(a, changes[i])]]
           Eq(f) == f = [s \in SUBSET I |->
                           IF s = {} THEN base ELSE Go(f[s \ {Max(s)}], changes[Max(s)])]
           it == CHOOSE f : Eq(f)
<1>1. n \in Nat /\ DOMAIN changes = I /\ \A i \in I : changes[i] \in AChange
  BY LenProperties, ElementOfSeq
<1>2. ApplyBatch(doc, changes) = it[I]
  BY <1>1 DEF ApplyBatch, FoldLeft, MapThenFoldSet, Tried, Opened
<1>3. base \in A
  BY EmptySeq DEF Opened, Batched
<1>4. ASSUME NEW a \in A, NEW ch \in AChange PROVE Go(a, ch) \in A
  <2> DEFINE r == Resolved(a.doc, ch)
             old == r.old
             en == EntryFor(ch, old)
             entries == a.entries
             applied == a.applied
             alone == [a EXCEPT !.abandoned = TRUE]
             next == [a EXCEPT !.doc = r.doc, !.entries = Append(entries, en),
                               !.applied = Append(applied, ch)]
  <2>1. a.doc \in D /\ entries \in Seq(Entry) /\ applied \in Seq(AChange)
    BY DEF Batched
  <2>2. Go(a, ch) = a \/ Go(a, ch) = alone \/ (r # None /\ Go(a, ch) = next)
    BY DEF Tried
  <2> HIDE DEF Go
  <2>3. alone \in A
    BY DEF Batched
  <2>4. ASSUME r # None PROVE next \in A
    <3>1. old \in Text /\ r.doc \in D
      BY <2>1, <2>4, ResolvedKeeps
    <3> HIDE DEF r, old
    <3>2. en \in Entry
      BY <3>1, EntryType
    <3> HIDE DEF en, entries, applied
    <3>3. Append(entries, en) \in Seq(Entry) /\ Append(applied, ch) \in Seq(AChange)
      BY <2>1, <3>2, AppendProperties
    <3> QED BY <3>1, <3>3 DEF Batched
  <2> QED BY <2>2, <2>3, <2>4
<1> HIDE DEF n, A, Go, base
<1>5. F \in [I -> [A -> A]]
  BY <1>1, <1>4
<1> HIDE DEF F
<1>6. PICK g \in [SUBSET I -> A] : InOrder(g, n, A, base, F)
  BY <1>1, <1>3, <1>5, FoldInOrder
<1>7. Eq(g)
  <2>1. ASSUME NEW s \in SUBSET I, s # {}
        PROVE  g[s] = Go(g[s \ {Max(s)}], changes[Max(s)])
    <3>1. Max(s) \in I /\ g[s \ {Max(s)}] \in A /\ g[s] = F[Max(s)][g[s \ {Max(s)}]]
      BY <1>6, <2>1 DEF InOrder
    <3> QED BY <3>1 DEF F
  <2> QED BY <1>6, <2>1 DEF InOrder
<1>8. Eq(it)
  <2> HIDE DEF Eq
  <2> QED BY <1>7
<1> HIDE DEF it
<1>9. it[{}] = base
  BY <1>8
<1>10. GoesOn(it, n, A, F)
  <2> SUFFICES ASSUME NEW s \in SUBSET I, s # {}, it[s \ {Max(s)}] \in A
               PROVE  it[s] = F[Max(s)][it[s \ {Max(s)}]]
    BY DEF GoesOn
  <2>1. Max(s) \in I
    BY <1>6 DEF InOrder
  <2>2. it[s] = Go(it[s \ {Max(s)}], changes[Max(s)])
    BY <1>8
  <2> QED BY <2>1, <2>2 DEF F
<1>11. PICK h \in [0..n -> A] : it[I] = h[n] /\ StepByStep(h, n, base, F)
  <2>1. Unfolds(it, n, A, base, F)
    BY <1>1, <1>3, <1>5, <1>9, <1>10 DEF Unfolds
  <2> QED BY <2>1, FoldUnfolds
<1>12. ASSUME NEW i \in 1..n PROVE h[i] = Go(h[i - 1], changes[i])
  <2>1. h[i - 1] \in A
    BY <1>1
  <2> QED BY <1>11, <2>1 DEF F, StepByStep
<1>13. BatchSteps(h, doc, changes)
  BY <1>2, <1>11, <1>12 DEF BatchSteps, StepByStep, Go, base, n
<1> QED BY <1>13 DEF n, A

LEMMA BatchKeeps ==
  ASSUME NEW D, Closed(D), NEW doc \in D, NEW changes \in Seq(AChange)
  PROVE  ApplyBatch(doc, changes) \in Batched(D)
<1>1. PICK h \in [0..Len(changes) -> Batched(D)] : BatchSteps(h, doc, changes)
  BY BatchChain
<1>2. Len(changes) \in 0..Len(changes)
  BY LenProperties
<1> QED BY <1>1, <1>2 DEF BatchSteps

----------------------------------------------------------------------------
(* The types of what else an operation records.                            *)
LineRange == [start : Nat, end : Nat]
Eols == {"lf", "crlf"}
Snap == [content : Text, version_id : Nat \ {0}, is_dirty : BOOLEAN, eol : Eols]

LEMMA RangeType ==
  ASSUME NEW ch \in AChange, NEW ending
  PROVE  DirtyRange(ch, ending) \in LineRange
<1> DEFINE n == EolCount(ch.text, ending)
           from == ch.start.line - 1
           to == ch.end.line
           after == from + n + 1
           T == {after, to}
<1>1. ch.text \in Text /\ from \in Nat /\ to \in Nat
  BY DEF AChange, Position
<1>2. n \in Nat
  <2> DEFINE S == {i \in 1..Len(ch.text) :
                     /\ ch.text[i] = Newline
                     /\ ending = "crlf" => i > 1 /\ ch.text[i - 1] = CarriageReturn}
  <2>1. n = Cardinality(S)
    BY DEF EolCount
  <2>2. IsFiniteSet(1..Len(ch.text)) /\ S \subseteq 1..Len(ch.text)
    <3>1. Len(ch.text) \in Nat
      BY <1>1, LenProperties DEF Text
    <3> QED BY <3>1, FS_Interval
  <2> HIDE DEF S
  <2> QED BY <2>1, <2>2, FS_Subset, FS_CardinalityType
<1>3. DirtyRange(ch, ending) = [start |-> from, end |-> Max(T)]
  BY DEF DirtyRange
<1> HIDE DEF n, from, to
<1>4. after \in Nat
  BY <1>1, <1>2
<1> HIDE DEF after
<1>5. T \subseteq Nat /\ \E x \in T : \A y \in T : x >= y
  BY <1>1, <1>4
<1> HIDE DEF T
<1>6. Max(T) \in T
  BY <1>5 DEF Max
<1>7. Max(T) \in Nat
  BY <1>5, <1>6
<1> QED BY <1>1, <1>3, <1>7 DEF LineRange

LEMMA RangesType ==
  ASSUME NEW applied \in Seq(AChange), NEW ending
  PROVE  [i \in 1..Len(applied) |-> DirtyRange(applied[i], ending)] \in Seq(LineRange)
<1> DEFINE n == Len(applied)
<1>1. n \in Nat /\ \A i \in 1..n : applied[i] \in AChange
  BY LenProperties, ElementOfSeq
<1>2. \A i \in 1..n : DirtyRange(applied[i], ending) \in LineRange
  BY <1>1, RangeType
<1> HIDE DEF n
<1>3. [i \in 1..n |-> DirtyRange(applied[i], ending)] \in Seq(LineRange)
  BY <1>1, <1>2
<1> QED BY <1>3 DEF n

LEMMA PushType ==
  ASSUME NEW S, NEW stack \in Seq(S), NEW transaction \in S
  PROVE  PushUndo(stack, transaction) \in Seq(S)
<1> DEFINE pushed == Append(stack, transaction)
           n == Len(pushed)
           excess == n - MaxUndo
           first == excess + 1
<1>1. pushed \in Seq(S) /\ n \in Nat /\ MaxUndo \in Nat
  <2>1. pushed \in Seq(S)
    BY AppendProperties
  <2> HIDE DEF pushed
  <2> QED BY <2>1, LenProperties, BufferAssumption
<1>2. PushUndo(stack, transaction) =
        IF MaxUndo > 0 /\ excess > 0 THEN SubSeq(pushed, first, n) ELSE pushed
  BY DEF PushUndo
<1> HIDE DEF pushed
<1>3. ASSUME excess > 0 PROVE SubSeq(pushed, first, n) \in Seq(S)
  <2>1. excess \in Nat /\ excess <= n /\ n <= Len(pushed) /\ first = excess + 1
    BY <1>1, <1>3
  <2> HIDE DEF excess, first, n
  <2> QED BY <1>1, <2>1, PartShape
<1> QED BY <1>1, <1>2, <1>3

LEMMA PopType ==
  ASSUME NEW S, NEW stack \in Seq(S), stack # <<>>
  PROVE  Front(stack) \in Seq(S) /\ Last(stack) \in S
<1> DEFINE n == Len(stack)
           k == n - 1
<1>1. n \in Nat \ {0}
  BY LenProperties, EmptySeq
<1>2. k \in Nat /\ k <= Len(stack) /\ n \in 1..Len(stack)
  BY <1>1
<1>3. Front(stack) = SubSeq(stack, 1, k) /\ Last(stack) = stack[n]
  BY DEF Front, Last
<1> HIDE DEF n, k
<1>4. SubSeq(stack, 1, k) \in Seq(S)
  BY <1>2, FirstPart
<1>5. stack[n] \in S
  BY <1>2, ElementOfSeq
<1> QED BY <1>3, <1>4, <1>5

LEMMA RecordType ==
  ASSUME NEW h \in Seq(Snap), NEW snapshot \in Snap
  PROVE  RecordSnapshot(h, snapshot) \in Seq(Snap)
<1> DEFINE kept == IF Len(h) >= MaxHistory THEN Tail(h) ELSE h
<1>1. kept \in Seq(Snap)
  <2>1. CASE Len(h) >= MaxHistory
    <3>1. h # <<>>
      BY <2>1, EmptyShape, BufferAssumption
    <3>2. Tail(h) \in Seq(Snap)
      BY <3>1, HeadTailProperties
    <3> QED BY <2>1, <3>2
  <2>2. CASE ~(Len(h) >= MaxHistory)
    BY <2>2
  <2> QED BY <2>1, <2>2
<1>2. RecordSnapshot(h, snapshot) = Append(kept, snapshot)
  BY DEF RecordSnapshot
<1> HIDE DEF kept
<1> QED BY <1>1, <1>2, AppendProperties

----------------------------------------------------------------------------
(* The types, of a buffer whose document never leaves D.                   *)
Past ==
  /\ version_id \in Nat \ {0} /\ alternative_version_id \in Nat \ {0}
  /\ is_dirty \in BOOLEAN /\ eol \in Eols /\ saved \in Text
  /\ history \in Seq(Snap)

Edits ==
  /\ undo_stack \in Seq(Seq(Entry)) /\ redo_stack \in Seq(Seq(Entry))
  /\ dirty_line_ranges \in Seq(LineRange)

Typed(D) == document \in D /\ Past /\ Edits

(* D holds the documents a buffer is opened with or set to.                *)
Home(D) == Closed(D) /\ CDoc \subseteq D

LEMMA DocType ==
  ASSUME NEW D, Closed(D), NEW d \in D
  PROVE  Doc(d.rope, d.lines) = d /\ d.rope \in Text /\ d.lines \in Index
<1>1. d \in TDoc
  BY DEF Closed
<1> QED BY <1>1 DEF TDoc, Doc

LEMMA TypedInit ==
  ASSUME NEW D, Home(D), Init
  PROVE  Typed(D)
<1>1. PICK t \in Contents :
        /\ rope = t /\ saved = t /\ line_index = LineStarts(t)
        /\ eol = DetectEol(t)
        /\ history = <<Snapshot(t, 1, FALSE, DetectEol(t))>>
  BY DEF Init
<1>2. t \in Text
  BY BufferAssumption
<1>3. document \in D
  BY <1>1, <1>2 DEF Home, CDoc, document
<1>4. Edits
  <2> DEFINE e == <<>>
  <2>1. e \in Seq(Seq(Entry)) /\ e \in Seq(LineRange)
    BY EmptySeq
  <2>2. undo_stack = e /\ redo_stack = e /\ dirty_line_ranges = e
    BY DEF Init
  <2> HIDE DEF e
  <2> QED BY <2>1, <2>2 DEF Edits
<1>5. Past
  <2>1. version_id = 1 /\ alternative_version_id = 1 /\ is_dirty = FALSE
    BY DEF Init
  <2>2. eol \in Eols
    BY <1>1 DEF DetectEol, Eols
  <2>3. Snapshot(t, 1, FALSE, eol) \in Snap
    BY <1>2, <2>2 DEF Snapshot, Snap
  <2>4. history \in Seq(Snap)
    <3> DEFINE first == Snapshot(t, 1, FALSE, eol)
    <3>1. history = <<first>> /\ first \in Snap
      BY <1>1, <2>3
    <3> HIDE DEF first
    <3> QED BY <3>1
  <2>5. version_id \in Nat \ {0} /\ alternative_version_id \in Nat \ {0}
    BY <2>1
  <2>6. is_dirty \in BOOLEAN /\ saved \in Text
    BY <1>1, <1>2, <2>1
  <2> QED BY <2>2, <2>4, <2>5, <2>6 DEF Past
<1> QED BY <1>3, <1>4, <1>5 DEF Typed

LEMMA SetTextKeeps ==
  ASSUME NEW D, Closed(D), NEW d \in D, SetText(d)
  PROVE  document' \in D /\ rope' \in Text
<1>1. document' = Doc(d.rope, d.lines) /\ rope' = d.rope
  BY DEF SetText, document, Doc
<1> QED BY <1>1, DocType

LEMMA NewVersionType ==
  ASSUME Past, rope' \in Text, eol' \in Eols, saved' \in Text,
         alternative_version_id' \in Nat \ {0}, NewVersion
  PROVE  Past'
<1> DEFINE snapshot == Snapshot(rope', version_id + 1, TRUE, eol')
<1>1. version_id + 1 \in Nat \ {0}
  BY DEF Past
<1>2. snapshot \in Snap
  BY <1>1 DEF Snapshot, Snap
<1>3. /\ version_id' = version_id + 1 /\ is_dirty' = TRUE
      /\ history' = RecordSnapshot(history, snapshot)
  BY DEF NewVersion
<1> HIDE DEF snapshot
<1>4. history' \in Seq(Snap)
  BY <1>2, <1>3, RecordType DEF Past
<1> QED BY <1>1, <1>3, <1>4 DEF Past

LEMMA PushTypes ==
  ASSUME Edits, NEW entries \in Seq(Entry), PushTransaction(entries)
  PROVE  undo_stack' \in Seq(Seq(Entry)) /\ redo_stack' \in Seq(Seq(Entry))
<1>1. undo_stack' = PushUndo(undo_stack, entries) /\ redo_stack' = <<>>
  BY DEF PushTransaction
<1>2. undo_stack' \in Seq(Seq(Entry))
  <2>1. undo_stack \in Seq(Seq(Entry))
    BY DEF Edits
  <2> QED BY <1>1, <2>1, PushType
<1>3. redo_stack' \in Seq(Seq(Entry))
  BY <1>1, EmptySeq
<1> QED BY <1>2, <1>3

(* Every operation keeps the document in D and records what has a type.    *)
LEMMA ReportTypes ==
  ASSUME NEW D, Closed(D), Typed(D), NEW result, result.doc \in D, Report(result)
  PROVE  document' \in D /\ Past' /\ dirty_line_ranges' \in Seq(LineRange)
<1>1. document' \in D /\ rope' \in Text
  BY SetTextKeeps DEF Report
<1>2. UNCHANGED <<alternative_version_id, eol, dirty_line_ranges, saved>>
  BY DEF Report
<1>3. Past /\ dirty_line_ranges \in Seq(LineRange)
  BY DEF Typed, Edits
<1>4. CASE NewVersion
  <2>1. eol' \in Eols /\ saved' \in Text /\ alternative_version_id' \in Nat \ {0}
    BY <1>2, <1>3 DEF Past
  <2>2. Past'
    BY <1>1, <1>3, <1>4, <2>1, NewVersionType
  <2> QED BY <1>1, <1>2, <1>3, <2>2
<1>5. CASE UNCHANGED <<version_id, is_dirty, history>>
  <2>1. Past'
    BY <1>2, <1>3, <1>5 DEF Past
  <2> QED BY <1>1, <1>2, <1>3, <2>1
<1> QED BY <1>4, <1>5 DEF Report

LEMMA ChangeTypes ==
  ASSUME NEW D, Closed(D), Typed(D), NEW ch \in Change, ApplyChange(ch)
  PROVE  Typed(D)'
<1> DEFINE r == Resolved(document, ch)
           old == r.old
           en == EntryFor(ch, old)
           range == DirtyRange(ch, eol)
<1>1. ch \in AChange
  BY BufferAssumption DEF Change, AChange
<1>2. document \in D /\ Past /\ Edits
  BY DEF Typed
<1>3. /\ r # None /\ SetText(r.doc) /\ PushTransaction(<<en>>) /\ NewVersion
      /\ alternative_version_id' = alternative_version_id + 1
      /\ dirty_line_ranges' = Append(dirty_line_ranges, range)
      /\ UNCHANGED <<eol, saved>>
  BY DEF ApplyChange
<1>4. old \in Text /\ r.doc \in D
  BY <1>1, <1>2, <1>3, ResolvedKeeps
<1>5. range \in LineRange
  BY <1>1, RangeType
<1> HIDE DEF r, old, range
<1>6. document' \in D /\ rope' \in Text
  BY <1>3, <1>4, SetTextKeeps
<1>7. en \in Entry
  BY <1>1, <1>4, EntryType
<1> HIDE DEF en
<1>8. undo_stack' \in Seq(Seq(Entry)) /\ redo_stack' \in Seq(Seq(Entry))
  <2> DEFINE entries == <<en>>
  <2>1. entries \in Seq(Entry) /\ PushTransaction(entries)
    BY <1>3, <1>7
  <2> HIDE DEF entries
  <2> QED BY <1>2, <2>1, PushTypes
<1>9. dirty_line_ranges' \in Seq(LineRange)
  BY <1>2, <1>3, <1>5, AppendProperties DEF Edits
<1>10. Past'
  <2>1. alternative_version_id' \in Nat \ {0} /\ eol' \in Eols /\ saved' \in Text
    BY <1>2, <1>3 DEF Past
  <2> QED BY <1>2, <1>3, <1>6, <2>1, NewVersionType
<1> QED BY <1>6, <1>8, <1>9, <1>10 DEF Typed, Edits

LEMMA ChangesTypes ==
  ASSUME NEW D, Closed(D), Typed(D), NEW batch \in Batches, ApplyChanges(batch)
  PROVE  Typed(D)'
<1> DEFINE b == ApplyBatch(document, batch)
           ranges == [i \in 1..Len(b.applied) |-> DirtyRange(b.applied[i], eol)]
<1>1. batch \in Seq(AChange)
  BY BufferAssumption DEF AChange
<1>2. document \in D /\ Past /\ Edits
  BY DEF Typed
<1>3. /\ SetText(b.doc) /\ UNCHANGED <<eol, saved>>
      /\ \/ UNCHANGED <<version_id, alternative_version_id, is_dirty, history,
                        undo_stack, redo_stack, dirty_line_ranges>>
         \/ /\ PushTransaction(b.entries) /\ NewVersion
            /\ alternative_version_id' = alternative_version_id + 1
            /\ dirty_line_ranges' = dirty_line_ranges \o ranges
  BY DEF ApplyChanges
<1>4. b.doc \in D /\ b.entries \in Seq(Entry) /\ b.applied \in Seq(AChange)
  BY <1>1, <1>2, BatchKeeps DEF Batched
<1> HIDE DEF b
<1>5. ranges \in Seq(LineRange)
  BY <1>4, RangesType
<1> HIDE DEF ranges
<1>6. document' \in D /\ rope' \in Text
  BY <1>3, <1>4, SetTextKeeps
<1>7. CASE UNCHANGED <<version_id, alternative_version_id, is_dirty, history,
                       undo_stack, redo_stack, dirty_line_ranges>>
  <2>1. Past'
    BY <1>2, <1>3, <1>7 DEF Past
  <2>2. Edits'
    BY <1>2, <1>7 DEF Edits
  <2> QED BY <1>6, <2>1, <2>2 DEF Typed
<1>8. CASE /\ PushTransaction(b.entries) /\ NewVersion
           /\ alternative_version_id' = alternative_version_id + 1
           /\ dirty_line_ranges' = dirty_line_ranges \o ranges
  <2>1. undo_stack' \in Seq(Seq(Entry)) /\ redo_stack' \in Seq(Seq(Entry))
    BY <1>2, <1>4, <1>8, PushTypes
  <2>2. dirty_line_ranges' \in Seq(LineRange)
    BY <1>2, <1>5, <1>8, ConcatProperties DEF Edits
  <2>3. alternative_version_id' \in Nat \ {0} /\ eol' \in Eols /\ saved' \in Text
    BY <1>2, <1>3, <1>8 DEF Past
  <2>4. Past'
    BY <1>2, <1>6, <1>8, <2>3, NewVersionType
  <2> QED BY <1>6, <2>1, <2>2, <2>4 DEF Typed, Edits
<1> QED BY <1>3, <1>7, <1>8

LEMMA SetValueTypes ==
  ASSUME NEW D, Home(D), Typed(D), NEW t \in Contents, SetValue(t)
  PROVE  Typed(D)'
<1> DEFINE size == ByteLen(rope)
           end == OffsetToPosition(rope, line_index, size)
           one == [line |-> 1, column |-> 1]
           last == IF end = None THEN one ELSE end
           all == [start |-> one, end |-> last, text |-> t]
           en == [EntryFor(all, rope) EXCEPT !.kind = "replace"]
           d == Doc(t, LineStarts(t))
<1>1. t \in Text /\ document \in D /\ Past /\ Edits /\ Closed(D)
  BY BufferAssumption DEF Typed, Home
<1>2. document.rope = rope /\ document.lines = line_index
  BY DEF document, Doc
<1>3. /\ PushTransaction(<<en>>) /\ SetText(d) /\ NewVersion
      /\ end # Panic
      /\ eol' = DetectEol(t)
      /\ alternative_version_id' = alternative_version_id + 1
      /\ UNCHANGED <<dirty_line_ranges, saved>>
  BY DEF SetValue
<1>4. d \in D
  BY <1>1 DEF Home, CDoc
<1> HIDE DEF d
<1>5. rope \in Text /\ document \in TDoc
  BY <1>1, <1>2, DocType DEF Closed
<1>6. one \in Position
  BY DEF Position
<1>7. end # None => end \in Position
  <2>1. size \in Nat
    BY <1>5, ByteLenType
  <2> HIDE DEF size
  <2>2. OffsetToPosition(document.rope, document.lines, size) \notin {None, Panic} =>
          OffsetToPosition(document.rope, document.lines, size) \in Position
    BY <1>5, <2>1, PositionType
  <2> QED BY <1>2, <1>3, <2>2
<1> HIDE DEF end, one
<1>8. all \in AChange
  BY <1>1, <1>6, <1>7 DEF AChange
<1> HIDE DEF all
<1>9. en \in Entry
  BY <1>5, <1>8, EntryType
<1> HIDE DEF en
<1>10. document' \in D /\ rope' \in Text
  BY <1>1, <1>3, <1>4, SetTextKeeps
<1>11. undo_stack' \in Seq(Seq(Entry)) /\ redo_stack' \in Seq(Seq(Entry))
  <2> DEFINE entries == <<en>>
  <2>1. entries \in Seq(Entry) /\ PushTransaction(entries)
    BY <1>3, <1>9
  <2> HIDE DEF entries
  <2> QED BY <1>1, <2>1, PushTypes
<1>12. Past'
  <2>1. alternative_version_id' \in Nat \ {0} /\ saved' \in Text
    BY <1>1, <1>3 DEF Past
  <2>2. eol' \in Eols
    BY <1>3 DEF DetectEol, Eols
  <2> QED BY <1>1, <1>3, <1>10, <2>1, <2>2, NewVersionType
<1>13. dirty_line_ranges' \in Seq(LineRange)
  BY <1>1, <1>3 DEF Edits
<1> QED BY <1>10, <1>11, <1>12, <1>13 DEF Typed, Edits

LEMMA UndoTypes ==
  ASSUME NEW D, Closed(D), Typed(D), Undo \/ Redo
  PROVE  Typed(D)'
<1>1. document \in D /\ undo_stack \in Seq(Seq(Entry)) /\ redo_stack \in Seq(Seq(Entry))
  BY DEF Typed, Edits
<1>2. CASE Undo
  <2> DEFINE entries == Last(undo_stack)
             result == UndoTransaction(document, entries)
  <2>1. /\ undo_stack # <<>> /\ undo_stack' = Front(undo_stack)
        /\ redo_stack' = Append(redo_stack, entries) /\ Report(result)
    BY <1>2 DEF Undo
  <2>2. Front(undo_stack) \in Seq(Seq(Entry)) /\ entries \in Seq(Entry)
    BY <1>1, <2>1, PopType
  <2> HIDE DEF entries
  <2>3. result.doc \in D
    BY <1>1, <2>2, TransactionsKeep
  <2> HIDE DEF result
  <2>4. redo_stack' \in Seq(Seq(Entry))
    BY <1>1, <2>1, <2>2, AppendProperties
  <2>5. document' \in D /\ Past' /\ dirty_line_ranges' \in Seq(LineRange)
    BY <2>1, <2>3, ReportTypes
  <2> QED BY <2>1, <2>2, <2>4, <2>5 DEF Typed, Edits
<1>3. CASE Redo
  <2> DEFINE entries == Last(redo_stack)
             result == RedoTransaction(document, entries)
  <2>1. /\ redo_stack # <<>> /\ redo_stack' = Front(redo_stack)
        /\ undo_stack' = Append(undo_stack, entries) /\ Report(result)
    BY <1>3 DEF Redo
  <2>2. Front(redo_stack) \in Seq(Seq(Entry)) /\ entries \in Seq(Entry)
    BY <1>1, <2>1, PopType
  <2> HIDE DEF entries
  <2>3. result.doc \in D
    BY <1>1, <2>2, TransactionsKeep
  <2> HIDE DEF result
  <2>4. undo_stack' \in Seq(Seq(Entry))
    BY <1>1, <2>1, <2>2, AppendProperties
  <2>5. document' \in D /\ Past' /\ dirty_line_ranges' \in Seq(LineRange)
    BY <2>1, <2>3, ReportTypes
  <2> QED BY <2>1, <2>2, <2>4, <2>5 DEF Typed, Edits
<1> QED BY <1>2, <1>3

LEMMA TypedStep ==
  ASSUME NEW D, Home(D), Typed(D), [Next]_vars
  PROVE  Typed(D)'
<1>1. Closed(D)
  BY DEF Home
<1>2. ASSUME UNCHANGED <<rope, line_index, version_id, eol, history, undo_stack, redo_stack>>,
             alternative_version_id' \in Nat \ {0}, is_dirty' \in BOOLEAN, saved' \in Text,
             dirty_line_ranges' \in Seq(LineRange)
      PROVE  Typed(D)'
  <2>1. document' = document
    BY <1>2 DEF document
  <2>2. Past'
    BY <1>2 DEF Typed, Past
  <2>3. Edits'
    BY <1>2 DEF Typed, Edits
  <2> QED BY <2>1, <2>2, <2>3 DEF Typed
<1>3. ASSUME NEW ch \in Change, ApplyChange(ch) PROVE Typed(D)'
  BY <1>1, <1>3, ChangeTypes
<1>4. ASSUME NEW batch \in Batches, ApplyChanges(batch) PROVE Typed(D)'
  BY <1>1, <1>4, ChangesTypes
<1>5. ASSUME NEW t \in Contents, SetValue(t) PROVE Typed(D)'
  BY <1>5, SetValueTypes
<1>6. CASE MarkAsSaved
  <2>1. /\ UNCHANGED <<rope, line_index, version_id, eol, history, undo_stack, redo_stack>>
        /\ dirty_line_ranges' = dirty_line_ranges
        /\ is_dirty' = FALSE /\ alternative_version_id' = version_id /\ saved' = rope
    BY <1>6 DEF MarkAsSaved, text_vars, undo_vars
  <2>2. rope \in Text /\ version_id \in Nat \ {0} /\ dirty_line_ranges \in Seq(LineRange)
    <3>1. document.rope = rope
      BY DEF document, Doc
    <3> QED BY <1>1, <3>1, DocType DEF Typed, Past, Edits
  <2> QED BY <1>2, <2>1, <2>2
<1>7. CASE Undo \/ Redo
  BY <1>1, <1>7, UndoTypes
<1>8. CASE ClearDirtyLines
  <2>1. /\ UNCHANGED <<rope, line_index, version_id, eol, history, undo_stack, redo_stack>>
        /\ UNCHANGED <<alternative_version_id, is_dirty, saved>>
        /\ dirty_line_ranges' = <<>>
    BY <1>8 DEF ClearDirtyLines, text_vars, undo_vars
  <2>2. dirty_line_ranges' \in Seq(LineRange)
    BY <2>1, EmptySeq
  <2>3. alternative_version_id' \in Nat \ {0} /\ is_dirty' \in BOOLEAN /\ saved' \in Text
    BY <2>1 DEF Typed, Past
  <2> QED BY <1>2, <2>1, <2>2, <2>3
<1>9. CASE UNCHANGED vars
  <2>1. /\ UNCHANGED <<rope, line_index, version_id, eol, history, undo_stack, redo_stack>>
        /\ UNCHANGED <<alternative_version_id, is_dirty, saved, dirty_line_ranges>>
    BY <1>9 DEF vars
  <2>2. alternative_version_id' \in Nat \ {0} /\ is_dirty' \in BOOLEAN /\ saved' \in Text
        /\ dirty_line_ranges' \in Seq(LineRange)
    BY <2>1 DEF Typed, Past, Edits
  <2> QED BY <1>2, <2>1, <2>2
<1> QED BY <1>3, <1>4, <1>5, <1>6, <1>7, <1>8, <1>9 DEF Next

LEMMA Homes == Home(TDoc) /\ (OneByte => Home(CDoc))
<1>1. CDoc \subseteq TDoc
  <2>1. ASSUME NEW t \in Text PROVE Doc(t, LineStarts(t)) \in TDoc
    BY LineStartsType DEF Doc, TDoc, Index
  <2> QED BY <2>1 DEF CDoc
<1> QED BY <1>1, DocumentsClosed, CoherentClosed DEF Home

LEMMA TypedDocuments == Typed(TDoc) => TypeOK
<1> SUFFICES ASSUME Typed(TDoc) PROVE TypeOK
  OBVIOUS
<1>1. rope \in Text /\ line_index \in Seq(Nat)
  BY DEF Typed, document, Doc, TDoc, Index
<1> QED BY <1>1 DEF TypeOK, Typed, Past, Edits, Eols, Snap, LineRange

(* Whatever is edited, undone, redone, set or saved, every variable of a   *)
(* buffer holds a value of its type: in particular each transaction on the *)
(* stacks can be undone and redone again (text_buffer.rs, undo and redo).  *)
THEOREM TypeCorrect == Spec => []TypeOK
<1>1. Init => Typed(TDoc)
  BY Homes, TypedInit
<1>2. Typed(TDoc) /\ [Next]_vars => Typed(TDoc)'
  BY Homes, TypedStep
<1> QED BY <1>1, <1>2, TypedDocuments, PTL DEF Spec

(* Of one-byte characters, the line index kept up edit by edit is at all   *)
(* times the one a scan of the text would build (text_buffer.rs,           *)
(* update_line_index; line_index.rs, update_from).                         *)
THEOREM IndexIsCoherent ==
  ASSUME OneByte
  PROVE  Spec => []LineIndexCoherent
<1>1. Init => Typed(CDoc)
  BY Homes, TypedInit
<1>2. Typed(CDoc) /\ [Next]_vars => Typed(CDoc)'
  BY Homes, TypedStep
<1>3. Typed(CDoc) => LineIndexCoherent
  <2> SUFFICES ASSUME Typed(CDoc) PROVE line_index = LineStarts(rope)
    BY DEF LineIndexCoherent
  <2>1. PICK t \in Text : document = Doc(t, LineStarts(t))
    BY DEF Typed, CDoc
  <2>2. rope = document.rope /\ line_index = document.lines
    BY DEF document, Doc
  <2>3. document.rope = t /\ document.lines = LineStarts(t)
    BY <2>1 DEF Doc
  <2> QED BY <2>2, <2>3
<1> QED BY <1>1, <1>2, <1>3, PTL DEF Spec

----------------------------------------------------------------------------
(* Of one-byte texts with a coherent index, an entry that changes the text *)
(* says so.                                                                *)

(* Every offset within the text has a position.                            *)
LEMMA PositionExists ==
  ASSUME OneByte, NEW t \in Text, NEW starts, starts = LineStarts(t),
         NEW offset \in Nat, offset <= Len(t)
  PROVE  OffsetToPosition(t, starts, offset) \in Position
<1> DEFINE n == Len(starts)
           size == Len(t)
           T == {i \in 1..n : starts[i] <= offset}
           line == OffsetToLine(starts, offset)
           from == starts[line]
           to == LineEndOffset(t, starts, line)
           first == from + 1
           text == LineText(t, starts, line)
           bytes == Boundaries(Utf8Len, text)
           m == Len(text)
           into == Min({offset - from, ByteLen(text)})
           splits == {i \in 0..m : bytes[i] = into}
<1>1. /\ starts \in Index /\ n \in Nat \ {0} /\ starts[1] = 0 /\ size \in Nat
      /\ \A i \in 1..n : starts[i] \in 0..size
      /\ \A k, l \in 1..n : k < l => starts[k] < starts[l]
  BY StartsAscend, LenProperties DEF Ascending, Index, Text
<1>2. None \notin Text \union Nat \union Position
  BY CharsAssumption DEF CharsAssumption
<1>3. line = Max(T) /\ T # {}
  <2>1. 1 \in T
    BY <1>1
  <2> QED BY <2>1 DEF OffsetToLine
<1>4. line \in 1..n /\ starts[line] <= offset /\ line # None
  <2>1. T \in SUBSET (1..n)
    OBVIOUS
  <2>2. Max(T) \in T
    <3> HIDE DEF T
    <3> QED BY <1>1, <1>3, <2>1, MaxIsGreatest DEF n
  <2>3. line \in T
    BY <1>3, <2>2
  <2> HIDE DEF line
  <2>4. line \in 1..n /\ starts[line] <= offset
    BY <2>3
  <2>5. line \in Nat
    BY <1>1, <2>4
  <2> QED BY <1>2, <2>4, <2>5
<1> HIDE DEF line, T
<1>5. from \in Nat /\ from <= size
  BY <1>1, <1>4
<1>6. to \in Nat /\ from <= to /\ to <= size
  <2>1. CASE line < n
    <3> DEFINE next == starts[line + 1]
    <3>1. line + 1 \in 1..n /\ line < line + 1
      BY <1>1, <1>4, <2>1
    <3>2. next \in 0..size /\ from < next
      BY <1>1, <1>4, <3>1
    <3>3. to = Max({next - 1, 0})
      BY <2>1 DEF LineEndOffset
    <3> HIDE DEF next, to, from
    <3> DEFINE ends == {next - 1, 0}
    <3>4. next - 1 >= 0 /\ next - 1 \in ends /\ ends \subseteq Nat
      BY <1>5, <3>2
    <3>5. \A y \in ends : next - 1 >= y
      BY <3>4
    <3>6. Max(ends) \in ends /\ \A y \in ends : Max(ends) >= y
      <4> HIDE DEF ends
      <4> QED BY <3>4, <3>5 DEF Max
    <3> DEFINE mx == Max(ends)
    <3>7. mx \in {next - 1, 0} /\ mx >= next - 1 /\ to = mx
      BY <3>3, <3>6
    <3> HIDE DEF mx, ends
    <3>8. mx = next - 1
      <4>1. next \in Nat /\ next >= 1
        BY <1>5, <3>2
      <4> QED BY <3>7, <4>1
    <3> QED BY <1>1, <1>5, <3>2, <3>7, <3>8
  <2>2. CASE ~(line < n)
    <3>1. to = ByteLen(t)
      BY <2>2 DEF LineEndOffset
    <3>2. to = size
      BY <3>1, BytesAreChars
    <3> QED BY <1>1, <1>5, <3>2
  <2> QED BY <2>1, <2>2
<1>7. text \in Text /\ text # None
  <2>1. text = Slice(t, from, to)
    BY DEF LineText
  <2> HIDE DEF from, to, text
  <2> QED BY <1>5, <1>6, <2>1, SliceShape DEF size
<1> HIDE DEF text
<1>8. m \in Nat /\ ByteLen(text) = m /\ \A i \in 0..m : bytes[i] = i
  BY <1>7, BytesAreChars, LenProperties DEF Text
<1> HIDE DEF from, bytes, m
<1>9. into \in 0..m
  <2> DEFINE d == offset - from
             both == {d, ByteLen(text)}
  <2>1. d \in Nat
    BY <1>4, <1>5 DEF from
  <2>2. into = Min(both)
    OBVIOUS
  <2> HIDE DEF d, into
  <2>3. both \subseteq Nat /\ both # {} /\ m \in both
    BY <1>8, <2>1
  <2> HIDE DEF both
  <2>4. Min(both) \in both /\ Min(both) <= m
    BY <2>3, MinIsLeast
  <2>5. Min(both) \in Nat
    BY <2>3, <2>4
  <2> QED BY <1>8, <2>2, <2>4, <2>5
<1> HIDE DEF into
<1>10. splits # {} /\ splits \in SUBSET (0..m)
  BY <1>8, <1>9
<1> DEFINE units == Boundaries(Utf16Len, text)
           at == Max(splits)
           column == units[at] + 1
<1>11. OffsetToPosition(t, starts, offset) = [line |-> line, column |-> column]
  BY <1>4, <1>7, <1>10 DEF OffsetToPosition, line, text, bytes, m, into, from
<1>12. units \in [0..m -> Nat]
  BY <1>7, ByteWidths, BoundariesCount DEF m
<1> HIDE DEF splits, units
<1>13. at \in 0..m
  BY <1>8, <1>10, MaxFromZero
<1> HIDE DEF at
<1>14. column \in Nat \ {0}
  <2>1. units[at] \in Nat
    BY <1>12, <1>13
  <2> QED BY <2>1
<1> HIDE DEF column
<1>15. line \in Nat \ {0}
  BY <1>1, <1>4
<1> QED BY <1>11, <1>14, <1>15 DEF Position

(* What was put in lies within the text.                                   *)
LEMMA SpliceHolds ==
  ASSUME OneByte, NEW doc \in CDoc, NEW from \in Nat, NEW to \in Nat, NEW new \in Text,
         NEW next, next = Spliced(doc, from, to, new), next # None
  PROVE  \A offset \in Nat :
           offset <= from + Len(new) =>
             OffsetToPosition(next.rope, next.lines, offset) \in Position
<1> DEFINE put == Put(doc, from, to, new)
<1>1. doc \in TDoc
  BY CoherentClosed DEF Closed
<1>2. from <= to /\ to <= Len(doc.rope)
  BY <1>1, SpliceShape
<1>3. /\ put \in Text /\ from + Len(new) <= Len(put)
      /\ next = Doc(put, UpdateLineIndex(put, doc.lines, from))
  BY <1>1, <1>2, SpliceShape
<1>4. next \in CDoc
  BY <1>2, CoherentClosed DEF Closed
<1> HIDE DEF put
<1>5. next.rope = put /\ next.lines = LineStarts(put)
  <2>1. PICK t \in Text : next = Doc(t, LineStarts(t))
    BY <1>4 DEF CDoc
  <2>2. next.rope = t /\ next.lines = LineStarts(t)
    BY <2>1 DEF Doc
  <2>3. next.rope = put
    BY <1>3 DEF Doc
  <2> QED BY <2>2, <2>3
<1> SUFFICES ASSUME NEW offset \in Nat, offset <= from + Len(new)
             PROVE  OffsetToPosition(put, LineStarts(put), offset) \in Position
  BY <1>5
<1>6. offset <= Len(put)
  <2>1. Len(put) \in Nat /\ Len(new) \in Nat
    BY <1>3, LenProperties DEF Text
  <2> QED BY <1>3, <2>1
<1> DEFINE starts == LineStarts(put)
<1>7. starts = LineStarts(put)
  OBVIOUS
<1> HIDE DEF starts
<1>8. OffsetToPosition(put, starts, offset) \in Position
  BY <1>3, <1>6, <1>7, PositionExists
<1> QED BY <1>8 DEF starts

(* An entry leaves the document alone or reports a change.                 *)
Told(doc, out) == out.doc = doc \/ (out.change # None /\ out.panic = FALSE)

(* The outcomes of Applied, when the end it reports is this position.      *)
Tells(doc, en, from, to, new, end, out) ==
  \/ out.doc = doc
  \/ /\ None \notin {from, to} /\ Spliced(doc, from, to, new) # None
     /\ out.panic = (end = Panic)
     /\ out.change = IF end \in {None, Panic} THEN None
                     ELSE [start |-> en.start, end |-> end, text |-> new]

LEMMA PanicIsNoPosition == Panic \notin Position
  BY DEF Panic, Position

LEMMA Telling ==
  ASSUME NEW doc, NEW en \in Entry, NEW new \in Text, NEW from, NEW to, NEW end, NEW out,
         Tells(doc, en, from, to, new, end, out),
         None \notin {from, to} /\ Spliced(doc, from, to, new) # None => end \in Position
  PROVE  Told(doc, out)
<1>1. CASE out.doc = doc
  BY <1>1 DEF Told
<1>2. CASE out.doc # doc
  <2>1. end \in Position /\ out.panic = (end = Panic)
        /\ out.change = IF end \in {None, Panic} THEN None
                        ELSE [start |-> en.start, end |-> end, text |-> new]
    BY <1>2 DEF Tells
  <2>2. None \notin Text \union Nat \union Position
    BY CharsAssumption DEF CharsAssumption
  <2>3. out.change = [start |-> en.start, end |-> end, text |-> new] /\ out.panic = FALSE
    BY <2>1, <2>2, PanicIsNoPosition
  <2>4. out.change \in [start : Position, end : Position, text : Text]
    BY <2>1, <2>3 DEF Entry
  <2>5. out.change # None
    BY <2>4, BufferAssumption
  <2> QED BY <2>3, <2>5 DEF Told
<1> QED BY <1>1, <1>2

LEMMA PlusIs ==
  ASSUME OneByte, NEW offset \in Nat, NEW text \in Text
  PROVE  Plus(offset, text) = offset + Len(text) /\ Plus(offset, text) \in Nat
<1>1. None \notin Text \union Nat \union Position
  BY CharsAssumption DEF CharsAssumption
<1>2. ByteLen(text) = Len(text) /\ Len(text) \in Nat
  BY BytesAreChars, LenProperties DEF Text
<1>3. Plus(offset, text) = offset + ByteLen(text)
  BY <1>1 DEF Plus
<1> QED BY <1>2, <1>3

LEMMA UndoTells ==
  ASSUME OneByte, NEW doc \in CDoc, NEW en \in Entry
  PROVE  Told(doc, UndoEntry(doc, en))
<1> DEFINE at == PositionToOffset(doc.rope, doc.lines, en.start)
           current == ValueInRange(doc.rope, doc.lines, en.start, en.end)
           inserted == Sliced(doc, at, Plus(at, en.text))
           replaced == Plus(at, current)
           empty == <<>>
           out == UndoEntry(doc, en)
           cut == Spliced(doc, at, inserted, empty)
           put == Spliced(doc, at, replaced, en.old)
           cutEnd == OffsetToPosition(cut.rope, cut.lines, at)
           putEnd == OffsetToPosition(put.rope, put.lines, Plus(at, en.old))
<1>1. doc \in TDoc
  BY CoherentClosed DEF Closed
<1>2. /\ en.start \in Position /\ en.end \in Position /\ en.text \in Text /\ en.old \in Text
      /\ en.kind \in {"insert", "delete", "replace"}
  BY DEF Entry
<1>3. at # None => at \in Nat
  BY <1>1, <1>2, OffsetType
<1>4. current \in Text \union {None}
  BY <1>1, <1>2, ValueType
<1>5. empty \in Text /\ Len(empty) = 0
  BY EmptySeq DEF Text
<1>6. /\ en.kind = "insert" => Tells(doc, en, at, inserted, empty, cutEnd, out)
      /\ en.kind = "delete" => Tells(doc, en, at, at, en.old, en.start, out)
      /\ en.kind = "replace" => Tells(doc, en, at, replaced, en.old, putEnd, out)
  <2>1. CASE en.kind = "insert"
    BY <2>1 DEF UndoEntry, Applied, Tells
  <2>2. CASE en.kind = "delete"
    BY <2>2 DEF UndoEntry, Applied, Tells
  <2>3. CASE en.kind = "replace"
    BY <2>3 DEF UndoEntry, Applied, Tells
  <2> QED BY <1>2, <2>1, <2>2, <2>3
<1> HIDE DEF at, current
<1>7. inserted # None => inserted \in Nat
  BY <1>2, <1>3, PlusType, SlicedType
<1>8. replaced # None => replaced \in Nat
  BY <1>3, <1>4, PlusType
<1> HIDE DEF inserted, replaced, empty, out
<1>9. ASSUME None \notin {at, inserted}, cut # None PROVE cutEnd \in Position
  <2>1. at \in Nat /\ inserted \in Nat /\ at <= at + Len(empty)
    BY <1>3, <1>5, <1>7, <1>9
  <2>2. cut = Spliced(doc, at, inserted, empty)
    OBVIOUS
  <2> HIDE DEF cut
  <2>3. \A offset \in Nat :
          offset <= at + Len(empty) => OffsetToPosition(cut.rope, cut.lines, offset) \in Position
    BY <1>5, <1>9, <2>1, <2>2, SpliceHolds
  <2> QED BY <2>1, <2>3
<1>10. ASSUME None \notin {at, replaced}, put # None PROVE putEnd \in Position
  <2> DEFINE old == en.old
             reach == Plus(at, old)
  <2>1. at \in Nat /\ replaced \in Nat /\ old \in Text
    BY <1>2, <1>3, <1>8, <1>10
  <2>2. put = Spliced(doc, at, replaced, old)
    OBVIOUS
  <2> HIDE DEF put, old
  <2>3. \A offset \in Nat :
          offset <= at + Len(old) => OffsetToPosition(put.rope, put.lines, offset) \in Position
    BY <1>10, <2>1, <2>2, SpliceHolds
  <2>4. reach = at + Len(old) /\ reach \in Nat
    BY <2>1, PlusIs
  <2>5. reach <= at + Len(old)
    BY <2>4
  <2> HIDE DEF reach
  <2>6. OffsetToPosition(put.rope, put.lines, reach) \in Position
    BY <2>3, <2>4, <2>5
  <2> QED BY <2>6 DEF reach, old
<1> HIDE DEF cutEnd, putEnd
<1>11. CASE en.kind = "insert"
  BY <1>5, <1>6, <1>9, <1>11, Telling DEF out, cut
<1>12. CASE en.kind = "delete"
  BY <1>2, <1>6, <1>12, Telling DEF out
<1>13. CASE en.kind = "replace"
  BY <1>2, <1>6, <1>10, <1>13, Telling DEF out, put
<1> QED BY <1>2, <1>11, <1>12, <1>13

LEMMA RedoTells ==
  ASSUME OneByte, NEW doc \in CDoc, NEW en \in Entry
  PROVE  Told(doc, RedoEntry(doc, en))
<1> DEFINE at == PositionToOffset(doc.rope, doc.lines, en.start)
           to == PositionToOffset(doc.rope, doc.lines, en.end)
           deleted == Sliced(doc, at, to)
           replaced == Plus(at, en.old)
           empty == <<>>
           out == RedoEntry(doc, en)
           put == Spliced(doc, at, replaced, en.text)
           putEnd == OffsetToPosition(put.rope, put.lines, Plus(at, en.text))
<1>1. doc \in TDoc
  BY CoherentClosed DEF Closed
<1>2. /\ en.start \in Position /\ en.end \in Position /\ en.text \in Text /\ en.old \in Text
      /\ en.kind \in {"insert", "delete", "replace"}
  BY DEF Entry
<1>3. at # None => at \in Nat
  BY <1>1, <1>2, OffsetType
<1>4. empty \in Text
  BY EmptySeq DEF Text
<1>5. /\ en.kind = "insert" => Tells(doc, en, at, at, en.text, en.start, out)
      /\ en.kind = "delete" => Tells(doc, en, at, deleted, empty, en.end, out)
      /\ en.kind = "replace" => Tells(doc, en, at, replaced, en.text, putEnd, out)
  <2>1. CASE en.kind = "insert"
    BY <2>1 DEF RedoEntry, Applied, Tells
  <2>2. CASE en.kind = "delete"
    BY <2>2 DEF RedoEntry, Applied, Tells
  <2>3. CASE en.kind = "replace"
    BY <2>3 DEF RedoEntry, Applied, Tells
  <2> QED BY <1>2, <2>1, <2>2, <2>3
<1> HIDE DEF at, to
<1>6. replaced # None => replaced \in Nat
  BY <1>2, <1>3, PlusType
<1> HIDE DEF deleted, replaced, empty, out
<1>7. ASSUME None \notin {at, replaced}, put # None PROVE putEnd \in Position
  <2> DEFINE new == en.text
             reach == Plus(at, new)
  <2>1. at \in Nat /\ replaced \in Nat /\ new \in Text
    BY <1>2, <1>3, <1>6, <1>7
  <2>2. put = Spliced(doc, at, replaced, new)
    OBVIOUS
  <2> HIDE DEF put, new
  <2>3. \A offset \in Nat :
          offset <= at + Len(new) => OffsetToPosition(put.rope, put.lines, offset) \in Position
    BY <1>7, <2>1, <2>2, SpliceHolds
  <2>4. reach = at + Len(new) /\ reach \in Nat
    BY <2>1, PlusIs
  <2>5. reach <= at + Len(new)
    BY <2>4
  <2> HIDE DEF reach
  <2>6. OffsetToPosition(put.rope, put.lines, reach) \in Position
    BY <2>3, <2>4, <2>5
  <2> QED BY <2>6 DEF reach, new
<1> HIDE DEF putEnd
<1>8. CASE en.kind = "insert"
  BY <1>2, <1>5, <1>8, Telling DEF out
<1>9. CASE en.kind = "delete"
  BY <1>2, <1>4, <1>5, <1>9, Telling DEF out
<1>10. CASE en.kind = "replace"
  BY <1>2, <1>5, <1>7, <1>10, Telling DEF out, put
<1> QED BY <1>2, <1>8, <1>9, <1>10

----------------------------------------------------------------------------
(* Buffers edited by one change at a time: each transaction has one entry. *)
OneChange == \A batch \in Batches : Len(batch) <= 1

Single == {entries \in Seq(Entry) : Len(entries) <= 1}

LEMMA OneOf ==
  ASSUME NEW x
  PROVE  /\ Len(<<x>>) = 1
         /\ Append(<<>>, x) # <<>> /\ Len(Append(<<>>, x)) = 1
<1> DEFINE none == <<>>
           one == Append(none, x)
<1>1. none \in Seq({x}) /\ Len(none) = 0 /\ x \in {x}
  BY EmptySeq
<1> HIDE DEF none
<1>2. Len(one) = Len(none) + 1
  BY <1>1, AppendProperties
<1> HIDE DEF one
<1>3. Len(one) = 1
  BY <1>1, <1>2
<1>4. one # <<>>
  BY <1>3, EmptyShape
<1> QED BY <1>3, <1>4 DEF one, none

(* One entry that changes the text is reported, and does not panic.        *)
LEMMA OneEntry ==
  ASSUME NEW doc, NEW out, Told(doc, out), NEW end, end = Went(Started(doc), out),
         end.panic \/ end.changes = <<>>
  PROVE  end.doc = doc
<1>1. end = [doc |-> out.doc, panic |-> out.panic,
             changes |-> IF out.change = None THEN <<>> ELSE Append(<<>>, out.change)]
  BY DEF Went, Started
<1>2. /\ end.doc = out.doc /\ end.panic = out.panic
      /\ out.change # None => end.changes = Append(<<>>, out.change)
  BY <1>1
<1>3. CASE out.doc = doc
  BY <1>2, <1>3
<1>4. CASE out.change # None /\ out.panic = FALSE
  <2>1. end.changes # <<>>
    BY <1>2, <1>4, OneOf
  <2> QED BY <1>2, <1>4, <2>1
<1> QED BY <1>3, <1>4 DEF Told

LEMMA SilentUndo ==
  ASSUME OneByte, NEW doc \in CDoc, NEW entries \in Single,
         NEW end, end = UndoTransaction(doc, entries), end.panic \/ end.changes = <<>>
  PROVE  end.doc = doc
<1> DEFINE back == Reverse(entries)
           n == Len(back)
<1>1. back \in Seq(Entry) /\ n \in {0, 1}
  <2>1. entries \in Seq(Entry) /\ Len(entries) \in Nat /\ Len(entries) <= 1
    BY LenProperties DEF Single
  <2>2. back \in Seq(Entry)
    BY <2>1, ReverseType
  <2>3. n = Len(entries)
    BY <2>1 DEF Reverse
  <2> QED BY <2>1, <2>2, <2>3
<1>2. end = Chain(UndoEntry, doc, back)
  BY DEF UndoTransaction
<1> HIDE DEF back
<1>3. PICK h : UndoSteps(h, doc, back)
  BY <1>1, CoherentClosed, UndoChain
<1>4. CASE n = 0
  <2>1. end = Started(doc)
    BY <1>2, <1>3, <1>4 DEF UndoSteps
  <2> QED BY <2>1 DEF Started
<1>5. CASE n = 1
  <2> DEFINE en == back[1]
             out == UndoEntry(doc, en)
  <2>1. en \in Entry
    BY <1>1, <1>5, ElementOfSeq
  <2>2. end = Went(Started(doc), out)
    <3>1. h[1] = Went(h[0], UndoEntry(h[0].doc, back[1])) /\ h[0] = Started(doc) /\ end = h[1]
      <4>1. 1 \in 1..Len(back) /\ 1 - 1 = 0
        BY <1>5
      <4> QED BY <1>2, <1>3, <1>5, <4>1 DEF UndoSteps
    <3>2. Started(doc).doc = doc
      BY DEF Started
    <3> QED BY <3>1, <3>2
  <2> HIDE DEF en
  <2>3. Told(doc, out)
    BY <2>1, UndoTells
  <2> HIDE DEF out
  <2> QED BY <2>2, <2>3, OneEntry
<1> QED BY <1>1, <1>4, <1>5

LEMMA SilentRedo ==
  ASSUME OneByte, NEW doc \in CDoc, NEW entries \in Single,
         NEW end, end = RedoTransaction(doc, entries), end.panic \/ end.changes = <<>>
  PROVE  end.doc = doc
<1> DEFINE n == Len(entries)
<1>1. entries \in Seq(Entry) /\ n \in {0, 1}
  <2>1. entries \in Seq(Entry) /\ n \in Nat /\ n <= 1
    BY LenProperties DEF Single
  <2> HIDE DEF n
  <2>2. n \in {0, 1}
    BY <2>1
  <2> QED BY <2>1, <2>2
<1>2. end = Chain(RedoEntry, doc, entries)
  BY DEF RedoTransaction
<1>3. PICK h : RedoSteps(h, doc, entries)
  BY <1>1, CoherentClosed, RedoChain
<1>4. CASE n = 0
  <2>1. end = Started(doc)
    BY <1>2, <1>3, <1>4 DEF RedoSteps
  <2> QED BY <2>1 DEF Started
<1>5. CASE n = 1
  <2> DEFINE en == entries[1]
             out == RedoEntry(doc, en)
  <2>1. en \in Entry
    <3>1. 1 \in 1..Len(entries)
      BY <1>5
    <3> QED BY <1>1, <3>1, ElementOfSeq
  <2>2. end = Went(Started(doc), out)
    <3>1. h[1] = Went(h[0], RedoEntry(h[0].doc, entries[1])) /\ h[0] = Started(doc) /\ end = h[1]
      <4>1. 1 \in 1..Len(entries) /\ 1 - 1 = 0
        BY <1>5
      <4> QED BY <1>2, <1>3, <1>5, <4>1 DEF RedoSteps
    <3>2. Started(doc).doc = doc
      BY DEF Started
    <3> QED BY <3>1, <3>2
  <2> HIDE DEF en
  <2>3. Told(doc, out)
    BY <2>1, RedoTells
  <2> HIDE DEF out
  <2> QED BY <2>2, <2>3, OneEntry
<1> QED BY <1>1, <1>4, <1>5

LEMMA OneInBatch ==
  ASSUME NEW D, Closed(D), NEW doc \in D, NEW changes \in Seq(AChange), Len(changes) <= 1,
         NEW b, b = ApplyBatch(doc, changes)
  PROVE  /\ b.entries \in Single
         /\ b.abandoned \/ b.applied = <<>> => b.doc = doc
<1> DEFINE n == Len(changes)
<1>1. n \in {0, 1}
  <2>1. n \in Nat /\ n <= 1
    BY LenProperties
  <2> HIDE DEF n
  <2> QED BY <2>1
<1>2. PICK h : BatchSteps(h, doc, changes)
  BY BatchChain
<1>3. b.entries \in Seq(Entry)
  BY BatchKeeps DEF Batched
<1>4. Opened(doc).doc = doc /\ Opened(doc).entries = <<>> /\ Opened(doc).applied = <<>>
  BY DEF Opened
<1>5. b = Opened(doc) \/ \E ch : b = Tried(Opened(doc), ch)
  <2>1. CASE n = 0
    BY <1>2, <2>1 DEF BatchSteps
  <2>2. CASE n = 1
    <3>1. 1 \in 1..Len(changes) /\ 1 - 1 = 0
      BY <2>2
    <3>2. h[1] = Tried(h[0], changes[1]) /\ h[0] = Opened(doc) /\ b = h[1]
      BY <1>2, <2>2, <3>1 DEF BatchSteps
    <3> QED BY <3>2
  <2> QED BY <1>1, <2>1, <2>2
<1>6. CASE b = Opened(doc)
  <2>1. Len(b.entries) <= 1
    BY <1>4, <1>6, EmptyShape
  <2> QED BY <1>3, <1>4, <1>6, <2>1 DEF Single
<1>7. ASSUME NEW ch, b = Tried(Opened(doc), ch)
      PROVE  Len(b.entries) <= 1 /\ (b.abandoned \/ b.applied = <<>> => b.doc = doc)
  <2> DEFINE o == Opened(doc)
             r == Resolved(doc, ch)
             en == EntryFor(ch, r.old)
  <2>1. o = [doc |-> doc, entries |-> <<>>, applied |-> <<>>, abandoned |-> FALSE]
    BY DEF Opened
  <2>2. \/ b = o
        \/ b = [o EXCEPT !.abandoned = TRUE]
        \/ b = [o EXCEPT !.doc = r.doc, !.entries = Append(o.entries, en),
                         !.applied = Append(o.applied, ch)]
    <3>1. o.doc = doc
      BY <2>1
    <3> QED BY <1>7, <3>1 DEF Tried
  <2>3. /\ o \in [doc : {doc}, entries : {<<>>}, applied : {<<>>}, abandoned : {FALSE}]
        /\ o.doc = doc /\ o.entries = <<>> /\ o.applied = <<>> /\ o.abandoned = FALSE
    BY <2>1
  <2> HIDE DEF o, r, en
  <2>4. CASE b = o
    BY <2>3, <2>4, EmptyShape
  <2>5. CASE b = [o EXCEPT !.abandoned = TRUE]
    <3>1. b.doc = doc /\ b.entries = <<>>
      BY <2>3, <2>5
    <3> QED BY <3>1, EmptyShape
  <2>6. CASE b = [o EXCEPT !.doc = r.doc, !.entries = Append(o.entries, en),
                           !.applied = Append(o.applied, ch)]
    <3> DEFINE x == Append(<<>>, en)
               y == Append(<<>>, ch)
    <3>1. x # <<>> /\ y # <<>> /\ Len(x) = 1
      BY OneOf
    <3>2. b = [o EXCEPT !.doc = r.doc, !.entries = x, !.applied = y]
      BY <2>3, <2>6
    <3> HIDE DEF x, y
    <3> DEFINE d == r.doc
    <3> HIDE DEF d
    <3>3. [o EXCEPT !.doc = d, !.entries = x, !.applied = y] \in
            [doc : {d}, entries : {x}, applied : {y}, abandoned : {FALSE}]
      BY <2>3
    <3>4. b \in [doc : {d}, entries : {x}, applied : {y}, abandoned : {FALSE}]
      BY <3>2, <3>3 DEF d
    <3>5. b.entries = x /\ b.applied = y /\ b.abandoned = FALSE
      BY <3>4
    <3>6. Len(b.entries) <= 1
      <4>1. Len(b.entries) = 1
        BY <3>1, <3>5
      <4> QED BY <4>1
    <3>7. ~(b.abandoned \/ b.applied = <<>>)
      BY <3>1, <3>5
    <3> QED BY <3>6, <3>7
  <2> QED BY <2>2, <2>4, <2>5, <2>6
<1> QED BY <1>3, <1>5, <1>6, <1>7 DEF Single

----------------------------------------------------------------------------
(* Of one-byte characters a batch is never abandoned, and one of which no  *)
(* change is applied leaves the document as it was.                        *)
Quiet(doc) ==
  {acc \in Batched(CDoc) : acc.abandoned = FALSE /\ (acc.applied = <<>> => acc.doc = doc)}

LEMMA TriedQuiet ==
  ASSUME OneByte, NEW doc, NEW acc \in Quiet(doc), NEW ch \in AChange,
         Tried(acc, ch) \in Batched(CDoc)
  PROVE  Tried(acc, ch) \in Quiet(doc)
<1> DEFINE s == PositionToOffset(acc.doc.rope, acc.doc.lines, ch.start)
           e == PositionToOffset(acc.doc.rope, acc.doc.lines, ch.end)
           r == Resolved(acc.doc, ch)
           applied == acc.applied
           next == [acc EXCEPT !.doc = r.doc,
                               !.entries = Append(acc.entries, EntryFor(ch, r.old)),
                               !.applied = Append(applied, ch)]
           skip == None \in {s, e} \/ s > e \/ e > ByteLen(acc.doc.rope)
<1>1. /\ acc \in Batched(CDoc) /\ acc.abandoned = FALSE
      /\ applied \in Seq(AChange)
      /\ acc.doc \in CDoc /\ acc.doc \in TDoc
  BY CoherentClosed DEF Quiet, Batched, Closed
<1>2. skip \/ r # None
  <2> SUFFICES ASSUME ~skip PROVE r # None
    OBVIOUS
  <2>1. acc.doc.rope \in Text /\ ch.start \in Position /\ ch.end \in Position
    BY <1>1 DEF TDoc, AChange
  <2>2. s # None /\ e # None
    OBVIOUS
  <2>3. s \in Nat /\ e \in Nat
    BY <1>1, <2>1, <2>2, OffsetType
  <2>4. ByteLen(acc.doc.rope) = Len(acc.doc.rope) /\ Len(acc.doc.rope) \in Nat
    BY <2>1, BytesAreChars, LenProperties DEF Text
  <2>5. s <= e /\ e <= Len(acc.doc.rope)
    BY <2>3, <2>4
  <2>6. Slice(acc.doc.rope, s, e) # None
    BY <2>1, <2>3, <2>5, SliceShape
  <2> DEFINE d == Spliced(acc.doc, s, e, ch.text)
             cut == Slice(acc.doc.rope, s, e)
  <2>7. r = [old |-> cut, doc |-> d]
    BY <2>2, <2>6 DEF Resolved
  <2>9. d \in TDoc
    BY <1>1, <2>1, <2>3, <2>5, DocumentsClosed DEF Closed, TDoc, AChange
  <2>10. cut \in Text
    BY <2>1, <2>3, <2>6, SliceShape
  <2> HIDE DEF r, d, cut
  <2>8. [old |-> cut, doc |-> d] # None
    BY <2>9, <2>10, BufferAssumption DEF TDoc, Index
  <2> QED BY <2>7, <2>8
<1>3. Tried(acc, ch) = acc \/ Tried(acc, ch) = next
  <2>1. Tried(acc, ch) = IF acc.abandoned \/ skip THEN acc
                         ELSE IF r = None THEN [acc EXCEPT !.abandoned = TRUE] ELSE next
    BY DEF Tried
  <2> HIDE DEF skip, r, next
  <2> QED BY <1>1, <1>2, <2>1
<1>4. ASSUME Tried(acc, ch) = next PROVE Tried(acc, ch) \in Quiet(doc)
  <2>1. Append(applied, ch) # <<>>
    <3> HIDE DEF applied
    <3>1. Len(Append(applied, ch)) = Len(applied) + 1 /\ Len(applied) \in Nat
      BY <1>1, AppendProperties, LenProperties
    <3> QED BY <3>1, EmptyShape
  <2>2. next.abandoned = FALSE /\ next.applied = Append(applied, ch)
    BY <1>1 DEF Batched
  <2> HIDE DEF next, applied
  <2> QED BY <1>4, <2>1, <2>2 DEF Quiet
<1> QED BY <1>3, <1>4

LEMMA BatchQuiet ==
  ASSUME OneByte, NEW doc \in CDoc, NEW changes \in Seq(AChange),
         NEW b, b = ApplyBatch(doc, changes), b.abandoned \/ b.applied = <<>>
  PROVE  b.doc = doc
<1> DEFINE n == Len(changes)
<1>1. PICK h \in [0..n -> Batched(CDoc)] : BatchSteps(h, doc, changes)
  BY CoherentClosed, BatchChain
<1>2. n \in Nat /\ \A i \in 1..n : changes[i] \in AChange
  BY LenProperties, ElementOfSeq
<1>3. /\ h[0] = Opened(doc) /\ h[n] = b
      /\ \A i \in 1..n : h[i] = Tried(h[i - 1], changes[i])
  BY <1>1 DEF BatchSteps
<1> HIDE DEF n
<1> DEFINE P == {i \in Nat : i <= n => h[i] \in Quiet(doc)}
<1>4. 0 \in P
  <2>1. Opened(doc) \in Quiet(doc)
    <3>1. Opened(doc).doc = doc /\ Opened(doc).abandoned = FALSE /\ h[0] \in Batched(CDoc)
      BY <1>1, <1>2 DEF Opened
    <3> QED BY <1>3, <3>1 DEF Quiet
  <2> QED BY <1>3, <2>1
<1>5. ASSUME NEW i \in Nat, i \in P PROVE i + 1 \in P
  <2> SUFFICES ASSUME i + 1 <= n PROVE h[i + 1] \in Quiet(doc)
    OBVIOUS
  <2>1. i + 1 \in 1..n /\ (i + 1) - 1 = i /\ i <= n
    BY <1>2
  <2>2. h[i] \in Quiet(doc) /\ changes[i + 1] \in AChange /\ h[i + 1] \in Batched(CDoc)
    BY <1>1, <1>2, <1>5, <2>1
  <2>3. h[i + 1] = Tried(h[i], changes[i + 1])
    BY <1>3, <2>1
  <2> QED BY <2>2, <2>3, TriedQuiet
<1>6. \A i \in Nat : i \in P
  <2> HIDE DEF P
  <2> QED BY <1>4, <1>5, SetNatInduction
<1>7. b \in Quiet(doc)
  BY <1>2, <1>3, <1>6
<1> QED BY <1>7 DEF Quiet

----------------------------------------------------------------------------
(* A step that changes the text records a version, or is an undo or redo   *)
(* of several changes that reports nothing; one that does not change the   *)
(* text only saves, or leaves the past alone.                              *)
Accounted ==
  \/ NewVersion
  \/ UNCHANGED <<rope, version_id, history, is_dirty, saved>>
  \/ saved' = rope /\ UNCHANGED <<rope, version_id, history>>

LEMMA StepAccounted ==
  ASSUME OneByte, Typed(CDoc), [Next]_vars
  PROVE  Accounted \/ PartlyDone
<1>1. document \in CDoc /\ Closed(CDoc) /\ document.rope = rope
      /\ undo_stack \in Seq(Seq(Entry)) /\ redo_stack \in Seq(Seq(Entry))
  BY CoherentClosed DEF Typed, document, Doc, Edits
<1>2. ASSUME NEW result, Report(result),
             result.panic \/ result.changes = <<>> => result.doc = document
      PROVE  Accounted
  <2>1. CASE result.panic \/ result.changes = <<>>
    <3>1. rope' = rope /\ UNCHANGED <<version_id, is_dirty, history, saved>>
      BY <1>1, <1>2, <2>1 DEF Report, SetText
    <3> QED BY <3>1 DEF Accounted
  <2>2. CASE ~(result.panic \/ result.changes = <<>>)
    BY <1>2, <2>2 DEF Report, Accounted
  <2> QED BY <2>1, <2>2
<1>3. ASSUME NEW result, Report(result) PROVE NewVersion \/ version_id' = version_id
  BY <1>3 DEF Report
<1>4. ASSUME NEW ch \in Change, ApplyChange(ch) PROVE Accounted
  BY <1>4 DEF ApplyChange, Accounted
<1>5. ASSUME NEW batch \in Batches, ApplyChanges(batch) PROVE Accounted
  <2> DEFINE b == ApplyBatch(document, batch)
  <2>1. /\ SetText(b.doc) /\ UNCHANGED saved
        /\ \/ /\ b.abandoned \/ b.applied = <<>>
              /\ UNCHANGED <<version_id, is_dirty, history>>
           \/ NewVersion
    BY <1>5 DEF ApplyChanges
  <2>2. batch \in Seq(AChange)
    BY BufferAssumption DEF AChange
  <2>3. b.abandoned \/ b.applied = <<>> => b.doc = document
    BY <1>1, <2>2, BatchQuiet
  <2> HIDE DEF b
  <2>4. b.doc = document => rope' = rope
    BY <1>1, <2>1 DEF SetText
  <2> QED BY <2>1, <2>3, <2>4 DEF Accounted
<1>6. ASSUME NEW t \in Contents, SetValue(t) PROVE Accounted
  BY <1>6 DEF SetValue, Accounted
<1>7. CASE MarkAsSaved
  BY <1>7 DEF MarkAsSaved, text_vars, Accounted
<1>8. CASE Undo
  <2> DEFINE entries == Last(undo_stack)
             result == UndoTransaction(document, entries)
  <2>1. undo_stack # <<>> /\ Report(result)
    BY <1>8 DEF Undo
  <2>2. entries \in Seq(Entry) /\ Len(entries) \in Nat
    BY <1>1, <2>1, PopType, LenProperties
  <2>3. CASE Len(entries) > 1
    <3> HIDE DEF result
    <3> QED BY <1>3, <1>8, <2>1, <2>3 DEF PartlyDone, Accounted
  <2>4. CASE ~(Len(entries) > 1)
    <3> HIDE DEF entries
    <3>1. entries \in Single
      BY <2>2, <2>4 DEF Single
    <3>2. result.panic \/ result.changes = <<>> => result.doc = document
      BY <1>1, <3>1, SilentUndo
    <3> HIDE DEF result
    <3> QED BY <1>2, <2>1, <3>2
  <2> QED BY <2>3, <2>4
<1>9. CASE Redo
  <2> DEFINE entries == Last(redo_stack)
             result == RedoTransaction(document, entries)
  <2>1. redo_stack # <<>> /\ Report(result)
    BY <1>9 DEF Redo
  <2>2. entries \in Seq(Entry) /\ Len(entries) \in Nat
    BY <1>1, <2>1, PopType, LenProperties
  <2>3. CASE Len(entries) > 1
    <3> HIDE DEF result
    <3> QED BY <1>3, <1>9, <2>1, <2>3 DEF PartlyDone, Accounted
  <2>4. CASE ~(Len(entries) > 1)
    <3> HIDE DEF entries
    <3>1. entries \in Single
      BY <2>2, <2>4 DEF Single
    <3>2. result.panic \/ result.changes = <<>> => result.doc = document
      BY <1>1, <3>1, SilentRedo
    <3> HIDE DEF result
    <3> QED BY <1>2, <2>1, <3>2
  <2> QED BY <2>3, <2>4
<1>10. CASE ClearDirtyLines
  BY <1>10 DEF ClearDirtyLines, text_vars, Accounted
<1>11. CASE UNCHANGED vars
  BY <1>11 DEF vars, Accounted
<1> QED BY <1>4, <1>5, <1>6, <1>7, <1>8, <1>9, <1>10, <1>11 DEF Next

(* The newest snapshot of a lineage without gaps is that of the version.   *)
Current == history[Len(history)].content = rope

LEMMA NewestSnapshot ==
  ASSUME NEW h, NEW v \in Nat, v # 0, Len(h) \in Nat, Len(h) # 0,
         \A i \in 1..Len(h) : h[i].version_id = v - Len(h) + i
  PROVE  SnapshotAtVersion(h, v) = h[Len(h)]
<1> DEFINE n == Len(h)
           at == {i \in 1..Len(h) : h[i].version_id = v}
<1>1. n \in Nat /\ n \in 1..n
  OBVIOUS
<1>2. ASSUME NEW i \in 1..n PROVE h[i].version_id = v <=> i = n
  <2>1. h[i].version_id = v - n + i
    OBVIOUS
  <2> QED BY <1>1, <2>1
<1>3. at = {n}
  BY <1>1, <1>2
<1>4. Min(at) = n
  BY <1>1, <1>3 DEF Min
<1> HIDE DEF n
<1> QED BY <1>1, <1>3, <1>4 DEF SnapshotAtVersion, n

(* A new version ends the lineage with the text as it now is.              *)
LEMMA NewVersionCurrent ==
  ASSUME Inv, NewVersion
  PROVE  Current'
<1> DEFINE snapshot == Snapshot(rope', version_id + 1, TRUE, eol')
           kept == IF Len(history) >= MaxHistory THEN Tail(history) ELSE history
<1>1. history' = Append(kept, snapshot)
  BY DEF NewVersion, RecordSnapshot
<1>2. snapshot.content = rope'
  BY DEF Snapshot
<1>3. IsSeq(kept)
  <2>1. history # <<>>
    BY BufferAssumption, EmptyShape DEF Inv, LineageContiguous
  <2> QED BY <2>1, TailShape DEF Inv, Shapes
<1> HIDE DEF snapshot, kept
<1>4. Len(history') = Len(kept) + 1 /\ history'[Len(kept) + 1] = snapshot
  BY <1>1, <1>3, AppendShape
<1>5. history'[Len(history')] = snapshot
  BY <1>4
<1> QED BY <1>2, <1>5 DEF Current

(* What an accounted step keeps.                                           *)
Lawful == Inv /\ Typed(CDoc)

LEMMA LawfulStep ==
  ASSUME OneByte, Lawful, [Next]_vars
  PROVE  Lawful'
<1>1. Inv'
  BY StepLineage, StepStacks, Halves DEF Lawful, Inv, Shapes, Lineage, Stacks
<1>2. Typed(CDoc)'
  BY Homes, TypedStep DEF Lawful
<1> QED BY <1>1, <1>2 DEF Lawful

LEMMA LawfulAlways ==
  ASSUME OneByte
  PROVE  Spec => []Lawful
<1>1. Init => Lawful
  BY InitInv, Homes, TypedInit DEF Lawful
<1>2. Lawful /\ [Next]_vars => Lawful'
  BY LawfulStep
<1> QED BY <1>1, <1>2, PTL DEF Spec

LEMMA AccountedKeeps ==
  ASSUME Inv, Accounted
  PROVE  /\ Current => Current'
         /\ SavedWhenClean => SavedWhenClean'
<1>1. CASE NewVersion
  <2>1. Current'
    BY <1>1, NewVersionCurrent
  <2>2. SavedWhenClean'
    BY <1>1 DEF NewVersion, SavedWhenClean
  <2> QED BY <2>1, <2>2
<1>2. CASE UNCHANGED <<rope, version_id, history, is_dirty, saved>>
  BY <1>2 DEF Current, SavedWhenClean
<1>3. CASE saved' = rope /\ UNCHANGED <<rope, version_id, history>>
  BY <1>3 DEF Current, SavedWhenClean
<1> QED BY <1>1, <1>2, <1>3 DEF Accounted

LEMMA CurrentInit ==
  ASSUME Init
  PROVE  Current /\ SavedWhenClean
<1>1. PICK t \in Contents :
        rope = t /\ saved = t /\ history = <<Snapshot(t, 1, FALSE, DetectEol(t))>>
  BY DEF Init
<1> DEFINE first == Snapshot(t, 1, FALSE, DetectEol(t))
<1>2. first.content = t
  BY DEF Snapshot
<1> HIDE DEF first
<1>3. history = <<first>>
  BY <1>1 DEF first
<1>4. Len(<<first>>) = 1 /\ <<first>>[1] = first
  BY OneOf
<1> QED BY <1>1, <1>2, <1>3, <1>4 DEF Current, SavedWhenClean

LEMMA CurrentMeansText ==
  ASSUME Inv
  PROVE  LineageHasText <=> Current
<1>1. /\ version_id \in Nat /\ version_id # 0
      /\ Len(history) \in Nat /\ Len(history) # 0
      /\ \A i \in 1..Len(history) : history[i].version_id = version_id - Len(history) + i
  BY DEF Inv, Shapes, LineageContiguous
<1>2. SnapshotAtVersion(history, version_id) = history[Len(history)]
  BY <1>1, NewestSnapshot
<1> QED BY <1>2 DEF LineageHasText, Current

(* Of one-byte characters, the newest snapshot of the lineage is the text  *)
(* as it is, until an undo or redo of several changes that reports nothing *)
(* (text_buffer.rs, undo, redo, record_snapshot).                          *)
THEOREM LineageIsCurrent ==
  ASSUME OneByte
  PROVE  Spec => LineageCurrent
<1>1. Inv => (LineageHasText <=> Current)
  BY CurrentMeansText
<1>2. Lawful => Inv
  BY DEF Lawful
<1>3. Init => Current
  BY CurrentInit
<1>4. Lawful /\ [Next]_vars => (Current => Current' \/ PartlyDone)
  BY StepAccounted, AccountedKeeps DEF Lawful
<1>5. Lawful /\ Lawful' /\ [Next]_vars =>
        [LineageHasText => LineageHasText' \/ PartlyDone]_vars
  BY <1>1, <1>2, <1>4, PTL
<1>6. Init => LineageHasText
  BY <1>1, <1>3, InitInv
<1> QED BY <1>5, <1>6, LawfulAlways, PTL DEF Spec, LineageCurrent

(* Of one-byte characters, a buffer that says it is clean holds the text   *)
(* that was last saved, until an undo or redo of several changes that      *)
(* reports nothing (text_buffer.rs, mark_as_saved, is_dirty).              *)
THEOREM CleanIsSaved ==
  ASSUME OneByte
  PROVE  Spec => CleanMeansSaved
<1>1. Lawful /\ [Next]_vars =>
        [SavedWhenClean => SavedWhenClean' \/ PartlyDone]_vars
  BY StepAccounted, AccountedKeeps DEF Lawful
<1>2. Init => SavedWhenClean
  BY CurrentInit
<1> QED BY <1>1, <1>2, LawfulAlways, PTL DEF Spec, CleanMeansSaved

(* Of one-byte characters, no step changes the text without giving it the  *)
(* next version, but for an undo or redo of several changes that reports   *)
(* nothing (text_buffer.rs).                                               *)
THEOREM ChangesHaveVersions ==
  ASSUME OneByte
  PROVE  Spec => ChangesAreVersioned
<1>1. Lawful /\ [Next]_vars =>
        [/\ version_id' \in {version_id, version_id + 1}
         /\ rope' # rope => version_id' = version_id + 1 \/ PartlyDone]_vars
  <2> SUFFICES ASSUME Lawful, [Next]_vars
               PROVE  /\ version_id' \in {version_id, version_id + 1}
                      /\ rope' # rope => version_id' = version_id + 1 \/ PartlyDone
    OBVIOUS
  <2>1. Accounted \/ PartlyDone
    BY StepAccounted DEF Lawful
  <2> QED BY <2>1 DEF Accounted, NewVersion, PartlyDone
<1> QED BY <1>1, LawfulAlways, PTL DEF Spec, ChangesAreVersioned

----------------------------------------------------------------------------
(* If no call applies more than one change, as in the program, where all   *)
(* edits are made by apply_change and set_value, no transaction has more   *)
(* than one entry.                                                         *)
Singles == undo_stack \in Seq(Single) /\ redo_stack \in Seq(Single)

LEMMA PushSingles ==
  ASSUME Singles, NEW entries \in Single, PushTransaction(entries)
  PROVE  Singles'
<1>1. undo_stack' = PushUndo(undo_stack, entries) /\ redo_stack' = <<>>
      /\ undo_stack \in Seq(Single)
  BY DEF PushTransaction, Singles
<1>2. undo_stack' \in Seq(Single)
  BY <1>1, PushType
<1>3. redo_stack' \in Seq(Single)
  BY <1>1, EmptySeq
<1> QED BY <1>2, <1>3 DEF Singles

LEMMA SinglesStep ==
  ASSUME OneChange, Typed(CDoc), OneByte, Singles, [Next]_vars
  PROVE  Singles'
<1>1. ASSUME NEW x, NEW entries, entries = <<x>>, PushTransaction(entries), x \in Entry
      PROVE  Singles'
  <2>1. entries \in Seq(Entry) /\ Len(entries) = 1
    BY <1>1, OneOf
  <2>2. entries \in Single
    BY <2>1 DEF Single
  <2> QED BY <1>1, <2>2, PushSingles
<1>2. ASSUME UNCHANGED <<undo_stack, redo_stack>> PROVE Singles'
  BY <1>2 DEF Singles
<1>3. document \in CDoc /\ Closed(CDoc)
  BY CoherentClosed DEF Typed
<1>4. document.rope = rope /\ document.lines = line_index /\ rope \in Text /\ document \in TDoc
  <2>1. document.rope = rope /\ document.lines = line_index
    BY DEF document, Doc
  <2> QED BY <1>3, <2>1, DocType DEF Closed
<1>5. ASSUME NEW ch \in Change, ApplyChange(ch) PROVE Singles'
  <2> DEFINE r == Resolved(document, ch)
             old == r.old
             en == EntryFor(ch, old)
             entries == <<en>>
  <2>1. r # None /\ PushTransaction(entries)
    BY <1>5 DEF ApplyChange
  <2>2. ch \in AChange
    BY BufferAssumption DEF Change, AChange
  <2>3. old \in Text
    BY <1>3, <2>1, <2>2, ResolvedKeeps
  <2> HIDE DEF r, old
  <2>4. en \in Entry
    BY <2>2, <2>3, EntryType
  <2>5. entries = <<en>>
    OBVIOUS
  <2> HIDE DEF en, entries
  <2> QED BY <1>1, <2>1, <2>4, <2>5
<1>6. ASSUME NEW batch \in Batches, ApplyChanges(batch) PROVE Singles'
  <2> DEFINE b == ApplyBatch(document, batch)
  <2>1. PushTransaction(b.entries) \/ UNCHANGED <<undo_stack, redo_stack>>
    BY <1>6 DEF ApplyChanges
  <2>2. batch \in Seq(AChange) /\ Len(batch) <= 1
    BY BufferAssumption DEF AChange, OneChange
  <2>3. b.entries \in Single
    BY <1>3, <2>2, OneInBatch
  <2> HIDE DEF b
  <2> QED BY <1>2, <2>1, <2>3, PushSingles
<1>7. ASSUME NEW t \in Contents, SetValue(t) PROVE Singles'
  <2> DEFINE size == ByteLen(rope)
             end == OffsetToPosition(rope, line_index, size)
             one == [line |-> 1, column |-> 1]
             last == IF end = None THEN one ELSE end
             all == [start |-> one, end |-> last, text |-> t]
             en == [EntryFor(all, rope) EXCEPT !.kind = "replace"]
             entries == <<en>>
  <2>1. PushTransaction(entries) /\ t \in Text /\ end # Panic
    BY <1>7, BufferAssumption DEF SetValue
  <2>2. one \in Position
    BY DEF Position
  <2>3. end # None => end \in Position
    <3>1. size \in Nat
      BY <1>4, ByteLenType
    <3> HIDE DEF size
    <3>2. OffsetToPosition(document.rope, document.lines, size) \notin {None, Panic} =>
            OffsetToPosition(document.rope, document.lines, size) \in Position
      BY <1>4, <3>1, PositionType
    <3> QED BY <1>4, <2>1, <3>2
  <2> HIDE DEF end, one
  <2>4. all \in AChange
    BY <2>1, <2>2, <2>3 DEF AChange
  <2> HIDE DEF all
  <2>5. en \in Entry /\ entries = <<en>>
    BY <1>4, <2>4, EntryType
  <2> HIDE DEF en, entries
  <2> QED BY <1>1, <2>1, <2>5
<1>8. CASE Undo
  <2>1. /\ undo_stack # <<>> /\ undo_stack' = Front(undo_stack)
        /\ redo_stack' = Append(redo_stack, Last(undo_stack))
        /\ undo_stack \in Seq(Single) /\ redo_stack \in Seq(Single)
    BY <1>8 DEF Undo, Singles
  <2>2. Front(undo_stack) \in Seq(Single) /\ Last(undo_stack) \in Single
    BY <2>1, PopType
  <2> QED BY <2>1, <2>2, AppendProperties DEF Singles
<1>9. CASE Redo
  <2>1. /\ redo_stack # <<>> /\ redo_stack' = Front(redo_stack)
        /\ undo_stack' = Append(undo_stack, Last(redo_stack))
        /\ undo_stack \in Seq(Single) /\ redo_stack \in Seq(Single)
    BY <1>9 DEF Redo, Singles
  <2>2. Front(redo_stack) \in Seq(Single) /\ Last(redo_stack) \in Single
    BY <2>1, PopType
  <2> QED BY <2>1, <2>2, AppendProperties DEF Singles
<1>10. CASE MarkAsSaved \/ ClearDirtyLines \/ UNCHANGED vars
  BY <1>2, <1>10 DEF MarkAsSaved, ClearDirtyLines, undo_vars, vars
<1> QED BY <1>5, <1>6, <1>7, <1>8, <1>9, <1>10 DEF Next

Kept == Lawful /\ Singles /\ Current /\ SavedWhenClean

LEMMA StepKept ==
  ASSUME OneByte, OneChange, Kept, [Next]_vars
  PROVE  Kept'
<1>1. Lawful' /\ Singles'
  BY LawfulStep, SinglesStep DEF Kept, Lawful
<1>2. ~PartlyDone
  <2>1. ASSUME NEW stack \in Seq(Single), stack # <<>> PROVE ~(Len(Last(stack)) > 1)
    <3>1. Last(stack) \in Single
      BY <2>1, PopType
    <3>2. Len(Last(stack)) \in Nat /\ Len(Last(stack)) <= 1
      BY <3>1, LenProperties DEF Single
    <3> QED BY <3>2
  <2> QED BY <2>1 DEF PartlyDone, Undo, Redo, Kept, Singles
<1>3. Accounted
  BY <1>2, StepAccounted DEF Kept, Lawful
<1> QED BY <1>1, <1>3, AccountedKeeps DEF Kept, Lawful

(* Then the lineage is never behind and clean always means saved: the      *)
(* newest snapshot is the text as it is, and a buffer that is not dirty    *)
(* holds what was last saved (registry.rs, apply_edit, set_content).       *)
THEOREM SingleChangesStayKept ==
  ASSUME OneByte, OneChange
  PROVE  Spec => [](LineageHasText /\ SavedWhenClean)
<1>1. Init => Kept
  <2>1. Init => Singles
    BY EmptySeq DEF Init, Singles
  <2>2. Init => Lawful
    BY InitInv, Homes, TypedInit DEF Lawful
  <2> QED BY <2>1, <2>2, CurrentInit DEF Kept
<1>2. Kept /\ [Next]_vars => Kept'
  BY StepKept
<1>3. Kept => LineageHasText /\ SavedWhenClean
  BY CurrentMeansText DEF Kept, Lawful
<1> QED BY <1>1, <1>2, <1>3, PTL DEF Spec

----------------------------------------------------------------------------
(* Undo.  Of characters of one byte and one UTF-16 unit, a position that   *)
(* names a place of the text exactly has the offset of the place, and goes *)
(* on having it as long as the text before the place is the same.          *)
OneUnit == \A c \in Chars : Utf16Len[c] = 1

LEMMA UnitsAreChars ==
  ASSUME OneUnit, NEW t \in Text
  PROVE  \A i \in 0..Len(t) : Boundaries(Utf16Len, t)[i] = i
<1> DEFINE n == Len(t)
           at == Boundaries(Utf16Len, t)
           P == {i \in Nat : i <= n => at[i] = i}
<1>1. n \in Nat /\ \A i \in 1..n : t[i] \in Chars
  BY LenProperties, ElementOfSeq DEF Text
<1>2. at[0] = 0 /\ \A i \in 1..n : at[i] = at[i - 1] + Utf16Len[t[i]]
  BY ByteWidths, BoundariesCount
<1> HIDE DEF at, n
<1>3. 0 \in P
  BY <1>2
<1>4. ASSUME NEW i \in Nat, i \in P PROVE i + 1 \in P
  <2> SUFFICES ASSUME i + 1 <= n PROVE at[i + 1] = i + 1
    OBVIOUS
  <2>1. i + 1 \in 1..n /\ (i + 1) - 1 = i /\ at[i] = i
    BY <1>1, <1>4
  <2>2. at[i + 1] = at[i] + Utf16Len[t[i + 1]] /\ Utf16Len[t[i + 1]] = 1
    BY <1>1, <1>2, <2>1 DEF OneUnit
  <2> QED BY <2>1, <2>2
<1> HIDE DEF P
<1>5. \A i \in Nat : i \in P
  BY <1>3, <1>4, SetNatInduction
<1>6. \A i \in 0..n : at[i] = i
  BY <1>1, <1>5 DEF P
<1> QED BY <1>6 DEF at, n

(* Where a line lies in its text.                                          *)
Lies(t, line, from, to) ==
  /\ from = LineStarts(t)[line] /\ to = LineEndOffset(t, LineStarts(t), line)
  /\ from \in Nat /\ to \in Nat /\ from <= to /\ to <= Len(t)
  /\ LineText(t, LineStarts(t), line) \in Text
  /\ Len(LineText(t, LineStarts(t), line)) = to - from

LEMMA EndOfLine ==
  ASSUME OneByte, NEW t \in Text, NEW line, line \in 1..Len(LineStarts(t))
  PROVE  LineEndOffset(t, LineStarts(t), line) =
           IF line < Len(LineStarts(t)) THEN LineStarts(t)[line + 1] - 1 ELSE Len(t)
<1> DEFINE starts == LineStarts(t)
           n == Len(starts)
           next == starts[line + 1]
<1>1. n \in Nat \ {0} /\ line \in 1..n /\ \A k \in 1..n : k # 1 => starts[k] >= 1 /\ starts[k] \in Nat
  BY StartsAscend, ElementOfSeq DEF Ascending
<1>2. CASE line < n
  <2>1. LineEndOffset(t, starts, line) = Max({next - 1, 0})
    BY <1>2 DEF LineEndOffset
  <2>2. next >= 1 /\ next \in Nat
    <3>1. line + 1 \in 1..n /\ line + 1 # 1
      BY <1>1, <1>2
    <3> QED BY <1>1, <3>1
  <2> HIDE DEF next
  <2>3. Max({next - 1, 0}) = next - 1
    BY <2>2 DEF Max
  <2> QED BY <1>2, <2>1, <2>3 DEF next
<1>3. CASE ~(line < n)
  BY <1>3, BytesAreChars DEF LineEndOffset
<1> QED BY <1>2, <1>3

LEMMA LineLies ==
  ASSUME OneByte, NEW t \in Text, NEW line, line \in 1..Len(LineStarts(t))
  PROVE  Lies(t, line, LineStarts(t)[line], LineEndOffset(t, LineStarts(t), line))
<1> DEFINE starts == LineStarts(t)
           n == Len(starts)
           size == Len(t)
           from == starts[line]
           to == LineEndOffset(t, starts, line)
           text == LineText(t, starts, line)
           first == from + 1
<1>1. /\ n \in Nat \ {0} /\ line \in 1..n /\ size \in Nat
      /\ \A i \in 1..n : starts[i] \in 0..size
      /\ \A k, l \in 1..n : k < l => starts[k] < starts[l]
  BY StartsAscend, LenProperties DEF Ascending, Text
<1>2. to = IF line < n THEN starts[line + 1] - 1 ELSE size
  BY EndOfLine
<1>3. from \in Nat /\ to \in Nat /\ from <= to /\ to <= size
  <2>1. from \in 0..size
    BY <1>1
  <2>2. CASE line < n
    <3>1. line + 1 \in 1..n /\ line < line + 1
      BY <1>1, <2>2
    <3>2. starts[line + 1] \in 0..size /\ from < starts[line + 1]
      BY <1>1, <3>1
    <3> QED BY <1>1, <1>2, <2>1, <2>2, <3>2
  <2>3. CASE ~(line < n)
    BY <1>1, <1>2, <2>1, <2>3
  <2> QED BY <2>2, <2>3
<1>4. text = Slice(t, from, to)
  BY DEF LineText
<1>5. text = SubSeq(t, first, to)
  BY <1>3, <1>4, SliceShape
<1>6. text \in Text /\ Len(text) = to - from
  <2>1. first = from + 1 /\ t \in Seq(Chars) /\ to <= Len(t)
    BY <1>3 DEF Text
  <2> HIDE DEF from, to, first
  <2>2. SubSeq(t, first, to) \in Seq(Chars) /\ Len(SubSeq(t, first, to)) = to - from
    BY <1>3, <2>1, PartShape
  <2> QED BY <1>5, <2>2 DEF Text
<1> QED BY <1>3, <1>6 DEF Lies


(* A splice, in terms of what is before, in and after the range replaced.  *)
Joins(doc, p, q, r, from, to) ==
  doc.rope = (p \o q) \o r /\ from = Len(p) /\ to = Len(p \o q)

LEMMA PutIs ==
  ASSUME NEW p \in Text, NEW q \in Text, NEW r \in Text, NEW new \in Text,
         NEW doc, NEW from, NEW to, Joins(doc, p, q, r, from, to)
  PROVE  Put(doc, from, to, new) = (p \o new) \o r
<1> DEFINE pq == p \o q
           qr == q \o r
           t == pq \o r
           pr == p \o r
           first == from + 1
           after == to + 1
           size == Len(t)
           short == Len(pr)
<1>0. doc.rope = t /\ from = Len(p) /\ to = Len(pq)
  BY DEF Joins
<1>1. p \in Seq(Chars) /\ q \in Seq(Chars) /\ r \in Seq(Chars)
  BY DEF Text
<1>2. /\ pq \in Seq(Chars) /\ Len(pq) = to
      /\ qr \in Seq(Chars) /\ pr \in Seq(Chars) /\ Len(pr) = from + Len(r)
      /\ t = p \o qr
  <2>1. pq \in Seq(Chars) /\ qr \in Seq(Chars)
    BY <1>1, ConcatProperties
  <2>2. pr \in Seq(Chars) /\ Len(pr) = Len(p) + Len(r)
    BY <1>1, ConcatProperties
  <2>3. t = p \o qr
    BY <1>1, ConcatAssociative
  <2> HIDE DEF pq, qr, pr, t
  <2> QED BY <1>0, <2>1, <2>2, <2>3
<1>3. from \in Nat /\ Len(q) \in Nat /\ Len(r) \in Nat /\ to \in Nat /\ from <= to
  <2>1. Len(pq) = Len(p) + Len(q)
    BY <1>1, ConcatProperties
  <2> HIDE DEF pq
  <2> QED BY <1>0, <1>1, <2>1, LenProperties
<1> HIDE DEF qr
<1>4. SubSeq(t, 1, from) = p
  <2>1. SubSeq(p \o qr, 1, from) = p
    BY <1>0, <1>1, <1>2, Parts
  <2> QED BY <1>2, <2>1
<1> HIDE DEF pq
<1>5. SubSeq(t, after, size) = r
  <2>1. after = to + 1 /\ to = Len(pq)
    BY <1>2
  <2>2. pq \in Seq(Chars) /\ r \in Seq(Chars)
    BY <1>1, <1>2
  <2> HIDE DEF after
  <2> QED BY <2>1, <2>2, Parts
<1>6. size = to + Len(r)
  BY <1>1, <1>2, ConcatProperties
<1>7. doc.rope = t
  BY <1>0
<1> HIDE DEF t, size
<1>8. RopeRemove(doc.rope, from, to) = pr
  <2>1. from <= to /\ to <= size
    BY <1>3, <1>6
  <2>2. RopeRemove(t, from, to) = SubSeq(t, 1, from) \o SubSeq(t, to + 1, Len(t))
    BY <2>1 DEF RopeRemove, size
  <2>3. SubSeq(t, to + 1, Len(t)) = r
    BY <1>5 DEF after, size
  <2> QED BY <1>4, <1>7, <2>2, <2>3
<1>9. SubSeq(pr, 1, from) = p /\ SubSeq(pr, first, short) = r
  <2>1. first = from + 1
    OBVIOUS
  <2> HIDE DEF first
  <2> QED BY <1>0, <1>1, <2>1, Parts
<1>10. from <= short
  BY <1>2, <1>3
<1> HIDE DEF pr
<1>11. RopeInsert(pr, from, new) = (p \o new) \o r
  <2>1. RopeInsert(pr, from, new) = (SubSeq(pr, 1, from) \o new) \o SubSeq(pr, first, short)
    BY <1>10 DEF RopeInsert
  <2> QED BY <1>9, <2>1
<1> QED BY <1>8, <1>11 DEF Put

Replaces(doc, next, p, q, r, new, from, to, end) ==
  /\ Joins(doc, p, q, r, from, to)
  /\ next.rope = Put(doc, from, to, new)
  /\ end = Len(p \o new)

PutIsUndone(doc, next, p, q, r, new, from, end) ==
  next.rope = (p \o new) \o r /\ Put(next, from, end, q) = doc.rope

LEMMA PutTwice ==
  ASSUME NEW p \in Text, NEW q \in Text, NEW r \in Text, NEW new \in Text,
         NEW doc, NEW next, NEW from, NEW to, NEW end,
         Replaces(doc, next, p, q, r, new, from, to, end)
  PROVE  PutIsUndone(doc, next, p, q, r, new, from, end)
<1>0. Joins(doc, p, q, r, from, to) /\ next.rope = Put(doc, from, to, new) /\ end = Len(p \o new)
  BY DEF Replaces
<1>1. next.rope = (p \o new) \o r
  BY <1>0, PutIs
<1>2. Joins(next, p, new, r, from, end)
  BY <1>0, <1>1 DEF Joins
<1>3. Put(next, from, end, q) = (p \o q) \o r
  BY <1>2, PutIs
<1> QED BY <1>0, <1>1, <1>3 DEF Joins, PutIsUndone

(* A splice is undone by the opposite splice.                              *)
LEMMA PutBack ==
  ASSUME NEW doc \in TDoc, NEW from \in Nat, NEW to \in Nat, from <= to, to <= Len(doc.rope),
         NEW new \in Text, NEW old, old = Slice(doc.rope, from, to),
         NEW next, next.rope = Put(doc, from, to, new),
         NEW end \in Nat, end = from + Len(new)
  PROVE  /\ Put(next, from, end, old) = doc.rope
         /\ old \in Text /\ Len(old) = to - from
         /\ from <= end /\ end <= Len(next.rope)
<1> DEFINE t == doc.rope
           one == 1
           first == from + 1
           after == to + 1
           size == Len(t)
           p == SubSeq(t, one, from)
           head == SubSeq(t, one, to)
           r == SubSeq(t, after, size)
<1>1. t \in Text /\ t \in Seq(Chars) /\ size \in Nat /\ from <= size /\ to <= size
  <2>1. t \in Text
    BY DEF TDoc
  <2>2. t \in Seq(Chars) /\ size \in Nat
    BY <2>1, LenProperties DEF Text
  <2> HIDE DEF t
  <2> QED BY <2>1, <2>2 DEF size, t
<1> HIDE DEF t
<1>2. old = SubSeq(t, first, to) /\ old \in Text
  BY <1>1, SliceShape DEF t, size
<1>3. p \in Seq(Chars) /\ Len(p) = from
  BY <1>1, FirstPart
<1>4. head \in Seq(Chars) /\ Len(head) = to /\ \A i \in 1..to : head[i] = t[i]
  BY <1>1, FirstPart
<1>5. Len(old) = to - from /\ \A i \in 1..(to - from) : old[i] = t[from + i]
  <2>1. first = from + 1
    OBVIOUS
  <2> HIDE DEF first, size
  <2>2. to <= Len(t)
    BY <1>1 DEF size
  <2> QED BY <1>1, <1>2, <2>1, <2>2, PartShape
<1>6. head = p \o old
  <2>1. SubSeq(head, one, from) = p /\ SubSeq(head, first, to) = old
    <3> DEFINE x == SubSeq(head, one, from)
               y == SubSeq(head, first, to)
    <3> HIDE DEF head
    <3>1. from <= Len(head) /\ to <= Len(head)
      BY <1>4
    <3>2. x \in Seq(Chars) /\ Len(x) = from /\ \A i \in 1..from : x[i] = head[i]
      BY <1>4, <3>1, FirstPart
    <3>3. p \in Seq(Chars) /\ Len(p) = from /\ \A i \in 1..from : p[i] = t[i]
      BY <1>1, FirstPart
    <3>4. first = from + 1
      OBVIOUS
    <3> HIDE DEF first
    <3>5. y \in Seq(Chars) /\ Len(y) = to - from /\ \A i \in 1..(to - from) : y[i] = head[from + i]
      BY <1>4, <3>1, <3>4, PartShape
    <3> HIDE DEF x, y, p
    <3>6. \A i \in 1..from : i \in 1..to
      OBVIOUS
    <3>7. x = p
      BY <1>4, <3>2, <3>3, <3>6, SeqEqual
    <3>8. \A i \in 1..(to - from) : from + i \in 1..to
      OBVIOUS
    <3>9. y = old
      <4>1. old \in Seq(Chars) /\ Len(y) = Len(old)
        BY <1>2, <1>5, <3>5 DEF Text
      <4>2. \A i \in 1..(to - from) : y[i] = old[i]
        BY <1>4, <1>5, <3>5, <3>8
      <4>3. \A i \in 1..Len(y) : y[i] = old[i]
        BY <3>5, <4>2
      <4> QED BY <3>5, <4>1, <4>3, SeqEqual
    <3> QED BY <3>7, <3>9 DEF x, y
  <2>2. first = from + 1 /\ from <= Len(head)
    BY <1>4
  <2> HIDE DEF first, head
  <2>3. SubSeq(head, 1, from) \o SubSeq(head, first, Len(head)) = head
    BY <1>4, <2>2, CutInTwo
  <2> QED BY <1>4, <2>1, <2>3
<1>7. r \in Seq(Chars) /\ head \o r = t
  <2>1. after = to + 1
    OBVIOUS
  <2> HIDE DEF after
  <2>2. r \in Seq(Chars)
    <3>1. size \in Nat /\ to <= size /\ size <= Len(t)
      BY <1>1
    <3> HIDE DEF size
    <3> QED BY <1>1, <2>1, <3>1, PartShape
  <2>3. head \o r = t
    <3>1. to <= Len(t)
      BY <1>1
    <3> QED BY <1>1, <2>1, <3>1, CutInTwo
  <2> QED BY <2>2, <2>3
<1> HIDE DEF p, head, r
<1>8. p \in Text /\ r \in Text
  BY <1>3, <1>7 DEF Text
<1>9. Len(new) \in Nat /\ Len(r) \in Nat
  BY <1>8, LenProperties DEF Text
<1>10. p \o new \in Seq(Chars) /\ Len(p \o new) = end
  <2>1. p \in Seq(Chars) /\ new \in Seq(Chars)
    BY <1>8 DEF Text
  <2>2. p \o new \in Seq(Chars) /\ Len(p \o new) = Len(p) + Len(new)
    BY <2>1, ConcatProperties
  <2> QED BY <1>3, <2>2
<1>11. next.rope = (p \o new) \o r /\ Put(next, from, end, old) = doc.rope
  <2>1. p \in Text /\ old \in Text /\ r \in Text
    BY <1>2, <1>8
  <2>2. Joins(doc, p, old, r, from, to)
    <3>1. doc.rope = (p \o old) \o r /\ from = Len(p)
      BY <1>3, <1>6, <1>7 DEF t
    <3>2. to = Len(p \o old)
      BY <1>4, <1>6
    <3> QED BY <3>1, <3>2 DEF Joins
  <2>3. Replaces(doc, next, p, old, r, new, from, to, end)
    BY <1>10, <2>2 DEF Replaces
  <2>4. PutIsUndone(doc, next, p, old, r, new, from, end)
    BY <2>1, <2>3, PutTwice
  <2> QED BY <2>4 DEF PutIsUndone
<1>12. Len(next.rope) = from + Len(new) + Len(r)
  <2>1. Len((p \o new) \o r) = Len(p \o new) + Len(r)
    <3> DEFINE x == p \o new
    <3>1. x \in Seq(Chars) /\ r \in Seq(Chars)
      BY <1>7, <1>10
    <3> HIDE DEF x
    <3>2. Len(x \o r) = Len(x) + Len(r)
      BY <3>1, ConcatProperties
    <3> QED BY <3>2 DEF x
  <2> QED BY <1>10, <1>11, <2>1
<1>13. from <= end /\ end <= Len(next.rope)
  BY <1>9, <1>12
<1> QED BY <1>2, <1>5, <1>11, <1>13

(* A column that does not reach beyond its line is not clamped.            *)
LEMMA ExactOffset ==
  ASSUME OneByte, OneUnit, NEW t \in Text, NEW starts, starts = LineStarts(t),
         NEW pos \in Position, NEW line, line = pos.line, line \in 1..Len(starts),
         NEW c \in Nat, c = pos.column - 1, c <= Len(LineText(t, starts, line))
  PROVE  PositionToOffset(t, starts, pos) = starts[line] + c
<1> DEFINE text == LineText(t, starts, line)
           units == Boundaries(Utf16Len, text)
           bytes == Boundaries(Utf8Len, text)
           n == Len(text)
           reach == {i \in 0..n : units[i] >= pos.column - 1}
           T == reach \union {n}
           chars == Min(T)
<1>1. text \in Text /\ starts[line] \in Nat
  <2>1. Lies(t, line, starts[line], LineEndOffset(t, starts, line))
    BY LineLies
  <2> QED BY <2>1 DEF Lies
<1>2. n \in Nat
  BY <1>1, LenProperties DEF Text
<1>3. PositionToOffset(t, starts, pos) = starts[line] + bytes[chars]
  <2>1. text # None /\ starts[line] # None
    BY <1>1, CharsAssumption DEF CharsAssumption
  <2>2. Len(starts) \in Nat
    BY LineStartsType, LenProperties
  <2>3. LineStartOffset(starts, pos.line) = starts[line]
    BY <2>2 DEF LineStartOffset
  <2>4. LineStartOffset(starts, pos.line) # None /\ LineText(t, starts, pos.line) # None
    BY <2>1, <2>3
  <2> QED BY <2>4 DEF PositionToOffset
<1> HIDE DEF text
<1>4. \A i \in 0..n : units[i] = i /\ bytes[i] = i
  BY <1>1, UnitsAreChars, BytesAreChars
<1>5. c \in 0..n
  BY <1>2 DEF text
<1> HIDE DEF n, units, bytes
<1>6. T = c..n
  <2>1. \A i \in 0..n : units[i] >= pos.column - 1 <=> i >= c
    BY <1>4
  <2>2. reach = c..n
    BY <1>2, <1>5, <2>1
  <2> QED BY <1>2, <1>5, <2>2
<1>7. chars = c
  <2>1. c \in T /\ \A i \in T : i \in Nat /\ c <= i
    BY <1>2, <1>5, <1>6
  <2>2. T \subseteq Nat /\ T # {}
    BY <2>1
  <2> HIDE DEF T
  <2>3. chars \in T /\ chars <= c
    BY <2>1, <2>2, MinIsLeast
  <2> HIDE DEF chars
  <2> QED BY <2>1, <2>3
<1>8. bytes[chars] = c
  BY <1>4, <1>5, <1>7
<1> QED BY <1>3, <1>8

(* The lines that start in the first s characters are the lines of these.  *)
LEMMA StartsOfPart ==
  ASSUME OneByte, NEW t \in Text, NEW s \in Nat, s <= Len(t),
         NEW sa, sa = LineStarts(SubSeq(t, 1, s)), NEW starts, starts = LineStarts(t)
  PROVE  /\ Len(sa) \in 1..Len(starts)
         /\ \A i \in 1..Len(starts) : starts[i] <= s <=> i <= Len(sa)
         /\ \A i \in 1..Len(sa) : starts[i] = sa[i]
<1> DEFINE a == SubSeq(t, 1, s)
           first == s + 1
           b == SubSeq(t, first, Len(t))
           sb == LineStarts(b)
           mb == Moved(sb, s)
           k == Len(sa)
           n == Len(starts)
<1>1. starts \in Seq(Nat) /\ n \in Nat \ {0}
  BY LineStartsType
<1>2. a \in Text /\ Len(a) = s /\ b \in Text
  <2>1. Len(t) \in Nat
    BY LenProperties DEF Text
  <2>2. a \in Text /\ Len(a) = s
    BY FirstPart DEF Text
  <2> DEFINE x == Len(t)
  <2>3. x \in Nat /\ s <= x /\ x <= Len(t) /\ first = s + 1
    BY <2>1
  <2> HIDE DEF x, first
  <2>4. SubSeq(t, first, x) \in Text
    BY <2>3, PartShape DEF Text
  <2> QED BY <2>2, <2>4 DEF x
<1>3. a \o b = t
  <2>1. first = s + 1
    OBVIOUS
  <2> HIDE DEF first
  <2> QED BY <2>1, CutInTwo DEF Text
<1> HIDE DEF b
<1>4. starts = sa \o mb
  <2>1. LineStarts(a \o b) = LineStarts(a) \o Moved(LineStarts(b), Len(a))
    BY <1>2, StartsOfConcat
  <2> QED BY <1>2, <1>3, <2>1
<1>5. sa \in Seq(Nat) /\ k \in Nat \ {0} /\ \A i \in 1..k : sa[i] \in 0..s
  BY <1>2, StartsAscend DEF Ascending
<1>6. mb \in Seq(Nat) /\ \A i \in 1..Len(mb) : mb[i] > s
  <2>1. sb \in Seq(Nat) /\ Len(sb) \in Nat \ {0}
    BY <1>2, LineStartsType
  <2>2. mb \in Seq(Nat) /\ Len(mb) = Len(sb) - 1
    BY <2>1, MovedShape
  <2>3. \A i \in 1..(Len(sb) - 1) : mb[i] > s
    BY <1>2, MovedBeyond
  <2> HIDE DEF sb, mb
  <2> QED BY <2>2, <2>3
<1> HIDE DEF sb, mb, a
<1>7. /\ Len(sa \o mb) = Len(sa) + Len(mb)
      /\ \A i \in 1..(Len(sa) + Len(mb)) :
           (sa \o mb)[i] = IF i <= Len(sa) THEN sa[i] ELSE mb[i - Len(sa)]
  <2>1. sa \in Seq(Nat) /\ mb \in Seq(Nat)
    BY <1>5, <1>6
  <2> QED BY <2>1, ConcatProperties
<1>8. /\ n = k + Len(mb) /\ Len(mb) \in Nat
      /\ \A i \in 1..n : starts[i] = IF i <= k THEN sa[i] ELSE mb[i - k]
  <2> DEFINE both == sa \o mb
  <2>1. starts = both /\ Len(both) = k + Len(mb)
        /\ \A i \in 1..(k + Len(mb)) : both[i] = IF i <= k THEN sa[i] ELSE mb[i - k]
    BY <1>4, <1>7
  <2> HIDE DEF both, k
  <2>2. Len(mb) \in Nat
    BY <1>6, LenProperties
  <2> QED BY <2>1, <2>2
<1> HIDE DEF k, n
<1>9. k \in 1..n
  BY <1>1, <1>5, <1>8
<1>10. ASSUME NEW i \in 1..n PROVE starts[i] <= s <=> i <= k
  <2>1. CASE i <= k
    <3>1. i \in 1..k /\ starts[i] = sa[i]
      BY <1>5, <1>8, <2>1
    <3>2. sa[i] \in 0..s
      BY <1>5, <3>1
    <3>3. starts[i] <= s
      BY <3>1, <3>2
    <3> QED BY <2>1, <3>3
  <2>2. CASE ~(i <= k)
    <3>1. i - k \in 1..Len(mb) /\ starts[i] = mb[i - k]
      BY <1>5, <1>8, <2>2
    <3>2. starts[i] > s /\ starts[i] \in Nat
      <4>1. starts[i] \in Nat
        BY <1>1, ElementOfSeq DEF n
      <4> QED BY <1>6, <3>1, <4>1
    <3> QED BY <1>1, <2>2, <3>2
  <2> QED BY <2>1, <2>2
<1>11. ASSUME NEW i \in 1..k PROVE starts[i] = sa[i]
  <2>1. i \in 1..n /\ i <= k
    BY <1>1, <1>5, <1>9
  <2> QED BY <1>8, <2>1
<1> QED BY <1>9, <1>10, <1>11 DEF k, n

(* Two texts that agree up to a place of a line have this line in common,  *)
(* up to the place at least.                                               *)
Agree(t, u, s) ==
  s <= Len(t) /\ s <= Len(u) /\ SubSeq(t, 1, s) = SubSeq(u, 1, s)

LEMMA LineStays ==
  ASSUME OneByte, NEW t \in Text, NEW u \in Text, NEW s \in Nat, Agree(t, u, s),
         NEW st, st = LineStarts(t), NEW su, su = LineStarts(u),
         NEW line \in 1..Len(st), st[line] <= s, s <= LineEndOffset(t, st, line)
  PROVE  line \in 1..Len(su) /\ su[line] = st[line] /\ s <= LineEndOffset(u, su, line)
<1> DEFINE sa == LineStarts(SubSeq(t, 1, s))
           k == Len(sa)
           m == Len(st)
           n == Len(su)
           next == line + 1
<1>0. s <= Len(t) /\ s <= Len(u) /\ SubSeq(t, 1, s) = SubSeq(u, 1, s)
  BY DEF Agree
<1>1. /\ k \in 1..m
      /\ \A i \in 1..m : st[i] <= s <=> i <= k
      /\ \A i \in 1..k : st[i] = sa[i]
  BY <1>0, StartsOfPart
<1>2. /\ k \in 1..n
      /\ \A i \in 1..n : su[i] <= s <=> i <= k
      /\ \A i \in 1..k : su[i] = sa[i]
  <2>1. sa = LineStarts(SubSeq(u, 1, s))
    BY <1>0
  <2> HIDE DEF sa
  <2> QED BY <1>0, <2>1, StartsOfPart
<1>3. LineEndOffset(t, st, line) = IF line < m THEN st[next] - 1 ELSE Len(t)
  BY EndOfLine
<1>4. m \in Nat /\ n \in Nat
  BY LineStartsType
<1>5. Len(u) \in Nat /\ \A i \in 1..n : su[i] \in Nat
  BY LineStartsType, ElementOfSeq, LenProperties DEF Text
<1> HIDE DEF sa, k, m, n
<1>6. line \in 1..k /\ line \in 1..n
  BY <1>1, <1>2, <1>4 DEF m
<1>7. su[line] = st[line]
  BY <1>1, <1>2, <1>6
<1>8. LineEndOffset(u, su, line) = IF line < n THEN su[next] - 1 ELSE Len(u)
  BY <1>6, EndOfLine DEF n
<1>9. s <= LineEndOffset(u, su, line)
  <2>1. CASE line < n /\ next <= k
    <3>1. next \in 1..k /\ line < m
      BY <1>1, <1>2, <1>4, <1>6, <2>1
    <3>2. su[next] = st[next]
      BY <1>1, <1>2, <3>1
    <3> QED BY <1>3, <1>8, <2>1, <3>1, <3>2
  <2>2. CASE line < n /\ ~(next <= k)
    <3>1. next \in 1..n
      BY <1>4, <1>6, <2>2
    <3>2. ~(su[next] <= s) /\ su[next] \in Nat
      BY <1>2, <1>5, <2>2, <3>1
    <3> HIDE DEF next
    <3> QED BY <1>8, <2>2, <3>2
  <2>3. CASE ~(line < n)
    BY <1>0, <1>8, <2>3
  <2> QED BY <2>1, <2>2, <2>3
<1> QED BY <1>6, <1>7, <1>9 DEF n

(* A position that names a place of a text exactly.                        *)
Names(t, pos) ==
  /\ pos.line \in 1..Len(LineStarts(t))
  /\ pos.column - 1 <= Len(LineText(t, LineStarts(t), pos.line))

LEMMA OffsetStays ==
  ASSUME OneByte, OneUnit, NEW t \in Text, NEW u \in Text, NEW pos \in Position, Names(t, pos),
         NEW s \in Nat, s = PositionToOffset(t, LineStarts(t), pos), Agree(t, u, s)
  PROVE  PositionToOffset(u, LineStarts(u), pos) = s
<1> DEFINE st == LineStarts(t)
           su == LineStarts(u)
           line == pos.line
           c == pos.column - 1
           from == st[line]
           to == LineEndOffset(t, st, line)
           end == LineEndOffset(u, su, line)
           short == LineText(t, st, line)
           long == LineText(u, su, line)
<1>1. c \in Nat /\ line \in 1..Len(st) /\ c <= Len(short)
  BY DEF Position, Names
<1>2. Lies(t, line, from, to)
  BY <1>1, LineLies
<1>3. from \in Nat /\ to \in Nat /\ to <= Len(t) /\ Len(short) = to - from
  BY <1>2 DEF Lies
<1>4. s = from + c
  <2>1. c = pos.column - 1
    OBVIOUS
  <2> HIDE DEF c
  <2> QED BY <1>1, <2>1, ExactOffset
<1>5. from <= s /\ s <= to
  <2> HIDE DEF c, from, to, short
  <2> QED BY <1>1, <1>3, <1>4
<1>6. line \in 1..Len(su) /\ su[line] = from /\ s <= end
  <2>1. line \in 1..Len(st) /\ st[line] <= s /\ s <= LineEndOffset(t, st, line)
    BY <1>1, <1>5
  <2> HIDE DEF line
  <2> QED BY <2>1, LineStays
<1>7. Lies(u, line, from, end)
  BY <1>6, LineLies
<1>8. end \in Nat /\ Len(long) = end - from
  BY <1>7 DEF Lies
<1>9. c <= Len(long)
  <2> HIDE DEF c, from, end, long
  <2> QED BY <1>1, <1>3, <1>4, <1>6, <1>8
<1>10. PositionToOffset(u, su, pos) = su[line] + c
  <2>1. c = pos.column - 1
    OBVIOUS
  <2> HIDE DEF c
  <2> QED BY <1>1, <1>6, <1>9, <2>1, ExactOffset
<1> QED BY <1>4, <1>5, <1>6, <1>10

(* A splice of a text with its index gives a text with its index.          *)
Indexed(t) == Doc(t, LineStarts(t))

LEMMA IndexedIs ==
  ASSUME NEW t \in Text
  PROVE  /\ Indexed(t) \in CDoc /\ Indexed(t) \in TDoc /\ Indexed(t) # None
         /\ Indexed(t).rope = t /\ Indexed(t).lines = LineStarts(t)
<1>1. Indexed(t) \in CDoc
  BY DEF Indexed, CDoc
<1>2. Indexed(t) = [rope |-> t, lines |-> LineStarts(t)]
  BY DEF Indexed, Doc
<1>3. LineStarts(t) \in Seq(Nat) /\ LineStarts(t) \in Index
  BY LineStartsType DEF Index
<1>4. Indexed(t) \in TDoc /\ Indexed(t) \in [rope : Text, lines : Seq(Nat)]
  BY <1>2, <1>3 DEF TDoc
<1>5. Indexed(t) # None
  BY <1>4, BufferAssumption DEF BufferAssumption
<1> QED BY <1>1, <1>2, <1>4, <1>5

LEMMA SpliceIs ==
  ASSUME OneByte, NEW t \in Text, NEW from \in Nat, NEW to \in Nat, NEW new \in Text,
         from <= to, to <= Len(t), NEW put, put = Put(Indexed(t), from, to, new)
  PROVE  /\ put \in Text /\ Agree(t, put, from)
         /\ Spliced(Indexed(t), from, to, new) = Indexed(put)
         /\ Outcome(Indexed(t), from, to, new) = Indexed(put)
<1> DEFINE doc == Indexed(t)
           next == Spliced(doc, from, to, new)
<1>1. doc \in TDoc /\ doc.rope = t /\ doc.lines = LineStarts(t)
  BY IndexedIs
<1> HIDE DEF doc
<1>2. from <= to /\ to <= Len(doc.rope)
  BY <1>1
<1>3. /\ put \in Text /\ from <= Len(put)
      /\ \A i \in 1..from : put[i] = doc.rope[i]
      /\ next = Doc(put, UpdateLineIndex(put, doc.lines, from))
  BY <1>1, <1>2, SpliceShape DEF doc
<1> HIDE DEF next
<1>4. Len(t) \in Nat /\ from <= Len(t) /\ \A i \in 1..from : put[i] = t[i]
  <2>1. Len(t) \in Nat
    BY LenProperties DEF Text
  <2> QED BY <1>1, <1>3, <2>1
<1>5. UpdateLineIndex(put, LineStarts(t), from) = LineStarts(put)
  BY <1>3, <1>4, IndexIsUpdated
<1>6. next = Indexed(put)
  BY <1>1, <1>3, <1>5 DEF Indexed
<1>7. Agree(t, put, from)
  <2> DEFINE x == SubSeq(t, 1, from)
             y == SubSeq(put, 1, from)
  <2>1. x \in Seq(Chars) /\ Len(x) = from /\ \A i \in 1..from : x[i] = t[i]
    BY <1>4, FirstPart DEF Text
  <2>2. y \in Seq(Chars) /\ Len(y) = from /\ \A i \in 1..from : y[i] = put[i]
    BY <1>3, FirstPart DEF Text
  <2> HIDE DEF x, y
  <2>3. x = y
    <3>1. Len(x) = Len(y) /\ \A i \in 1..Len(x) : x[i] = y[i]
      BY <1>4, <2>1, <2>2
    <3> QED BY <2>1, <2>2, <3>1, SeqEqual
  <2> QED BY <1>3, <1>4, <2>3 DEF Agree, x, y
<1>8. Outcome(doc, from, to, new) = next
  <2>1. None \notin {from, to}
    BY CharsAssumption DEF CharsAssumption
  <2>2. next # None
    BY <1>3, <1>6, IndexedIs
  <2> QED BY <2>1, <2>2 DEF Outcome, next
<1> QED BY <1>3, <1>6, <1>7, <1>8 DEF next, doc

(* A change of the text x to y, from s to e, that starts at a place of x.  *)
Changes(x, ch, s, e, y) ==
  /\ Names(x, ch.start)
  /\ s \in Nat /\ e \in Nat /\ s <= e /\ e <= Len(x)
  /\ PositionToOffset(x, LineStarts(x), ch.start) = s
  /\ PositionToOffset(x, LineStarts(x), ch.end) = e
  /\ y = Put(Indexed(x), s, e, ch.text)

LEMMA ChangeResolves ==
  ASSUME OneByte, NEW x \in Text, NEW ch \in AChange, Names(x, ch.start),
         NEW r, r = Resolved(Indexed(x), ch), r # None
  PROVE  \E s, e, y : /\ Changes(x, ch, s, e, y) /\ y \in Text
                      /\ r.old = Slice(x, s, e) /\ r.doc = Indexed(y)
<1> DEFINE doc == Indexed(x)
           s == PositionToOffset(doc.rope, doc.lines, ch.start)
           e == PositionToOffset(doc.rope, doc.lines, ch.end)
           cut == Slice(doc.rope, s, e)
           new == ch.text
           next == Spliced(doc, s, e, new)
           y == Put(doc, s, e, new)
<1>1. /\ s # None /\ e # None /\ cut # None
      /\ r = [old |-> cut, doc |-> next]
  BY DEF Resolved
<1>2. doc \in TDoc /\ ch.start \in Position /\ ch.end \in Position /\ new \in Text
      /\ doc.rope = x /\ doc.lines = LineStarts(x)
  BY IndexedIs DEF AChange
<1> HIDE DEF doc
<1>3. s \in Nat /\ e \in Nat
  BY <1>1, <1>2, OffsetType DEF TDoc
<1>4. s = PositionToOffset(x, LineStarts(x), ch.start) /\ e = PositionToOffset(x, LineStarts(x), ch.end)
  BY <1>2
<1> HIDE DEF s, e, new
<1>5. cut = Slice(x, s, e)
  BY <1>2
<1>6. s <= e /\ e <= Len(x)
  BY <1>1, <1>3, <1>5, SliceShape
<1> HIDE DEF cut, y
<1>7. y \in Text /\ next = Indexed(y)
  BY <1>2, <1>3, <1>6, SpliceIs DEF doc, y
<1> HIDE DEF next
<1>8. Changes(x, ch, s, e, y)
  BY <1>3, <1>4, <1>6 DEF Changes, y, doc, new
<1>9. r.old = Slice(x, s, e) /\ r.doc = Indexed(y)
  BY <1>1, <1>5, <1>7
<1> QED BY <1>7, <1>8, <1>9

(* An insertion or a deletion is undone and redone by its entry.           *)
LEMMA EntryBack ==
  ASSUME OneByte, OneUnit, NEW x \in Text, NEW y \in Text, NEW ch \in AChange,
         NEW s, NEW e, Changes(x, ch, s, e, y), NEW old, old = Slice(x, s, e),
         NEW en, en = EntryFor(ch, old), en.kind \in {"insert", "delete"}
  PROVE  /\ UndoEntry(Indexed(y), en).doc = Indexed(x)
         /\ RedoEntry(Indexed(x), en).doc = Indexed(y)
<1> DEFINE dx == Indexed(x)
           dy == Indexed(y)
           new == ch.text
           end == s + Len(new)
           empty == <<>>
<1>1. /\ Names(x, ch.start)
      /\ s \in Nat /\ e \in Nat /\ s <= e /\ e <= Len(x)
      /\ PositionToOffset(x, LineStarts(x), ch.start) = s
      /\ PositionToOffset(x, LineStarts(x), ch.end) = e
      /\ y = Put(dx, s, e, new)
  BY DEF Changes
<1>2. /\ dx \in TDoc /\ dx.rope = x /\ dx.lines = LineStarts(x)
      /\ dy \in TDoc /\ dy.rope = y /\ dy.lines = LineStarts(y)
  BY IndexedIs
<1>3. new \in Text /\ ch.start \in Position /\ ch.end \in Position
  BY DEF AChange
<1>4. /\ en.start = ch.start /\ en.end = ch.end /\ en.text = new /\ en.old = old
      /\ en.kind = "insert" => old = empty
      /\ en.kind = "delete" => new = empty
  BY DEF EntryFor
<1> HIDE DEF dx, dy, new
<1>5. end \in Nat
  <2>1. Len(new) \in Nat
    BY <1>3, LenProperties DEF Text
  <2> HIDE DEF new
  <2> QED BY <1>1, <2>1
<1>6. /\ Put(dy, s, end, old) = x
      /\ old \in Text /\ Len(old) = e - s
      /\ s <= end /\ end <= Len(y)
  <2>1. s <= e /\ e <= Len(dx.rope) /\ old = Slice(dx.rope, s, e) /\ dy.rope = Put(dx, s, e, new)
    BY <1>1, <1>2
  <2>2. end = s + Len(new)
    OBVIOUS
  <2> HIDE DEF end
  <2>3. /\ Put(dy, s, end, old) = dx.rope
        /\ old \in Text /\ Len(old) = e - s
        /\ s <= end /\ end <= Len(dy.rope)
    BY <1>1, <1>2, <1>3, <1>5, <2>1, <2>2, PutBack
  <2> QED BY <1>2, <2>3
<1>7. Agree(x, y, s)
  BY <1>1, <1>3, SpliceIs DEF dx
<1>8. PositionToOffset(y, LineStarts(y), ch.start) = s
  BY <1>1, <1>3, <1>7, OffsetStays
<1>9. empty \in Text /\ Len(empty) = 0
  BY EmptySeq DEF Text
<1>10. Plus(s, new) = end
  BY <1>1, <1>3, PlusIs
<1> HIDE DEF end, empty
<1>11. None \notin Text \union Nat
  BY CharsAssumption DEF CharsAssumption
<1>12. CASE en.kind = "insert"
  <2>1. old = empty /\ e = s
    BY <1>1, <1>4, <1>6, <1>9, <1>12
  <2>2. Sliced(dy, s, end) = end
    <3>1. Slice(y, s, end) # None
      BY <1>1, <1>5, <1>6, SliceShape
    <3>2. None \notin {s, end}
      BY <1>1, <1>5, <1>11
    <3> QED BY <1>2, <3>1, <3>2 DEF Sliced
  <2>3. UndoEntry(dy, en).doc = Outcome(dy, s, end, empty)
    <3> DEFINE at == PositionToOffset(dy.rope, dy.lines, en.start)
               inserted == Sliced(dy, at, Plus(at, en.text))
    <3>1. UndoEntry(dy, en).doc = Outcome(dy, at, inserted, <<>>)
      BY <1>12 DEF UndoEntry, Applied, Outcome
    <3>2. at = s
      BY <1>2, <1>4, <1>8
    <3> HIDE DEF at
    <3>3. inserted = end
      BY <1>4, <1>10, <2>2, <3>2
    <3> HIDE DEF inserted
    <3> QED BY <3>1, <3>2, <3>3 DEF empty
  <2>4. Outcome(dy, s, end, empty) = dx
    <3>1. x = Put(dy, s, end, empty)
      BY <1>6, <2>1
    <3> QED BY <1>1, <1>5, <1>6, <1>9, <3>1, SpliceIs DEF dx, dy
  <2>5. RedoEntry(dx, en).doc = Outcome(dx, s, s, new)
    <3> DEFINE at == PositionToOffset(dx.rope, dx.lines, en.start)
    <3>1. RedoEntry(dx, en).doc = Outcome(dx, at, at, en.text)
      BY <1>12 DEF RedoEntry, Applied, Outcome
    <3>2. at = s
      BY <1>1, <1>2, <1>4
    <3> HIDE DEF at
    <3> QED BY <1>4, <3>1, <3>2
  <2>6. Outcome(dx, s, s, new) = dy
    <3>1. y = Put(dx, s, s, new) /\ s <= s /\ s <= Len(x)
      BY <1>1, <2>1
    <3> QED BY <1>1, <1>3, <3>1, SpliceIs DEF dx, dy
  <2> QED BY <2>3, <2>4, <2>5, <2>6 DEF dx, dy
<1>13. CASE en.kind = "delete"
  <2>1. new = empty /\ end = s
    BY <1>1, <1>4, <1>9, <1>13 DEF end
  <2>2. Sliced(dx, s, e) = e
    <3>1. Slice(x, s, e) # None
      BY <1>1, SliceShape
    <3>2. None \notin {s, e}
      BY <1>1, <1>11
    <3> QED BY <1>2, <3>1, <3>2 DEF Sliced
  <2>3. UndoEntry(dy, en).doc = Outcome(dy, s, s, old)
    <3> DEFINE at == PositionToOffset(dy.rope, dy.lines, en.start)
    <3>1. UndoEntry(dy, en).doc = Outcome(dy, at, at, en.old)
      BY <1>13 DEF UndoEntry, Applied, Outcome
    <3>2. at = s
      BY <1>2, <1>4, <1>8
    <3> HIDE DEF at
    <3> QED BY <1>4, <3>1, <3>2
  <2>4. Outcome(dy, s, s, old) = dx
    <3>1. x = Put(dy, s, s, old) /\ s <= s /\ s <= Len(y)
      BY <1>6, <2>1
    <3> QED BY <1>1, <1>6, <3>1, SpliceIs DEF dx, dy
  <2>5. RedoEntry(dx, en).doc = Outcome(dx, s, e, empty)
    <3> DEFINE at == PositionToOffset(dx.rope, dx.lines, en.start)
               to == PositionToOffset(dx.rope, dx.lines, en.end)
               deleted == Sliced(dx, at, to)
    <3>1. RedoEntry(dx, en).doc = Outcome(dx, at, deleted, <<>>)
      BY <1>13 DEF RedoEntry, Applied, Outcome
    <3>2. at = s /\ to = e
      BY <1>1, <1>2, <1>4
    <3> HIDE DEF at, to
    <3>3. deleted = e
      BY <2>2, <3>2
    <3> HIDE DEF deleted
    <3> QED BY <3>1, <3>2, <3>3 DEF empty
  <2>6. Outcome(dx, s, e, empty) = dy
    <3>1. y = Put(dx, s, e, empty)
      BY <1>1, <2>1
    <3> QED BY <1>1, <1>9, <3>1, SpliceIs DEF dx, dy
  <2> QED BY <2>3, <2>4, <2>5, <2>6 DEF dx, dy
<1> QED BY <1>12, <1>13

(* A transaction that leads from text x to text y, and back.               *)
Bridges(transaction, x, y) ==
  /\ UndoTransaction(Indexed(y), transaction).doc = Indexed(x)
  /\ RedoTransaction(Indexed(x), transaction).doc = Indexed(y)

LEMMA OneTransaction ==
  ASSUME OneByte, NEW doc \in CDoc, NEW en \in Entry
  PROVE  /\ UndoTransaction(doc, <<en>>).doc = UndoEntry(doc, en).doc
         /\ RedoTransaction(doc, <<en>>).doc = RedoEntry(doc, en).doc
<1> DEFINE one == <<en>>
           back == Reverse(one)
<1>1. one \in Seq(Entry) /\ Len(one) = 1 /\ one[1] = en
  OBVIOUS
<1> HIDE DEF one
<1>2. back \in Seq(Entry) /\ Len(back) = 1 /\ back[1] = en
  <2>1. back \in Seq(Entry)
    BY <1>1, ReverseType
  <2>2. back = [i \in 1..1 |-> one[(1 - i) + 1]]
    BY <1>1 DEF Reverse
  <2>3. back[1] = one[1]
    BY <2>2
  <2>4. Len(back) = 1
    BY <2>1, <2>2, LenProperties
  <2> QED BY <1>1, <2>1, <2>3, <2>4
<1> HIDE DEF back
<1>3. 1 \in 1..1 /\ 1 - 1 = 0
  OBVIOUS
<1>4. Started(doc).doc = doc /\ Started(doc).panic = FALSE
  BY DEF Started
<1>5. UndoTransaction(doc, one).doc = UndoEntry(doc, en).doc
  <2>1. PICK h : UndoSteps(h, doc, back)
    BY <1>2, CoherentClosed, UndoChain
  <2>2. /\ h[0] = Started(doc) /\ h[1] = Went(h[0], UndoEntry(h[0].doc, back[1]))
        /\ h[1] = Chain(UndoEntry, doc, back)
    BY <1>2, <1>3, <2>1 DEF UndoSteps
  <2>3. h[1] = Went(Started(doc), UndoEntry(doc, en))
    BY <1>2, <1>4, <2>2
  <2>4. h[1].doc = UndoEntry(doc, en).doc
    BY <1>4, <2>3 DEF Went
  <2> QED BY <2>2, <2>4 DEF UndoTransaction, back
<1>6. RedoTransaction(doc, one).doc = RedoEntry(doc, en).doc
  <2>1. PICK h : RedoSteps(h, doc, one)
    BY <1>1, CoherentClosed, RedoChain
  <2>2. /\ h[0] = Started(doc) /\ h[1] = Went(h[0], RedoEntry(h[0].doc, one[1]))
        /\ h[1] = Chain(RedoEntry, doc, one)
    BY <1>1, <1>3, <2>1 DEF RedoSteps
  <2>3. h[1] = Went(Started(doc), RedoEntry(doc, en))
    BY <1>1, <1>4, <2>2
  <2>4. h[1].doc = RedoEntry(doc, en).doc
    BY <1>4, <2>3 DEF Went
  <2> QED BY <2>2, <2>4 DEF RedoTransaction
<1> QED BY <1>5, <1>6 DEF one

(* An edit that inserts or deletes, at a place that it names.              *)
LEMMA ChangeBridges ==
  ASSUME OneByte, OneUnit, NEW x \in Text, NEW ch \in AChange, Names(x, ch.start),
         NEW r, r = Resolved(Indexed(x), ch), r # None,
         NEW en, en = EntryFor(ch, r.old), en.kind \in {"insert", "delete"}
  PROVE  r.doc.rope \in Text /\ Bridges(<<en>>, x, r.doc.rope)
<1>1. PICK s, e, y : /\ Changes(x, ch, s, e, y) /\ y \in Text
                     /\ r.old = Slice(x, s, e) /\ r.doc = Indexed(y)
  BY ChangeResolves
<1>2. r.doc.rope = y
  BY <1>1, IndexedIs
<1>3. en \in Entry
  <2>1. r.old \in Text
    <3>1. Slice(x, s, e) \in Text
      BY <1>1, SliceShape DEF Changes
    <3> QED BY <1>1, <3>1
  <2> QED BY <2>1, EntryType
<1>4. /\ UndoEntry(Indexed(y), en).doc = Indexed(x)
      /\ RedoEntry(Indexed(x), en).doc = Indexed(y)
  <2> DEFINE old == r.old
  <2>1. old = Slice(x, s, e) /\ en = EntryFor(ch, old)
    BY <1>1
  <2> HIDE DEF old
  <2> QED BY <1>1, <2>1, EntryBack
<1>5. Indexed(x) \in CDoc /\ Indexed(y) \in CDoc
  BY <1>1, IndexedIs
<1>6. Bridges(<<en>>, x, y)
  BY <1>3, <1>4, <1>5, OneTransaction DEF Bridges
<1> QED BY <1>1, <1>2, <1>6

----------------------------------------------------------------------------
(* A stack and the texts its transactions lead to, from the present one:   *)
(* back, or forth again.                                                   *)
Bridge(back, transaction, far, near) ==
  IF back THEN Bridges(transaction, far, near) ELSE Bridges(transaction, near, far)

Leads(back, stack, texts, present) ==
  /\ texts \in Seq(Text) /\ Len(stack) = Len(texts)
  /\ \A k \in 1..Len(texts) :
       Bridge(back, stack[k], texts[k], IF k = Len(texts) THEN present ELSE texts[k + 1])

LEMMA LeadsFurther ==
  ASSUME NEW S, NEW back, NEW stack \in Seq(S), NEW texts, NEW present \in Text,
         Leads(back, stack, texts, present),
         NEW transaction \in S, NEW next, Bridge(back, transaction, present, next)
  PROVE  Leads(back, Append(stack, transaction), Append(texts, present), next)
<1> DEFINE n == Len(texts)
           st == Append(stack, transaction)
           ts == Append(texts, present)
           m == Len(ts)
<1>1. texts \in Seq(Text) /\ n \in Nat /\ Len(stack) = n
  BY LenProperties DEF Leads
<1>2. ts \in Seq(Text) /\ m = n + 1 /\ ts[n + 1] = present /\ \A k \in 1..n : ts[k] = texts[k]
  BY <1>1, AppendProperties
<1>3. Len(st) = n + 1 /\ st[n + 1] = transaction /\ \A k \in 1..n : st[k] = stack[k]
  BY <1>1, AppendProperties
<1>4. \A k \in 1..n : Bridge(back, stack[k], texts[k], IF k = n THEN present ELSE texts[k + 1])
  BY DEF Leads
<1> HIDE DEF st, ts, n, m
<1>5. ASSUME NEW k \in 1..m
      PROVE  Bridge(back, st[k], ts[k], IF k = m THEN next ELSE ts[k + 1])
  <2>1. CASE k = m
    <3>1. st[k] = transaction /\ ts[k] = present
      BY <1>2, <1>3, <2>1
    <3> QED BY <2>1, <3>1
  <2>2. CASE k # m
    <3> DEFINE near == IF k = n THEN present ELSE texts[k + 1]
    <3>1. k \in 1..n
      BY <1>1, <1>2, <2>2
    <3>2. ts[k + 1] = near
      <4>1. CASE k = n
        BY <1>2, <4>1
      <4>2. CASE k # n
        <5>1. k + 1 \in 1..n
          BY <1>1, <3>1, <4>2
        <5> QED BY <1>2, <4>2, <5>1
      <4> QED BY <4>1, <4>2
    <3>3. Bridge(back, stack[k], texts[k], near)
      BY <1>4, <3>1
    <3>4. st[k] = stack[k] /\ ts[k] = texts[k]
      BY <1>2, <1>3, <3>1
    <3> HIDE DEF near
    <3> QED BY <2>2, <3>2, <3>3, <3>4
  <2> QED BY <2>1, <2>2
<1>6. Len(st) = m
  BY <1>2, <1>3
<1> QED BY <1>2, <1>5, <1>6 DEF Leads, st, ts, m

LEMMA LeadsPart ==
  ASSUME NEW S, NEW back, NEW stack \in Seq(S), NEW texts, NEW present,
         Leads(back, stack, texts, present),
         NEW d \in Nat, NEW first, first = d + 1, d <= Len(texts)
  PROVE  Leads(back, SubSeq(stack, first, Len(stack)), SubSeq(texts, first, Len(texts)), present)
<1> DEFINE n == Len(texts)
           st == SubSeq(stack, first, n)
           ts == SubSeq(texts, first, n)
           m == Len(ts)
<1>1. texts \in Seq(Text) /\ n \in Nat /\ Len(stack) = n /\ d <= n /\ n <= Len(texts) /\ n <= Len(stack)
  BY LenProperties DEF Leads
<1>2. \A k \in 1..n : Bridge(back, stack[k], texts[k], IF k = n THEN present ELSE texts[k + 1])
  BY DEF Leads
<1> HIDE DEF n
<1>3. ts \in Seq(Text) /\ m = n - d /\ \A k \in 1..(n - d) : ts[k] = texts[d + k]
  <2>1. texts \in Seq(Text) /\ n \in Nat /\ d <= n /\ n <= Len(texts)
    BY <1>1
  <2>2. /\ SubSeq(texts, first, n) \in Seq(Text)
        /\ Len(SubSeq(texts, first, n)) = n - d
        /\ \A i \in 1..(n - d) : SubSeq(texts, first, n)[i] = texts[d + i]
    BY <2>1, PartShape
  <2> QED BY <2>2
<1>4. Len(st) = n - d /\ \A k \in 1..(n - d) : st[k] = stack[d + k]
  <2>1. stack \in Seq(S) /\ n \in Nat /\ d <= n /\ n <= Len(stack)
    BY <1>1
  <2>2. /\ SubSeq(stack, first, n) \in Seq(S)
        /\ Len(SubSeq(stack, first, n)) = n - d
        /\ \A i \in 1..(n - d) : SubSeq(stack, first, n)[i] = stack[d + i]
    BY <2>1, PartShape
  <2> QED BY <2>2
<1> HIDE DEF st, ts, m
<1>5. ASSUME NEW k \in 1..m
      PROVE  Bridge(back, st[k], ts[k], IF k = m THEN present ELSE ts[k + 1])
  <2> DEFINE i == d + k
             near == IF i = n THEN present ELSE texts[i + 1]
  <2>1. i \in 1..n /\ (i = n <=> k = m) /\ k \in 1..(n - d)
    BY <1>1, <1>3
  <2>2. st[k] = stack[i] /\ ts[k] = texts[i]
    BY <1>3, <1>4, <2>1
  <2>3. (IF k = m THEN present ELSE ts[k + 1]) = near
    <3>1. CASE k = m
      BY <2>1, <3>1
    <3>2. CASE k # m
      <4>1. k + 1 \in 1..(n - d) /\ d + (k + 1) = i + 1
        BY <1>1, <1>3, <3>2
      <4>2. ts[k + 1] = texts[i + 1]
        BY <1>3, <4>1
      <4> QED BY <2>1, <3>2, <4>2
    <3> QED BY <3>1, <3>2
  <2> HIDE DEF i
  <2>4. Bridge(back, stack[i], texts[i], near)
    BY <1>2, <2>1
  <2> HIDE DEF near
  <2> QED BY <2>2, <2>3, <2>4
<1>6. Leads(back, st, ts, present)
  BY <1>3, <1>4, <1>5 DEF Leads, m
<1> QED BY <1>1, <1>6 DEF st, ts, n

LEMMA LeadsBack ==
  ASSUME NEW S, NEW back, NEW stack \in Seq(S), stack # <<>>, NEW texts, NEW present,
         Leads(back, stack, texts, present)
  PROVE  /\ texts # <<>> /\ Last(texts) \in Text
         /\ Bridge(back, Last(stack), Last(texts), present)
         /\ Leads(back, Front(stack), Front(texts), Last(texts))
<1> DEFINE n == Len(texts)
           l == n - 1
           one == 1
           st == SubSeq(stack, one, l)
           ts == SubSeq(texts, one, l)
<1>1. texts \in Seq(Text) /\ n \in Nat \ {0} /\ Len(stack) = n
  <2>1. texts \in Seq(Text) /\ Len(stack) = n
    BY DEF Leads
  <2>2. Len(stack) \in Nat \ {0}
    BY EmptySeq
  <2> QED BY <2>1, <2>2
<1>2. \A k \in 1..n : Bridge(back, stack[k], texts[k], IF k = n THEN present ELSE texts[k + 1])
  BY DEF Leads
<1>3. texts # <<>>
  BY <1>1, EmptySeq
<1>4. Last(texts) = texts[n] /\ Last(stack) = stack[n] /\ Front(stack) = st /\ Front(texts) = ts
  BY <1>1 DEF Last, Front
<1>5. texts[n] \in Text
  BY <1>1, ElementOfSeq
<1>6. l \in Nat /\ l <= Len(texts) /\ l <= Len(stack)
  BY <1>1
<1> HIDE DEF n
<1>7. Bridge(back, stack[n], texts[n], present)
  BY <1>1, <1>2
<1>8. n = l + 1
  BY <1>1
<1> HIDE DEF l
<1>9. ts \in Seq(Text) /\ Len(ts) = l /\ \A k \in 1..l : ts[k] = texts[k]
  BY <1>1, <1>6, FirstPart
<1>10. Len(st) = l /\ \A k \in 1..l : st[k] = stack[k]
  BY <1>1, <1>6, FirstPart
<1> HIDE DEF st, ts
<1>11. ASSUME NEW k \in 1..l
       PROVE  Bridge(back, st[k], ts[k], IF k = l THEN texts[n] ELSE ts[k + 1])
  <2>1. k \in 1..n /\ k # n
    BY <1>6, <1>8
  <2>2. Bridge(back, stack[k], texts[k], texts[k + 1])
    BY <1>2, <2>1
  <2>3. (IF k = l THEN texts[n] ELSE ts[k + 1]) = texts[k + 1]
    <3>1. CASE k = l
      BY <1>8, <3>1
    <3>2. CASE k # l
      <4>1. k + 1 \in 1..l
        BY <1>6, <3>2
      <4> QED BY <1>9, <3>2, <4>1
    <3> QED BY <3>1, <3>2
  <2> QED BY <1>9, <1>10, <2>2, <2>3
<1>12. Leads(back, st, ts, texts[n])
  <2>1. ts \in Seq(Text) /\ Len(st) = Len(ts) /\ Len(ts) = l
    BY <1>9, <1>10
  <2> QED BY <1>11, <2>1 DEF Leads
<1> QED BY <1>3, <1>4, <1>5, <1>7, <1>12


(* UndoStack::push on the stack, and what the client does with the texts.  *)
PartFrom(part, whole, dropped) ==
  /\ dropped \in 0..Len(whole)
  /\ part = SubSeq(whole, dropped + 1, Len(whole))
  /\ Len(part) = Len(whole) - dropped

LEMMA PushIsPart ==
  ASSUME NEW S, NEW stack \in Seq(S), NEW transaction \in S
  PROVE  \E dropped : PartFrom(PushUndo(stack, transaction), Append(stack, transaction), dropped)
<1> DEFINE pushed == Append(stack, transaction)
           n == Len(pushed)
<1>1. pushed \in Seq(S) /\ n \in Nat /\ MaxUndo \in Nat
  <2>1. pushed \in Seq(S)
    BY AppendProperties
  <2> QED BY <2>1, LenProperties, BufferAssumption DEF BufferAssumption
<1> DEFINE excess == n - MaxUndo
           d == IF MaxUndo > 0 /\ excess > 0 THEN excess ELSE 0
           first == d + 1
           part == SubSeq(pushed, first, n)
<1>2. d \in Nat /\ d <= n
  BY <1>1
<1>3. PushUndo(stack, transaction) = part
  <2>1. PushUndo(stack, transaction) =
          IF MaxUndo > 0 /\ excess > 0 THEN SubSeq(pushed, excess + 1, n) ELSE pushed
    BY DEF PushUndo
  <2>2. CASE MaxUndo > 0 /\ excess > 0
    <3>1. d = excess
      BY <2>2
    <3> HIDE DEF d, excess
    <3> QED BY <2>1, <2>2, <3>1
  <2>3. CASE ~(MaxUndo > 0 /\ excess > 0)
    <3>1. first = 1
      BY <2>3
    <3>2. SubSeq(pushed, 1, n) = pushed
      BY <1>1, SubSeqFull
    <3> HIDE DEF first, excess
    <3> QED BY <2>1, <2>3, <3>1, <3>2
  <2> QED BY <2>2, <2>3
<1> HIDE DEF d
<1>4. Len(part) = n - d
  <2>1. first = d + 1 /\ n <= Len(pushed)
    BY <1>1
  <2> HIDE DEF first
  <2> QED BY <1>1, <1>2, <2>1, PartShape
<1>5. d \in 0..n
  BY <1>1, <1>2
<1>6. part = SubSeq(pushed, d + 1, Len(pushed)) /\ n = Len(pushed)
  OBVIOUS
<1> HIDE DEF part, n, pushed
<1>7. PartFrom(part, pushed, d)
  BY <1>4, <1>5, <1>6 DEF PartFrom
<1> QED BY <1>3, <1>7 DEF pushed

(* What the stacks remember are the texts of the past and of the future.   *)
Traces ==
  /\ Leads(TRUE, undo_stack, past, rope)
  /\ Leads(FALSE, redo_stack, future, rope)

LEMMA TracedDocument ==
  ASSUME Typed(CDoc)
  PROVE  /\ document = Indexed(rope) /\ rope \in Text /\ line_index = LineStarts(rope)
         /\ undo_stack \in Seq(Seq(Entry)) /\ redo_stack \in Seq(Seq(Entry))
<1>1. PICK t \in Text : document = Indexed(t)
  BY DEF Typed, CDoc, Indexed
<1>2. rope = document.rope /\ line_index = document.lines
  BY DEF document, Doc
<1>3. document.rope = t /\ document.lines = LineStarts(t)
  BY <1>1, IndexedIs
<1> QED BY <1>1, <1>2, <1>3 DEF Typed, Edits

LEMMA EmptyTraces ==
  ASSUME NEW back, NEW present
  PROVE  Leads(back, <<>>, <<>>, present)
<1> DEFINE none == <<>>
<1>1. none \in Seq(Text) /\ Len(none) = 0
  BY EmptySeq
<1> HIDE DEF none
<1>2. 1..Len(none) = {}
  BY <1>1
<1>3. Leads(back, none, none, present)
  BY <1>1, <1>2 DEF Leads
<1> QED BY <1>3 DEF none

LEMMA EditTraces ==
  ASSUME OneByte, OneUnit, Kinds \subseteq {"insert", "delete"},
         Typed(CDoc), Traces, NEW ch \in Change, Edit(ch)
  PROVE  Traces' /\ History!Edit
<1> DEFINE r == Resolved(document, ch)
           en == EntryFor(ch, r.old)
           transaction == <<en>>
           next == r.doc.rope
           pushed == Append(past, rope)
           full == Append(undo_stack, transaction)
           n == Len(full)
<1>1. /\ r # None /\ rope' = next
      /\ undo_stack' = PushUndo(undo_stack, transaction) /\ redo_stack' = <<>>
      /\ EditKind(ch) \in {"insert", "delete"} /\ Remember
  BY DEF Edit, ApplyChange, SetText, PushTransaction
<1>2. /\ document = Indexed(rope) /\ rope \in Text /\ line_index = LineStarts(rope)
      /\ undo_stack \in Seq(Seq(Entry))
  BY TracedDocument
<1>3. ch \in AChange
  BY BufferAssumption DEF Change, AChange
<1>4. IsExact(ch.start) /\ en.kind \in {"insert", "delete"}
  BY <1>1 DEF EditKind
<1>5. Names(rope, ch.start)
  <2> DEFINE line == ch.start.line
             column == ch.start.column
             text == LineText(rope, line_index, line)
  <2>1. line <= Len(line_index) /\ column <= Len(text) + 1
    BY <1>4 DEF IsExact
  <2>2. line \in Nat \ {0} /\ column \in Nat \ {0} /\ Len(line_index) \in Nat
    BY <1>2, <1>3, LineStartsType DEF AChange, Position
  <2>3. line \in 1..Len(line_index)
    BY <2>1, <2>2
  <2>4. Len(text) \in Nat
    <3>1. Lies(rope, line, LineStarts(rope)[line], LineEndOffset(rope, LineStarts(rope), line))
      BY <1>2, <2>3, LineLies
    <3>2. text \in Text
      BY <1>2, <3>1 DEF Lies
    <3> QED BY <3>2, LenProperties DEF Text
  <2> HIDE DEF line, column, text
  <2>5. column - 1 <= Len(text)
    BY <2>1, <2>2, <2>4
  <2> QED BY <1>2, <2>3, <2>5 DEF Names, line, column, text
<1>6. next \in Text /\ Bridges(transaction, rope, next)
  <2>1. r = Resolved(Indexed(rope), ch)
    BY <1>2
  <2> HIDE DEF r
  <2> QED BY <1>1, <1>2, <1>3, <1>4, <1>5, <2>1, ChangeBridges
<1>7. transaction \in Seq(Entry)
  <2>1. r.old \in Text
    <3>1. document \in CDoc
      BY DEF Typed
    <3> QED BY <1>1, <1>3, <3>1, CoherentClosed, ResolvedKeeps
  <2>2. en \in Entry
    BY <1>3, <2>1, EntryType
  <2> HIDE DEF en
  <2> QED BY <2>2
<1> HIDE DEF transaction, next
<1>8. Leads(TRUE, full, pushed, next)
  <2>1. Leads(TRUE, undo_stack, past, rope)
    BY DEF Traces
  <2>2. Bridge(TRUE, transaction, rope, next)
    BY <1>6 DEF Bridge
  <2> QED BY <1>2, <1>7, <2>1, <2>2, LeadsFurther
<1>9. full \in Seq(Seq(Entry)) /\ n \in Nat /\ Len(pushed) = n /\ past \in Seq(Text) /\ n = Len(past) + 1
  <2>1. full \in Seq(Seq(Entry))
    BY <1>2, <1>7, AppendProperties
  <2>2. past \in Seq(Text)
    BY DEF Traces, Leads
  <2>3. Len(pushed) = Len(past) + 1
    BY <1>2, <2>2, AppendProperties
  <2> HIDE DEF full, pushed
  <2>4. Len(full) = Len(pushed) /\ Len(full) \in Nat
    BY <1>8, <2>1, LenProperties DEF Leads
  <2> QED BY <2>1, <2>2, <2>3, <2>4
<1>10. PICK d : PartFrom(undo_stack', full, d)
  <2>1. \E dropped : PartFrom(PushUndo(undo_stack, transaction), full, dropped)
    BY <1>2, <1>7, PushIsPart
  <2> HIDE DEF full
  <2> QED BY <1>1, <2>1
<1>21. /\ d \in 0..n /\ undo_stack' = SubSeq(full, d + 1, n)
       /\ Len(undo_stack') = n - d
  <2>1. n = Len(full)
    OBVIOUS
  <2> HIDE DEF n, full
  <2> QED BY <1>10, <2>1 DEF PartFrom
<1>11. past' = SubSeq(pushed, d + 1, n) /\ future' = <<>>
  <2>1. /\ past' = SubSeq(pushed, Len(pushed) - Len(undo_stack') + 1, Len(pushed))
        /\ future' = <<>>
    BY <1>1 DEF Remember
  <2> HIDE DEF pushed, n
  <2>2. Len(pushed) - Len(undo_stack') + 1 = d + 1
    <3>1. Len(pushed) = n /\ n \in Nat /\ d \in Int /\ Len(undo_stack') = n - d
      BY <1>9, <1>21
    <3> QED BY <3>1
  <2>3. Len(pushed) = n
    BY <1>9
  <2> QED BY <2>1, <2>2, <2>3
<1>12. Leads(TRUE, undo_stack', past', rope')
  <2> DEFINE first == d + 1
  <2>1. first = d + 1 /\ d \in Nat /\ d <= Len(pushed) /\ n = Len(full) /\ n = Len(pushed)
    BY <1>9, <1>21
  <2>2. undo_stack' = SubSeq(full, first, Len(full)) /\ past' = SubSeq(pushed, first, Len(pushed))
    BY <1>9, <1>21, <1>11
  <2> HIDE DEF first, full, pushed, n
  <2> QED BY <1>1, <1>8, <1>9, <2>1, <2>2, LeadsPart
<1>13. Leads(FALSE, redo_stack', future', rope')
  BY <1>1, <1>11, EmptyTraces
<1>14. Traces'
  BY <1>12, <1>13 DEF Traces
<1>15. History!Edit
  <2>1. rope' \in Text
    BY <1>1, <1>6
  <2>2. d \in 0..(Len(past) + 1) /\ past' = SubSeq(Append(past, rope), d + 1, Len(past) + 1)
    <3>1. n = Len(past) + 1
      BY <1>9
    <3> HIDE DEF n
    <3> QED BY <1>11, <1>21, <3>1
  <2> QED BY <1>11, <2>1, <2>2 DEF History!Edit
<1> QED BY <1>14, <1>15

(* An undo or a redo to text.                                              *)
LEMMA ReportText ==
  ASSUME NEW text \in Text, NEW result, result.doc = Indexed(text), Report(result)
  PROVE  rope' = text
<1>1. rope' = result.doc.rope
  BY DEF Report, SetText
<1> QED BY <1>1, IndexedIs

LEMMA UndoTraces ==
  ASSUME Typed(CDoc), Traces, UndoEdit
  PROVE  Traces' /\ History!GoBack
<1> DEFINE transaction == Last(undo_stack)
           text == Last(past)
           result == UndoTransaction(document, transaction)
<1>1. /\ undo_stack # <<>> /\ undo_stack' = Front(undo_stack)
      /\ redo_stack' = Append(redo_stack, transaction)
      /\ Report(result)
      /\ past' = Front(past) /\ future' = Append(future, rope)
  BY DEF UndoEdit, Undo
<1>2. /\ document = Indexed(rope) /\ rope \in Text
      /\ undo_stack \in Seq(Seq(Entry)) /\ redo_stack \in Seq(Seq(Entry))
  BY TracedDocument
<1>3. Leads(TRUE, undo_stack, past, rope) /\ Leads(FALSE, redo_stack, future, rope)
  <2> HIDE DEF transaction, text, result
  <2>1. Leads(TRUE, undo_stack, past, rope)
    BY DEF Traces
  <2>2. Leads(FALSE, redo_stack, future, rope)
    BY DEF Traces
  <2> QED BY <2>1, <2>2
<1>4. /\ past # <<>> /\ text \in Text
      /\ Bridge(TRUE, transaction, text, rope)
      /\ Leads(TRUE, Front(undo_stack), Front(past), text)
  BY <1>1, <1>2, <1>3, LeadsBack
<1>5. transaction \in Seq(Entry)
  BY <1>1, <1>2, PopType
<1> HIDE DEF transaction, text
<1>6. Bridges(transaction, text, rope) /\ Bridge(FALSE, transaction, rope, text)
  BY <1>4 DEF Bridge
<1>7. rope' = text
  <2>1. result.doc = Indexed(text)
    BY <1>2, <1>6 DEF Bridges
  <2> HIDE DEF result
  <2> QED BY <1>1, <1>4, <2>1, ReportText
<1>8. Leads(FALSE, Append(redo_stack, transaction), Append(future, rope), text)
  BY <1>2, <1>3, <1>5, <1>6, LeadsFurther
<1>9. Traces'
  BY <1>1, <1>4, <1>7, <1>8 DEF Traces
<1>10. History!GoBack
  BY <1>1, <1>4, <1>7 DEF History!GoBack, Last, Front, text
<1> QED BY <1>9, <1>10

LEMMA RedoTraces ==
  ASSUME Typed(CDoc), Traces, RedoEdit
  PROVE  Traces' /\ History!GoForward
<1> DEFINE transaction == Last(redo_stack)
           text == Last(future)
           result == RedoTransaction(document, transaction)
<1>1. /\ redo_stack # <<>> /\ redo_stack' = Front(redo_stack)
      /\ undo_stack' = Append(undo_stack, transaction)
      /\ Report(result)
      /\ future' = Front(future) /\ past' = Append(past, rope)
  BY DEF RedoEdit, Redo
<1>2. /\ document = Indexed(rope) /\ rope \in Text
      /\ undo_stack \in Seq(Seq(Entry)) /\ redo_stack \in Seq(Seq(Entry))
  BY TracedDocument
<1>3. Leads(TRUE, undo_stack, past, rope) /\ Leads(FALSE, redo_stack, future, rope)
  <2> HIDE DEF transaction, text, result
  <2>1. Leads(TRUE, undo_stack, past, rope)
    BY DEF Traces
  <2>2. Leads(FALSE, redo_stack, future, rope)
    BY DEF Traces
  <2> QED BY <2>1, <2>2
<1>4. /\ future # <<>> /\ text \in Text
      /\ Bridge(FALSE, transaction, text, rope)
      /\ Leads(FALSE, Front(redo_stack), Front(future), text)
  BY <1>1, <1>2, <1>3, LeadsBack
<1>5. transaction \in Seq(Entry)
  BY <1>1, <1>2, PopType
<1> HIDE DEF transaction, text
<1>6. Bridges(transaction, rope, text) /\ Bridge(TRUE, transaction, rope, text)
  BY <1>4 DEF Bridge
<1>7. rope' = text
  <2>1. result.doc = Indexed(text)
    BY <1>2, <1>6 DEF Bridges
  <2> HIDE DEF result
  <2> QED BY <1>1, <1>4, <2>1, ReportText
<1>8. Leads(TRUE, Append(undo_stack, transaction), Append(past, rope), text)
  BY <1>2, <1>3, <1>5, <1>6, LeadsFurther
<1>9. Traces'
  BY <1>1, <1>4, <1>7, <1>8 DEF Traces
<1>10. History!GoForward
  BY <1>1, <1>4, <1>7 DEF History!GoForward, Last, Front, text
<1> QED BY <1>9, <1>10

(* Undo brings back the texts before the edits still remembered, and redo  *)
(* the ones after, for every text, limit and sequence of insertions and    *)
(* deletions, undos and redos: the buffer implements UndoHistory.          *)
(* (Replacements are not brought back: run undo_of_replace.)               *)
THEOREM UndoIsRestored ==
  ASSUME OneByte, OneUnit, Kinds \subseteq {"insert", "delete"}
  PROVE  CSpec => UndoRestores
<1>1. CInit => Typed(CDoc) /\ Traces /\ History!Init
  <2> SUFFICES ASSUME CInit PROVE Typed(CDoc) /\ Traces /\ History!Init
    OBVIOUS
  <2>1. Init /\ past = <<>> /\ future = <<>>
    BY DEF CInit
  <2>2. Typed(CDoc)
    BY <2>1, Homes, TypedInit
  <2>3. undo_stack = <<>> /\ redo_stack = <<>>
    BY <2>1 DEF Init
  <2>4. Traces
    BY <2>1, <2>3, EmptyTraces DEF Traces
  <2>5. rope \in Text
    BY <2>2, TracedDocument
  <2> QED BY <2>1, <2>2, <2>4, <2>5 DEF History!Init
<1>2. Typed(CDoc) /\ Traces /\ [CNext]_allVars
        => (Typed(CDoc))' /\ Traces' /\ [History!Next]_(History!hist)
  <2> SUFFICES ASSUME Typed(CDoc), Traces, [CNext]_allVars
               PROVE  (Typed(CDoc))' /\ Traces' /\ [History!Next]_(History!hist)
    OBVIOUS
  <2>1. [Next]_vars
    BY DEF CNext, Next, Edit, UndoEdit, RedoEdit, Save, allVars
  <2>2. (Typed(CDoc))'
    BY <2>1, Homes, TypedStep
  <2>3. ASSUME NEW ch \in Change, Edit(ch) PROVE Traces' /\ History!Next
    BY <2>3, EditTraces DEF History!Next
  <2>4. ASSUME UndoEdit PROVE Traces' /\ History!Next
    BY <2>4, UndoTraces DEF History!Next
  <2>5. ASSUME RedoEdit PROVE Traces' /\ History!Next
    BY <2>5, RedoTraces DEF History!Next
  <2>6. ASSUME Save \/ UNCHANGED allVars PROVE Traces' /\ UNCHANGED History!hist
    <3>1. UNCHANGED <<rope, undo_stack, redo_stack, past, future>>
      BY <2>6 DEF Save, MarkAsSaved, text_vars, undo_vars, clients, allVars, vars
    <3> QED BY <3>1 DEF Traces, History!hist
  <2> QED BY <2>2, <2>3, <2>4, <2>5, <2>6 DEF CNext
<1> QED BY <1>1, <1>2, PTL DEF CSpec, UndoRestores, History!Spec
=============================================================================
