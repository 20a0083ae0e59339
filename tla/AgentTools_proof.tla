-------------------------- MODULE AgentTools_proof --------------------------
(***************************************************************************)
(* Proofs about the agent: what it knows of a version stays true while     *)
(* others edit; what waits for a subscriber are the latest closes; what is *)
(* found in a text is where the answer says, and replaced there; a diff    *)
(* explains what has changed; tools that answer one question agree; and no *)
(* tool leaves anything but a text.  For any documents, any texts, edits   *)
(* and bounds.                                                             *)
(*                                                                         *)
(* In the first two parts texts stay untyped and what an edit does to one  *)
(* unopened: it only matters that the agent and the buffer do the same.    *)
(* The others are about characters of one byte, and of one UTF-16 unit     *)
(* where columns count (OneByte, OneUnit): the texts the tools' own        *)
(* arithmetic is right for.                                                *)
(***************************************************************************)
EXTENDS AgentTools, FoldTheorems, TLAPS

(* A lineage is the last versions, up to this one, without gap.            *)
Gapless(lineage, version) ==
  /\ IsSeq(lineage) /\ Len(lineage) \in 1..version
  /\ \A i \in 1..Len(lineage) : lineage[i].version = version - Len(lineage) + i

(* A buffer of one of the first lives of its document; its lineage ends    *)
(* with the buffer as it is.                                               *)
Living(b, life) ==
  /\ b \in [text : {b.text}, version : Nat, lineage : {b.lineage}, life : 1..life]
  /\ Gapless(b.lineage, b.version)
  /\ b.lineage[Len(b.lineage)].text = b.text

Remembered(m, life) ==
  m \in [version : Nat, text : {m.text}, life : 1..life, misled : BOOLEAN]

(* The version known is one the buffer has or had, and what is known of it *)
(* is what the lineage says, if it still says anything.                    *)
Knows(m, b) ==
  ~m.misled /\ m.life = b.life =>
    /\ m.version \in 1..b.version
    /\ \A i \in 1..Len(b.lineage) :
         b.lineage[i].version = m.version => b.lineage[i].text = m.text

(* A document's buffer and what the agent keeps of it.                     *)
Told(b, m, life) ==
  /\ b # None => Living(b, life)
  /\ m # None => Remembered(m, life)
  /\ b # None /\ m # None => Knows(m, b)

Inv ==
  /\ lives \in [Paths -> Nat]
  /\ buffer = [p \in Paths |-> buffer[p]]
  /\ memory = [p \in Paths |-> memory[p]]
  /\ \A p \in Paths : Told(buffer[p], memory[p], lives[p])

----------------------------------------------------------------------------
(* record_snapshot: the lineage goes on with the next version.             *)
LEMMA LineageGoesOn ==
  ASSUME NEW lineage, NEW version \in Nat, Gapless(lineage, version),
         NEW snapshot, NEW one, one = version + 1, snapshot.version = one,
         NEW next, next = RecordSnapshot(lineage, snapshot)
  PROVE  /\ Gapless(next, one)
         /\ next[Len(next)] = snapshot
         /\ \A i \in 1..Len(next) :
              i # Len(next) => \E j \in 1..Len(lineage) : next[i] = lineage[j]
<1> DEFINE kept == IF Len(lineage) >= MaxHistory THEN Tail(lineage) ELSE lineage
           n == Len(lineage)
<1>1. /\ IsSeq(lineage) /\ n \in 1..version
      /\ \A i \in 1..n : lineage[i].version = version - n + i
  BY DEF Gapless
<1>2. lineage # <<>>
  BY <1>1, EmptyShape
<1>3. /\ IsSeq(kept) /\ Len(kept) \in 0..version
      /\ \A i \in 1..Len(kept) : kept[i].version = version - Len(kept) + i
      /\ \A i \in 1..Len(kept) : \E j \in 1..n : kept[i] = lineage[j]
  <2>1. CASE n >= MaxHistory
    <3>1. /\ kept = Tail(lineage) /\ IsSeq(kept) /\ Len(kept) = n - 1
          /\ \A i \in 1..(n - 1) : kept[i] = lineage[i + 1]
      BY <1>1, <1>2, <2>1, TailShape
    <3> HIDE DEF kept, n
    <3>2. ASSUME NEW i \in 1..Len(kept)
          PROVE  /\ kept[i].version = version - Len(kept) + i
                 /\ \E j \in 1..n : kept[i] = lineage[j]
      <4>1. i + 1 \in 1..n /\ kept[i] = lineage[i + 1]
        BY <1>1, <3>1
      <4>2. lineage[i + 1].version = version - n + (i + 1)
        BY <1>1, <4>1
      <4>3. version - n + (i + 1) = version - Len(kept) + i
        <5>1. n \in Int /\ Len(kept) = n - 1 /\ i \in Int
          BY <1>1, <3>1
        <5> QED BY <5>1
      <4> QED BY <4>1, <4>2, <4>3
    <3>3. Len(kept) \in 0..version
      BY <1>1, <3>1
    <3> QED BY <3>1, <3>2, <3>3
  <2>2. CASE ~(n >= MaxHistory)
    BY <1>1, <2>2
  <2> QED BY <2>1, <2>2
<1>4. next = Append(kept, snapshot)
  BY DEF RecordSnapshot
<1> HIDE DEF kept, n
<1>5. /\ IsSeq(next) /\ Len(next) = Len(kept) + 1 /\ Len(kept) \in Nat
      /\ \A i \in 1..Len(kept) : next[i] = kept[i]
      /\ next[Len(kept) + 1] = snapshot
  BY <1>3, <1>4, AppendShape
<1>6. ASSUME NEW i \in 1..Len(next)
      PROVE  next[i].version = one - Len(next) + i
  <2>1. CASE i \in 1..Len(kept)
    BY <1>3, <1>5, <2>1
  <2>2. CASE i = Len(kept) + 1
    BY <1>5, <2>2
  <2> QED BY <1>5, <2>1, <2>2
<1>7. ASSUME NEW i \in 1..Len(next), i # Len(next)
      PROVE  \E j \in 1..n : next[i] = lineage[j]
  <2>1. i \in 1..Len(kept)
    BY <1>5, <1>7
  <2> QED BY <1>3, <1>5, <2>1
<1>8. Gapless(next, one)
  BY <1>3, <1>5, <1>6 DEF Gapless
<1> QED BY <1>5, <1>7, <1>8 DEF n

(* A changed buffer lives on, one version later, and whoever knew it knows *)
(* it still.                                                               *)
LEMMA EditedLives ==
  ASSUME NEW b, NEW life \in Nat, Living(b, life), NEW text
  PROVE  /\ Living(Edited(b, text), life)
         /\ Edited(b, text).version = b.version + 1
         /\ Edited(b, text).text = text
         /\ Edited(b, text).life = b.life
         /\ \A m : Knows(m, b) => Knows(m, Edited(b, text))
<1> DEFINE e == Edited(b, text)
           one == b.version + 1
           snapshot == Snapshot(text, one)
           next == RecordSnapshot(b.lineage, snapshot)
<1>1. /\ e \in [text : {text}, version : {one}, lineage : {next}, life : {b.life}]
      /\ b.version \in Nat /\ b.life \in 1..life /\ Gapless(b.lineage, b.version)
  BY DEF Living, Edited
<1>2. snapshot.version = one /\ snapshot.text = text
  BY DEF Snapshot
<1>3. one = b.version + 1 /\ one \in Nat
  BY <1>1
<1> HIDE DEF e, snapshot, next, one
<1>4. /\ Gapless(next, one)
      /\ next[Len(next)] = snapshot
      /\ \A i \in 1..Len(next) :
           i # Len(next) => \E j \in 1..Len(b.lineage) : next[i] = b.lineage[j]
  BY <1>1, <1>2, <1>3, LineageGoesOn DEF next
<1>5. e.text = text /\ e.version = one /\ e.lineage = next /\ e.life = b.life
  BY <1>1
<1>6. Living(e, life)
  BY <1>1, <1>2, <1>3, <1>4, <1>5 DEF Living
<1>7. ASSUME NEW m, Knows(m, b) PROVE Knows(m, e)
  <2> SUFFICES ASSUME ~m.misled, m.life = b.life
               PROVE  /\ m.version \in 1..one
                      /\ \A i \in 1..Len(next) :
                           next[i].version = m.version => next[i].text = m.text
    BY <1>5 DEF Knows
  <2>1. /\ m.version \in 1..b.version
        /\ \A j \in 1..Len(b.lineage) :
             b.lineage[j].version = m.version => b.lineage[j].text = m.text
    BY <1>7 DEF Knows
  <2>2. m.version \in 1..one /\ m.version # one
    BY <1>1, <1>3, <2>1
  <2>3. ASSUME NEW i \in 1..Len(next), next[i].version = m.version
        PROVE  next[i].text = m.text
    <3>1. i # Len(next)
      BY <1>2, <1>4, <2>2, <2>3
    <3> QED BY <1>4, <2>1, <2>3, <3>1
  <2> QED BY <2>2, <2>3
<1> QED BY <1>3, <1>5, <1>6, <1>7 DEF e

(* A buffer just opened lives, in a life no one knows of.                  *)
LEMMA FreshLives ==
  ASSUME NEW text, NEW life \in Nat
  PROVE  /\ Living(Fresh(text, life + 1), life + 1)
         /\ \A m : Remembered(m, life) => Knows(m, Fresh(text, life + 1))
<1> DEFINE s == Snapshot(text, 1)
           first == <<s>>
           f == Fresh(text, life + 1)
<1>1. IsSeq(first) /\ Len(first) = 1 /\ first[1] = s
  <2>1. first \in Seq({s})
    OBVIOUS
  <2> QED BY <2>1 DEF IsSeq
<1>2. s.text = text /\ s.version = 1
  BY DEF Snapshot
<1>3. f \in [text : {text}, version : {1}, lineage : {first}, life : {life + 1}]
  BY DEF Fresh
<1> HIDE DEF first, s, f
<1>4. Gapless(first, 1)
  BY <1>1, <1>2 DEF Gapless
<1>5. f.text = text /\ f.version = 1 /\ f.lineage = first /\ f.life = life + 1
  BY <1>3
<1>6. Living(f, life + 1)
  <2>1. f \in [text : {f.text}, version : Nat, lineage : {f.lineage}, life : 1..(life + 1)]
    BY <1>3, <1>5
  <2>2. f.lineage[Len(f.lineage)].text = f.text
    BY <1>1, <1>2, <1>5
  <2> QED BY <1>4, <1>5, <2>1, <2>2 DEF Living
<1>7. ASSUME NEW m, Remembered(m, life) PROVE Knows(m, f)
  <2>1. m.life # f.life
    BY <1>5, <1>7 DEF Remembered
  <2> QED BY <2>1 DEF Knows
<1> QED BY <1>6, <1>7 DEF f

(* The last snapshot of a buffer, and it alone, is of its version.         *)
LEMMA LastOfLineage ==
  ASSUME NEW b, NEW life \in Nat, Living(b, life)
  PROVE  /\ Len(b.lineage) \in 1..Len(b.lineage)
         /\ b.lineage[Len(b.lineage)].version = b.version
         /\ b.lineage[Len(b.lineage)].text = b.text
         /\ \A i, j \in 1..Len(b.lineage) :
              b.lineage[i].version = b.lineage[j].version => i = j
<1> DEFINE n == Len(b.lineage)
           v == b.version
<1>1. /\ v \in Nat /\ n \in 1..v
      /\ \A i \in 1..n : b.lineage[i].version = v - n + i
      /\ b.lineage[n].text = b.text
  BY DEF Living, Gapless
<1> HIDE DEF n, v
<1>2. n \in 1..n /\ b.lineage[n].version = v
  BY <1>1
<1>3. ASSUME NEW i \in 1..n, NEW j \in 1..n, b.lineage[i].version = b.lineage[j].version
      PROVE  i = j
  <2>1. v - n + i = v - n + j
    BY <1>1, <1>3
  <2> QED BY <1>1, <2>1
<1> QED BY <1>1, <1>2, <1>3 DEF n, v

(* Whoever has the text and the version of the buffer as it is knows it.   *)
LEMMA CurrentKnows ==
  ASSUME NEW b, NEW life \in Nat, Living(b, life),
         NEW m, m.version = b.version, m.text = b.text
  PROVE  Knows(m, b)
<1>1. b.version \in Nat /\ b.version \in 1..b.version
  BY DEF Living, Gapless
<1>2. ASSUME NEW i \in 1..Len(b.lineage), b.lineage[i].version = m.version
      PROVE  b.lineage[i].text = m.text
  BY <1>2, LastOfLineage
<1> QED BY <1>1, <1>2 DEF Knows

(* ... and whoever knows the current version has its text.                 *)
LEMMA KnownIsCurrent ==
  ASSUME NEW b, NEW life \in Nat, Living(b, life),
         NEW m, Knows(m, b), ~m.misled, m.life = b.life, m.version = b.version
  PROVE  m.text = b.text
  BY LastOfLineage DEF Knows

(* What is read of an old version is what the lineage says of it.          *)
LEMMA ReplayIsSnapshot ==
  ASSUME NEW p \in Paths, NEW life \in Nat, Living(buffer[p], life),
         NEW version, version # 0, ReplayBuffer(p, version) # None
  PROVE  \E i \in 1..Len(buffer[p].lineage) :
           /\ buffer[p].lineage[i].version = version
           /\ ReplayBuffer(p, version).data = buffer[p].lineage[i].text
<1> DEFINE lineage == buffer[p].lineage
           at == {i \in DOMAIN lineage : lineage[i].version = version}
<1>1. DOMAIN lineage = 1..Len(lineage)
  BY LenProperties DEF Living, Gapless, IsSeq
<1>2. at # {} /\ ReplayBuffer(p, version) = Answer(version, lineage[Min(at)].text)
  BY DEF ReplayBuffer
<1>3. at \subseteq Nat
  BY <1>1
<1> HIDE DEF at
<1>4. Min(at) \in at
  BY <1>2, <1>3, MinIsLeast
<1>5. Min(at) \in 1..Len(lineage) /\ lineage[Min(at)].version = version
  BY <1>1, <1>4 DEF at
<1> QED BY <1>2, <1>5 DEF Answer

LEMMA ReplayKnows ==
  ASSUME NEW p \in Paths, NEW life \in Nat, Living(buffer[p], life),
         NEW version \in 1..buffer[p].version, ReplayBuffer(p, version) # None,
         NEW m, m.version = version, m.text = ReplayBuffer(p, version).data
  PROVE  Knows(m, buffer[p])
<1> DEFINE lineage == buffer[p].lineage
<1>1. PICK j \in 1..Len(lineage) : lineage[j].version = version /\ m.text = lineage[j].text
  <2>1. version # 0
    OBVIOUS
  <2> QED BY <2>1, ReplayIsSnapshot
<1>2. \A i \in 1..Len(lineage) : lineage[i].version = version => lineage[i].text = m.text
  BY <1>1, LastOfLineage
<1> QED BY <1>2 DEF Knows

----------------------------------------------------------------------------
(* One edit of a list after the other.                                     *)
Applying(acc, change) ==
  IF acc.refused \/ Changed(acc.b.text, change) = None
    THEN [acc EXCEPT !.refused = TRUE]
    ELSE [acc EXCEPT !.b = Edited(@, Changed(@.text, change))]

Untouched(b) == [b |-> b, refused |-> FALSE]

(* A list of at most two edits is applied from the first to the last.      *)
LEMMA AppliedInTurn ==
  ASSUME NEW b, NEW edits, NEW n \in 0..2, DOMAIN edits = 1..n
  PROVE  Applied(b, edits) =
           IF n = 0 THEN Untouched(b)
           ELSE IF n = 1 THEN Applying(Untouched(b), edits[1])
           ELSE Applying(Applying(Untouched(b), edits[1]), edits[2])
<1> DEFINE D == 1..n
           first == Untouched(b)
           Eq(f) == f = [s \in SUBSET D |->
                           IF s = {} THEN first
                           ELSE Applying(f[s \ {Max(s)}], edits[Max(s)])]
           it == CHOOSE f : Eq(f)
           g == [s \in SUBSET D |->
                   IF s = {} THEN first
                   ELSE IF s = {1} THEN Applying(first, edits[1])
                   ELSE IF s = {2} THEN Applying(first, edits[2])
                   ELSE Applying(Applying(first, edits[1]), edits[2])]
<1>1. Applied(b, edits) = it[D]
  BY DEF Applied, FoldLeft, MapThenFoldSet, Applying, Untouched
<1>2. ASSUME NEW s \in SUBSET D, s # {}
      PROVE  \/ (s = {1} /\ Max(s) = 1 /\ s \ {Max(s)} = {})
             \/ (s = {2} /\ Max(s) = 2 /\ s \ {Max(s)} = {})
             \/ (s = {1, 2} /\ Max(s) = 2 /\ s \ {Max(s)} = {1})
  <2>1. Max(s) \in s /\ \A y \in s : y <= Max(s)
    <3>1. n \in Nat
      OBVIOUS
    <3> QED BY <1>2, <3>1, MaxIsGreatest
  <2>2. s = {1} \/ s = {2} \/ s = {1, 2}
    <3>1. \A i \in s : i = 1 \/ i = 2
      OBVIOUS
    <3> QED BY <1>2, <3>1
  <2>3. CASE s = {1}
    BY <2>1, <2>3
  <2>4. CASE s = {2}
    BY <2>1, <2>4
  <2>5. CASE s = {1, 2}
    BY <2>1, <2>5
  <2> QED BY <2>2, <2>3, <2>4, <2>5
<1> HIDE DEF first
<1>3. Eq(g)
  <2> SUFFICES ASSUME NEW s \in SUBSET D
               PROVE  g[s] = IF s = {} THEN first
                             ELSE Applying(g[s \ {Max(s)}], edits[Max(s)])
    OBVIOUS
  <2>1. CASE s = {}
    BY <2>1
  <2>2. CASE s # {}
    <3>1. s \ {Max(s)} \in SUBSET D
      OBVIOUS
    <3> QED BY <1>2, <2>2, <3>1
  <2> QED BY <2>1, <2>2
<1>4. Eq(it)
  <2> HIDE DEF Eq
  <2> QED BY <1>3
<1> HIDE DEF it
<1>5. it[{}] = first
  BY <1>4
<1>6. CASE n = 0
  <2>1. D = {}
    BY <1>6
  <2> QED BY <1>1, <1>5, <1>6, <2>1 DEF first
<1>7. ASSUME n >= 1 PROVE it[{1}] = Applying(first, edits[1])
  <2>1. {1} \in SUBSET D /\ {1} # {} /\ {1} # {2} /\ {1} # {1, 2}
    BY <1>7
  <2>2. Max({1}) = 1 /\ {1} \ {Max({1})} = {}
    BY <1>2, <2>1
  <2> QED BY <1>4, <1>5, <2>1, <2>2
<1>8. CASE n = 1
  <2>1. D = {1}
    BY <1>8
  <2> QED BY <1>1, <1>7, <1>8, <2>1 DEF first
<1>9. CASE n = 2
  <2>1. D = {1, 2} /\ {1, 2} \in SUBSET D /\ {1, 2} # {}
        /\ {1, 2} # {1} /\ {1, 2} # {2}
    BY <1>9
  <2>2. Max({1, 2}) = 2 /\ {1, 2} \ {Max({1, 2})} = {1}
    BY <1>2, <2>1
  <2>3. it[{1, 2}] = Applying(it[{1}], edits[2])
    BY <1>4, <2>1, <2>2
  <2> QED BY <1>1, <1>7, <1>9, <2>1, <2>3 DEF first
<1> QED BY <1>6, <1>8, <1>9

(* However far such a list gets, the buffer lives on and whoever knew it   *)
(* knows it still.                                                         *)
Continues(acc, b, life) ==
  /\ acc \in [b : {acc.b}, refused : BOOLEAN]
  /\ Living(acc.b, life) /\ acc.b.life = b.life
  /\ \A m : Knows(m, b) => Knows(m, acc.b)

LEMMA ApplyingGoesOn ==
  ASSUME NEW b, NEW life \in Nat, NEW acc, Continues(acc, b, life), NEW change
  PROVE  Continues(Applying(acc, change), b, life)
<1> DEFINE next == Applying(acc, change)
           e == Edited(acc.b, Changed(acc.b.text, change))
<1>1. CASE acc.refused \/ Changed(acc.b.text, change) = None
  <2>1. next = [acc EXCEPT !.refused = TRUE]
    BY <1>1 DEF Applying
  <2>2. next \in [b : {acc.b}, refused : BOOLEAN] /\ next.b = acc.b
    BY <2>1 DEF Continues
  <2> HIDE DEF next
  <2>3. Continues(next, b, life)
    BY <2>2 DEF Continues
  <2> QED BY <2>3 DEF next
<1>2. CASE ~(acc.refused \/ Changed(acc.b.text, change) = None)
  <2>1. next = [acc EXCEPT !.b = e]
    BY <1>2 DEF Applying
  <2> HIDE DEF e, next
  <2>2. next \in [b : {e}, refused : BOOLEAN] /\ next.b = e
    BY <2>1 DEF Continues
  <2>3. Living(e, life) /\ e.life = acc.b.life /\ \A m : Knows(m, acc.b) => Knows(m, e)
    BY EditedLives DEF Continues, e
  <2>4. Continues(next, b, life)
    BY <2>2, <2>3 DEF Continues
  <2> QED BY <2>4 DEF next
<1> QED BY <1>1, <1>2

LEMMA AppliedGoesOn ==
  ASSUME NEW b, NEW life \in Nat, Living(b, life), NEW edits \in EditLists
  PROVE  Continues(Applied(b, edits), b, life) /\ (edits = <<>> => Applied(b, edits).b = b)
<1>1. Continues(Untouched(b), b, life) /\ Untouched(b).b = b
  BY DEF Continues, Untouched
<1>2. PICK n \in 0..2 : DOMAIN edits = 1..n /\ (edits = <<>> => n = 0)
  <2>1. CASE edits = <<>>
    <3>1. DOMAIN edits = 1..0 /\ 0 \in 0..2
      BY <2>1
    <3> QED BY <3>1
  <2>2. CASE \E e \in Edits : edits = <<e>>
    <3>1. DOMAIN edits = 1..1 /\ 1 \in 0..2 /\ edits # <<>>
      BY <2>2
    <3> QED BY <3>1
  <2>3. CASE \E e, f \in Edits : edits = <<e, f>>
    <3>1. DOMAIN edits = 1..2 /\ 2 \in 0..2 /\ edits # <<>>
      BY <2>3
    <3> QED BY <3>1
  <2> QED BY <2>1, <2>2, <2>3 DEF EditLists
<1>3. Continues(Applying(Untouched(b), edits[1]), b, life)
  BY <1>1, ApplyingGoesOn
<1>4. Continues(Applying(Applying(Untouched(b), edits[1]), edits[2]), b, life)
  BY <1>3, ApplyingGoesOn
<1>5. Applied(b, edits) =
        IF n = 0 THEN Untouched(b)
        ELSE IF n = 1 THEN Applying(Untouched(b), edits[1])
        ELSE Applying(Applying(Untouched(b), edits[1]), edits[2])
  BY <1>2, AppliedInTurn
<1> QED BY <1>1, <1>2, <1>3, <1>4, <1>5

----------------------------------------------------------------------------
(* What a tool that edits leaves in the agent's memory: as true of the     *)
(* buffer it leaves as what the agent knew was of the one it found.        *)
LEMMA LearnedIsTrue ==
  ASSUME NEW life \in Nat,
         NEW b, Living(b, life), NEW m, Remembered(m, life), Knows(m, b),
         m.version = b.version,
         NEW next, Living(next, life), next.life = b.life,
         NEW version \in Nat, NEW text, NEW misled \in BOOLEAN,
         ~misled /\ m.text = b.text => text = next.text /\ version = next.version,
         NEW new, new = Belief(Answer(version, text), m.life, m.misled \/ misled)
  PROVE  Remembered(new, life) /\ Knows(new, next)
<1>1. /\ new \in [version : {version}, text : {text}, life : {m.life}, misled : BOOLEAN]
      /\ new.misled <=> m.misled \/ misled
  BY DEF Remembered, Belief, Answer
<1>2. new.version = version /\ new.text = text /\ new.life = m.life
  BY <1>1
<1>3. Remembered(new, life)
  BY <1>1, <1>2 DEF Remembered
<1>4. ASSUME ~new.misled, new.life = next.life PROVE Knows(new, next)
  <2>1. m.text = b.text
    BY <1>1, <1>2, <1>4, KnownIsCurrent
  <2>2. new.text = next.text /\ new.version = next.version
    BY <1>1, <1>2, <1>4, <2>1
  <2> QED BY <2>2, CurrentKnows
<1> QED BY <1>3, <1>4 DEF Knows

(* A step of one document.                                                 *)
LEMMA OnePath ==
  ASSUME Inv, NEW p \in Paths, UNCHANGED lives,
         NEW b, buffer' = [buffer EXCEPT ![p] = b],
         NEW m, memory' = [memory EXCEPT ![p] = m],
         Told(b, m, lives[p])
  PROVE  Inv'
<1>1. \A o \in Paths : Told(buffer'[o], memory'[o], lives'[o])
  BY DEF Inv
<1> QED BY <1>1 DEF Inv

LEMMA LearnTold ==
  ASSUME Inv, NEW p \in Paths, Learn(p)
  PROVE  Inv'
<1> DEFINE b == buffer[p]
           m == memory[p]
<1>1. IsOpen(p) /\ buffer' = [buffer EXCEPT ![p] = b] /\ UNCHANGED lives
  BY DEF Learn, Inv
<1>2. lives[p] \in Nat /\ Living(b, lives[p]) /\ Told(b, m, lives[p])
  BY <1>1 DEF Inv, Told, IsOpen
<1>3. b.version \in Nat /\ b.life \in 1..lives[p]
  BY <1>2 DEF Living
<1>4. ASSUME NEW answer, answer.version_id \in Nat, NEW new,
             new = Belief(answer, b.life, FALSE),
             memory' = [memory EXCEPT ![p] = new],
             Knows(new, b)
      PROVE  Inv'
  <2>1. Remembered(new, lives[p])
    BY <1>3, <1>4 DEF Remembered, Belief
  <2>2. Told(b, new, lives[p])
    BY <1>2, <1>4, <2>1 DEF Told
  <2> QED BY <1>1, <1>4, <2>2, OnePath
<1>5. CASE memory' = [memory EXCEPT ![p] = Belief(ReadWholeFile(p), b.life, FALSE)]
  <2> DEFINE answer == ReadWholeFile(p)
             new == Belief(answer, b.life, FALSE)
  <2>1. answer.version_id = b.version /\ answer.data = b.text
    BY DEF ReadWholeFile, Answer
  <2>2. new.version = b.version /\ new.text = b.text
    BY <2>1 DEF Belief
  <2> HIDE DEF new
  <2>3. Knows(new, b)
    BY <1>2, <2>2, CurrentKnows
  <2>4. answer.version_id \in Nat
    BY <1>3, <2>1
  <2> HIDE DEF answer
  <2> QED BY <1>4, <1>5, <2>3, <2>4 DEF new, answer
<1>6. ASSUME NEW version \in 1..b.version, ReplayBuffer(p, version) # None,
             memory' = [memory EXCEPT ![p] = Belief(ReplayBuffer(p, version), b.life, FALSE)]
      PROVE  Inv'
  <2> DEFINE answer == ReplayBuffer(p, version)
             new == Belief(answer, b.life, FALSE)
  <2>1. version # 0 /\ version \in Nat
    BY <1>3
  <2>2. answer.version_id = version
    BY <1>6, <2>1 DEF ReplayBuffer, Answer
  <2>3. new.version = version /\ new.text = answer.data
    BY <2>2 DEF Belief
  <2> HIDE DEF new
  <2>4. Knows(new, b)
    BY <1>2, <1>6, <2>3, ReplayKnows
  <2> HIDE DEF answer
  <2> QED BY <1>4, <1>6, <2>1, <2>2, <2>4 DEF new, answer
<1>7. ASSUME m # None,
             memory' = [memory EXCEPT ![p] =
                          Belief(SemanticTokensDelta(p, m),
                                 IF m.version = b.version THEN m.life ELSE b.life,
                                 m.misled /\ m.version = b.version)]
      PROVE  Inv'
  <2> DEFINE answer == SemanticTokensDelta(p, m)
             new == Belief(answer, IF m.version = b.version THEN m.life ELSE b.life,
                           m.misled /\ m.version = b.version)
  <2>1. Remembered(m, lives[p]) /\ Knows(m, b)
    BY <1>1, <1>2, <1>7 DEF Told, IsOpen
  <2>2. /\ answer.version_id = b.version
        /\ answer.data = IF m.version = b.version THEN m.text ELSE b.text
    BY DEF SemanticTokensDelta, Answer
  <2> HIDE DEF answer
  <2>3. /\ new.version = b.version
        /\ new.text = IF m.version = b.version THEN m.text ELSE b.text
        /\ new.life = IF m.version = b.version THEN m.life ELSE b.life
        /\ new.misled = (m.misled /\ m.version = b.version)
        /\ new \in [version : {new.version}, text : {new.text}, life : {new.life},
                    misled : {new.misled}]
    BY <2>2 DEF Belief
  <2> HIDE DEF new
  <2>4. Remembered(new, lives[p])
    BY <1>3, <2>1, <2>3 DEF Remembered
  <2>5. Knows(new, b)
    <3>1. CASE m.version = b.version
      BY <2>1, <2>3, <3>1 DEF Knows, Remembered
    <3>2. CASE m.version # b.version
      BY <1>2, <2>3, <3>2, CurrentKnows
    <3> QED BY <3>1, <3>2
  <2>6. Told(b, new, lives[p])
    BY <1>2, <2>4, <2>5 DEF Told
  <2> QED BY <1>1, <1>7, <2>6, OnePath DEF new, answer
<1> QED BY <1>5, <1>6, <1>7 DEF Learn

(* The tools that edit: the agent names the version it knows or none.      *)
LEMMA AcceptedTold ==
  ASSUME Inv, NEW p \in Paths, NEW checked \in BOOLEAN, Accepted(p, checked)
  PROVE  /\ buffer[p] # None /\ lives[p] \in Nat /\ Living(buffer[p], lives[p])
         /\ checked => /\ memory[p] # None
                       /\ Remembered(memory[p], lives[p])
                       /\ Knows(memory[p], buffer[p])
                       /\ memory[p].version = buffer[p].version
  BY DEF Accepted, IsOpen, Inv, Told

(* An edit after which the agent does with its text what was done to the   *)
(* buffer.                                                                 *)
LEMMA EditTold ==
  ASSUME Inv, NEW p \in Paths, NEW checked \in BOOLEAN, Accepted(p, checked),
         UNCHANGED lives,
         NEW next, buffer' = [buffer EXCEPT ![p] = next],
         Living(next, lives[p]), next.life = buffer[p].life,
         NEW version \in Nat, NEW text, NEW misled \in BOOLEAN,
         Learned(p, checked, version, text, misled),
         checked /\ ~misled /\ text # None /\ memory[p].text = buffer[p].text =>
           text = next.text /\ version = next.version
  PROVE  Inv'
<1>1. CASE ~checked \/ text = None
  <2>1. memory' = [memory EXCEPT ![p] = None]
    BY <1>1 DEF Learned
  <2>2. Told(next, None, lives[p])
    BY DEF Told
  <2> QED BY <2>1, <2>2, OnePath
<1>2. CASE checked /\ text # None
  <2> DEFINE m == memory[p]
             new == Belief(Answer(version, text), m.life, m.misled \/ misled)
  <2>1. memory' = [memory EXCEPT ![p] = new]
    BY <1>2 DEF Learned
  <2>2. /\ lives[p] \in Nat /\ Living(buffer[p], lives[p])
        /\ Remembered(m, lives[p]) /\ Knows(m, buffer[p])
        /\ m.version = buffer[p].version
    BY <1>2, AcceptedTold
  <2>3. ~misled /\ m.text = buffer[p].text => text = next.text /\ version = next.version
    BY <1>2
  <2>4. Remembered(new, lives[p]) /\ Knows(new, next)
    BY <2>2, <2>3, LearnedIsTrue
  <2> HIDE DEF new
  <2>5. Told(next, new, lives[p])
    BY <2>4 DEF Told
  <2> QED BY <2>1, <2>5, OnePath
<1> QED BY <1>1, <1>2

LEMMA EditFileTold ==
  ASSUME Inv, NEW p \in Paths, NEW checked \in BOOLEAN, NEW old, NEW new,
         EditFile(p, old, new, checked)
  PROVE  Inv'
<1> DEFINE text == EditFound(buffer[p].text, old, new)
           own == IF checked THEN EditFound(memory[p].text, old, new) ELSE None
           next == Edited(buffer[p], text)
<1>1. /\ Accepted(p, checked) /\ UNCHANGED lives
      /\ buffer' = [buffer EXCEPT ![p] = next]
      /\ Learned(p, checked, buffer'[p].version, own, FALSE)
  BY DEF EditFile
<1>2. lives[p] \in Nat /\ Living(buffer[p], lives[p]) /\ buffer'[p] = next
  BY <1>1, AcceptedTold DEF Inv
<1>3. Living(next, lives[p]) /\ next.life = buffer[p].life /\ next.text = text
  BY <1>2, EditedLives
<1>4. checked /\ memory[p].text = buffer[p].text => own = text
  OBVIOUS
<1> HIDE DEF next, text, own
<1>5. next.version \in Nat
  BY <1>3 DEF Living
<1> QED BY <1>1, <1>2, <1>3, <1>4, <1>5, EditTold

LEMMA ApplyEditsTold ==
  ASSUME Inv, NEW p \in Paths, NEW checked \in BOOLEAN, NEW edits \in EditLists,
         ApplyEdits(p, edits, checked)
  PROVE  Inv'
<1> DEFINE out == Applied(buffer[p], edits)
           mine == [buffer[p] EXCEPT !.text = memory[p].text]
           own == Applied(mine, edits)
           next == out.b
           version == IF edits = <<>> THEN 0 ELSE next.version
           text == IF checked /\ ~own.refused THEN own.b.text ELSE None
           misled == edits = <<>>
<1>1. /\ Accepted(p, checked) /\ UNCHANGED lives
      /\ buffer' = [buffer EXCEPT ![p] = next]
      /\ IF out.refused THEN UNCHANGED memory
         ELSE Learned(p, checked, version, text, misled)
  BY DEF ApplyEdits
<1>2. lives[p] \in Nat /\ Living(buffer[p], lives[p]) /\ buffer[p] # None
  BY <1>1, AcceptedTold
<1>3. Continues(out, buffer[p], lives[p])
  BY <1>2, AppliedGoesOn
<1>4. memory[p].text = buffer[p].text => own = out
  <2>1. memory[p].text = buffer[p].text => mine = buffer[p]
    BY <1>2 DEF Living
  <2> QED BY <2>1
<1> HIDE DEF out, own, mine
<1>5. Living(next, lives[p]) /\ next.life = buffer[p].life
      /\ \A m : Knows(m, buffer[p]) => Knows(m, next)
  BY <1>3 DEF Continues
<1>6. next.version \in Nat
  BY <1>5 DEF Living
<1>7. CASE out.refused
  <2>1. memory' = [memory EXCEPT ![p] = memory[p]]
    BY <1>1, <1>7 DEF Inv
  <2>2. Told(buffer[p], memory[p], lives[p])
    BY DEF Inv
  <2>3. Told(next, memory[p], lives[p])
    BY <1>2, <1>5, <2>2 DEF Told
  <2> QED BY <1>1, <2>1, <2>3, OnePath
<1>8. CASE ~out.refused
  <2>1. version \in Nat /\ misled \in BOOLEAN
    BY <1>6
  <2>2. checked /\ ~misled /\ text # None /\ memory[p].text = buffer[p].text =>
          text = next.text /\ version = next.version
    BY <1>4
  <2>3. Learned(p, checked, version, text, misled)
    BY <1>1, <1>8
  <2> HIDE DEF version, text, misled, next
  <2> QED BY <1>1, <1>5, <2>1, <2>2, <2>3, EditTold
<1> QED BY <1>7, <1>8

LEMMA StructuralEditTold ==
  ASSUME Inv, NEW p \in Paths, NEW checked \in BOOLEAN, NEW spot, NEW type, NEW name,
         StructuralEdit(p, spot, type, name, checked)
  PROVE  Inv'
<1>0. PICK node \in NodesOn(p, spot) :
        LET text == PreviewStructuralEdit(p, node, type, name)
            same == text = buffer[p].text
        IN  /\ buffer' = IF same THEN buffer ELSE [buffer EXCEPT ![p] = Edited(@, text)]
            /\ Learned(p, checked, buffer[p].version + 1, text, same)
  BY DEF StructuralEdit
<1> DEFINE text == PreviewStructuralEdit(p, node, type, name)
           same == text = buffer[p].text
           next == IF same THEN buffer[p] ELSE Edited(buffer[p], text)
           version == buffer[p].version + 1
<1>1. /\ Accepted(p, checked) /\ UNCHANGED lives
      /\ buffer' = IF same THEN buffer ELSE [buffer EXCEPT ![p] = Edited(@, text)]
      /\ Learned(p, checked, version, text, same)
  BY <1>0 DEF StructuralEdit
<1>2. lives[p] \in Nat /\ Living(buffer[p], lives[p])
  BY <1>1, AcceptedTold
<1>3. buffer' = [buffer EXCEPT ![p] = next]
  BY <1>1 DEF Inv
<1>4. /\ Living(next, lives[p]) /\ next.life = buffer[p].life
      /\ ~same => next.text = text /\ next.version = version
  BY <1>2, EditedLives
<1>5. version \in Nat /\ same \in BOOLEAN
  BY <1>2 DEF Living
<1>6. checked /\ ~same /\ text # None /\ memory[p].text = buffer[p].text =>
        text = next.text /\ version = next.version
  BY <1>4
<1>7. Accepted(p, checked) /\ UNCHANGED lives /\ Learned(p, checked, version, text, same)
  BY <1>1
<1> HIDE DEF text, same, next, version
<1> QED BY <1>3, <1>4, <1>5, <1>6, <1>7, EditTold

----------------------------------------------------------------------------
(* The user.                                                               *)
LEMMA OpenBufferTold ==
  ASSUME Inv, NEW p \in Paths, NEW text, OpenBuffer(p, text)
  PROVE  Inv'
<1> DEFINE life == lives[p] + 1
           b == Fresh(text, life)
<1>1. lives[p] \in Nat /\ Told(buffer[p], memory[p], lives[p])
  BY DEF Inv
<1>2. /\ lives' = [lives EXCEPT ![p] = life]
      /\ buffer' = [buffer EXCEPT ![p] = b]
      /\ memory' = memory
  BY DEF OpenBuffer, Inv
<1>3. Living(b, life) /\ \A m : Remembered(m, lives[p]) => Knows(m, b)
  BY <1>1, FreshLives
<1>4. life \in Nat /\ \A m : Remembered(m, lives[p]) => Remembered(m, life)
  BY <1>1 DEF Remembered
<1> HIDE DEF b, life
<1>5. Told(b, memory[p], life)
  BY <1>1, <1>3, <1>4 DEF Told
<1>6. lives' \in [Paths -> Nat]
  BY <1>2, <1>4 DEF Inv
<1>7. ASSUME NEW o \in Paths PROVE Told(buffer'[o], memory'[o], lives'[o])
  <2>1. CASE o = p
    BY <1>2, <1>5, <2>1 DEF Inv
  <2>2. CASE o # p
    BY <1>2, <2>2 DEF Inv
  <2> QED BY <2>1, <2>2
<1> QED BY <1>2, <1>6, <1>7 DEF Inv

(* Closing leaves nothing that anyone could be wrong about.                *)
LEMMA ClosedTold ==
  ASSUME Inv, NEW S, UNCHANGED <<lives, memory>>,
         buffer' = [p \in Paths |-> IF p \in S THEN None ELSE buffer[p]]
  PROVE  Inv'
<1>1. ASSUME NEW o \in Paths PROVE Told(buffer'[o], memory'[o], lives'[o])
  BY DEF Inv, Told
<1> QED BY <1>1 DEF Inv

LEMMA UserEditTold ==
  ASSUME Inv, NEW p \in Paths, NEW change, UserEdit(p, change)
  PROVE  Inv'
<1> DEFINE b == buffer[p]
           text == Changed(b.text, change)
           e == Edited(b, text)
<1>1. /\ b # None /\ UNCHANGED lives
      /\ buffer' = [buffer EXCEPT ![p] = e]
      /\ memory' = [memory EXCEPT ![p] = memory[p]]
  BY DEF UserEdit, IsOpen, Inv
<1>2. lives[p] \in Nat /\ Living(b, lives[p]) /\ Told(b, memory[p], lives[p])
  BY <1>1 DEF Inv, Told
<1> HIDE DEF text
<1>3. Living(e, lives[p]) /\ \A m : Knows(m, b) => Knows(m, e)
  BY <1>2, EditedLives
<1> HIDE DEF e
<1>4. Told(e, memory[p], lives[p])
  BY <1>1, <1>2, <1>3 DEF Told
<1> QED BY <1>1, <1>4, OnePath

LEMMA InitTold == Init => Inv
  BY DEF Init, Inv, Told

LEMMA StepTold == Inv /\ [Next]_vars => Inv'
<1> SUFFICES ASSUME Inv, [Next]_vars PROVE Inv'
  OBVIOUS
<1>1. ASSUME NEW p \in Paths, AgentStep(p) PROVE Inv'
  <2>1. CASE Learn(p)
    BY <2>1, LearnTold
  <2>2. ASSUME NEW checked \in BOOLEAN, NEW old \in Queries, NEW new \in Names,
               EditFile(p, old, new, checked)
        PROVE  Inv'
    BY <2>2, EditFileTold
  <2>3. ASSUME NEW checked \in BOOLEAN, NEW edits \in EditLists,
               ApplyEdits(p, edits, checked)
        PROVE  Inv'
    BY <2>3, ApplyEditsTold
  <2>4. ASSUME NEW checked \in BOOLEAN, NEW spot \in Spots, NEW type \in EditTypes,
               NEW name \in Names, StructuralEdit(p, spot, type, name, checked)
        PROVE  Inv'
    BY <2>4, StructuralEditTold
  <2> QED BY <1>1, <2>1, <2>2, <2>3, <2>4 DEF AgentStep, AgentEdit
<1>2. ASSUME NEW p \in Paths, UserStep(p) PROVE Inv'
  <2>1. ASSUME NEW text \in Contents, OpenBuffer(p, text) PROVE Inv'
    BY <2>1, OpenBufferTold
  <2>2. CASE CloseDocument(p)
    <3>1. /\ UNCHANGED <<lives, memory>>
          /\ buffer' = [o \in Paths |-> IF o \in {p} THEN None ELSE buffer[o]]
      BY <2>2 DEF CloseDocument, Inv
    <3> QED BY <3>1, ClosedTold
  <2>3. ASSUME NEW change \in Edits, UserEdit(p, change) PROVE Inv'
    BY <2>3, UserEditTold
  <2> QED BY <1>2, <2>1, <2>2, <2>3 DEF UserStep
<1>3. ASSUME NEW ps \in Batches, CloseBuffersBatch(ps) PROVE Inv'
  <2>1. /\ UNCHANGED <<lives, memory>>
        /\ buffer' = [o \in Paths |-> IF o \in Range(ps) THEN None ELSE buffer[o]]
    BY <1>3 DEF CloseBuffersBatch
  <2> QED BY <2>1, ClosedTold
<1>4. CASE UNCHANGED <<buffer, lives, memory>>
  BY <1>4 DEF Inv
<1>5. ASSUME NEW s \in Subscribers, Subscribe(s) \/ \E limit \in 1..2 : Poll(s, limit)
      PROVE  UNCHANGED <<buffer, lives, memory>>
  BY <1>5 DEF Subscribe, Poll
<1>6. CASE UNCHANGED vars
  BY <1>4, <1>6 DEF vars
<1> QED BY <1>1, <1>2, <1>3, <1>4, <1>5, <1>6 DEF Next

----------------------------------------------------------------------------
(* Whatever the agent keeps, of whatever version and however long ago, is  *)
(* kept rightly (registry.rs, apply_edit_optimistic).                      *)
THEOREM MemoryIsTrue == Spec => []Inv
<1>1. Init => Inv
  BY InitTold
<1>2. Inv /\ [Next]_vars => Inv'
  BY StepTold
<1> QED BY <1>1, <1>2, PTL DEF Spec

(* ... so what it knows of a version is what the lineage says of that      *)
(* version, as long as it says anything (text_buffer.rs,                   *)
(* get_snapshot_at_version).                                               *)
THEOREM BeliefsAreTrue == Spec => []BeliefsHold
<1>1. Inv => BeliefsHold
  <2> SUFFICES ASSUME Inv, NEW p \in Open, memory[p] # None,
                      memory[p].life = buffer[p].life, ~memory[p].misled,
                      ReplayBuffer(p, memory[p].version) # None
               PROVE  ReplayBuffer(p, memory[p].version).data = memory[p].text
    BY DEF BeliefsHold
  <2> DEFINE lineage == buffer[p].lineage
             m == memory[p]
  <2>1. /\ p \in Paths /\ lives[p] \in Nat /\ Living(buffer[p], lives[p])
        /\ Remembered(m, lives[p]) /\ Knows(m, buffer[p])
    BY DEF Open, IsOpen, Inv, Told
  <2>2. /\ m.version # 0
        /\ \A i \in 1..Len(lineage) : lineage[i].version = m.version => lineage[i].text = m.text
    BY <2>1 DEF Knows, Living
  <2>3. PICK i \in 1..Len(lineage) : /\ lineage[i].version = m.version
                                    /\ ReplayBuffer(p, m.version).data = lineage[i].text
    BY <2>1, <2>2, ReplayIsSnapshot
  <2> QED BY <2>2, <2>3
<1> QED BY <1>1, MemoryIsTrue, PTL

----------------------------------------------------------------------------
(* Subscribers.  Of the first n of the closes, queue is what waits for a   *)
(* subscriber that was there after the first from of them and has received *)
(* what it received: the last ones, and all of them if they were few.      *)
Waits(queue, received, from, closes, n) ==
  /\ Len(queue) <= n - from
  /\ \A k \in 1..Len(queue) : queue[k] = closes[n - Len(queue) + k]
  /\ n - from <= MaxQueue =>
       /\ Len(received) + Len(queue) = n - from
       /\ \A k \in 1..Len(received) : received[k] = closes[from + k]

Served(sub, closes) ==
  /\ sub \in Subscription /\ sub.from <= Len(closes)
  /\ Len(sub.queue) <= MaxQueue
  /\ Waits(sub.queue, sub.received, sub.from, closes, Len(closes))

EventsInv ==
  /\ closed \in Seq(Paths)
  /\ subscriptions = [s \in Subscribers |-> subscriptions[s]]
  /\ \A s \in Subscribers :
       subscriptions[s] # None => Served(subscriptions[s], closed)

(* One more close.                                                         *)
LEMMA EnqueuedWaits ==
  ASSUME NEW queue \in Seq(Paths), Len(queue) <= MaxQueue,
         NEW received \in Seq(Paths), NEW from \in Nat,
         NEW closes, NEW n \in Nat, Waits(queue, received, from, closes, n),
         NEW next \in Nat, next = n + 1, NEW event \in Paths, event = closes[next]
  PROVE  /\ Enqueued(queue, event) \in Seq(Paths)
         /\ Len(Enqueued(queue, event)) <= MaxQueue
         /\ Waits(Enqueued(queue, event), received, from, closes, next)
<1> DEFINE l == Len(queue)
           r == Len(received)
           longer == Append(queue, event)
           q == Enqueued(queue, event)
<1>1. l \in Nat /\ r \in Nat /\ MaxQueue \in Nat \ {0} /\ l <= MaxQueue
  BY AgentToolsAssumption, LenProperties DEF AgentToolsAssumption
<1>2. /\ l <= n - from
      /\ \A k \in 1..l : queue[k] = closes[n - l + k]
      /\ n - from <= MaxQueue => /\ r + l = n - from
                                /\ \A k \in 1..r : received[k] = closes[from + k]
  BY DEF Waits
<1>3. /\ longer \in Seq(Paths) /\ Len(longer) = l + 1
      /\ \A k \in 1..l : longer[k] = queue[k]
      /\ longer[l + 1] = event
  BY AppendProperties
<1> HIDE DEF longer, l, r
<1>4. ASSUME NEW k \in 1..(l + 1) PROVE longer[k] = closes[n - l + k]
  <2>1. CASE k \in 1..l
    BY <1>2, <1>3, <2>1
  <2>2. CASE k = l + 1
    <3>1. n - l + k = next
      BY <1>1, <2>2
    <3> QED BY <1>3, <2>2, <3>1
  <2> QED BY <1>1, <2>1, <2>2
<1>5. CASE l < MaxQueue
  <2>1. q = longer
    BY <1>5 DEF Enqueued, longer, l
  <2>2. ASSUME NEW k \in 1..Len(longer) PROVE longer[k] = closes[next - Len(longer) + k]
    <3>1. next - Len(longer) + k = n - l + k /\ k \in 1..(l + 1)
      BY <1>1, <1>3
    <3> QED BY <1>4, <3>1
  <2>3. Len(longer) <= next - from /\ Len(longer) <= MaxQueue
    BY <1>1, <1>2, <1>3, <1>5
  <2>4. next - from <= MaxQueue => r + Len(longer) = next - from
    BY <1>1, <1>2, <1>3
  <2>5. next - from <= MaxQueue => \A k \in 1..r : received[k] = closes[from + k]
    BY <1>1, <1>2
  <2>6. Waits(longer, received, from, closes, next)
    BY <2>2, <2>3, <2>4, <2>5 DEF Waits, r
  <2> QED BY <1>3, <2>1, <2>3, <2>6
<1>6. CASE ~(l < MaxQueue)
  <2> DEFINE rest == Tail(longer)
  <2>1. q = rest
    BY <1>6 DEF Enqueued, longer, l
  <2>2. longer # <<>>
    BY <1>1, <1>3, EmptySeq
  <2>3. /\ rest \in Seq(Paths) /\ Len(rest) = l
        /\ \A k \in 1..l : rest[k] = longer[k + 1]
    BY <1>1, <1>3, <2>2, HeadTailProperties
  <2> HIDE DEF rest
  <2>4. ASSUME NEW k \in 1..Len(rest) PROVE rest[k] = closes[next - Len(rest) + k]
    <3>1. k + 1 \in 1..(l + 1) /\ next - Len(rest) + k = n - l + (k + 1) /\ k \in 1..l
      BY <1>1, <2>3
    <3> QED BY <1>4, <2>3, <3>1
  <2>5. Len(rest) <= next - from /\ Len(rest) <= MaxQueue /\ ~(next - from <= MaxQueue)
    BY <1>1, <1>2, <1>6, <2>3
  <2>6. Waits(rest, received, from, closes, next)
    BY <2>4, <2>5 DEF Waits
  <2> QED BY <2>1, <2>3, <2>5, <2>6
<1> QED BY <1>5, <1>6

(* Any number of closes, one after the other.                              *)
LEMMA EnqueuedInTurn ==
  ASSUME NEW queue \in Seq(Paths), NEW ps \in Seq(Paths)
  PROVE  \E h \in [0..Len(ps) -> Seq(Paths)] :
           /\ h[0] = queue /\ AllEnqueued(queue, ps) = h[Len(ps)]
           /\ \A i \in 1..Len(ps) : h[i] = Enqueued(h[i - 1], ps[i])
<1> DEFINE n == Len(ps)
           D == 1..n
           A == Seq(Paths)
           F == [i \in D |-> [a \in A |-> Enqueued(a, ps[i])]]
           Eq(f) == f = [s \in SUBSET D |->
                           IF s = {} THEN queue
                           ELSE Enqueued(f[s \ {Max(s)}], ps[Max(s)])]
           it == CHOOSE f : Eq(f)
           h == [i \in 0..n |-> it[1..i]]
<1>1. n \in Nat /\ DOMAIN ps = D /\ \A i \in D : ps[i] \in Paths
  BY LenProperties, ElementOfSeq
<1> HIDE DEF n
<1>2. ASSUME NEW a \in A, NEW i \in D PROVE Enqueued(a, ps[i]) \in A
  <2>1. Append(a, ps[i]) \in A /\ Append(a, ps[i]) # <<>>
    BY <1>1, AppendProperties
  <2> QED BY <2>1, HeadTailProperties DEF Enqueued
<1>3. F \in [D -> [A -> A]] /\ queue \in A
  BY <1>2
<1>4. Chooses(Latest(n), D) /\ \A i \in D : Max(1..i) = i
  BY <1>1, LatestChooses
<1> HIDE DEF A, F
<1>5. PICK g \in [SUBSET D -> A] : Folds(g, SUBSET D, queue, F, Latest(n))
  BY <1>3, <1>4, FoldExists
<1>6. Eq(g)
  <2>1. ASSUME NEW s \in SUBSET D, s # {}
        PROVE  g[s] = Enqueued(g[s \ {Max(s)}], ps[Max(s)])
    <3>1. Max(s) \in D /\ Latest(n)[s] = Max(s)
      BY <1>4, <2>1 DEF Chooses, Latest
    <3>2. g[s] = F[Max(s)][g[s \ {Max(s)}]] /\ g[s \ {Max(s)}] \in A
      BY <1>5, <2>1, <3>1 DEF Folds
    <3> QED BY <3>1, <3>2 DEF F
  <2>2. g[{}] = queue
    BY <1>5 DEF Folds
  <2> QED BY <2>1, <2>2
<1>7. Eq(it)
  <2> HIDE DEF Eq
  <2> QED BY <1>6
<1>8. AllEnqueued(queue, ps) = it[D]
  BY <1>1 DEF AllEnqueued, FoldLeft, MapThenFoldSet
<1> HIDE DEF it
<1>9. it[{}] = queue /\ 1..0 = {}
  BY <1>7
<1>10. ASSUME NEW i \in D PROVE it[1..i] = Enqueued(it[1..(i - 1)], ps[i])
  <2>1. 1..i \in SUBSET D /\ 1..i # {} /\ Max(1..i) = i /\ (1..i) \ {i} = 1..(i - 1)
    BY <1>1, PrefixSets
  <2>2. it[1..i] = Enqueued(it[(1..i) \ {Max(1..i)}], ps[Max(1..i)])
    BY <1>7, <2>1
  <2> QED BY <2>1, <2>2
<1>11. h[0] = queue /\ \A i \in D : i - 1 \in 0..n /\ h[i] = Enqueued(h[i - 1], ps[i])
  BY <1>1, <1>9, <1>10
<1>12. h \in [0..n -> A]
  <2> DEFINE P == {i \in Nat : i <= n => h[i] \in A}
  <2>1. 0 \in P
    BY <1>3, <1>11 DEF A
  <2>2. ASSUME NEW i \in Nat, i \in P PROVE i + 1 \in P
    <3> SUFFICES ASSUME i + 1 <= n PROVE h[i + 1] \in A
      OBVIOUS
    <3>1. i + 1 \in D /\ (i + 1) - 1 = i /\ h[i] \in A
      BY <1>1, <2>2
    <3>2. h[i + 1] = Enqueued(h[i], ps[i + 1])
      BY <1>11, <3>1
    <3> QED BY <1>2, <3>1, <3>2 DEF A
  <2> HIDE DEF P, h
  <2>3. \A i \in Nat : i \in P
    BY <2>1, <2>2, SetNatInduction
  <2>4. \A i \in 0..n : h[i] \in A
    BY <1>1, <2>3 DEF P
  <2>5. h = [i \in 0..n |-> h[i]]
    BY DEF h
  <2> QED BY <2>4, <2>5
<1>13. AllEnqueued(queue, ps) = h[n]
  BY <1>1, <1>8
<1> QED BY <1>11, <1>12, <1>13 DEF n, A

(* A subscriber who was served is served after any closes that follow.     *)
LEMMA AllEnqueuedServes ==
  ASSUME NEW sub, NEW closes \in Seq(Paths), Served(sub, closes),
         NEW ps \in Seq(Paths),
         NEW new, new = [sub EXCEPT !.queue = AllEnqueued(sub.queue, ps)]
  PROVE  Served(new, closes \o ps)
<1> DEFINE n == Len(closes)
           m == Len(ps)
           all == closes \o ps
           from == sub.from
           received == sub.received
<1>1. /\ n \in Nat /\ m \in Nat /\ all \in Seq(Paths) /\ Len(all) = n + m
      /\ \A i \in 1..n : all[i] = closes[i]
      /\ \A i \in 1..m : all[n + i] = ps[i] /\ ps[i] \in Paths
  <2>1. \A i \in 1..(n + m) : all[i] = IF i <= n THEN closes[i] ELSE ps[i - n]
    BY ConcatProperties
  <2>2. n \in Nat /\ m \in Nat /\ all \in Seq(Paths) /\ Len(all) = n + m
    BY ConcatProperties, LenProperties
  <2>3. \A i \in 1..m : ps[i] \in Paths
    BY ElementOfSeq
  <2> HIDE DEF n, m, all
  <2>4. ASSUME NEW i \in 1..m PROVE all[n + i] = ps[i]
    <3>1. n + i \in 1..(n + m) /\ ~(n + i <= n) /\ (n + i) - n = i
      BY <2>2
    <3> QED BY <2>1, <3>1
  <2> QED BY <2>1, <2>2, <2>3, <2>4
<1>2. /\ sub \in Subscription /\ from \in Nat /\ from <= n /\ received \in Seq(Paths)
      /\ sub.queue \in Seq(Paths) /\ Len(sub.queue) <= MaxQueue
      /\ Waits(sub.queue, received, from, closes, n)
  BY DEF Served, Subscription
<1>3. PICK h \in [0..m -> Seq(Paths)] :
        /\ h[0] = sub.queue /\ AllEnqueued(sub.queue, ps) = h[m]
        /\ \A i \in 1..m : h[i] = Enqueued(h[i - 1], ps[i])
  BY <1>2, EnqueuedInTurn
<1> HIDE DEF n, m, all, from, received
<1> DEFINE P == {i \in Nat : i <= m => /\ Len(h[i]) <= MaxQueue
                                      /\ Waits(h[i], received, from, all, n + i)}
<1>4. 0 \in P
  <2> DEFINE q == sub.queue
  <2>1. Len(q) \in Nat /\ Len(received) \in Nat /\ MaxQueue \in Nat
    BY <1>2, LenProperties, AgentToolsAssumption DEF AgentToolsAssumption
  <2>2. /\ Len(q) <= n - from
        /\ \A k \in 1..Len(q) : q[k] = closes[n - Len(q) + k]
        /\ n - from <= MaxQueue =>
             /\ Len(received) + Len(q) = n - from
             /\ \A k \in 1..Len(received) : received[k] = closes[from + k]
    BY <1>2 DEF Waits
  <2> HIDE DEF q
  <2>3. ASSUME NEW k \in 1..Len(q) PROVE q[k] = all[n - Len(q) + k]
    <3>1. n - Len(q) + k \in 1..n
      BY <1>1, <1>2, <2>1, <2>2
    <3> QED BY <1>1, <2>2, <3>1
  <2>4. ASSUME n - from <= MaxQueue, NEW k \in 1..Len(received)
        PROVE  received[k] = all[from + k]
    <3>1. from + k \in 1..n
      <4> DEFINE r == Len(received)
                 w == Len(q)
      <4>1. r \in Nat /\ w \in Nat /\ n \in Nat /\ from \in Nat /\ k \in 1..r
        BY <1>1, <1>2, <2>1
      <4>2. r + w = n - from
        BY <2>2, <2>4
      <4> HIDE DEF r, w
      <4> QED BY <4>1, <4>2
    <3> QED BY <1>1, <2>2, <2>4, <3>1
  <2>5. Waits(q, received, from, all, n)
    BY <2>2, <2>3, <2>4 DEF Waits
  <2>6. n + 0 = n
    BY <1>1
  <2> QED BY <1>2, <1>3, <2>5, <2>6 DEF q
<1>5. ASSUME NEW i \in Nat, i \in P PROVE i + 1 \in P
  <2> SUFFICES ASSUME i + 1 <= m
               PROVE  /\ Len(h[i + 1]) <= MaxQueue
                      /\ Waits(h[i + 1], received, from, all, n + (i + 1))
    OBVIOUS
  <2> DEFINE at == n + i
             next == n + (i + 1)
             j == i + 1
  <2>1. j \in 1..m /\ j - 1 = i /\ i \in 0..m
    BY <1>1
  <2>2. h[j] = Enqueued(h[i], ps[j]) /\ h[i] \in Seq(Paths) /\ ps[j] \in Paths
    BY <1>1, <1>3, <2>1
  <2>3. Len(h[i]) <= MaxQueue /\ Waits(h[i], received, from, all, at)
    BY <1>1, <1>5, <2>1
  <2>4. at \in Nat /\ next \in Nat /\ next = at + 1 /\ all[next] = ps[j]
    BY <1>1, <2>1
  <2> HIDE DEF at, next, j
  <2>5. Len(h[j]) <= MaxQueue /\ Waits(h[j], received, from, all, next)
    <3> DEFINE hi == h[i]
               e == ps[j]
    <3>1. /\ hi \in Seq(Paths) /\ Len(hi) <= MaxQueue /\ e \in Paths /\ e = all[next]
          /\ received \in Seq(Paths) /\ from \in Nat
          /\ Waits(hi, received, from, all, at) /\ h[j] = Enqueued(hi, e)
      BY <1>2, <2>2, <2>3, <2>4
    <3> HIDE DEF hi, e
    <3>2. /\ Len(Enqueued(hi, e)) <= MaxQueue
          /\ Waits(Enqueued(hi, e), received, from, all, next)
      BY <2>4, <3>1, EnqueuedWaits
    <3> QED BY <3>1, <3>2
  <2> QED BY <2>5 DEF next, j
<1> HIDE DEF P
<1>6. \A i \in Nat : i \in P
  BY <1>4, <1>5, SetNatInduction
<1>7. Len(h[m]) <= MaxQueue /\ Waits(h[m], received, from, all, n + m)
  BY <1>1, <1>6 DEF P
<1>8. /\ new \in Subscription /\ new.queue = h[m] /\ new.received = received
      /\ new.from = from
  <2>1. h[m] \in Seq(Paths)
    BY <1>1, <1>3
  <2> QED BY <1>2, <1>3, <2>1 DEF Subscription, received, from
<1>9. from <= n + m
  BY <1>1, <1>2
<1>10. Served(new, all)
  BY <1>1, <1>7, <1>8, <1>9 DEF Served
<1> QED BY <1>10 DEF all

LEMMA PushEventsServes ==
  ASSUME EventsInv, NEW ps \in Seq(Paths), PushEvents(ps)
  PROVE  EventsInv'
<1>1. closed' = closed \o ps /\ closed' \in Seq(Paths)
  BY ConcatProperties DEF PushEvents, EventsInv
<1>2. subscriptions' = [s \in Subscribers |->
        IF subscriptions[s] = None THEN None
        ELSE [subscriptions[s] EXCEPT !.queue = AllEnqueued(subscriptions[s].queue, ps)]]
  BY DEF PushEvents
<1>3. ASSUME NEW s \in Subscribers, subscriptions'[s] # None
      PROVE  Served(subscriptions'[s], closed')
  <2> DEFINE new == [subscriptions[s] EXCEPT
                       !.queue = AllEnqueued(subscriptions[s].queue, ps)]
  <2>1. subscriptions[s] # None /\ subscriptions'[s] = new
    BY <1>2, <1>3
  <2>2. Served(subscriptions[s], closed) /\ closed \in Seq(Paths)
    BY <2>1 DEF EventsInv
  <2>3. Served(new, closed \o ps)
    BY <2>2, AllEnqueuedServes
  <2> QED BY <1>1, <2>1, <2>3
<1>4. subscriptions' = [s \in Subscribers |-> subscriptions'[s]]
  BY <1>2
<1> QED BY <1>1, <1>3, <1>4 DEF EventsInv

(* Those told of are documents.                                            *)
LEMMA ClosesArePaths ==
  ASSUME NEW ps \in Seq(Paths)
  PROVE  ClosesOf(ps) \in Seq(Paths)
<1> DEFINE n == Len(ps)
           D == 1..n
           A == Seq(Paths)
           Closing(es, p) == IF IsOpen(p) /\ p \notin Range(es) THEN Append(es, p) ELSE es
           F == [i \in D |-> [a \in A |-> Closing(a, ps[i])]]
           Eq(f) == f = [s \in SUBSET D |->
                           IF s = {} THEN <<>>
                           ELSE Closing(f[s \ {Max(s)}], ps[Max(s)])]
           it == CHOOSE f : Eq(f)
<1>1. n \in Nat /\ DOMAIN ps = D /\ \A i \in D : ps[i] \in Paths
  BY LenProperties, ElementOfSeq
<1>2. ClosesOf(ps) = it[D]
  BY <1>1 DEF ClosesOf, FoldLeft, MapThenFoldSet
<1> HIDE DEF n
<1>3. ASSUME NEW a \in A, NEW i \in D PROVE Closing(a, ps[i]) \in A
  BY <1>1, AppendProperties
<1> HIDE DEF Closing
<1>4. F \in [D -> [A -> A]] /\ <<>> \in A
  BY <1>3
<1>5. Chooses(Latest(n), D)
  BY <1>1, LatestChooses
<1> HIDE DEF A, F
<1>6. PICK g \in [SUBSET D -> A] : Folds(g, SUBSET D, <<>>, F, Latest(n))
  BY <1>4, <1>5, FoldExists
<1>7. Eq(g)
  <2>1. ASSUME NEW s \in SUBSET D, s # {}
        PROVE  g[s] = Closing(g[s \ {Max(s)}], ps[Max(s)])
    <3>1. Max(s) \in D /\ Latest(n)[s] = Max(s)
      BY <1>5, <2>1 DEF Chooses, Latest
    <3>2. g[s] = F[Max(s)][g[s \ {Max(s)}]] /\ g[s \ {Max(s)}] \in A
      BY <1>6, <2>1, <3>1 DEF Folds
    <3> QED BY <3>1, <3>2 DEF F
  <2>2. g[{}] = <<>>
    BY <1>6 DEF Folds
  <2> QED BY <2>1, <2>2
<1>8. Eq(it)
  <2> HIDE DEF Eq
  <2> QED BY <1>7
<1> HIDE DEF it
<1>9. it[{}] = <<>>
  BY <1>8
<1> DEFINE P == {i \in Nat : i <= n => it[1..i] \in A}
<1>10. 0 \in P
  BY <1>4, <1>9, PrefixSets
<1>11. ASSUME NEW i \in Nat, i \in P PROVE i + 1 \in P
  <2> SUFFICES ASSUME i + 1 <= n PROVE it[1..(i + 1)] \in A
    OBVIOUS
  <2> DEFINE j == i + 1
  <2>1. j \in D /\ j - 1 = i /\ it[1..i] \in A
    BY <1>1, <1>11
  <2> HIDE DEF j
  <2>2. 1..j \in SUBSET D /\ 1..j # {} /\ Max(1..j) = j /\ (1..j) \ {j} = 1..(j - 1)
    BY <1>1, <2>1, PrefixSets
  <2>3. it[1..j] = Closing(it[(1..j) \ {Max(1..j)}], ps[Max(1..j)])
    BY <1>8, <2>2
  <2>4. it[1..j] = Closing(it[1..i], ps[j])
    BY <2>1, <2>2, <2>3
  <2> QED BY <1>3, <2>1, <2>4 DEF j
<1> HIDE DEF P
<1>12. \A i \in Nat : i \in P
  BY <1>10, <1>11, SetNatInduction
<1> QED BY <1>1, <1>2, <1>12 DEF P, A

LEMMA PollServes ==
  ASSUME EventsInv, NEW s \in Subscribers, NEW limit \in Nat, Poll(s, limit)
  PROVE  EventsInv'
<1> DEFINE sub == subscriptions[s]
           q == sub.queue
           r == sub.received
           l == Len(q)
           count == Min({limit, l})
           one == 1
           first == count + 1
           rest == SubSeq(q, first, l)
           head == SubSeq(q, one, count)
           got == r \o head
           n == Len(closed)
           from == sub.from
<1>1. /\ sub # None /\ sub \in Subscription /\ from \in Nat /\ from <= n
      /\ q \in Seq(Paths) /\ r \in Seq(Paths) /\ l <= MaxQueue
      /\ Waits(q, r, from, closed, n) /\ closed \in Seq(Paths)
  BY DEF Poll, EventsInv, Served, Subscription
<1>2. l \in Nat /\ n \in Nat /\ Len(r) \in Nat /\ MaxQueue \in Nat
  BY <1>1, LenProperties, AgentToolsAssumption DEF AgentToolsAssumption
<1>3. count \in Nat /\ count <= l
  <2> DEFINE T == {limit, l}
  <2>1. T \subseteq Nat /\ T # {} /\ l \in T
    BY <1>2
  <2> HIDE DEF T, l
  <2>2. Min(T) \in T /\ \A y \in T : Min(T) <= y
    BY <2>1, MinIsLeast
  <2> QED BY <2>1, <2>2 DEF T
<1>4. /\ closed' = closed
      /\ subscriptions' = [subscriptions EXCEPT ![s].queue = rest, ![s].received = got]
  BY DEF Poll
<1> HIDE DEF count, q, r, l, n, from
<1>5. rest \in Seq(Paths) /\ Len(rest) = l - count
      /\ \A i \in 1..(l - count) : rest[i] = q[count + i]
  <2>1. first = count + 1 /\ l <= Len(q)
    BY <1>2 DEF l
  <2> HIDE DEF first
  <2> QED BY <1>1, <1>2, <1>3, <2>1, PartShape
<1>6. /\ head \in Seq(Paths) /\ Len(head) = count
      /\ \A i \in 1..count : head[i] = q[i]
  <2> DEFINE zero == 0
  <2>1. /\ one = zero + 1 /\ count <= Len(q) /\ zero <= count /\ zero \in Nat
        /\ count - zero = count /\ \A i \in 1..count : zero + i = i
    BY <1>3 DEF l
  <2> HIDE DEF one, zero
  <2>2. /\ head \in Seq(Paths) /\ Len(head) = count - zero
        /\ \A i \in 1..(count - zero) : head[i] = q[zero + i]
    BY <1>1, <1>3, <2>1, PartShape
  <2> QED BY <2>1, <2>2
<1> HIDE DEF rest, head
<1>7. /\ got \in Seq(Paths) /\ Len(got) = Len(r) + count
      /\ \A i \in 1..(Len(r) + count) :
           got[i] = IF i <= Len(r) THEN r[i] ELSE head[i - Len(r)]
  BY <1>1, <1>6, ConcatProperties
<1> HIDE DEF got
<1>8. /\ l <= n - from
      /\ \A k \in 1..l : q[k] = closed[n - l + k]
      /\ n - from <= MaxQueue => /\ Len(r) + l = n - from
                                /\ \A k \in 1..Len(r) : r[k] = closed[from + k]
  BY <1>1 DEF Waits, l
<1>9. ASSUME NEW k \in 1..Len(rest) PROVE rest[k] = closed[n - Len(rest) + k]
  <2>1. k \in 1..(l - count) /\ count + k \in 1..l
    BY <1>2, <1>3, <1>5
  <2>2. rest[k] = q[count + k] /\ q[count + k] = closed[n - l + (count + k)]
    BY <1>5, <1>8, <2>1
  <2>3. n - l + (count + k) = n - Len(rest) + k
    BY <1>2, <1>3, <1>5
  <2> QED BY <2>2, <2>3
<1>10. ASSUME n - from <= MaxQueue
       PROVE  /\ Len(got) + Len(rest) = n - from
              /\ \A k \in 1..Len(got) : got[k] = closed[from + k]
  <2>1. Len(r) + l = n - from /\ \A k \in 1..Len(r) : r[k] = closed[from + k]
    BY <1>8, <1>10
  <2>2. Len(got) + Len(rest) = n - from
    <3>1. Len(got) = Len(r) + count /\ Len(rest) = l - count
      BY <1>5, <1>7
    <3>2. Len(r) \in Int /\ count \in Int /\ l \in Int /\ Len(r) + l = n - from
      BY <1>2, <1>3, <2>1
    <3>3. (Len(r) + count) + (l - count) = Len(r) + l
      BY <3>2
    <3> QED BY <3>1, <3>2, <3>3
  <2>3. ASSUME NEW k \in 1..Len(got) PROVE got[k] = closed[from + k]
    <3>1. CASE k <= Len(r)
      BY <1>2, <1>3, <1>7, <2>1, <3>1
    <3>2. CASE ~(k <= Len(r))
      <4> DEFINE i == k - Len(r)
      <4>1. i \in 1..count /\ i \in 1..l /\ n - l + i = from + k /\ k \in 1..(Len(r) + count)
        <5>1. k \in 1..(Len(r) + count) /\ Len(r) + l = n - from
          BY <1>7, <2>1
        <5>2. Len(r) \in Nat /\ count \in Nat /\ count <= l /\ l \in Nat /\ n \in Nat
          BY <1>2, <1>3
        <5>3. from \in Nat
          BY <1>1
        <5> QED BY <3>2, <5>1, <5>2, <5>3
      <4>2. got[k] = head[i]
        BY <1>7, <3>2, <4>1
      <4> HIDE DEF i
      <4>3. head[i] = q[i] /\ q[i] = closed[n - l + i]
        BY <1>6, <1>8, <4>1
      <4> QED BY <4>1, <4>2, <4>3
    <3> QED BY <3>1, <3>2
  <2> QED BY <2>2, <2>3
<1>11. Waits(rest, got, from, closed, n) /\ Len(rest) <= MaxQueue
  <2>1. Len(rest) <= n - from /\ Len(rest) <= MaxQueue
    BY <1>1, <1>2, <1>3, <1>5, <1>8
  <2> QED BY <1>9, <1>10, <2>1 DEF Waits
<1>12. subscriptions = [t \in Subscribers |-> subscriptions[t]]
  BY DEF EventsInv
<1>13. /\ subscriptions' = [t \in Subscribers |-> subscriptions'[t]]
       /\ \A t \in Subscribers : t # s => subscriptions'[t] = subscriptions[t]
       /\ subscriptions'[s] = [sub EXCEPT !.queue = rest, !.received = got]
  BY <1>4, <1>12
<1>14. Served(subscriptions'[s], closed')
  <2> DEFINE new == subscriptions'[s]
  <2>1. /\ new \in Subscription /\ new.queue = rest /\ new.received = got
        /\ new.from = from
    BY <1>1, <1>5, <1>7, <1>13 DEF Subscription, from
  <2> QED BY <1>1, <1>4, <1>11, <2>1 DEF Served, n
<1> QED BY <1>1, <1>4, <1>13, <1>14 DEF EventsInv

LEMMA SubscribeServes ==
  ASSUME EventsInv, NEW s \in Subscribers, Subscribe(s)
  PROVE  EventsInv'
<1> DEFINE n == Len(closed)
           new == [queue |-> <<>>, received |-> <<>>, from |-> n]
<1>1. closed \in Seq(Paths) /\ n \in Nat /\ MaxQueue \in Nat /\ closed' = closed
  BY LenProperties, AgentToolsAssumption DEF EventsInv, AgentToolsAssumption, Subscribe
<1> HIDE DEF n
<1>2. <<>> \in Seq(Paths) /\ Len(<<>>) = 0
  BY EmptySeq
<1>3. Waits(<<>>, <<>>, n, closed, n)
  BY <1>1, <1>2 DEF Waits
<1>4. Served(new, closed)
  <2>1. /\ new \in Subscription /\ new.queue = <<>> /\ new.received = <<>>
        /\ new.from = n
    BY <1>1, <1>2 DEF Subscription
  <2> QED BY <1>1, <1>2, <1>3, <2>1 DEF Served, n
<1>5. subscriptions' = [subscriptions EXCEPT ![s] = new]
  BY DEF Subscribe, n
<1> HIDE DEF new
<1> QED BY <1>1, <1>4, <1>5 DEF EventsInv

LEMMA EventsInit == Init => EventsInv
<1>1. <<>> \in Seq(Paths)
  BY EmptySeq
<1> QED BY <1>1 DEF Init, EventsInv

LEMMA EventsStep == EventsInv /\ [Next]_vars => EventsInv'
<1> SUFFICES ASSUME EventsInv, [Next]_vars PROVE EventsInv'
  OBVIOUS
<1>1. ASSUME UNCHANGED events PROVE EventsInv'
  BY <1>1 DEF EventsInv, events
<1>2. ASSUME NEW p \in Paths, AgentStep(p) PROVE EventsInv'
  <2>1. UNCHANGED events
    <3>1. CASE Learn(p)
      BY <3>1 DEF Learn
    <3>2. ASSUME NEW checked \in BOOLEAN, AgentEdit(p, checked) PROVE UNCHANGED events
      BY <3>2 DEF AgentEdit, EditFile, ApplyEdits, StructuralEdit
    <3> QED BY <1>2, <3>1, <3>2 DEF AgentStep
  <2> QED BY <1>1, <2>1
<1>3. ASSUME NEW p \in Paths, UserStep(p) PROVE EventsInv'
  <2>1. CASE CloseDocument(p)
    <3>1. <<p>> \in Seq(Paths) /\ PushEvents(<<p>>)
      BY <2>1 DEF CloseDocument
    <3> QED BY <3>1, PushEventsServes
  <2>2. ASSUME NEW text \in Contents, OpenBuffer(p, text) PROVE EventsInv'
    BY <1>1, <2>2 DEF OpenBuffer
  <2>3. ASSUME NEW change \in Edits, UserEdit(p, change) PROVE EventsInv'
    BY <1>1, <2>3 DEF UserEdit
  <2> QED BY <1>3, <2>1, <2>2, <2>3 DEF UserStep
<1>4. ASSUME NEW ps \in Batches, CloseBuffersBatch(ps) PROVE EventsInv'
  <2>1. ps \in Seq(Paths)
    <3>1. ASSUME NEW p \in Paths, ps = <<p>> PROVE ps \in Seq(Paths)
      BY <3>1
    <3>2. ASSUME NEW p \in Paths, NEW q \in Paths, ps = <<p, q>> PROVE ps \in Seq(Paths)
      BY <3>2
    <3> QED BY <3>1, <3>2 DEF Batches
  <2>2. ClosesOf(ps) \in Seq(Paths) /\ PushEvents(ClosesOf(ps))
    BY <1>4, <2>1, ClosesArePaths DEF CloseBuffersBatch
  <2> QED BY <2>2, PushEventsServes
<1>5. ASSUME NEW s \in Subscribers, Subscribe(s) PROVE EventsInv'
  BY <1>5, SubscribeServes
<1>6. ASSUME NEW s \in Subscribers, NEW limit \in 1..2, Poll(s, limit)
      PROVE  EventsInv'
  <2>1. limit \in Nat
    OBVIOUS
  <2> QED BY <1>6, <2>1, PollServes
<1>7. CASE UNCHANGED vars
  <2>1. UNCHANGED events
    BY <1>7 DEF vars, events
  <2> QED BY <1>1, <2>1
<1> QED BY <1>2, <1>3, <1>4, <1>5, <1>6, <1>7 DEF Next

(* One sequence ends another if it is the same read backwards.             *)
LEMMA SuffixBackwards ==
  ASSUME NEW S, NEW s \in Seq(S), NEW t \in Seq(S), Len(s) <= Len(t),
         \A i \in 1..Len(s) : s[(Len(s) - i) + 1] = t[(Len(t) - i) + 1]
  PROVE  IsSuffix(s, t)
<1> DEFINE l == Len(s)
           n == Len(t)
           b == Reverse(s)
           c == Reverse(t)
           one == 1
           zero == 0
<1>1. l \in Nat /\ n \in Nat /\ (\A i \in 1..l : s[i] \in S) /\ (\A i \in 1..n : t[i] \in S)
  BY LenProperties, ElementOfSeq
<1>2. b = [i \in 1..l |-> s[(l - i) + 1]] /\ c = [i \in 1..n |-> t[(n - i) + 1]]
  BY DEF Reverse
<1> HIDE DEF l, n, b, c
<1>3. b \in Seq(S) /\ Len(b) = l /\ \A i \in 1..l : b[i] = s[(l - i) + 1]
  BY <1>1, <1>2
<1>4. c \in Seq(S) /\ Len(c) = n /\ \A i \in 1..n : c[i] = t[(n - i) + 1]
  BY <1>1, <1>2
<1>5. l <= n /\ \A i \in 1..l : b[i] = c[i]
  <2>1. l <= n /\ \A i \in 1..l : s[(l - i) + 1] = t[(n - i) + 1]
    BY DEF l, n
  <2>2. \A i \in 1..l : i \in 1..n
    BY <1>1, <2>1
  <2> QED BY <1>3, <1>4, <2>1, <2>2
<1>6. /\ one = zero + 1 /\ zero \in Nat /\ zero <= l /\ l - zero = l
      /\ \A i \in 1..l : zero + i = i
  BY <1>1
<1> HIDE DEF one, zero
<1>7. /\ SubSeq(b, one, l) \in Seq(S) /\ Len(SubSeq(b, one, l)) = l - zero
      /\ \A i \in 1..(l - zero) : SubSeq(b, one, l)[i] = b[zero + i]
  <2>1. l <= Len(b)
    BY <1>1, <1>3
  <2> QED BY <1>1, <1>3, <1>6, <2>1, PartShape
<1>8. /\ SubSeq(c, one, l) \in Seq(S) /\ Len(SubSeq(c, one, l)) = l - zero
      /\ \A i \in 1..(l - zero) : SubSeq(c, one, l)[i] = c[zero + i]
  <2>1. l <= Len(c)
    BY <1>1, <1>4, <1>5
  <2> QED BY <1>1, <1>4, <1>6, <2>1, PartShape
<1> DEFINE x == SubSeq(b, one, l)
           y == SubSeq(c, one, l)
<1> HIDE DEF x, y
<1>9. /\ x \in Seq(S) /\ y \in Seq(S) /\ Len(x) = l /\ Len(y) = l
      /\ \A i \in 1..l : x[i] = y[i]
  BY <1>5, <1>6, <1>7, <1>8 DEF x, y
<1>10. x = y
  BY <1>9, SeqEqual
<1> QED BY <1>3, <1>4, <1>5, <1>10 DEF IsSuffix, IsPrefix, b, c, x, y, one

(* What waits for a subscriber are the latest closes since it came, and    *)
(* what it received and what waits are all of them, in order, if they      *)
(* never were more than its queue holds (registry.rs, push_event and       *)
(* poll_events).                                                           *)
THEOREM QueuesAreRecent == Spec => []QueueIsRecent
<1>1. EventsInv => QueueIsRecent
  <2> SUFFICES ASSUME EventsInv, NEW s \in Subscribers, subscriptions[s] # None
               PROVE  LET sub   == subscriptions[s]
                          since == SubSeq(closed, sub.from + 1, Len(closed))
                      IN  /\ IsSuffix(sub.queue, since)
                          /\ Len(since) <= MaxQueue => sub.received \o sub.queue = since
    BY DEF QueueIsRecent
  <2> DEFINE q == subscriptions[s].queue
             r == subscriptions[s].received
             from == subscriptions[s].from
             n == Len(closed)
             l == Len(q)
             first == from + 1
             since == SubSeq(closed, first, n)
             size == Len(since)
  <2>1. /\ from \in Nat /\ from <= n /\ q \in Seq(Paths) /\ r \in Seq(Paths)
        /\ Waits(q, r, from, closed, n) /\ closed \in Seq(Paths)
    BY DEF EventsInv, Served, Subscription
  <2>2. l \in Nat /\ n \in Nat /\ Len(r) \in Nat
    BY <2>1, LenProperties
  <2>3. /\ l <= n - from
        /\ \A k \in 1..l : q[k] = closed[n - l + k]
        /\ n - from <= MaxQueue => /\ Len(r) + l = n - from
                                  /\ \A k \in 1..Len(r) : r[k] = closed[from + k]
    BY <2>1 DEF Waits
  <2>4. n <= Len(closed) /\ first = from + 1
    BY <2>2
  <2> HIDE DEF q, r, from, n, l, first
  <2>5. /\ since \in Seq(Paths) /\ size = n - from
        /\ \A i \in 1..(n - from) : since[i] = closed[from + i]
    BY <2>1, <2>2, <2>4, PartShape
  <2> HIDE DEF since, size
  <2>6. IsSuffix(q, since)
    <3>1. \A i \in 1..l : /\ (l - i) + 1 \in 1..l /\ (size - i) + 1 \in 1..size
                          /\ n - l + ((l - i) + 1) = from + ((size - i) + 1)
      BY <2>1, <2>2, <2>3, <2>5
    <3>2. ASSUME NEW i \in 1..l PROVE q[(l - i) + 1] = since[(size - i) + 1]
      BY <2>3, <2>5, <3>1
    <3> QED BY <2>1, <2>2, <2>3, <2>5, <3>2, SuffixBackwards DEF l, size
  <2>7. ASSUME size <= MaxQueue PROVE r \o q = since
    <3>1. Len(r) + l = size /\ \A k \in 1..Len(r) : r[k] = closed[from + k]
      BY <2>3, <2>5, <2>7
    <3> DEFINE all == r \o q
    <3>2. /\ all \in Seq(Paths) /\ Len(all) = Len(r) + l
          /\ \A i \in 1..(Len(r) + l) : all[i] = IF i <= Len(r) THEN r[i] ELSE q[i - Len(r)]
      BY <2>1, ConcatProperties DEF l
    <3> HIDE DEF all
    <3>3. ASSUME NEW i \in 1..Len(all) PROVE all[i] = since[i]
      <4>1. since[i] = closed[from + i] /\ i \in 1..(Len(r) + l)
        BY <2>1, <2>2, <2>5, <3>1, <3>2
      <4>2. CASE i <= Len(r)
        BY <2>2, <3>1, <3>2, <4>1, <4>2
      <4>3. CASE ~(i <= Len(r))
        <5> DEFINE k == i - Len(r)
        <5>1. k \in 1..l /\ n - l + k = from + i
          <6>1. Len(r) + l = n - from /\ i \in 1..(Len(r) + l) /\ ~(i <= Len(r))
            BY <2>5, <3>1, <4>1, <4>3
          <6>2. Len(r) \in Nat /\ l \in Nat /\ n \in Nat /\ from \in Nat
            BY <2>1, <2>2
          <6> QED BY <6>1, <6>2
        <5>2. all[i] = q[k]
          BY <3>2, <4>1, <4>3
        <5> HIDE DEF k
        <5> QED BY <2>3, <4>1, <5>1, <5>2
      <4> QED BY <4>2, <4>3
    <3>4. Len(all) = Len(since)
      BY <3>1, <3>2 DEF size
    <3>5. all = since
      BY <2>5, <3>2, <3>3, <3>4, SeqEqual
    <3> QED BY <3>5 DEF all
  <2> QED BY <2>6, <2>7 DEF q, r, from, n, first, since, size
<1> QED BY <1>1, EventsInit, EventsStep, PTL DEF Spec

----------------------------------------------------------------------------
(* Texts of characters of one byte and one UTF-16 unit, which is what the  *)
(* tools take texts to be made of.  Widths are then numbers of characters. *)
OneByte == \A c \in Chars : Utf8Len[c] = 1
OneUnit == \A c \in Chars : Utf16Len[c] = 1

LEMMA Counted ==
  ASSUME NEW w, \A c \in Chars : w[c] = 1, NEW t \in Text
  PROVE  Len(t) \in Nat /\ \A i \in 0..Len(t) : Boundaries(w, t)[i] = i
<1> DEFINE n == Len(t)
           Sums(f) == f = [i \in 0..n |-> IF i = 0 THEN 0 ELSE f[i - 1] + w[t[i]]]
           id == [i \in 0..n |-> i]
           sum == CHOOSE f : Sums(f)
           P == {i \in Nat : i <= n => sum[i] = i}
<1>1. n \in Nat /\ \A i \in 1..n : w[t[i]] = 1
  BY LenProperties, ElementOfSeq DEF Text
<1>2. Boundaries(w, t) = sum
  BY DEF Boundaries
<1> HIDE DEF n
<1>3. Sums(id)
  <2>1. ASSUME NEW i \in 0..n, i # 0 PROVE id[i] = id[i - 1] + w[t[i]]
    <3>1. i \in 1..n /\ i - 1 \in 0..n
      BY <1>1, <2>1
    <3> QED BY <1>1, <3>1
  <2> QED BY <2>1
<1>4. Sums(sum)
  <2> HIDE DEF Sums
  <2> QED BY <1>3
<1> HIDE DEF sum
<1>5. sum[0] = 0 /\ \A i \in 1..n : sum[i] = sum[i - 1] + 1
  <2>1. 0 \in 0..n /\ \A i \in 1..n : i \in 0..n /\ i # 0
    BY <1>1
  <2> QED BY <1>1, <1>4, <2>1
<1>6. 0 \in P
  BY <1>5
<1>7. ASSUME NEW i \in Nat, i \in P PROVE i + 1 \in P
  <2> SUFFICES ASSUME i + 1 <= n PROVE sum[i + 1] = i + 1
    OBVIOUS
  <2>1. i + 1 \in 1..n /\ (i + 1) - 1 = i /\ sum[i] = i
    BY <1>1, <1>7
  <2> QED BY <1>5, <2>1
<1> HIDE DEF P
<1>8. \A i \in Nat : i \in P
  BY <1>6, <1>7, SetNatInduction
<1>9. \A i \in 0..n : sum[i] = i
  BY <1>1, <1>8 DEF P
<1> QED BY <1>1, <1>2, <1>9 DEF n

LEMMA BytesAreChars ==
  ASSUME OneByte, NEW t \in Text
  PROVE  /\ Len(t) \in Nat /\ ByteLen(t) = Len(t)
         /\ \A i \in 0..Len(t) : Boundaries(Utf8Len, t)[i] = i
<1>1. Len(t) \in Nat /\ \A i \in 0..Len(t) : Boundaries(Utf8Len, t)[i] = i
  BY Counted DEF OneByte
<1>2. Len(t) \in 0..Len(t)
  BY <1>1
<1> QED BY <1>1, <1>2 DEF ByteLen

LEMMA UnitsAreChars ==
  ASSUME OneUnit, NEW t \in Text
  PROVE  \A i \in 0..Len(t) : Boundaries(Utf16Len, t)[i] = i
BY Counted DEF OneUnit

(* The scan for line starts, character by character.                       *)
Scans(h, t) ==
  /\ h[0] = <<0>>
  /\ \A i \in 1..Len(t) :
       h[i] = IF t[i] = Newline THEN Append(h[i - 1], i) ELSE h[i - 1]

LEMMA LineStartsScan ==
  ASSUME OneByte, NEW t \in Text
  PROVE  \E h \in [0..Len(t) -> Seq(Nat)] : Scans(h, t) /\ LineStarts(t) = h[Len(t)]
<1> DEFINE n == Len(t)
           A == Seq(Nat)
           at == Boundaries(Utf8Len, t)
           Scan(starts, i) == IF t[i] = Newline THEN Append(starts, i) ELSE starts
           base == <<0>>
           F == [i \in 1..n |-> [a \in A |-> Scan(a, i)]]
           Eq(f) == f = [i \in 0..n |->
                           IF i = 0 THEN <<0>>
                           ELSE IF t[i] = Newline THEN Append(f[i - 1], at[i]) ELSE f[i - 1]]
           scan == CHOOSE f : Eq(f)
<1>1. n \in Nat /\ 0 \in 0..n /\ n \in 0..n /\ \A i \in 1..n : i \in 0..n /\ i # 0
  BY LenProperties DEF Text
<1>2. LineStarts(t) = scan[n]
  BY DEF LineStarts
<1>3. \A i \in 0..n : at[i] = i
  BY BytesAreChars
<1> HIDE DEF n, at
<1>4. ASSUME NEW a \in A, NEW i \in 1..n PROVE Scan(a, i) \in A
  <2>1. i \in Nat
    OBVIOUS
  <2> QED BY <2>1, AppendProperties
<1>5. F \in [1..n -> [A -> A]] /\ base \in A
  BY <1>4
<1> HIDE DEF A, F, Scan, base
<1>6. PICK h \in [0..n -> A] : StepByStep(h, n, base, F)
  BY <1>1, <1>5, RecursionSteps
<1>7. ASSUME NEW i \in 1..n PROVE h[i] = Scan(h[i - 1], i)
  <2>1. h[i - 1] \in A
    BY <1>1
  <2> QED BY <1>6, <2>1 DEF F, StepByStep
<1>8. Eq(h)
  <2>1. \A i \in 0..n : i = 0 \/ i \in 1..n
    BY <1>1
  <2>2. h = [i \in 0..n |-> h[i]]
    OBVIOUS
  <2>3. \A i \in 0..n : h[i] = IF i = 0 THEN base ELSE Scan(h[i - 1], i)
    BY <1>6, <1>7, <2>1 DEF StepByStep
  <2> QED BY <1>3, <2>2, <2>3 DEF Scan, base
<1>9. Eq(scan)
  <2> HIDE DEF Eq
  <2> QED BY <1>8
<1> HIDE DEF scan
<1>10. Unrolls(scan, n, A, base, F)
  <2>1. scan = [i \in 0..n |-> IF i = 0 THEN base ELSE Scan(scan[i - 1], i)]
    BY <1>3, <1>9 DEF Scan, base
  <2> HIDE DEF Eq
  <2>2. scan[0] = base /\ \A i \in 1..n : scan[i] = Scan(scan[i - 1], i)
    BY <1>1, <2>1
  <2> QED BY <2>2 DEF Unrolls, F
<1> HIDE DEF Eq
<1>11. scan[n] = h[n]
  BY <1>1, <1>5, <1>6, <1>10, RecursionIs
<1>12. Scans(h, t)
  BY <1>6, <1>7 DEF Scans, Scan, StepByStep, n, base
<1> QED BY <1>2, <1>6, <1>11, <1>12 DEF n, A

(* The line an offset lies on, and where that line starts.                 *)
LineOf(t, offset)  == Cardinality(Newlines(t, offset)) + 1
StartOf(t, offset) == Max(Newlines(t, offset) \union {0})

LEMMA NewlinesAre ==
  ASSUME NEW t \in Text, NEW o \in Nat
  PROVE  /\ IsFiniteSet(Newlines(t, o)) /\ Newlines(t, o) \subseteq 1..o
         /\ LineOf(t, o) \in Nat \ {0} /\ StartOf(t, o) \in 0..o
<1>1. Newlines(t, o) \subseteq 1..o
  BY DEF Newlines
<1>2. IsFiniteSet(Newlines(t, o)) /\ Cardinality(Newlines(t, o)) \in Nat
  <2>1. IsFiniteSet(1..o)
    BY FS_Interval
  <2> QED BY <1>1, <2>1, FS_Subset, FS_CardinalityType
<1>3. LineOf(t, o) \in Nat \ {0}
  BY <1>2 DEF LineOf
<1>4. StartOf(t, o) \in 0..o
  <2> DEFINE T == Newlines(t, o) \union {0}
  <2>1. T \in SUBSET (0..o) /\ T # {}
    BY <1>1
  <2> HIDE DEF T
  <2>2. Max(T) \in T
    BY <2>1, MaxFromZero
  <2> QED BY <2>1, <2>2 DEF StartOf, T
<1> QED BY <1>1, <1>2, <1>3, <1>4

LEMMA NewlinesGoOn ==
  ASSUME NEW t \in Text, NEW j \in Nat, NEW i, i = j + 1
  PROVE  /\ t[i] = Newline => LineOf(t, i) = LineOf(t, j) + 1 /\ StartOf(t, i) = i
         /\ t[i] # Newline => LineOf(t, i) = LineOf(t, j) /\ StartOf(t, i) = StartOf(t, j)
<1> DEFINE before == Newlines(t, j)
           ends == Newlines(t, i)
<1>1. i \in Nat /\ IsFiniteSet(before) /\ before \subseteq 1..j
  BY NewlinesAre
<1>2. ends = IF t[i] = Newline THEN before \union {i} ELSE before
  <2>1. \A k : k \in 1..i <=> k \in 1..j \/ k = i
    BY <1>1
  <2> QED BY <2>1 DEF Newlines
<1>3. CASE t[i] = Newline
  <2>1. i \notin before
    BY <1>1
  <2>2. Cardinality(ends) = Cardinality(before) + 1
    BY <1>1, <1>2, <1>3, <2>1, FS_AddElement
  <2> DEFINE T == ends \union {0}
  <2>3. T \in SUBSET (0..i) /\ T # {} /\ i \in T
    BY <1>1, <1>2, <1>3
  <2>4. StartOf(t, i) = Max(T)
    BY DEF StartOf
  <2> HIDE DEF T
  <2>5. Max(T) \in T /\ \A y \in T : y <= Max(T)
    BY <1>1, <2>3, MaxFromZero
  <2>6. Max(T) = i
    <3> DEFINE m == Max(T)
    <3>1. m \in T /\ \A y \in T : y <= m
      BY <2>5
    <3> HIDE DEF m
    <3>2. m \in 0..i /\ i <= m
      BY <2>3, <3>1
    <3>3. m = i
      BY <1>1, <3>2
    <3> QED BY <3>3 DEF m
  <2>7. LineOf(t, i) = LineOf(t, j) + 1
    BY <2>2 DEF LineOf
  <2> QED BY <1>3, <2>4, <2>6, <2>7
<1>4. CASE t[i] # Newline
  BY <1>2, <1>4 DEF LineOf, StartOf
<1> QED BY <1>3, <1>4

LEMMA NoNewlines ==
  ASSUME NEW t \in Text
  PROVE  LineOf(t, 0) = 1 /\ StartOf(t, 0) = 0
<1> DEFINE zero == 0
<1>1. Newlines(t, zero) = {}
  BY DEF Newlines
<1>2. LineOf(t, zero) = 1
  BY <1>1, FS_EmptySet DEF LineOf
<1>3. StartOf(t, zero) \in 0..zero
  <2>1. zero \in Nat
    OBVIOUS
  <2> HIDE DEF zero
  <2> QED BY <2>1, NewlinesAre
<1> QED BY <1>2, <1>3

(* The starts of the lines in a text of i characters, in their order; the  *)
(* line of an offset starts where it should, and the next one beyond.      *)
IsIndex(starts, i) ==
  /\ starts \in Seq(Nat) /\ Len(starts) \in Nat \ {0}
  /\ \A k \in 1..Len(starts) : starts[k] \in 0..i
  /\ \A k \in 1..Len(starts) : k # Len(starts) => starts[k] < starts[k + 1]

Holds(starts, line, from, o) ==
  /\ line \in 1..Len(starts) /\ starts[line] = from
  /\ line # Len(starts) => o < starts[line + 1]

Covers(starts, t, i) ==
  /\ IsIndex(starts, i) /\ Len(starts) = LineOf(t, i)
  /\ \A o \in 0..i : Holds(starts, LineOf(t, o), StartOf(t, o), o)

LEMMA HoldsLonger ==
  ASSUME NEW starts \in Seq(Nat), NEW line, NEW from, NEW o \in Nat, Holds(starts, line, from, o),
         Len(starts) \in Nat, NEW i \in Nat, o < i
  PROVE  Holds(Append(starts, i), line, from, o)
<1> DEFINE m == Len(starts)
           s == Append(starts, i)
<1>1. Len(s) = m + 1 /\ s[m + 1] = i /\ \A k \in 1..m : s[k] = starts[k]
  BY AppendProperties
<1>2. line \in 1..m /\ starts[line] = from /\ (line # m => o < starts[line + 1])
  BY DEF Holds
<1> HIDE DEF s
<1>3. line \in 1..Len(s) /\ s[line] = from
  BY <1>1, <1>2
<1>4. o < s[line + 1]
  <2>1. CASE line = m
    BY <1>1, <2>1
  <2>2. CASE line # m
    <3>1. line + 1 \in 1..m
      BY <1>2, <2>2
    <3> QED BY <1>1, <1>2, <2>2, <3>1
  <2> QED BY <2>1, <2>2
<1> QED BY <1>3, <1>4 DEF Holds, s

LEMMA IndexLonger ==
  ASSUME NEW starts, NEW j \in Nat, IsIndex(starts, j), NEW i, i = j + 1
  PROVE  /\ IsIndex(starts, i) /\ IsIndex(Append(starts, i), i)
<1> DEFINE m == Len(starts)
           s == Append(starts, i)
<1>1. /\ starts \in Seq(Nat) /\ m \in Nat \ {0} /\ i \in Nat
      /\ \A k \in 1..m : starts[k] \in 0..j
      /\ \A k \in 1..m : k # m => starts[k] < starts[k + 1]
  BY DEF IsIndex
<1>2. Len(s) = m + 1 /\ s \in Seq(Nat) /\ s[m + 1] = i /\ \A k \in 1..m : s[k] = starts[k]
  BY <1>1, AppendProperties
<1>3. IsIndex(starts, i)
  <2>1. \A x : x \in 0..j => x \in 0..i
    OBVIOUS
  <2> QED BY <1>1, <2>1 DEF IsIndex
<1> HIDE DEF s
<1>4. ASSUME NEW k \in 1..Len(s) PROVE s[k] \in 0..i /\ (k # Len(s) => s[k] < s[k + 1])
  <2>1. CASE k = m + 1
    BY <1>1, <1>2, <2>1
  <2>2. CASE k = m
    <3>1. k \in 1..m /\ s[k] = starts[k] /\ starts[k] \in 0..j /\ s[k + 1] = i
      BY <1>1, <1>2, <2>2
    <3> QED BY <3>1
  <2>3. CASE k # m + 1 /\ k # m
    <3>1. k \in 1..m /\ k + 1 \in 1..m
      BY <1>1, <1>2, <2>3
    <3>2. s[k] = starts[k] /\ s[k + 1] = starts[k + 1] /\ starts[k] \in 0..j /\ starts[k] < starts[k + 1]
      BY <1>1, <1>2, <2>3, <3>1
    <3> QED BY <3>2
  <2> QED BY <2>1, <2>2, <2>3
<1>5. IsIndex(s, i)
  <2>1. Len(s) \in Nat \ {0}
    BY <1>1, <1>2
  <2> QED BY <1>2, <1>4, <2>1 DEF IsIndex
<1> QED BY <1>3, <1>5 DEF s

LEMMA CoversGoesOn ==
  ASSUME NEW t \in Text, NEW j \in Nat, NEW starts, Covers(starts, t, j), NEW i, i = j + 1
  PROVE  Covers(IF t[i] = Newline THEN Append(starts, i) ELSE starts, t, i)
<1> DEFINE s == Append(starts, i)
           m == Len(starts)
<1>1. /\ starts \in Seq(Nat) /\ m \in Nat \ {0} /\ m = LineOf(t, j) /\ IsIndex(starts, j)
      /\ \A o \in 0..j : Holds(starts, LineOf(t, o), StartOf(t, o), o)
  BY DEF Covers, IsIndex
<1>2. i \in Nat /\ j \in 0..j /\ \A o : o \in 0..i <=> o \in 0..j \/ o = i
  OBVIOUS
<1>3. IsIndex(starts, i) /\ IsIndex(s, i)
  BY <1>1, IndexLonger
<1>4. Len(s) = m + 1 /\ s[m + 1] = i
  BY <1>1, <1>2, AppendProperties
<1>5. CASE t[i] = Newline
  <2>1. LineOf(t, i) = m + 1 /\ StartOf(t, i) = i
    BY <1>1, <1>5, NewlinesGoOn
  <2>2. ASSUME NEW o \in 0..j PROVE Holds(s, LineOf(t, o), StartOf(t, o), o)
    <3>1. o \in Nat /\ o < i /\ Holds(starts, LineOf(t, o), StartOf(t, o), o) /\ m \in Nat
      BY <1>1
    <3> QED BY <1>1, <1>2, <3>1, HoldsLonger
  <2> HIDE DEF s, m
  <2>3. Holds(s, LineOf(t, i), StartOf(t, i), i)
    <3>1. m + 1 \in 1..(m + 1)
      BY <1>1
    <3> QED BY <1>4, <2>1, <3>1 DEF Holds
  <2>4. Covers(s, t, i)
    BY <1>2, <1>3, <1>4, <2>1, <2>2, <2>3 DEF Covers
  <2> QED BY <1>5, <2>4 DEF s
<1>6. CASE t[i] # Newline
  <2>1. LineOf(t, i) = m /\ StartOf(t, i) = StartOf(t, j)
    BY <1>1, <1>6, NewlinesGoOn
  <2>2. Holds(starts, m, StartOf(t, j), j)
    BY <1>1, <1>2
  <2> HIDE DEF m
  <2>3. Holds(starts, LineOf(t, i), StartOf(t, i), i)
    BY <2>1, <2>2 DEF Holds, m
  <2>4. Covers(starts, t, i)
    BY <1>1, <1>2, <1>3, <2>1, <2>3 DEF Covers, m
  <2> QED BY <1>6, <2>4
<1> QED BY <1>5, <1>6

LEMMA StartsCover ==
  ASSUME OneByte, NEW t \in Text
  PROVE  Covers(LineStarts(t), t, Len(t))
<1> DEFINE n == Len(t)
<1>1. n \in Nat
  BY BytesAreChars
<1>2. PICK h \in [0..n -> Seq(Nat)] : Scans(h, t) /\ LineStarts(t) = h[n]
  BY LineStartsScan
<1> DEFINE P == {i \in Nat : i <= n => Covers(h[i], t, i)}
<1>3. 0 \in P
  <2> DEFINE one == <<0>>
             zero == 0
  <2>1. one \in Seq(Nat) /\ Len(one) = 1 /\ one[1] = zero /\ zero \in 0..zero
    OBVIOUS
  <2>2. LineOf(t, zero) = 1 /\ StartOf(t, zero) = zero
    BY NoNewlines
  <2>3. \A o \in 0..zero : o = zero
    OBVIOUS
  <2>4. h[zero] = one
    BY <1>2 DEF Scans
  <2> HIDE DEF one, zero
  <2>5. IsIndex(one, zero) /\ Holds(one, LineOf(t, zero), StartOf(t, zero), zero)
    <3>1. \A k \in 1..1 : k = 1
      OBVIOUS
    <3> QED BY <2>1, <2>2, <3>1 DEF IsIndex, Holds
  <2>6. Covers(one, t, zero)
    BY <2>1, <2>2, <2>3, <2>5 DEF Covers
  <2>7. zero \in Nat
    BY DEF zero
  <2> QED BY <2>4, <2>6, <2>7 DEF zero
<1>4. ASSUME NEW i \in Nat, i \in P PROVE i + 1 \in P
  <2> DEFINE j == i + 1
  <2> SUFFICES ASSUME j <= n PROVE Covers(h[j], t, j)
    OBVIOUS
  <2>1. j \in 1..n /\ j - 1 = i /\ Covers(h[i], t, i) /\ j = i + 1
    BY <1>1, <1>4
  <2> HIDE DEF j
  <2>2. h[j] = IF t[j] = Newline THEN Append(h[i], j) ELSE h[i]
    BY <1>2, <2>1 DEF Scans
  <2> QED BY <2>1, <2>2, CoversGoesOn
<1> HIDE DEF P
<1>5. \A i \in Nat : i \in P
  BY <1>3, <1>4, SetNatInduction
<1>6. Covers(h[n], t, n)
  BY <1>1, <1>5 DEF P
<1> QED BY <1>2, <1>6

----------------------------------------------------------------------------
(* Between offsets and positions.                                          *)

(* From and to are the ends of a line of the text.                         *)
Lies(t, line, from, to) ==
  LET text == LineText(t, LineStarts(t), line)
  IN  /\ from \in Nat /\ to \in Nat /\ from <= to /\ to <= Len(t)
      /\ text \in Text /\ Len(text) = to - from

LEMMA SlicedIs ==
  ASSUME NEW t \in Text, NEW from \in Nat, NEW to \in Nat, from <= to, to <= Len(t),
         NEW first, first = from + 1
  PROVE  /\ Slice(t, from, to) = SubSeq(t, first, to)
         /\ Slice(t, from, to) \in Text /\ Len(Slice(t, from, to)) = to - from
<1>1. Slice(t, from, to) = SubSeq(t, first, to)
  BY DEF Slice
<1>2. SubSeq(t, first, to) \in Text /\ Len(SubSeq(t, first, to)) = to - from
  BY PartShape DEF Text
<1> QED BY <1>1, <1>2

LEMMA LineLies ==
  ASSUME OneByte, NEW t \in Text, NEW starts, starts = LineStarts(t),
         NEW line, line \in 1..Len(starts)
  PROVE  /\ Lies(t, line, starts[line], LineEndOffset(t, starts, line))
         /\ starts \in Seq(Nat) /\ Len(starts) \in Nat
         /\ line # Len(starts) => LineEndOffset(t, starts, line) = starts[line + 1] - 1
         /\ line = Len(starts) => LineEndOffset(t, starts, line) = Len(t)
<1> DEFINE n == Len(starts)
           size == Len(t)
           from == starts[line]
           next == starts[line + 1]
           to == LineEndOffset(t, starts, line)
           first == from + 1
<1>1. /\ starts \in Seq(Nat) /\ n \in Nat \ {0} /\ line \in 1..n
      /\ \A k \in 1..n : starts[k] \in 0..size
      /\ \A k \in 1..n : k # n => starts[k] < starts[k + 1]
  BY StartsCover DEF Covers, IsIndex
<1>2. size \in Nat /\ ByteLen(t) = size
  BY BytesAreChars
<1>3. from \in 0..size /\ (line # n => from < next /\ next \in 0..size)
  <2>1. line # n => line + 1 \in 1..n
    BY <1>1
  <2> QED BY <1>1, <2>1
<1>4. /\ line # n => to = next - 1
      /\ line = n => to = size
  <2>1. CASE line # n
    <3>1. line < n
      BY <1>1, <2>1
    <3>2. to = Max({next - 1, 0})
      BY <3>1 DEF LineEndOffset
    <3> HIDE DEF next, from
    <3>3. Max({next - 1, 0}) = next - 1
      BY <1>2, <1>3, <2>1 DEF Max
    <3> QED BY <2>1, <3>2, <3>3
  <2>2. CASE line = n
    BY <1>1, <1>2, <2>2 DEF LineEndOffset
  <2> QED BY <2>1, <2>2
<1> HIDE DEF from, next, to, size
<1>5. from \in Nat /\ to \in Nat /\ from <= to /\ to <= size
  <2>1. CASE line # n
    BY <1>2, <1>3, <1>4, <2>1
  <2>2. CASE line = n
    BY <1>2, <1>3, <1>4, <2>2
  <2> QED BY <2>1, <2>2
<1>6. LineText(t, starts, line) = Slice(t, from, to)
  BY DEF LineText, from, to
<1>7. Slice(t, from, to) \in Text /\ Len(Slice(t, from, to)) = to - from
  <2>1. first = from + 1 /\ to <= Len(t)
    BY <1>5 DEF size
  <2> HIDE DEF first
  <2> QED BY <1>5, <2>1, SlicedIs
<1>8. Lies(t, line, from, to)
  BY <1>5, <1>6, <1>7 DEF Lies, size
<1> QED BY <1>1, <1>4, <1>8 DEF from, to, size, next

(* An offset computed for a position is one, if there is one at all.       *)
LEMMA OffsetType ==
  ASSUME OneByte, NEW t \in Text, NEW pos \in Position,
         NEW offset, offset = PositionToOffset(t, LineStarts(t), pos), offset # None
  PROVE  offset \in Nat
<1> DEFINE starts == LineStarts(t)
           line == pos.line
           text == LineText(t, starts, line)
           units == Boundaries(Utf16Len, text)
           bytes == Boundaries(Utf8Len, text)
           n == Len(text)
           reach == {i \in 0..n : units[i] >= pos.column - 1}
           T == reach \union {n}
           chars == Min(T)
<1>1. line \in Nat \ {0} /\ Len(starts) \in Nat
  BY StartsCover DEF Position, Covers, IsIndex
<1>2. /\ LineStartOffset(starts, line) # None
      /\ offset = starts[line] + bytes[chars]
  BY DEF PositionToOffset
<1>3. line \in 1..Len(starts)
  BY <1>1, <1>2 DEF LineStartOffset
<1>4. text \in Text /\ starts[line] \in Nat
  BY <1>3, LineLies DEF Lies
<1> HIDE DEF starts, line, text
<1>5. n \in Nat /\ \A i \in 0..n : bytes[i] = i
  BY <1>4, BytesAreChars
<1> HIDE DEF n, units, bytes
<1>6. T \subseteq 0..n /\ T \subseteq Nat /\ T # {}
  BY <1>5
<1> HIDE DEF T
<1>7. chars \in 0..n
  BY <1>6, MinIsLeast
<1> HIDE DEF chars
<1> QED BY <1>2, <1>4, <1>5, <1>7

(* A column that does not reach beyond its line is not clamped.            *)
LEMMA ExactOffset ==
  ASSUME OneByte, OneUnit, NEW t \in Text, NEW starts, starts = LineStarts(t),
         NEW pos \in Position, NEW line, line = pos.line, line \in 1..Len(starts),
         NEW c \in Nat, c = pos.column - 1, c <= Len(LineText(t, starts, line))
  PROVE  PositionToOffset(t, starts, pos) = starts[line] + c
<1> DEFINE text == LineText(t, starts, line)
           units == Boundaries(Utf16Len, text)
           bytes == Boundaries(Utf8Len, text)
           n == Len(text)
           reach == {i \in 0..n : units[i] >= pos.column - 1}
           T == reach \union {n}
           chars == Min(T)
<1>1. text \in Text /\ starts[line] \in Nat /\ Len(starts) \in Nat
  BY LineLies DEF Lies
<1>2. PositionToOffset(t, starts, pos) = starts[line] + bytes[chars]
  <2>1. text # None /\ starts[line] # None
    BY <1>1, CharsAssumption DEF CharsAssumption
  <2>2. LineStartOffset(starts, pos.line) = starts[line]
    BY <1>1 DEF LineStartOffset
  <2>3. LineStartOffset(starts, pos.line) # None /\ LineText(t, starts, pos.line) # None
    BY <2>1, <2>2
  <2> QED BY <2>3 DEF PositionToOffset
<1> HIDE DEF text
<1>3. n \in Nat /\ \A i \in 0..n : units[i] = i /\ bytes[i] = i
  BY <1>1, UnitsAreChars, BytesAreChars
<1>4. c \in 0..n
  BY <1>3 DEF text
<1> HIDE DEF n, units, bytes
<1>5. T = c..n
  <2>1. \A i \in 0..n : units[i] >= pos.column - 1 <=> i >= c
    BY <1>3
  <2>2. reach = c..n
    BY <1>3, <1>4, <2>1
  <2> QED BY <1>3, <1>4, <2>2
<1>6. chars = c
  <2>1. c \in T /\ \A i \in T : i \in Nat /\ c <= i
    BY <1>3, <1>4, <1>5
  <2>2. T \subseteq Nat /\ T # {}
    BY <2>1
  <2> HIDE DEF T
  <2>3. chars \in T /\ chars <= c
    BY <2>1, <2>2, MinIsLeast
  <2> HIDE DEF chars
  <2> QED BY <2>1, <2>3
<1>7. bytes[chars] = c
  BY <1>3, <1>4, <1>6
<1> QED BY <1>2, <1>7

(* offset_to_position of the tools, and the buffer's way back.             *)
LEMMA PlaceType ==
  ASSUME NEW t \in Text, NEW o \in Nat
  PROVE  PositionAt(t, o) \in Position
<1> DEFINE line == LineOf(t, o)
           from == StartOf(t, o)
<1>1. line \in Nat \ {0} /\ from \in 0..o
  BY NewlinesAre
<1>2. PositionAt(t, o) = [line |-> line, column |-> o - from + 1]
  BY DEF PositionAt, LineOf, StartOf
<1> HIDE DEF line, from
<1>3. o - from + 1 \in Nat \ {0}
  BY <1>1
<1> QED BY <1>1, <1>2, <1>3 DEF Position

LEMMA ThereAndBack ==
  ASSUME OneByte, OneUnit, NEW t \in Text, NEW o \in Nat, o <= Len(t)
  PROVE  PositionToOffset(t, LineStarts(t), PositionAt(t, o)) = o
<1> DEFINE starts == LineStarts(t)
           line == LineOf(t, o)
           from == StartOf(t, o)
           c == o - from
           pos == PositionAt(t, o)
           text == LineText(t, starts, line)
           to == LineEndOffset(t, starts, line)
<1>1. line \in Nat \ {0} /\ from \in 0..o
  BY NewlinesAre
<1>2. pos = [line |-> line, column |-> c + 1]
  BY DEF PositionAt, LineOf, StartOf
<1>3. pos \in Position /\ pos.line = line /\ c = pos.column - 1 /\ c \in Nat
  BY <1>1, <1>2, PlaceType
<1>4. Holds(starts, line, from, o)
  <2>1. o \in 0..Len(t)
    BY BytesAreChars
  <2> QED BY <2>1, StartsCover DEF Covers
<1>5. line \in 1..Len(starts) /\ starts[line] = from
  BY <1>4 DEF Holds
<1> HIDE DEF starts, line, pos
<1>6. /\ starts = LineStarts(t)
      /\ Lies(t, line, starts[line], to)
      /\ line # Len(starts) => to = starts[line + 1] - 1
      /\ line = Len(starts) => to = Len(t)
  <2>1. starts = LineStarts(t)
    BY DEF starts
  <2> QED BY <1>5, <2>1, LineLies
<1>7. o <= to
  <2>1. CASE line # Len(starts)
    <3>1. o < starts[line + 1] /\ to = starts[line + 1] - 1 /\ to \in Nat
      BY <1>4, <1>6, <2>1 DEF Holds, Lies
    <3> DEFINE next == starts[line + 1]
    <3>2. o < next /\ to = next - 1 /\ to \in Nat /\ next \in Nat
      <4>1. starts \in Seq(Nat) /\ Len(starts) \in Nat
        BY <1>5, <1>6, LineLies
      <4>2. line + 1 \in 1..Len(starts)
        BY <1>1, <1>5, <2>1, <4>1 DEF line
      <4> QED BY <3>1, <4>1, <4>2, ElementOfSeq
    <3> HIDE DEF next, to
    <3> QED BY <3>2
  <2>2. CASE line = Len(starts)
    BY <1>6, <2>2
  <2> QED BY <2>1, <2>2
<1>8. text \in Text /\ Len(text) = to - from /\ to \in Nat
  BY <1>5, <1>6 DEF Lies
<1>9. c <= Len(text)
  <2> HIDE DEF to, from, text
  <2>1. from \in Nat
    BY <1>1
  <2> QED BY <1>7, <1>8, <2>1
<1> HIDE DEF c, text
<1>10. PositionToOffset(t, starts, pos) = starts[line] + c
  <2>1. c <= Len(LineText(t, starts, line))
    BY <1>9 DEF text
  <2> QED BY <1>3, <1>5, <1>6, <2>1, ExactOffset
<1>11. starts[line] + c = o
  <2> HIDE DEF from
  <2> QED BY <1>1, <1>5 DEF c
<1> QED BY <1>10, <1>11 DEF starts, pos

----------------------------------------------------------------------------
(* Changes of a text.                                                      *)
IsPart(t, from, to) == from \in Nat /\ to \in Nat /\ from <= to /\ to <= Len(t)

SplicedTo(t, from, to, new, text) ==
  \A first : first = to + 1 =>
    text = (SubSeq(t, 1, from) \o new) \o SubSeq(t, first, Len(t))

LEMMA Spliced ==
  ASSUME NEW t \in Text, NEW from, NEW to, IsPart(t, from, to), NEW new \in Text
  PROVE  /\ SplicedTo(t, from, to, new, RopeInsert(RopeRemove(t, from, to), from, new))
         /\ RopeInsert(RopeRemove(t, from, to), from, new) \in Text
<1> DEFINE n == Len(t)
           first == to + 1
           a == SubSeq(t, 1, from)
           b == SubSeq(t, first, n)
           c == a \o b
           next == from + 1
           m == Len(c)
           an == a \o new
<1>1. n \in Nat /\ n <= Len(t) /\ to <= n /\ from <= Len(t) /\ t \in Seq(Chars) /\ new \in Seq(Chars)
      /\ from \in Nat /\ to \in Nat /\ from <= to /\ first \in Nat /\ first = to + 1
  BY LenProperties DEF Text, IsPart
<1>2. RopeRemove(t, from, to) = c
  BY <1>1 DEF RopeRemove
<1>3. a \in Seq(Chars) /\ from = Len(a)
  BY <1>1, FirstPart
<1> HIDE DEF n
<1>4. b \in Seq(Chars)
  BY <1>1, PartShape
<1> HIDE DEF a, b
<1>5. c \in Seq(Chars) /\ Len(c) = from + Len(b) /\ Len(b) \in Nat
  BY <1>3, <1>4, ConcatProperties, LenProperties
<1>6. SubSeq(c, 1, from) = a /\ SubSeq(c, next, m) = b
  <2>1. next = from + 1
    OBVIOUS
  <2> HIDE DEF next
  <2> QED BY <1>3, <1>4, <2>1, Parts
<1>7. from <= m
  BY <1>1, <1>5
<1> HIDE DEF c
<1>8. RopeInsert(c, from, new) = an \o b
  <2>1. RopeInsert(c, from, new) = (SubSeq(c, 1, from) \o new) \o SubSeq(c, next, m)
    BY <1>7 DEF RopeInsert
  <2> QED BY <1>6, <2>1
<1>9. an \in Seq(Chars)
  BY <1>1, <1>3, ConcatProperties
<1> HIDE DEF an
<1>10. an \o b \in Text
  BY <1>4, <1>9, ConcatProperties DEF Text
<1>11. SplicedTo(t, from, to, new, an \o b)
  BY DEF SplicedTo, an, a, b, n
<1> QED BY <1>2, <1>8, <1>10, <1>11

LEMMA ChangedType ==
  ASSUME OneByte, NEW t \in Text, NEW change \in Change, Changed(t, change) # None
  PROVE  Changed(t, change) \in Text
<1> DEFINE from == PositionToOffset(t, LineStarts(t), change.start)
           to == PositionToOffset(t, LineStarts(t), change.end)
           new == change.text
<1>1. change.start \in Position /\ change.end \in Position /\ new \in Text
  BY DEF Change
<1>2. /\ from # None /\ to # None /\ Slice(t, from, to) # None
      /\ Changed(t, change) = RopeInsert(RopeRemove(t, from, to), from, new)
  BY DEF Changed
<1>3. from \in Nat /\ to \in Nat
  BY <1>1, <1>2, OffsetType
<1> HIDE DEF from, to, new
<1>4. IsPart(t, from, to)
  BY <1>2, <1>3 DEF Slice, IsPart
<1> QED BY <1>1, <1>2, <1>4, Spliced

(* What is found is there, and edit_file replaces it.                      *)
LEMMA FindIs ==
  ASSUME NEW t \in Text, NEW query, NEW at, at = Find(t, query), at # None
  PROVE  at \in 0..Len(t) /\ Occurs(t, query, at)
<1> DEFINE T == {o \in 0..Len(t) : Occurs(t, query, o)}
<1>1. T # {} /\ at = Min(T)
  BY DEF Find
<1>2. T \subseteq Nat
  OBVIOUS
<1> HIDE DEF T
<1>3. at \in T
  BY <1>1, <1>2, MinIsLeast
<1> QED BY <1>3 DEF T

LEMMA FoundEnds ==
  ASSUME NEW t \in Text, NEW old \in Text, NEW at, at = Find(t, old), at # None,
         NEW end, end = at + Len(old)
  PROVE  IsPart(t, at, end)
<1>1. at \in 0..Len(t) /\ at + Len(old) <= Len(t)
  BY FindIs DEF Occurs
<1>2. Len(old) \in Nat /\ Len(t) \in Nat
  BY LenProperties DEF Text
<1> QED BY <1>1, <1>2 DEF IsPart

LEMMA EditFoundType ==
  ASSUME OneByte, NEW t \in Text, NEW old \in Text, NEW new \in Text,
         EditFound(t, old, new) # None
  PROVE  EditFound(t, old, new) \in Text
<1> DEFINE at == Find(t, old)
           end == at + Len(old)
           change == [start |-> PositionAt(t, at), end |-> PositionAt(t, end), text |-> new]
<1>1. EditFound(t, old, new) = Changed(t, FoundChange(t, old, new)) /\ FoundChange(t, old, new) # None
  BY DEF EditFound
<1>2. at # None /\ FoundChange(t, old, new) = change
  BY <1>1 DEF FoundChange
<1>3. IsPart(t, at, end)
  BY <1>2, FoundEnds
<1>4. PositionAt(t, at) \in Position /\ PositionAt(t, end) \in Position
  <2> HIDE DEF at, end
  <2> QED BY <1>3, PlaceType DEF IsPart
<1>5. change \in Change
  BY <1>4 DEF Change
<1> HIDE DEF change
<1> QED BY <1>1, <1>2, <1>5, ChangedType

FoundReplacedIn(t, old, new) ==
  LET at == Find(t, old)
  IN  EditFound(t, old, new) =
        SubSeq(t, 1, at) \o new \o SubSeq(t, at + Len(old) + 1, Len(t))

LEMMA FoundReplaced ==
  ASSUME OneByte, OneUnit, NEW t \in Text, NEW old \in Text, NEW new \in Text,
         Find(t, old) # None
  PROVE  FoundReplacedIn(t, old, new)
<1> DEFINE at == Find(t, old)
           end == at + Len(old)
           first == end + 1
           start == PositionAt(t, at)
           stop == PositionAt(t, end)
           change == [start |-> start, end |-> stop, text |-> new]
           found == FoundChange(t, old, new)
<1>1. at \in Nat /\ end \in Nat /\ at <= end /\ end <= Len(t)
  BY FoundEnds DEF IsPart
<1>2. at # None /\ first = end + 1
  OBVIOUS
<1>3. found = change
  BY <1>2 DEF FoundChange
<1> HIDE DEF found, at, end, first
<1>4. at <= Len(t)
  <2>1. Len(t) \in Nat
    BY LenProperties DEF Text
  <2> QED BY <1>1, <2>1
<1>5. start \in Position /\ stop \in Position
  BY <1>1, PlaceType
<1>6. /\ PositionToOffset(t, LineStarts(t), start) = at
      /\ PositionToOffset(t, LineStarts(t), stop) = end
  BY <1>1, <1>4, ThereAndBack
<1>7. change \in Change /\ change # None
  BY <1>5, AgentToolsAssumption DEF AgentToolsAssumption, Change
<1>8. EditFound(t, old, new) = Changed(t, change)
  BY <1>3, <1>7 DEF EditFound, found
<1>9. Slice(t, at, end) \in Text /\ Slice(t, at, end) # None /\ at # None /\ end # None
  <2> DEFINE next == at + 1
  <2>1. next = at + 1
    OBVIOUS
  <2> HIDE DEF next
  <2>2. Slice(t, at, end) \in Text
    BY <1>1, <2>1, SlicedIs
  <2> QED BY <1>1, <2>2, CharsAssumption DEF CharsAssumption
<1>10. change.start = start /\ change.end = stop /\ change.text = new
  OBVIOUS
<1> HIDE DEF change, start, stop
<1>11. Changed(t, change) = RopeInsert(RopeRemove(t, at, end), at, new)
  BY <1>6, <1>9, <1>10 DEF Changed
<1>12. RopeInsert(RopeRemove(t, at, end), at, new) =
         (SubSeq(t, 1, at) \o new) \o SubSeq(t, first, Len(t))
  <2>1. IsPart(t, at, end)
    BY <1>1 DEF IsPart
  <2>2. SplicedTo(t, at, end, new, RopeInsert(RopeRemove(t, at, end), at, new))
    BY <1>2, <2>1, Spliced
  <2> QED BY <1>2, <2>2 DEF SplicedTo
<1> QED BY <1>8, <1>11, <1>12 DEF FoundReplacedIn, at, end, first

----------------------------------------------------------------------------
(* Structural edits write texts.                                           *)

LEMMA SliceShape ==
  ASSUME NEW t \in Text, NEW from, NEW to, IsPart(t, from, to)
  PROVE  /\ Slice(t, from, to) \in Text /\ Len(Slice(t, from, to)) = to - from
         /\ \A k \in 1..(to - from) : Slice(t, from, to)[k] = t[from + k]
<1> DEFINE first == from + 1
<1>1. /\ from \in Nat /\ to \in Nat /\ from <= to /\ to <= Len(t) /\ t \in Seq(Chars)
      /\ first = from + 1
  BY DEF IsPart, Text
<1> HIDE DEF first
<1>2. /\ Slice(t, from, to) = SubSeq(t, first, to)
      /\ Slice(t, from, to) \in Text /\ Len(Slice(t, from, to)) = to - from
  BY <1>1, SlicedIs
<1>3. \A k \in 1..(to - from) : SubSeq(t, first, to)[k] = t[from + k]
  BY <1>1, PartShape
<1> QED BY <1>2, <1>3

LEMMA FrontOfSlice ==
  ASSUME NEW t \in Text, NEW from, NEW to, IsPart(t, from, to),
         NEW end, IsPart(t, from, end), end = to - 1
  PROVE  /\ Front(Slice(t, from, to)) = Slice(t, from, end)
         /\ Last(Slice(t, from, to)) = t[to]
<1> DEFINE line == Slice(t, from, to)
           n == Len(line)
           a == Front(line)
           b == Slice(t, from, end)
<1>1. /\ line \in Seq(Chars) /\ n = to - from
      /\ \A k \in 1..(to - from) : line[k] = t[from + k]
  BY SliceShape DEF Text
<1>2. /\ b \in Seq(Chars) /\ Len(b) = end - from
      /\ \A k \in 1..(end - from) : b[k] = t[from + k]
  BY SliceShape DEF Text
<1>3. from \in Nat /\ to \in Nat /\ from <= end /\ end \in Nat
  BY DEF IsPart
<1>4. Last(line) = line[n] /\ a = SubSeq(line, 1, n - 1)
  BY DEF Last, Front
<1> HIDE DEF line, a, b
<1> DEFINE k == n - 1
<1>5. k \in Nat /\ k <= n /\ k = end - from /\ n \in 1..(to - from) /\ from + n = to
  BY <1>1, <1>3
<1>6. a = SubSeq(line, 1, k)
  BY <1>4
<1> HIDE DEF k
<1>7. a \in Seq(Chars) /\ Len(a) = k /\ \A j \in 1..k : a[j] = line[j]
  BY <1>1, <1>5, <1>6, FirstPart
<1>8. \A j \in 1..k : line[j] = t[from + j]
  BY <1>1, <1>5
<1>9. Len(b) = k /\ \A j \in 1..k : b[j] = t[from + j]
  BY <1>2, <1>5
<1>10. a = b
  BY <1>2, <1>7, <1>8, <1>9, SeqEqual
<1>11. Last(line) = t[to]
  BY <1>1, <1>4, <1>5
<1> QED BY <1>10, <1>11 DEF a, b, line

(* A line of str::lines is a part of the line of the index, and what it    *)
(* goes without is white space.                                            *)
AsLine(t, line, from, end, to) ==
  /\ IsPart(t, from, end) /\ end <= to
  /\ line = Slice(t, from, end) /\ line \in Text
  /\ \A j \in (end + 1)..to : t[j] \in Whitespace

LEMMA LineAtIs ==
  ASSUME OneByte, NEW t \in Text, NEW starts, starts = LineStarts(t),
         NEW i, i \in 1..Len(starts), NEW from, from = starts[i],
         NEW to, to = LineEndOffset(t, starts, i)
  PROVE  \E end \in Nat : AsLine(t, LineAt(t, starts, i), from, end, to)
<1> DEFINE line == LineText(t, starts, i)
           end == to - 1
           cr == i < Len(starts) /\ line # <<>> /\ Last(line) = CarriageReturn
<1>1. /\ from \in Nat /\ to \in Nat /\ from <= to /\ to <= Len(t)
      /\ line \in Text /\ Len(line) = to - from
  BY LineLies DEF Lies
<1>2. line = Slice(t, from, to)
  BY DEF LineText
<1>3. LineAt(t, starts, i) = IF cr THEN Front(line) ELSE line
  BY DEF LineAt
<1>4. cr => line # <<>> /\ Last(line) = CarriageReturn
  OBVIOUS
<1> HIDE DEF line, cr
<1>5. CASE ~cr
  <2>1. (to + 1)..to = {}
    BY <1>1
  <2>2. AsLine(t, line, from, to, to)
    BY <1>1, <1>2, <2>1 DEF AsLine, IsPart
  <2> QED BY <1>1, <1>3, <1>5, <2>2
<1>6. CASE cr
  <2>1. Len(line) # 0
    BY <1>1, <1>4, <1>6, EmptySeq DEF Text
  <2>2. end \in Nat /\ from <= end /\ end <= Len(t) /\ end <= to /\ from < to /\ end = to - 1
    <3> DEFINE n == Len(t)
    <3>1. n \in Nat
      BY LenProperties DEF Text
    <3>2. to <= n
      BY <1>1
    <3> HIDE DEF n
    <3>3. end <= n
      BY <1>1, <3>1, <3>2
    <3>4. end \in Nat /\ from <= end /\ end <= to /\ from < to /\ end = to - 1
      BY <1>1, <2>1
    <3> QED BY <3>3, <3>4 DEF n
  <2>3. (end + 1)..to = {to}
    BY <1>1, <2>2
  <2> HIDE DEF end
  <2>4. Front(line) = Slice(t, from, end) /\ Last(line) = t[to]
    <3>1. IsPart(t, from, to) /\ IsPart(t, from, end) /\ end = to - 1
      BY <1>1, <2>2 DEF IsPart
    <3> QED BY <1>2, <3>1, FrontOfSlice
  <2>5. Slice(t, from, end) \in Text
    <3>1. IsPart(t, from, end)
      BY <1>1, <2>2 DEF IsPart
    <3> QED BY <3>1, SliceShape
  <2>6. CarriageReturn \in Whitespace
    BY AgentTextAssumption DEF AgentTextAssumption
  <2>7. AsLine(t, Front(line), from, end, to)
    BY <1>1, <1>4, <1>6, <2>2, <2>3, <2>4, <2>5, <2>6 DEF AsLine, IsPart
  <2> QED BY <1>3, <1>6, <2>2, <2>7
<1> QED BY <1>5, <1>6

LEMMA LinesAre ==
  ASSUME OneByte, NEW t \in Text, NEW starts, starts = LineStarts(t),
         NEW lines, lines = LinesOf(t)
  PROVE  /\ lines \in Seq(Text)
         /\ Len(lines) = Len(starts) \/ (Len(lines) = Len(starts) - 1
                                         /\ LineAt(t, starts, Len(starts)) = <<>>)
         /\ \A i \in 1..Len(lines) :
              i \in 1..Len(starts) /\ lines[i] = LineAt(t, starts, i)
<1> DEFINE m == Len(starts)
           all == [i \in 1..m |-> LineAt(t, starts, i)]
           k == m - 1
<1>1. lines = IF Last(all) = <<>> THEN Front(all) ELSE all
  BY DEF LinesOf
<1>2. m \in Nat \ {0}
  BY StartsCover DEF Covers, IsIndex
<1>3. \A i \in 1..m : LineAt(t, starts, i) \in Text
  BY LineAtIs DEF AsLine
<1> HIDE DEF m
<1>4. all \in Seq(Text) /\ Len(all) = m
  BY <1>2, <1>3
<1>5. \A i \in 1..m : all[i] = LineAt(t, starts, i)
  OBVIOUS
<1>6. k \in Nat /\ k <= Len(all) /\ 1..k \subseteq 1..m /\ m \in 1..m /\ 0..k = 0..(m - 1)
  BY <1>2, <1>4
<1>7. Front(all) = SubSeq(all, 1, k) /\ Last(all) = all[m]
  BY <1>4 DEF Front, Last
<1> HIDE DEF k, all
<1> DEFINE front == Front(all)
<1>8. front \in Seq(Text) /\ Len(front) = k /\ \A i \in 1..k : front[i] = all[i]
  BY <1>4, <1>6, <1>7, FirstPart
<1> HIDE DEF front
<1>9. CASE Last(all) = <<>>
  <2>1. lines = front
    BY <1>1, <1>9 DEF front
  <2>2. LineAt(t, starts, m) = <<>>
    BY <1>5, <1>6, <1>7, <1>9
  <2>3. \A i \in 1..k : i \in 1..m /\ front[i] = LineAt(t, starts, i)
    BY <1>5, <1>6, <1>8
  <2> QED BY <1>8, <2>1, <2>2, <2>3 DEF m, k
<1>10. CASE Last(all) # <<>>
  BY <1>1, <1>4, <1>5, <1>10 DEF m
<1> QED BY <1>9, <1>10

(* A node is a part of the text.                                           *)
LEMMA NodeIsPart ==
  ASSUME NEW t \in Text, NEW line, NEW column,
         NEW node \in NodesAt(t, OffsetFrom(t, line, column))
  PROVE  IsPart(t, node.from, node.to)
<1> DEFINE n == Len(t)
           P == {o \in 0..n - 1 : Cardinality(Newlines(t, o)) = line /\ o >= column}
           T == P \union {n}
           offset == OffsetFrom(t, line, column)
           upto == Min({offset, n})
<1>1. n \in Nat
  BY LenProperties DEF Text
<1>2. T \subseteq Nat /\ T # {}
  BY <1>1
<1>3. offset = Min(T)
  BY DEF OffsetFrom
<1> HIDE DEF T
<1>4. offset \in Nat
  BY <1>2, <1>3, MinIsLeast
<1> HIDE DEF offset
<1>5. upto \in Nat /\ upto <= n /\ upto <= offset
  <2> DEFINE S == {offset, n}
  <2>1. S \subseteq Nat /\ S # {} /\ offset \in S /\ n \in S
    BY <1>1, <1>4
  <2> HIDE DEF S, n
  <2>2. Min(S) \in Nat /\ Min(S) <= n /\ Min(S) <= offset
    BY <2>1, MinIsLeast
  <2> QED BY <2>2 DEF S
<1>6. node \in {Root(t)} \union [from : 0..upto, to : offset + 1..n, is_function : BOOLEAN]
  BY DEF NodesAt, offset
<1> HIDE DEF upto
<1>7. CASE node = Root(t)
  BY <1>1, <1>7 DEF Root, IsPart
<1>8. CASE node \in [from : 0..upto, to : offset + 1..n, is_function : BOOLEAN]
  <2> DEFINE from == node.from
             to == node.to
  <2>1. from \in 0..upto /\ to \in offset + 1..n
    BY <1>8
  <2> HIDE DEF from, to
  <2>2. from \in Nat /\ to \in Nat /\ from <= to /\ to <= n
    BY <1>1, <1>4, <1>5, <2>1
  <2> QED BY <2>2 DEF IsPart, from, to
<1> QED BY <1>6, <1>7, <1>8

LEMMA MadeAsyncType ==
  ASSUME NEW text \in Text
  PROVE  MadeAsync(text) \in Text
<1> DEFINE at == Find(text, <<Keyword>>)
           first == at + 1
           a == SubSeq(text, 1, at)
           b == SubSeq(text, first, Len(text))
           new == <<Letter>>
           an == a \o new
<1>1. new \in Seq(Chars)
  BY CharsAssumption, AgentTextAssumption DEF CharsAssumption, AgentTextAssumption
<1>2. CASE at = None
  BY <1>2 DEF MadeAsync
<1>3. CASE at # None
  <2>1. at \in 0..Len(text)
    BY <1>3, FindIs
  <2>2. Len(text) \in Nat /\ at \in Nat /\ at <= Len(text) /\ text \in Seq(Chars)
    BY <2>1, LenProperties DEF Text
  <2>3. MadeAsync(text) = an \o b
    BY <1>3, <2>2 DEF MadeAsync, RopeInsert
  <2> HIDE DEF new
  <2>4. a \in Seq(Chars)
    <3> HIDE DEF at
    <3> QED BY <2>2, FirstPart
  <2>5. b \in Seq(Chars)
    <3>1. first = at + 1
      OBVIOUS
    <3> HIDE DEF at, first
    <3> DEFINE n == Len(text)
    <3>2. n \in Nat /\ at <= n /\ n <= Len(text)
      BY <2>2
    <3> HIDE DEF n
    <3>3. SubSeq(text, first, n) \in Seq(Chars)
      BY <2>2, <3>1, <3>2, PartShape
    <3> QED BY <3>3 DEF n
  <2> HIDE DEF a, b
  <2>6. an \in Seq(Chars)
    BY <1>1, <2>4, ConcatProperties
  <2> HIDE DEF an
  <2>7. an \o b \in Text
    BY <2>5, <2>6, ConcatProperties DEF Text
  <2> QED BY <2>3, <2>7
<1> QED BY <1>2, <1>3

LEMMA RestructuredType ==
  ASSUME OneByte, NEW t \in Text, NEW line, NEW column,
         NEW node \in NodesAt(t, OffsetFrom(t, line, column)),
         NEW type \in EditTypes, NEW name \in Text,
         Restructured(t, node, type, name) # None
  PROVE  Restructured(t, node, type, name) \in Text
<1> DEFINE text == NodeText(t, node)
           from == node.from
           to == node.to
           first == from + 1
<1>1. IsPart(t, from, to)
  BY NodeIsPart
<1>2. text \in Text
  <2>1. text = Slice(t, from, to)
    BY DEF NodeText
  <2>2. from \in Nat /\ to \in Nat /\ from <= to /\ to <= Len(t) /\ first = from + 1
    BY <1>1 DEF IsPart
  <2> HIDE DEF from, to, first
  <2>3. Slice(t, from, to) \in Text
    BY <2>2, SlicedIs
  <2> QED BY <2>1, <2>3
<1>3. ASSUME NEW new \in Text PROVE Replaced(t, node, new) \in Text
  BY <1>1, Spliced DEF Replaced
<1>4. Newline \in Chars /\ Keyword \in Chars /\ Letter \in Chars
  BY CharsAssumption, AgentTextAssumption DEF CharsAssumption, AgentTextAssumption
<1>5. <<Letter>> \in Text /\ <<Newline>> \in Text /\ <<Keyword, Letter>> \in Text
  BY <1>4 DEF Text
<1>6. <<Letter>> \o text \in Text
  BY <1>2, <1>5, ConcatProperties DEF Text
<1>7. ((<<Keyword, Letter>> \o text) \o <<Newline>>) \o Replaced(t, node, <<Letter>>) \in Text
  BY <1>2, <1>3, <1>5, ConcatProperties DEF Text
<1>8. Restructured(t, node, type, name) =
        CASE type = "rename" -> Replaced(t, node, name)
          [] type = "extract_function" ->
               ((<<Keyword, Letter>> \o text) \o <<Newline>>) \o Replaced(t, node, <<Letter>>)
          [] type = "wrap_in_try" -> Replaced(t, node, <<Letter>> \o text)
          [] type = "add_async" ->
               IF node.is_function THEN Replaced(t, node, MadeAsync(text)) ELSE None
  BY DEF Restructured
<1> HIDE DEF text
<1>9. MadeAsync(text) \in Text
  BY <1>2, MadeAsyncType
<1> QED BY <1>3, <1>5, <1>6, <1>7, <1>8, <1>9 DEF EditTypes

----------------------------------------------------------------------------
(* All that is kept are texts.                                             *)
Taken == [text : Text, version : Nat \ {0}]

Written(b) == b \in Buffer /\ b.lineage # <<>>

(* A document's buffer and what the agent keeps of it.                     *)
Wording(b, m) ==
  /\ b # None => Written(b)
  /\ m # None => m.text \in Text

TextsInv == \A p \in Paths : Wording(buffer[p], memory[p])

LEMMA WrittenIs ==
  ASSUME NEW b, Written(b)
  PROVE  /\ b.text \in Text /\ b.version \in Nat \ {0} /\ b.life \in Nat \ {0}
         /\ b.lineage \in Seq(Taken) /\ b.lineage # <<>>
BY DEF Written, Buffer, Taken

LEMMA EditedWritten ==
  ASSUME NEW b, Written(b), NEW text \in Text
  PROVE  Written(Edited(b, text))
<1> DEFINE e == Edited(b, text)
           one == b.version + 1
           snapshot == Snapshot(text, one)
           lineage == b.lineage
           next == RecordSnapshot(lineage, snapshot)
<1>1. /\ b.version \in Nat /\ one \in Nat \ {0} /\ b.life \in Nat \ {0}
      /\ lineage \in Seq(Taken) /\ lineage # <<>>
  BY WrittenIs
<1>2. e \in [text : {text}, version : {one}, lineage : {next}, life : {b.life}]
  BY DEF Edited, Written, Buffer
<1>3. snapshot \in Taken
  BY <1>1 DEF Snapshot, Taken
<1>4. Tail(lineage) \in Seq(Taken)
  BY <1>1, HeadTailProperties
<1> HIDE DEF snapshot, lineage, one
<1>5. next \in Seq(Taken) /\ next # <<>>
  <2> DEFINE kept == IF Len(lineage) >= MaxHistory THEN Tail(lineage) ELSE lineage
  <2>1. kept \in Seq(Taken) /\ next = Append(kept, snapshot)
    BY <1>1, <1>4 DEF RecordSnapshot
  <2> HIDE DEF kept
  <2> QED BY <1>3, <2>1, AppendProperties
<1> HIDE DEF next
<1>6. e.lineage = next
  BY <1>2
<1> HIDE DEF e
<1>7. e \in Buffer
  BY <1>1, <1>2, <1>5 DEF Buffer, Taken
<1> QED BY <1>5, <1>6, <1>7 DEF Written, e

LEMMA FreshWritten ==
  ASSUME NEW text \in Text, NEW life \in Nat \ {0}
  PROVE  Written(Fresh(text, life))
<1> DEFINE lineage == <<Snapshot(text, 1)>>
<1>1. Snapshot(text, 1) \in Taken
  BY DEF Snapshot, Taken
<1>2. lineage \in Seq(Taken) /\ lineage # <<>>
  BY <1>1
<1>3. Fresh(text, life) = [text |-> text, version |-> 1, lineage |-> lineage, life |-> life]
  BY DEF Fresh
<1> HIDE DEF lineage
<1> QED BY <1>2, <1>3 DEF Written, Buffer, Taken

(* A list of edits.                                                        *)
Writing(acc) == acc \in [b : {acc.b}, refused : BOOLEAN] /\ Written(acc.b)

LEMMA ApplyingWrites ==
  ASSUME OneByte, NEW acc, Writing(acc), NEW change \in Change
  PROVE  Writing(Applying(acc, change))
<1> DEFINE next == Applying(acc, change)
           text == Changed(acc.b.text, change)
           e == Edited(acc.b, text)
<1>1. CASE acc.refused \/ text = None
  <2>1. next = [acc EXCEPT !.refused = TRUE]
    BY <1>1 DEF Applying
  <2>2. next \in [b : {acc.b}, refused : BOOLEAN] /\ next.b = acc.b
    BY <2>1 DEF Writing
  <2> HIDE DEF next
  <2> QED BY <2>2 DEF Writing, next
<1>2. CASE ~(acc.refused \/ text = None)
  <2>1. next = [acc EXCEPT !.b = e]
    BY <1>2 DEF Applying
  <2>2. Written(acc.b)
    BY DEF Writing
  <2>3. acc.b.text \in Text
    BY <2>2, WrittenIs
  <2>4. text \in Text
    BY <1>2, <2>3, ChangedType
  <2> HIDE DEF text
  <2>5. Written(e)
    BY <2>2, <2>4, EditedWritten
  <2> HIDE DEF e, next
  <2>6. next \in [b : {e}, refused : BOOLEAN] /\ next.b = e
    BY <2>1 DEF Writing
  <2> QED BY <2>5, <2>6 DEF Writing, next
<1> QED BY <1>1, <1>2

LEMMA AppliedWrites ==
  ASSUME OneByte, NEW b, Written(b), NEW edits \in EditLists
  PROVE  Writing(Applied(b, edits))
<1>1. Writing(Untouched(b))
  BY DEF Writing, Untouched
<1>2. PICK n \in 0..2 : DOMAIN edits = 1..n /\ \A i \in 1..n : edits[i] \in Change
  <2>1. CASE edits = <<>>
    <3>1. DOMAIN edits = 1..0 /\ 0 \in 0..2
      BY <2>1
    <3> QED BY <3>1
  <2>2. CASE \E e \in Edits : edits = <<e>>
    <3>1. DOMAIN edits = 1..1 /\ 1 \in 0..2 /\ edits[1] \in Edits
      BY <2>2
    <3> QED BY <3>1, AgentToolsAssumption DEF AgentToolsAssumption
  <2>3. CASE \E e, f \in Edits : edits = <<e, f>>
    <3>1. DOMAIN edits = 1..2 /\ 2 \in 0..2 /\ edits[1] \in Edits /\ edits[2] \in Edits
      BY <2>3
    <3> QED BY <3>1, AgentToolsAssumption DEF AgentToolsAssumption
  <2> QED BY <2>1, <2>2, <2>3 DEF EditLists
<1> DEFINE once == Applying(Untouched(b), edits[1])
           twice == Applying(once, edits[2])
<1>3. ASSUME n >= 1 PROVE Writing(once)
  <2>1. edits[1] \in Change
    BY <1>2, <1>3
  <2> QED BY <1>1, <2>1, ApplyingWrites
<1>4. ASSUME n = 2 PROVE Writing(twice)
  <2>1. edits[2] \in Change
    BY <1>2, <1>4
  <2>2. Writing(once)
    BY <1>3, <1>4
  <2> HIDE DEF once
  <2> QED BY <2>1, <2>2, ApplyingWrites
<1>5. Applied(b, edits) =
        IF n = 0 THEN Untouched(b) ELSE IF n = 1 THEN once ELSE twice
  BY <1>2, AppliedInTurn
<1> HIDE DEF once, twice
<1> QED BY <1>1, <1>3, <1>4, <1>5

(* A step of one document.                                                 *)
LEMMA OneWording ==
  ASSUME Inv, TextsInv, NEW p \in Paths,
         NEW b, buffer' = [buffer EXCEPT ![p] = b],
         NEW m, memory' = [memory EXCEPT ![p] = m],
         Wording(b, m)
  PROVE  TextsInv'
<1>1. \A o \in Paths : Wording(buffer'[o], memory'[o])
  BY DEF Inv, TextsInv
<1> QED BY <1>1 DEF TextsInv

LEMMA LearnWording ==
  ASSUME Inv, TextsInv, NEW p \in Paths, Learn(p)
  PROVE  TextsInv'
<1> DEFINE b == buffer[p]
           m == memory[p]
<1>1. b # None /\ buffer' = [buffer EXCEPT ![p] = b]
  BY DEF Learn, Inv, IsOpen
<1>2. Living(b, lives[p]) /\ Written(b) /\ (m # None => m.text \in Text) /\ lives[p] \in Nat
  BY <1>1 DEF Inv, Told, TextsInv, Wording
<1>3. ASSUME NEW answer, answer.data \in Text, NEW life, NEW misled, NEW new,
             new = Belief(answer, life, misled),
             memory' = [memory EXCEPT ![p] = new]
      PROVE  TextsInv'
  <2>1. new.text \in Text
    BY <1>3 DEF Belief
  <2>2. Wording(b, new)
    BY <1>2, <2>1 DEF Wording
  <2> QED BY <1>1, <1>3, <2>2, OneWording
<1>4. CASE memory' = [memory EXCEPT ![p] = Belief(ReadWholeFile(p), b.life, FALSE)]
  <2> DEFINE answer == ReadWholeFile(p)
  <2>1. answer.data \in Text
    BY <1>2, WrittenIs DEF ReadWholeFile, Answer
  <2> HIDE DEF answer
  <2> QED BY <1>3, <1>4, <2>1 DEF answer
<1>5. ASSUME NEW version \in 1..b.version, ReplayBuffer(p, version) # None,
             memory' = [memory EXCEPT ![p] = Belief(ReplayBuffer(p, version), b.life, FALSE)]
      PROVE  TextsInv'
  <2> DEFINE answer == ReplayBuffer(p, version)
  <2>1. version # 0
    BY <1>2 DEF Living
  <2>2. PICK i \in 1..Len(b.lineage) : answer.data = b.lineage[i].text
    BY <1>2, <1>5, <2>1, ReplayIsSnapshot
  <2>3. b.lineage[i] \in Taken
    BY <1>2, WrittenIs, ElementOfSeq
  <2>4. answer.data \in Text
    BY <2>2, <2>3 DEF Taken
  <2> HIDE DEF answer
  <2> QED BY <1>3, <1>5, <2>4 DEF answer
<1>6. ASSUME m # None, NEW life, NEW misled,
             memory' = [memory EXCEPT ![p] = Belief(SemanticTokensDelta(p, m), life, misled)]
      PROVE  TextsInv'
  <2> DEFINE answer == SemanticTokensDelta(p, m)
  <2>1. answer.data \in Text
    BY <1>2, <1>6, WrittenIs DEF SemanticTokensDelta, Answer
  <2> HIDE DEF answer
  <2> QED BY <1>3, <1>6, <2>1 DEF answer
<1> QED BY <1>4, <1>5, <1>6 DEF Learn

(* An edit after which the agent keeps text, if it keeps anything.         *)
LEMMA EditWording ==
  ASSUME Inv, TextsInv, NEW p \in Paths, NEW checked,
         NEW next, buffer' = [buffer EXCEPT ![p] = next], Written(next),
         NEW version, NEW text, NEW misled,
         Learned(p, checked, version, text, misled),
         checked /\ text # None => text \in Text
  PROVE  TextsInv'
<1>1. CASE ~checked \/ text = None
  <2>1. memory' = [memory EXCEPT ![p] = None]
    BY <1>1 DEF Learned
  <2>2. Wording(next, None)
    BY DEF Wording
  <2> QED BY <2>1, <2>2, OneWording
<1>2. CASE checked /\ text # None
  <2> DEFINE new == Belief(Answer(version, text), memory[p].life, memory[p].misled \/ misled)
  <2>1. memory' = [memory EXCEPT ![p] = new]
    BY <1>2 DEF Learned
  <2>2. new.text = text
    BY DEF Belief, Answer
  <2> HIDE DEF new
  <2>3. Wording(next, new)
    BY <1>2, <2>2 DEF Wording
  <2> QED BY <2>1, <2>3, OneWording
<1> QED BY <1>1, <1>2

LEMMA AcceptedWording ==
  ASSUME Inv, TextsInv, NEW p \in Paths, NEW checked \in BOOLEAN, Accepted(p, checked)
  PROVE  /\ lives[p] \in Nat /\ Living(buffer[p], lives[p]) /\ Written(buffer[p])
         /\ checked => memory[p].text \in Text
  BY AcceptedTold DEF TextsInv, Wording

LEMMA EditFileWording ==
  ASSUME OneByte, Inv, TextsInv, NEW p \in Paths, NEW checked \in BOOLEAN,
         NEW old \in Text, NEW new \in Text, EditFile(p, old, new, checked)
  PROVE  TextsInv'
<1> DEFINE text == EditFound(buffer[p].text, old, new)
           own == IF checked THEN EditFound(memory[p].text, old, new) ELSE None
           next == Edited(buffer[p], text)
<1>1. /\ Accepted(p, checked) /\ text # None
      /\ buffer' = [buffer EXCEPT ![p] = next]
      /\ Learned(p, checked, buffer'[p].version, own, FALSE)
  BY DEF EditFile
<1>2. /\ lives[p] \in Nat /\ Living(buffer[p], lives[p]) /\ Written(buffer[p])
      /\ buffer[p].text \in Text
      /\ checked => memory[p].text \in Text
  BY <1>1, AcceptedWording, WrittenIs
<1>3. text \in Text
  BY <1>1, <1>2, EditFoundType
<1>4. checked /\ own # None => own \in Text
  BY <1>2, EditFoundType
<1> HIDE DEF text, own
<1>5. Written(next)
  BY <1>2, <1>3, EditedWritten
<1> HIDE DEF next
<1> QED BY <1>1, <1>4, <1>5, EditWording

LEMMA ApplyEditsWording ==
  ASSUME OneByte, Inv, TextsInv, NEW p \in Paths, NEW checked \in BOOLEAN,
         NEW edits \in EditLists, ApplyEdits(p, edits, checked)
  PROVE  TextsInv'
<1> DEFINE out == Applied(buffer[p], edits)
           known == memory[p].text
           mine == [buffer[p] EXCEPT !.text = known]
           own == Applied(mine, edits)
           next == out.b
           version == IF edits = <<>> THEN 0 ELSE next.version
           text == IF checked /\ ~own.refused THEN own.b.text ELSE None
           misled == edits = <<>>
<1>1. /\ Accepted(p, checked)
      /\ buffer' = [buffer EXCEPT ![p] = next]
      /\ IF out.refused THEN UNCHANGED memory
         ELSE Learned(p, checked, version, text, misled)
  BY DEF ApplyEdits
<1>2. Written(buffer[p]) /\ (checked => known \in Text)
  BY <1>1, AcceptedWording
<1>3. Written(next)
  BY <1>2, AppliedWrites DEF Writing
<1>4. ASSUME checked, text # None PROVE text \in Text
  <2>1. known \in Text /\ text = own.b.text
    BY <1>2, <1>4
  <2>2. mine \in Buffer /\ mine.lineage = buffer[p].lineage
    BY <1>2, <2>1 DEF Written, Buffer
  <2> HIDE DEF mine
  <2>3. Written(mine)
    BY <1>2, <2>2 DEF Written
  <2>4. Written(own.b)
    BY <2>3, AppliedWrites DEF Writing
  <2> HIDE DEF own
  <2> QED BY <2>1, <2>4, WrittenIs
<1>5. CASE out.refused
  <2>1. memory' = [memory EXCEPT ![p] = memory[p]]
    BY <1>1, <1>5 DEF Inv
  <2>2. Wording(next, memory[p])
    BY <1>3 DEF TextsInv, Wording
  <2> HIDE DEF next
  <2> QED BY <1>1, <2>1, <2>2, OneWording
<1>6. CASE ~out.refused
  <2>1. Learned(p, checked, version, text, misled)
    BY <1>1, <1>6
  <2> HIDE DEF text, version, misled, next
  <2> QED BY <1>1, <1>3, <1>4, <2>1, EditWording
<1> QED BY <1>5, <1>6

LEMMA StructuralEditWording ==
  ASSUME OneByte, Inv, TextsInv, NEW p \in Paths, NEW checked \in BOOLEAN,
         NEW spot, NEW type \in EditTypes, NEW name \in Text,
         StructuralEdit(p, spot, type, name, checked)
  PROVE  TextsInv'
<1>0. PICK node \in NodesOn(p, spot) :
        LET text == PreviewStructuralEdit(p, node, type, name)
            same == text = buffer[p].text
        IN  /\ text # None
            /\ buffer' = IF same THEN buffer ELSE [buffer EXCEPT ![p] = Edited(@, text)]
            /\ Learned(p, checked, buffer[p].version + 1, text, same)
  BY DEF StructuralEdit
<1> DEFINE text == PreviewStructuralEdit(p, node, type, name)
           same == text = buffer[p].text
           next == IF same THEN buffer[p] ELSE Edited(buffer[p], text)
           version == buffer[p].version + 1
<1>1. /\ Accepted(p, checked) /\ text # None
      /\ buffer' = IF same THEN buffer ELSE [buffer EXCEPT ![p] = Edited(@, text)]
      /\ Learned(p, checked, version, text, same)
  BY <1>0 DEF StructuralEdit
<1>2. Written(buffer[p])
  BY <1>1, AcceptedWording
<1>3. buffer' = [buffer EXCEPT ![p] = next]
  BY <1>1 DEF Inv
<1>4. text \in Text
  BY <1>1, <1>2, WrittenIs, RestructuredType DEF PreviewStructuralEdit, NodesOn
<1>5. Learned(p, checked, version, text, same)
  BY <1>1
<1> HIDE DEF text
<1>6. Written(next)
  BY <1>2, <1>4, EditedWritten
<1> HIDE DEF same, next, version
<1> QED BY <1>3, <1>4, <1>5, <1>6, EditWording

LEMMA UserEditWording ==
  ASSUME OneByte, Inv, TextsInv, NEW p \in Paths, NEW change \in Change, UserEdit(p, change)
  PROVE  TextsInv'
<1> DEFINE text == Changed(buffer[p].text, change)
           next == Edited(buffer[p], text)
<1>1. /\ buffer[p] # None /\ text # None
      /\ buffer' = [buffer EXCEPT ![p] = next]
      /\ memory' = [memory EXCEPT ![p] = memory[p]]
  BY DEF UserEdit, IsOpen, Inv
<1>2. Written(buffer[p]) /\ (memory[p] # None => memory[p].text \in Text)
  BY <1>1 DEF TextsInv, Wording
<1>3. text \in Text
  BY <1>1, <1>2, WrittenIs, ChangedType
<1> HIDE DEF text
<1>4. Written(next)
  BY <1>2, <1>3, EditedWritten
<1> HIDE DEF next
<1>5. Wording(next, memory[p])
  BY <1>2, <1>4 DEF Wording
<1> QED BY <1>1, <1>5, OneWording

LEMMA OpenBufferWording ==
  ASSUME Inv, TextsInv, NEW p \in Paths, NEW text \in Text, OpenBuffer(p, text)
  PROVE  TextsInv'
<1> DEFINE life == lives[p] + 1
           next == Fresh(text, life)
<1>1. /\ life \in Nat \ {0}
      /\ buffer' = [buffer EXCEPT ![p] = next]
      /\ memory' = [memory EXCEPT ![p] = memory[p]]
  BY DEF OpenBuffer, Inv
<1> HIDE DEF life
<1>2. Written(next)
  BY <1>1, FreshWritten
<1> HIDE DEF next
<1>3. Wording(next, memory[p])
  BY <1>2 DEF Wording, TextsInv
<1> QED BY <1>1, <1>3, OneWording

LEMMA ClosedWording ==
  ASSUME TextsInv, NEW S, UNCHANGED memory,
         buffer' = [p \in Paths |-> IF p \in S THEN None ELSE buffer[p]]
  PROVE  TextsInv'
BY DEF TextsInv, Wording

LEMMA StepWording ==
  ASSUME OneByte, Inv, TextsInv, [Next]_vars
  PROVE  TextsInv'
<1>1. Contents \subseteq Text /\ Queries \subseteq Text /\ Names \subseteq Text /\ Edits \subseteq Change
  BY AgentToolsAssumption DEF AgentToolsAssumption
<1>2. ASSUME NEW p \in Paths, AgentStep(p) PROVE TextsInv'
  <2>1. CASE Learn(p)
    BY <2>1, LearnWording
  <2>2. ASSUME NEW checked \in BOOLEAN, NEW old \in Queries, NEW new \in Names,
               EditFile(p, old, new, checked)
        PROVE  TextsInv'
    BY <1>1, <2>2, EditFileWording
  <2>3. ASSUME NEW checked \in BOOLEAN, NEW edits \in EditLists,
               ApplyEdits(p, edits, checked)
        PROVE  TextsInv'
    BY <2>3, ApplyEditsWording
  <2>4. ASSUME NEW checked \in BOOLEAN, NEW spot \in Spots, NEW type \in EditTypes,
               NEW name \in Names, StructuralEdit(p, spot, type, name, checked)
        PROVE  TextsInv'
    BY <1>1, <2>4, StructuralEditWording
  <2> QED BY <1>2, <2>1, <2>2, <2>3, <2>4 DEF AgentStep, AgentEdit
<1>3. ASSUME NEW p \in Paths, UserStep(p) PROVE TextsInv'
  <2>1. ASSUME NEW text \in Contents, OpenBuffer(p, text) PROVE TextsInv'
    BY <1>1, <2>1, OpenBufferWording
  <2>2. CASE CloseDocument(p)
    <3>1. /\ UNCHANGED memory
          /\ buffer' = [o \in Paths |-> IF o \in {p} THEN None ELSE buffer[o]]
      BY <2>2 DEF CloseDocument, Inv
    <3> QED BY <3>1, ClosedWording
  <2>3. ASSUME NEW change \in Edits, UserEdit(p, change) PROVE TextsInv'
    BY <1>1, <2>3, UserEditWording
  <2> QED BY <1>3, <2>1, <2>2, <2>3 DEF UserStep
<1>4. ASSUME NEW ps \in Batches, CloseBuffersBatch(ps) PROVE TextsInv'
  <2>1. /\ UNCHANGED memory
        /\ buffer' = [o \in Paths |-> IF o \in Range(ps) THEN None ELSE buffer[o]]
    BY <1>4 DEF CloseBuffersBatch
  <2> QED BY <2>1, ClosedWording
<1>5. CASE UNCHANGED <<buffer, memory>>
  BY <1>5 DEF TextsInv
<1>6. ASSUME NEW s \in Subscribers, Subscribe(s) \/ \E limit \in 1..2 : Poll(s, limit)
      PROVE  UNCHANGED <<buffer, memory>>
  BY <1>6 DEF Subscribe, Poll
<1>7. CASE UNCHANGED vars
  BY <1>5, <1>7 DEF vars
<1> QED BY <1>2, <1>3, <1>4, <1>5, <1>6, <1>7 DEF Next

LEMMA TextsOnly ==
  ASSUME OneByte
  PROVE  Spec => []TextsInv
<1>1. Init => TextsInv
  BY DEF Init, TextsInv, Wording
<1>2. Inv /\ TextsInv /\ [Next]_vars => TextsInv'
  BY StepWording
<1> QED BY <1>1, <1>2, MemoryIsTrue, PTL DEF Spec

(* Every variable holds a value of its type, the queues within their cap,  *)
(* whatever is edited, searched for and written: no tool leaves anything   *)
(* but a text in a buffer (mcp/tools.rs, registry.rs).                     *)
THEOREM TypeCorrect ==
  ASSUME OneByte
  PROVE  Spec => []TypeOK
<1>1. Inv /\ TextsInv /\ EventsInv => TypeOK
  <2> SUFFICES ASSUME Inv, TextsInv, EventsInv PROVE TypeOK
    OBVIOUS
  <2>1. ASSUME NEW p \in Paths
        PROVE  buffer[p] \in {None} \union Buffer /\ memory[p] \in {None} \union Memory
    <3> DEFINE b == buffer[p]
               m == memory[p]
    <3>1. b # None => b \in Buffer
      BY DEF TextsInv, Wording, Written
    <3>2. ASSUME m # None PROVE m \in Memory
      <4>1. Remembered(m, lives[p]) /\ m.text \in Text /\ lives[p] \in Nat
        BY <3>2 DEF Inv, Told, TextsInv, Wording
      <4> HIDE DEF m
      <4> QED BY <4>1 DEF Remembered, Memory
    <3> QED BY <3>1, <3>2
  <2> QED BY <2>1 DEF TypeOK, Inv, EventsInv, Served
<1>2. Spec => []EventsInv
  BY EventsInit, EventsStep, PTL DEF Spec
<1> QED BY <1>1, <1>2, MemoryIsTrue, TextsOnly, PTL

----------------------------------------------------------------------------
(* A part of a text is found in it, and nothing is part of every text.     *)
LEMMA FoundSomewhere ==
  ASSUME NEW t \in Text, NEW query, NEW o \in 0..Len(t), Occurs(t, query, o)
  PROVE  Find(t, query) # None
<1> DEFINE T == {x \in 0..Len(t) : Occurs(t, query, x)}
<1>1. T # {} /\ T \subseteq Nat
  OBVIOUS
<1>2. Find(t, query) = Min(T)
  BY <1>1 DEF Find
<1> HIDE DEF T
<1>3. Min(T) \in Nat
  BY <1>1, MinIsLeast
<1> QED BY <1>2, <1>3, CharsAssumption DEF CharsAssumption

LEMMA NothingIsFound ==
  ASSUME NEW t \in Text, NEW nothing \in Text, Len(nothing) = 0
  PROVE  Find(t, nothing) # None
<1> DEFINE o == 0
           end == o + Len(nothing)
           first == o + 1
<1>1. o \in Nat /\ o <= Len(t) /\ o \in 0..Len(t) /\ end = o /\ end <= Len(t)
  BY LenProperties DEF Text
<1> HIDE DEF o
<1>2. SubSeq(t, first, o) \in Seq(Chars) /\ Len(SubSeq(t, first, o)) = o - o
  BY <1>1, PartShape DEF Text
<1>3. SubSeq(t, first, end) = nothing
  BY <1>1, <1>2, EmptySeq DEF Text
<1>4. Occurs(t, nothing, o)
  BY <1>1, <1>3 DEF Occurs
<1> QED BY <1>1, <1>4, FoundSomewhere

LEMMA PartIsFound ==
  ASSUME NEW t \in Text, NEW from \in 1..Len(t), NEW to \in 1..Len(t),
         NEW old, old = SubSeq(t, from, to)
  PROVE  old \in Text /\ Find(t, old) # None
<1> DEFINE n == Len(t)
<1>1. n \in Nat /\ from \in 1..n /\ to \in 1..n /\ n <= Len(t)
  BY LenProperties DEF Text
<1>2. CASE from <= to
  <2> DEFINE o == from - 1
             size == Len(old)
             end == o + size
             first == o + 1
  <2>1. o \in Nat /\ o <= to /\ from = o + 1 /\ o \in 0..n /\ to \in Nat /\ to <= n
    BY <1>1, <1>2
  <2>2. to <= Len(t)
    BY <1>1
  <2> HIDE DEF o
  <2>3. old \in Text /\ size = to - o
    <3>1. t \in Seq(Chars)
      BY DEF Text
    <3>2. o \in Nat /\ to \in Nat /\ o <= to /\ from = o + 1
      BY <2>1
    <3> DEFINE part == SubSeq(t, from, to)
    <3>3. part \in Seq(Chars) /\ Len(part) = to - o
      BY <2>2, <3>1, <3>2, PartShape
    <3>4. part = old
      OBVIOUS
    <3> HIDE DEF part
    <3> QED BY <3>3, <3>4 DEF Text
  <2>4. end = to /\ first = from
    BY <2>1, <2>3
  <2>5. Occurs(t, old, o)
    <3>1. end <= Len(t) /\ SubSeq(t, first, end) = old
      BY <2>2, <2>4
    <3> QED BY <3>1 DEF Occurs
  <2> QED BY <2>1, <2>3, <2>5, FoundSomewhere
<1>3. CASE ~(from <= to)
  <2>1. t \in Seq(Chars) /\ from \in Int /\ to \in Int /\ to < from
    BY <1>1, <1>3 DEF Text
  <2>2. \A i \in from..to : t[i] \in Chars
    BY <2>1
  <2>3. old \in Text /\ Len(old) = 0
    BY <2>1, <2>2, SubSeqProperties DEF Text
  <2> QED BY <2>3, NothingIsFound
<1> QED BY <1>2, <1>3

(* Whatever part of a text edit_file is given to replace, it replaces      *)
(* where it is found first and nothing else (tools.rs, offset_to_position, *)
(* text_buffer.rs, position_to_offset).                                    *)
THEOREM FoundIsReplaced ==
  ASSUME OneByte, OneUnit
  PROVE  Spec => []FoundTextReplaced
<1>1. TextsInv => FoundTextReplaced
  <2>1. ASSUME TextsInv, NEW p \in Open, NEW new \in Names,
               NEW t, t = buffer[p].text, NEW from \in 1..Len(t), NEW to \in 1..Len(t)
        PROVE  FoundReplacedIn(t, SubSeq(t, from, to), new)
    <3> DEFINE old == SubSeq(t, from, to)
    <3>1. t \in Text
      BY <2>1, WrittenIs DEF TextsInv, Wording, Open, IsOpen
    <3>2. new \in Text
      BY AgentToolsAssumption DEF AgentToolsAssumption
    <3>3. old \in Text /\ Find(t, old) # None
      BY <3>1, PartIsFound
    <3> HIDE DEF old
    <3>4. FoundReplacedIn(t, old, new)
      BY <3>1, <3>2, <3>3, FoundReplaced
    <3> QED BY <3>4 DEF old
  <2>2. FoundTextReplaced <=>
          \A p \in Open, new \in Names : \A from, to \in 1..Len(buffer[p].text) :
            FoundReplacedIn(buffer[p].text, SubSeq(buffer[p].text, from, to), new)
    BY DEF FoundTextReplaced, FoundReplacedIn
  <2> QED BY <2>1, <2>2
<1> QED BY <1>1, TextsOnly, PTL

(* A match is an occurrence, under the position of its offset.             *)
LEMMA MatchIsPlace ==
  ASSUME NEW t \in Text, NEW query, NEW case_sensitive \in BOOLEAN,
         NEW m \in Matches(t, query, case_sensitive)
  PROVE  \E o \in 0..Len(t) :
           /\ Occurs(Searched(t, case_sensitive), Searched(query, case_sensitive), o)
           /\ m.byte_offset = o
           /\ [line |-> m.line, column |-> m.column] = PositionAt(t, o)
<1> DEFINE at == {o \in 0..Len(t) : Occurs(Searched(t, case_sensitive),
                                           Searched(query, case_sensitive), o)}
           n == Len(t) + 1
           A == SUBSET at
           Take(taken, i) == IF i - 1 \in at /\ \A o \in taken : o + Len(query) <= i - 1
                               THEN taken \union {i - 1} ELSE taken
           base == {}
           F == [i \in 1..n |-> [a \in A |-> Take(a, i)]]
           Eq(f) == f = [i \in 0..n |-> IF i = 0 THEN {} ELSE Take(f[i - 1], i)]
           apart == CHOOSE f : Eq(f)
           offsets == IF case_sensitive THEN apart[n] ELSE at
           Match(o) == [line   |-> LineColumn(t, o).line + 1,
                        column |-> LineColumn(t, o).column + 1,
                        byte_offset |-> o, byte_length |-> Len(query)]
<1>1. n \in Nat /\ 0 \in 0..n /\ n \in 0..n /\ \A i \in 1..n : i \in 0..n /\ i # 0
  BY LenProperties DEF Text
<1>2. \E o \in offsets : m = Match(o)
  BY DEF Matches
<1> HIDE DEF at, n
<1>3. ASSUME NEW a \in A, NEW i \in 1..n PROVE Take(a, i) \in A
  OBVIOUS
<1>4. F \in [1..n -> [A -> A]] /\ base \in A
  BY <1>3
<1> HIDE DEF A, F, Take, base
<1>5. PICK h \in [0..n -> A] : StepByStep(h, n, base, F)
  BY <1>1, <1>4, RecursionSteps
<1>6. ASSUME NEW i \in 1..n PROVE h[i] = Take(h[i - 1], i)
  <2>1. h[i - 1] \in A
    BY <1>1
  <2> QED BY <1>5, <2>1 DEF F, StepByStep
<1>7. Eq(h)
  <2>1. \A i \in 0..n : i = 0 \/ i \in 1..n
    BY <1>1
  <2>2. h = [i \in 0..n |-> h[i]]
    OBVIOUS
  <2>3. \A i \in 0..n : h[i] = IF i = 0 THEN base ELSE Take(h[i - 1], i)
    BY <1>5, <1>6, <2>1 DEF StepByStep
  <2> QED BY <2>2, <2>3 DEF base
<1>8. Eq(apart)
  <2> HIDE DEF Eq
  <2> QED BY <1>7
<1> HIDE DEF apart
<1>9. Unrolls(apart, n, A, base, F)
  <2>1. apart[0] = base
    BY <1>1, <1>8 DEF base
  <2>2. ASSUME NEW i \in 1..n, apart[i - 1] \in A PROVE apart[i] = F[i][apart[i - 1]]
    BY <1>1, <1>8, <2>2 DEF F
  <2> QED BY <2>1, <2>2 DEF Unrolls
<1> HIDE DEF Eq, offsets, Match
<1>10. apart[n] = h[n]
  <2>1. n \in Nat /\ n \in 0..n
    BY <1>1
  <2>2. \A i \in 0..n : apart[i] = h[i]
    <3>1. n \in Nat
      BY <1>1
    <3> QED BY <3>1, <1>4, <1>5, <1>9, RecursionIs
  <2> QED BY <2>1, <2>2
<1>11. offsets \subseteq at
  BY <1>1, <1>10 DEF A, offsets
<1>12. PICK o \in at : m = Match(o)
  BY <1>2, <1>11
<1>13. /\ m.byte_offset = o
       /\ [line |-> m.line, column |-> m.column] = PositionAt(t, o)
  BY <1>12 DEF PositionAt, LineColumn, Match
<1> QED BY <1>12, <1>13 DEF at

(* At the offset of a match stands the query, but for case in the search   *)
(* that ignores it, and its line and column lead there (tools.rs,          *)
(* find_text_matches, byte_offset_to_line_col, position_to_offset).        *)
THEOREM MatchesAreInPlace ==
  ASSUME OneByte, OneUnit
  PROVE  Spec => []MatchesInPlace
<1>1. TextsInv => MatchesInPlace
  <2> SUFFICES ASSUME TextsInv, NEW p \in Open, NEW query \in Queries,
                      NEW case_sensitive \in BOOLEAN, NEW t, t = buffer[p].text,
                      NEW m \in Matches(t, query, case_sensitive)
               PROVE  IsInPlace(t, query, case_sensitive, m)
    BY DEF MatchesInPlace, SearchTextInBuffers, Answer
  <2>1. t \in Text
    BY WrittenIs DEF TextsInv, Wording, Open, IsOpen
  <2>2. PICK o \in 0..Len(t) :
          /\ Occurs(Searched(t, case_sensitive), Searched(query, case_sensitive), o)
          /\ m.byte_offset = o
          /\ [line |-> m.line, column |-> m.column] = PositionAt(t, o)
    BY <2>1, MatchIsPlace
  <2>3. o \in Nat /\ o <= Len(t)
    BY <2>1, BytesAreChars
  <2>4. PositionToOffset(t, LineStarts(t), PositionAt(t, o)) = o
    BY <2>1, <2>3, ThereAndBack
  <2> QED BY <2>2, <2>4 DEF IsInPlace
<1> QED BY <1>1, TextsOnly, PTL

----------------------------------------------------------------------------
(* Diffs.                                                                  *)

(* A sequence put together again from its elements.                        *)
LEMMA OneMore ==
  ASSUME NEW S, NEW s \in Seq(S), NEW k \in Nat, NEW j, j = k + 1, j <= Len(s)
  PROVE  SubSeq(s, 1, k) \o <<s[j]>> = SubSeq(s, 1, j)
<1> DEFINE a == SubSeq(s, 1, k)
           e == s[j]
           b == <<e>>
           c == a \o b
           d == SubSeq(s, 1, j)
<1>1. Len(s) \in Nat /\ k <= Len(s) /\ j \in Nat /\ j \in 1..Len(s)
  BY LenProperties
<1>2. a \in Seq(S) /\ Len(a) = k /\ \A i \in 1..k : a[i] = s[i]
  BY <1>1, FirstPart
<1>3. d \in Seq(S) /\ Len(d) = j /\ \A i \in 1..j : d[i] = s[i]
  BY <1>1, FirstPart
<1>4. e \in S
  BY <1>1, ElementOfSeq
<1> HIDE DEF a, d, e
<1>5. b \in Seq(S) /\ Len(b) = 1 /\ b[1] = e
  BY <1>4
<1> HIDE DEF b
<1>6. /\ c \in Seq(S) /\ Len(c) = k + 1
      /\ \A i \in 1..(k + 1) : c[i] = IF i <= k THEN a[i] ELSE b[i - k]
  <2>1. /\ c \in Seq(S) /\ Len(c) = Len(a) + Len(b)
        /\ \A i \in 1..(Len(a) + Len(b)) : c[i] = IF i <= Len(a) THEN a[i] ELSE b[i - Len(a)]
    <3>1. a \in Seq(S) /\ b \in Seq(S)
      BY <1>2, <1>5
    <3> HIDE DEF c
    <3>2. a \o b \in Seq(S) /\ Len(a \o b) = Len(a) + Len(b)
          /\ \A i \in 1..(Len(a) + Len(b)) : (a \o b)[i] = IF i <= Len(a) THEN a[i] ELSE b[i - Len(a)]
      BY <3>1, ConcatProperties
    <3> QED BY <3>2 DEF c
  <2> QED BY <1>2, <1>5, <2>1
<1> HIDE DEF c
<1>7. ASSUME NEW i \in 1..j PROVE c[i] = d[i]
  <2>1. CASE i <= k
    <3>1. i \in 1..k /\ i \in 1..(k + 1)
      BY <2>1
    <3> QED BY <1>2, <1>3, <1>6, <2>1, <3>1
  <2>2. CASE ~(i <= k)
    <3>1. i = j /\ i \in 1..(k + 1) /\ i - k = 1
      BY <2>2
    <3> QED BY <1>3, <1>5, <1>6, <2>2, <3>1 DEF e
  <2> QED BY <2>1, <2>2
<1>8. Len(c) = Len(d) /\ Len(c) = j
  BY <1>3, <1>6
<1>9. c = d
  BY <1>3, <1>6, <1>7, <1>8, SeqEqual
<1> QED BY <1>9 DEF c, d, a, b, e

(* Line i of one side of a diff, or nothing beyond the end.                *)
SideAt(lines, i) == IF i <= Len(lines) THEN <<lines[i]>> ELSE <<>>

LEMMA SideFlattened ==
  ASSUME NEW S, NEW s \in Seq(S), NEW n \in Nat, Len(s) <= n,
         NEW parts, parts = [i \in 1..n |-> SideAt(s, i)]
  PROVE  FlattenSeq(parts) = s
<1> DEFINE l == Len(s)
           Cut(i) == IF i <= l THEN i ELSE l
           g == [i \in 1..n |-> SubSeq(s, 1, Cut(i))]
           Eq(f) == f = [i \in 1..n |-> IF i = 1 THEN parts[i] ELSE f[i - 1] \o parts[i]]
           flatten == CHOOSE f : Eq(f)
           P == {i \in Nat : i \in 1..n => flatten[i] = g[i]}
<1>0. l \in Nat /\ l <= n /\ l = Len(s)
  BY LenProperties
<1>1. Len(parts) = n /\ SubSeq(s, 1, l) = s
  <2>1. l \in Nat /\ l <= Len(s)
    BY LenProperties
  <2>2. SubSeq(s, 1, l) \in Seq(S) /\ Len(SubSeq(s, 1, l)) = l
        /\ \A i \in 1..l : SubSeq(s, 1, l)[i] = s[i]
    BY <2>1, FirstPart
  <2>3. SubSeq(s, 1, l) = s
    BY <2>2, SeqEqual
  <2> HIDE DEF l
  <2>4. Len(parts) = n
    OBVIOUS
  <2> QED BY <2>3, <2>4 DEF l
<1>2. CASE n = 0
  <2>1. parts = <<>> /\ s = <<>>
    <3>1. l = 0
      BY <1>0, <1>2
    <3>2. parts = <<>>
      BY <1>2
    <3> QED BY <3>1, <3>2, EmptySeq
  <2> QED BY <1>1, <1>2, <2>1 DEF FlattenSeq
<1>3. CASE n # 0
  <2>1. FlattenSeq(parts) = flatten[n]
    BY <1>1, <1>3 DEF FlattenSeq
  <2>2. ASSUME NEW i \in 1..n, i # 1 PROVE g[i] = g[i - 1] \o parts[i]
    <3> DEFINE k == i - 1
    <3>1. k \in 1..n /\ i = k + 1 /\ k \in Nat
      BY <2>2
    <3>2. g[i] = SubSeq(s, 1, Cut(i)) /\ g[k] = SubSeq(s, 1, Cut(k)) /\ parts[i] = SideAt(s, i)
      BY <3>1
    <3> HIDE DEF k, g
    <3>3. CASE i <= l
      <4>1. Cut(i) = i /\ Cut(k) = k /\ i <= Len(s) /\ SideAt(s, i) = <<s[i]>>
        BY <1>0, <3>1, <3>3 DEF SideAt
      <4>2. SubSeq(s, 1, k) \o <<s[i]>> = SubSeq(s, 1, i)
        BY <3>1, <4>1, OneMore
      <4> QED BY <3>2, <4>1, <4>2 DEF k
    <3>4. CASE ~(i <= l)
      <4>1. Cut(i) = l /\ Cut(k) = l /\ SideAt(s, i) = <<>>
        BY <1>0, <3>1, <3>4 DEF SideAt
      <4>2. s \o <<>> = s
        BY ConcatEmptySeq
      <4> QED BY <1>1, <3>2, <4>1, <4>2 DEF k
    <3> QED BY <3>3, <3>4
  <2>3. g[1] = parts[1]
    <3>1. 1 \in 1..n
      BY <1>3
    <3>2. CASE l = 0
      <4>1. g[1] = SubSeq(s, 1, l) /\ parts[1] = <<>>
        BY <3>1, <3>2 DEF SideAt
      <4>2. s = <<>>
        BY <3>2, EmptySeq
      <4> QED BY <1>1, <4>1, <4>2
    <3>3. CASE l # 0
      <4>1. 1 <= Len(s) /\ g[1] = SubSeq(s, 1, 1) /\ parts[1] = <<s[1]>>
        BY <1>0, <3>1, <3>3 DEF SideAt
      <4> DEFINE zero == 0
                 one == 1
                 a == SubSeq(s, 1, zero)
      <4>2. zero \in Nat /\ one = zero + 1 /\ one <= Len(s) /\ zero <= Len(s)
        BY <4>1, LenProperties
      <4>3. a \in Seq(S) /\ Len(a) = zero
        <5> HIDE DEF zero
        <5> QED BY <4>2, FirstPart
      <4>4. a \o <<s[one]>> = SubSeq(s, 1, one)
        <5> HIDE DEF zero, one
        <5> QED BY <4>2, OneMore
      <4>5. a = <<>>
        BY <4>3, EmptySeq
      <4>6. <<s[1]>> \in Seq(S)
        BY <4>1, LenProperties, ElementOfSeq
      <4>7. <<>> \o <<s[1]>> = <<s[1]>>
        BY <4>6, ConcatEmptySeq
      <4> QED BY <4>1, <4>4, <4>5, <4>7
    <3> QED BY <3>2, <3>3
  <2>4. Eq(g)
    <3>1. g = [i \in 1..n |-> g[i]]
      OBVIOUS
    <3> HIDE DEF g
    <3> QED BY <2>2, <2>3, <3>1
  <2>5. Eq(flatten)
    <3> HIDE DEF Eq
    <3> QED BY <2>4
  <2> HIDE DEF flatten, g
  <2>6. 0 \in P
    OBVIOUS
  <2>7. ASSUME NEW i \in Nat, i \in P PROVE i + 1 \in P
    <3> DEFINE j == i + 1
    <3> SUFFICES ASSUME j \in 1..n PROVE flatten[j] = g[j]
      OBVIOUS
    <3>1. CASE j = 1
      BY <2>3, <2>5, <3>1
    <3>2. CASE j # 1
      <4>1. j - 1 \in 1..n /\ j - 1 = i
        BY <3>2
      <4>2. flatten[j - 1] = g[j - 1]
        BY <2>7, <4>1
      <4>3. flatten[j] = flatten[j - 1] \o parts[j]
        BY <2>5, <3>2
      <4> HIDE DEF j
      <4> QED BY <2>2, <3>2, <4>2, <4>3
    <3> QED BY <3>1, <3>2
  <2> HIDE DEF P
  <2>8. n \in P
    BY <2>6, <2>7, SetNatInduction
  <2>9. n \in 1..n /\ Cut(n) = l
    BY <1>0, <1>3
  <2>10. flatten[n] = SubSeq(s, 1, l)
    BY <2>8, <2>9 DEF P, g
  <2> QED BY <1>1, <2>1, <2>10
<1> QED BY <1>2, <1>3

KindOf(o, n) ==
  CASE o = n -> "equal"
    [] o # n /\ <<>> \notin {o, n} -> "changed"
    [] o = <<>> /\ n # <<>> -> "added"
    [] n = <<>> /\ o # <<>> -> "removed"

(* A diff of two sequences of lines, of as many chunks as the longer has   *)
(* lines.                                                                  *)
IsDiff(diff, size, before, after) ==
  /\ size \in Nat /\ Len(before) <= size /\ Len(after) <= size
  /\ size = Len(before) \/ size = Len(after)
  /\ diff = [i \in 1..size |->
               [kind |-> KindOf(SideAt(before, i), SideAt(after, i)),
                old  |-> SideAt(before, i), new |-> SideAt(after, i)]]

LEMMA LineDiffIs ==
  ASSUME NEW S, NEW old, NEW before, before = LinesOf(old), before \in Seq(S),
         NEW new, NEW after, after = LinesOf(new), after \in Seq(S)
  PROVE  \E size : IsDiff(LineDiff(old, new), size, before, after)
<1> DEFINE b == Len(before)
           a == Len(after)
           T == {b, a}
           size == Max(T)
           sum == b + a
<1>1. b \in Nat /\ a \in Nat
  BY LenProperties
<1>2. LineDiff(old, new) =
        [i \in 1..size |-> [kind |-> KindOf(SideAt(before, i), SideAt(after, i)),
                            old  |-> SideAt(before, i), new |-> SideAt(after, i)]]
  BY DEF LineDiff, KindOf, SideAt
<1> HIDE DEF a, b
<1>3. sum \in Nat /\ T \in SUBSET (0..sum) /\ T # {}
  BY <1>1
<1> HIDE DEF T, sum
<1>4. size \in T /\ \A y \in T : y <= size
  BY <1>3, MaxFromZero
<1> HIDE DEF size
<1>5. size \in Nat /\ b <= size /\ a <= size /\ (size = b \/ size = a)
  BY <1>1, <1>4 DEF T
<1> QED BY <1>2, <1>5 DEF IsDiff, a, b

LEMMA DiffTells ==
  ASSUME NEW S, NEW before \in Seq(S), NEW after \in Seq(S),
         NEW diff, NEW size, IsDiff(diff, size, before, after)
  PROVE  /\ FlattenSeq([i \in DOMAIN diff |-> diff[i].old]) = before
         /\ FlattenSeq([i \in DOMAIN diff |-> diff[i].new]) = after
<1>1. /\ size \in Nat /\ Len(before) <= size /\ Len(after) <= size
      /\ DOMAIN diff = 1..size
      /\ \A i \in 1..size : diff[i].old = SideAt(before, i) /\ diff[i].new = SideAt(after, i)
  BY DEF IsDiff
<1>2. /\ [i \in DOMAIN diff |-> diff[i].old] = [i \in 1..size |-> SideAt(before, i)]
      /\ [i \in DOMAIN diff |-> diff[i].new] = [i \in 1..size |-> SideAt(after, i)]
  BY <1>1
<1>3. size \in Nat /\ Len(before) <= size /\ Len(after) <= size
  BY <1>1
<1>4. /\ FlattenSeq([i \in 1..size |-> SideAt(before, i)]) = before
      /\ FlattenSeq([i \in 1..size |-> SideAt(after, i)]) = after
  BY <1>3, SideFlattened
<1> QED BY <1>2, <1>4

LEMMA DiffCounts ==
  ASSUME NEW S, NEW before \in Seq(S), NEW after \in Seq(S),
         NEW diff, NEW size, IsDiff(diff, size, before, after)
  PROVE  /\ Len(after) - Len(before) = HowMany(diff, "added") - HowMany(diff, "removed")
         /\ before = after <=> HowMany(diff, "equal") = Len(diff)
<1> DEFINE b == Len(before)
           a == Len(after)
           Of(kind) == {i \in 1..size : diff[i].kind = kind}
           o(i) == SideAt(before, i)
           n(i) == SideAt(after, i)
<1>1. /\ size \in Nat /\ b \in Nat /\ a \in Nat /\ b <= size /\ a <= size
      /\ size = b \/ size = a
  BY LenProperties DEF IsDiff
<1>2. Len(diff) = size /\ \A i \in 1..size : diff[i].kind = KindOf(o(i), n(i))
  BY DEF IsDiff
<1>3. \A kind : HowMany(diff, kind) = Cardinality(Of(kind))
  BY <1>2 DEF HowMany
<1>4. ASSUME NEW i \in 1..size
      PROVE  /\ o(i) = <<>> <=> b < i
             /\ n(i) = <<>> <=> a < i
             /\ o(i) = n(i) => (i <= b <=> i <= a) /\ (i <= b => before[i] = after[i])
  <2>1. \A x, y : <<x>> # <<>> /\ (<<x>> = <<y>> => x = y)
    OBVIOUS
  <2>2. o(i) = IF i <= b THEN <<before[i]>> ELSE <<>>
    BY DEF SideAt
  <2>3. n(i) = IF i <= a THEN <<after[i]>> ELSE <<>>
    BY DEF SideAt
  <2>4. (b < i <=> ~(i <= b)) /\ (a < i <=> ~(i <= a))
    BY <1>1
  <2> HIDE DEF a, b, o, n
  <2> QED BY <2>1, <2>2, <2>3, <2>4
<1> HIDE DEF a, b, o, n
<1>5. Of("added") = (b + 1)..a
  <2>1. ASSUME NEW i \in 1..size PROVE diff[i].kind = "added" <=> b < i /\ i <= a
    <3>1. diff[i].kind = "added" <=> o(i) = <<>> /\ n(i) # <<>>
      BY <1>2 DEF KindOf
    <3> QED BY <1>1, <1>4, <3>1
  <2> QED BY <1>1, <2>1
<1>6. Of("removed") = (a + 1)..b
  <2>1. ASSUME NEW i \in 1..size PROVE diff[i].kind = "removed" <=> a < i /\ i <= b
    <3>1. diff[i].kind = "removed" <=> n(i) = <<>> /\ o(i) # <<>>
      BY <1>2 DEF KindOf
    <3> QED BY <1>1, <1>4, <3>1
  <2> QED BY <1>1, <2>1
<1>7. a - b = HowMany(diff, "added") - HowMany(diff, "removed")
  <2> DEFINE b1 == b + 1
             a1 == a + 1
  <2>1. b1 \in Int /\ a1 \in Int /\ a \in Int /\ b \in Int
    BY <1>1
  <2>2. b1 = b + 1 /\ a1 = a + 1
    OBVIOUS
  <2>3. Of("added") = b1..a /\ Of("removed") = a1..b
    BY <1>5, <1>6
  <2> HIDE DEF b1, a1, Of
  <2>4. /\ Cardinality(b1..a) = IF b1 > a THEN 0 ELSE a - b1 + 1
        /\ Cardinality(a1..b) = IF a1 > b THEN 0 ELSE b - a1 + 1
    BY <2>1, FS_Interval
  <2>5. a - b = Cardinality(b1..a) - Cardinality(a1..b)
    BY <1>1, <2>2, <2>4
  <2> QED BY <1>3, <2>3, <2>5
<1>8. \A i \in 1..size : diff[i].kind = "equal" <=> o(i) = n(i)
  BY <1>2 DEF KindOf
<1>9. IsFiniteSet(1..size) /\ Cardinality(1..size) = size
  BY <1>1, FS_Interval
<1>10. HowMany(diff, "equal") = size <=> Of("equal") = 1..size
  <2>1. Of("equal") \in SUBSET (1..size)
    OBVIOUS
  <2> HIDE DEF Of
  <2> QED BY <1>3, <1>9, <2>1, FS_Subset
<1>11. Of("equal") = 1..size <=> \A i \in 1..size : o(i) = n(i)
  BY <1>8
<1>12. before = after => \A i \in 1..size : o(i) = n(i)
  BY DEF o, n
<1>13. ASSUME \A i \in 1..size : o(i) = n(i) PROVE before = after
  <2>1. a = b
    <3>1. CASE size = 0
      BY <1>1, <3>1
    <3>2. CASE size # 0
      <4>1. size \in 1..size
        BY <1>1, <3>2
      <4> QED BY <1>1, <1>4, <1>13, <4>1
    <3> QED BY <3>1, <3>2
  <2>2. \A i \in 1..b : before[i] = after[i]
    BY <1>1, <1>4, <1>13
  <2> QED BY <2>1, <2>2, SeqEqual DEF a, b
<1>14. before = after <=> HowMany(diff, "equal") = Len(diff)
  BY <1>2, <1>10, <1>11, <1>12, <1>13
<1> QED BY <1>7, <1>14 DEF a, b

(* What a tool says has changed since a version the agent knows leads from *)
(* the lines of the text it knows to the lines of the buffer's, as         *)
(* str::lines has them, and the counts add up (tools.rs,                   *)
(* compare_buffer_versions, compute_line_diff).                            *)
THEOREM DiffsAreExplained ==
  ASSUME OneByte
  PROVE  Spec => []DiffsExplain
<1>1. Inv /\ TextsInv /\ BeliefsHold => DiffsExplain
  <2> SUFFICES ASSUME Inv, TextsInv, BeliefsHold, NEW p \in Open, memory[p] # None,
                      memory[p].life = buffer[p].life, ~memory[p].misled,
                      CompareBufferVersions(p, memory[p].version, buffer[p].version) # None
               PROVE  Explains(CompareBufferVersions(p, memory[p].version,
                                                     buffer[p].version).data,
                               memory[p].text, buffer[p].text)
    BY DEF DiffsExplain
  <2> DEFINE m == memory[p]
             b == buffer[p]
             old == ReplayBuffer(p, m.version)
             new == ReplayBuffer(p, b.version)
             before == LinesOf(m.text)
             after == LinesOf(b.text)
  <2>1. p \in Paths /\ b # None
    BY DEF Open, IsOpen
  <2>2. lives[p] \in Nat /\ Living(b, lives[p]) /\ b.text \in Text /\ m.text \in Text
    BY <2>1, WrittenIs DEF Inv, Told, TextsInv, Wording
  <2>3. /\ old # None /\ new # None
        /\ CompareBufferVersions(p, m.version, b.version) =
             Answer(b.version, LineDiff(old.data, new.data))
    BY DEF CompareBufferVersions
  <2>4. old.data = m.text
    BY <2>3 DEF BeliefsHold
  <2>5. new.data = b.text
    <3>1. b.version # 0
      BY <2>2 DEF Living, Gapless
    <3>2. PICK i \in 1..Len(b.lineage) :
            b.lineage[i].version = b.version /\ new.data = b.lineage[i].text
      BY <2>1, <2>2, <2>3, <3>1, ReplayIsSnapshot
    <3> QED BY <2>2, <3>2, LastOfLineage
  <2>6. CompareBufferVersions(p, m.version, b.version).data = LineDiff(m.text, b.text)
    BY <2>3, <2>4, <2>5 DEF Answer
  <2>7. before \in Seq(Text) /\ after \in Seq(Text)
    BY <2>2, LinesAre
  <2> DEFINE diff == LineDiff(m.text, b.text)
  <2>8. PICK size : IsDiff(diff, size, before, after)
    BY <2>7, LineDiffIs
  <2> HIDE DEF diff, before, after
  <2>9. /\ FlattenSeq([i \in DOMAIN diff |-> diff[i].old]) = before
        /\ FlattenSeq([i \in DOMAIN diff |-> diff[i].new]) = after
    BY <2>7, <2>8, DiffTells
  <2>10. /\ Len(after) - Len(before) = HowMany(diff, "added") - HowMany(diff, "removed")
         /\ before = after <=> HowMany(diff, "equal") = Len(diff)
    BY <2>7, <2>8, DiffCounts
  <2>11. Explains(diff, m.text, b.text)
    BY <2>9, <2>10 DEF Explains, before, after
  <2> QED BY <2>6, <2>11 DEF diff
<1> QED BY <1>1, MemoryIsTrue, TextsOnly, BeliefsAreTrue, PTL

----------------------------------------------------------------------------
(* Lines and positions.                                                    *)

(* Line starts rise.                                                       *)
LEMMA StartsRise ==
  ASSUME NEW starts, NEW n \in Nat, IsIndex(starts, n),
         NEW i \in 1..Len(starts), NEW j \in 1..Len(starts), i < j
  PROVE  starts[i] < starts[j]
<1> DEFINE m == Len(starts)
           P == {k \in Nat : i < k /\ k <= m => starts[i] < starts[k]}
<1>1. /\ m \in Nat \ {0} /\ i \in 1..m /\ j \in 1..m
      /\ \A k \in 1..m : starts[k] \in Nat
      /\ \A k \in 1..m : k # m => starts[k] < starts[k + 1]
  BY DEF IsIndex
<1> HIDE DEF m
<1>2. 0 \in P
  BY <1>1
<1>3. ASSUME NEW k \in Nat, k \in P PROVE k + 1 \in P
  <2> SUFFICES ASSUME i < k + 1, k + 1 <= m PROVE starts[i] < starts[k + 1]
    OBVIOUS
  <2>1. k \in 1..m /\ k # m /\ k + 1 \in 1..m
    BY <1>1
  <2> DEFINE x == starts[i]
             y == starts[k]
             z == starts[k + 1]
  <2>2. x \in Nat /\ y \in Nat /\ z \in Nat /\ y < z
    BY <1>1, <2>1
  <2> HIDE DEF x, y, z
  <2>3. CASE i = k
    <3>1. x = y
      BY <2>3 DEF x, y
    <3> QED BY <2>2, <3>1 DEF z, x
  <2>4. CASE i # k
    <3>1. i < k /\ k <= m
      BY <1>1, <2>1, <2>4
    <3>2. x < y
      BY <1>3, <3>1 DEF x, y
    <3>3. x < z
      BY <2>2, <3>2
    <3> QED BY <3>3 DEF x, z
  <2> QED BY <2>3, <2>4
<1> HIDE DEF P
<1>4. \A k \in Nat : k \in P
  BY <1>2, <1>3, SetNatInduction
<1>5. j \in Nat /\ j <= m
  BY <1>1
<1> QED BY <1>4, <1>5 DEF P

(* The offset o is on that line.                                           *)
OnLine(starts, line, o) ==
  /\ line \in 1..Len(starts) /\ starts[line] <= o
  /\ line # Len(starts) => o < starts[line + 1]

LEMMA PlaceOnLine ==
  ASSUME OneByte, NEW t \in Text, NEW starts, starts = LineStarts(t),
         NEW o \in 0..Len(t), NEW line, OnLine(starts, line, o)
  PROVE  PositionAt(t, o) = [line |-> line, column |-> o - starts[line] + 1]
<1> DEFINE n == Len(t)
           m == Len(starts)
           k == LineOf(t, o)
<1>1. n \in Nat /\ o \in 0..n
  BY BytesAreChars
<1>2. IsIndex(starts, n) /\ Holds(starts, k, StartOf(t, o), o)
  BY StartsCover DEF Covers
<1>3. /\ m \in Nat /\ k \in 1..m /\ line \in 1..m
      /\ \A i \in 1..m : starts[i] \in Nat
  BY <1>2 DEF IsIndex, Holds, OnLine
<1>4. starts[k] = StartOf(t, o) /\ starts[k] <= o /\ (k # m => o < starts[k + 1])
  <2>1. StartOf(t, o) <= o
    BY <1>1, NewlinesAre
  <2> QED BY <1>2, <2>1 DEF Holds
<1> HIDE DEF k, n
<1>5. \A i, j \in 1..m : i < j => starts[i] < starts[j]
  BY <1>1, <1>2, StartsRise
<1>6. starts[line] <= o /\ (line # m => o < starts[line + 1])
  BY DEF OnLine
<1> HIDE DEF m
<1>7. \A i, j \in 1..m : i < j => i # m /\ i + 1 \in 1..m /\ (i + 1 = j \/ i + 1 < j)
  BY <1>3
<1>8. \A i, j \in 1..m : i < j => starts[i + 1] <= starts[j]
  BY <1>3, <1>5, <1>7
<1>9. ~(k < line)
  BY <1>1, <1>3, <1>4, <1>6, <1>7, <1>8
<1>10. ~(line < k)
  BY <1>1, <1>3, <1>4, <1>6, <1>7, <1>8
<1>11. k = line
  BY <1>3, <1>9, <1>10
<1>12. PositionAt(t, o) = [line |-> k, column |-> o - StartOf(t, o) + 1]
  BY DEF PositionAt, LineOf, StartOf, k
<1> QED BY <1>4, <1>11, <1>12

LEMMA IndexEnds ==
  ASSUME OneByte, NEW t \in Text, NEW starts, starts = LineStarts(t)
  PROVE  /\ starts[1] = 0
         /\ Len(starts) \in 1..(Len(t) + 1)
         /\ \A i \in 1..Len(starts) : starts[i] \in 0..Len(t)
<1> DEFINE n == Len(t)
           zero == 0
           ends == Newlines(t, n)
<1>1. n \in Nat /\ zero \in 0..n
  BY BytesAreChars
<1>2. /\ IsIndex(starts, n) /\ Len(starts) = LineOf(t, n)
      /\ \A o \in 0..n : Holds(starts, LineOf(t, o), StartOf(t, o), o)
  BY StartsCover DEF Covers
<1>3. Holds(starts, LineOf(t, zero), StartOf(t, zero), zero)
  <2> HIDE DEF zero
  <2> QED BY <1>1, <1>2
<1>4. starts[1] = 0
  BY <1>3, NoNewlines DEF Holds
<1>5. IsFiniteSet(1..n) /\ Cardinality(1..n) = n
  <2> DEFINE one == 1
  <2>1. one \in Int /\ n \in Int /\ (IF one > n THEN 0 ELSE n - one + 1) = n
    BY <1>1
  <2> HIDE DEF n
  <2> HIDE DEF one
  <2>2. IsFiniteSet(one..n) /\ Cardinality(one..n) = n
    BY <2>1, FS_Interval
  <2> QED BY <2>2 DEF one
<1> HIDE DEF n
<1>6. ends \in SUBSET (1..n)
  BY <1>1, NewlinesAre
<1>7. Cardinality(ends) \in Nat /\ Cardinality(ends) <= n
  BY <1>5, <1>6, FS_Subset, FS_CardinalityType
<1>8. LineOf(t, n) = Cardinality(ends) + 1
  BY DEF LineOf
<1> HIDE DEF ends
<1>9. Len(starts) \in 1..(n + 1)
  BY <1>1, <1>2, <1>7, <1>8
<1> QED BY <1>2, <1>4, <1>9 DEF IsIndex, n

----------------------------------------------------------------------------
(* Answers that have to agree.                                             *)
LEMMA LeastOfTwo ==
  ASSUME NEW x \in Nat, NEW y \in Nat
  PROVE  Min({x, y}) = IF x <= y THEN x ELSE y
<1> DEFINE T == {x, y}
<1>1. T \subseteq Nat /\ T # {}
  OBVIOUS
<1>2. \A z : z \in T <=> z = x \/ z = y
  OBVIOUS
<1> HIDE DEF T
<1>3. Min(T) \in T /\ \A z \in T : Min(T) <= z
  BY <1>1, MinIsLeast
<1> QED BY <1>2, <1>3 DEF T

(* A text in two pieces.                                                   *)
LEMMA TwoPieces ==
  ASSUME NEW t \in Text, NEW k \in 0..Len(t), NEW n, n = Len(t), NEW zero, zero = 0
  PROVE  Slice(t, zero, k) \o Slice(t, k, n) = t
<1> DEFINE one == zero + 1
           first == k + 1
<1>1. k \in Nat /\ n \in Nat /\ k <= n /\ zero <= k /\ one = 1 /\ n <= Len(t)
  BY LenProperties DEF Text
<1>2. Slice(t, zero, k) = SubSeq(t, one, k) /\ Slice(t, k, n) = SubSeq(t, first, n)
  BY <1>1 DEF Slice
<1> HIDE DEF first
<1>3. SubSeq(t, 1, k) \o SubSeq(t, first, Len(t)) = t
  BY <1>1, CutInTwo DEF Text, first
<1> QED BY <1>1, <1>2, <1>3

LEMMA WholeSlice ==
  ASSUME NEW t \in Text, NEW n, n = Len(t), NEW zero, zero = 0
  PROVE  /\ Slice(t, zero, n) = t /\ Slice(t, zero, n) \o <<>> = t
         /\ <<>> \o Slice(t, zero, n) = t
<1>1. n \in Nat /\ zero <= n /\ n <= Len(t)
  BY LenProperties DEF Text
<1>2. Slice(t, zero, n) = SubSeq(t, 1, n)
  BY <1>1 DEF Slice
<1>3. SubSeq(t, 1, n) \in Seq(Chars) /\ Len(SubSeq(t, 1, n)) = n
      /\ \A i \in 1..n : SubSeq(t, 1, n)[i] = t[i]
  BY <1>1, FirstPart DEF Text
<1>4. SubSeq(t, 1, n) = t
  BY <1>3, SeqEqual DEF Text
<1>5. t \o <<>> = t /\ <<>> \o t = t
  BY ConcatEmptySeq DEF Text
<1> QED BY <1>2, <1>4, <1>5

LEMMA ReadInPieces ==
  ASSUME OneByte, NEW t \in Text, NEW line \in 0..Len(t) + 1
  PROVE  LineRange(t, 0, line) \o LineRange(t, line, Len(t) + 1) = t
<1> DEFINE starts == LineStarts(t)
           m == Len(starts)
           n == Len(t)
           zero == 0
           last == n + 1
           upto == Min({line, m})
           all == Min({last, m})
<1>1. n \in Nat /\ ByteLen(t) = n /\ line \in 0..last /\ last \in Nat /\ zero = 0
  BY BytesAreChars
<1>2. /\ starts[1] = zero /\ m \in 1..last
      /\ \A i \in 1..m : starts[i] \in 0..n
  BY IndexEnds
<1>3. /\ LineRange(t, zero, line) =
           IF zero >= upto THEN <<>>
           ELSE Slice(t, starts[zero + 1], IF upto < m THEN starts[upto + 1] ELSE ByteLen(t))
      /\ LineRange(t, line, last) =
           IF line >= all THEN <<>>
           ELSE Slice(t, starts[line + 1], IF all < m THEN starts[all + 1] ELSE ByteLen(t))
  BY DEF LineRange
<1> HIDE DEF m, starts
<1>4. all = m /\ upto = IF line <= m THEN line ELSE m
  <2>1. last \in Nat /\ m \in Nat /\ line \in Nat /\ m <= last
    BY <1>1, <1>2
  <2> HIDE DEF last
  <2> QED BY <2>1, LeastOfTwo
<1> HIDE DEF all, upto
<1>5. CASE line = 0
  <2>1. LineRange(t, zero, line) = <<>> /\ LineRange(t, line, last) = Slice(t, zero, n)
    BY <1>1, <1>2, <1>3, <1>4, <1>5
  <2> HIDE DEF n
  <2>2. <<>> \o Slice(t, zero, n) = t
    BY <1>1, WholeSlice DEF n
  <2> QED BY <2>1, <2>2 DEF n
<1>6. CASE line # 0 /\ line < m
  <2> DEFINE k == starts[line + 1]
  <2>1. k \in 0..n
    <3>1. line + 1 \in 1..m
      BY <1>1, <1>2, <1>6
    <3> QED BY <1>2, <3>1
  <2>2. LineRange(t, zero, line) = Slice(t, zero, k) /\ LineRange(t, line, last) = Slice(t, k, n)
    BY <1>1, <1>2, <1>3, <1>4, <1>6
  <2> HIDE DEF k, zero
  <2>3. Slice(t, zero, k) \o Slice(t, k, n) = t
    BY <1>1, <2>1, TwoPieces
  <2> QED BY <2>2, <2>3 DEF zero
<1>7. CASE line # 0 /\ ~(line < m)
  <2>1. LineRange(t, zero, line) = Slice(t, zero, n) /\ LineRange(t, line, last) = <<>>
    BY <1>1, <1>2, <1>3, <1>4, <1>7
  <2> HIDE DEF n
  <2>2. Slice(t, zero, n) \o <<>> = t
    BY <1>1, WholeSlice DEF n
  <2> QED BY <2>1, <2>2 DEF n
<1> QED BY <1>5, <1>6, <1>7

LEMMA BytesInPieces ==
  ASSUME OneByte, NEW p, NEW t \in Text, t = buffer[p].text, NEW offset \in 0..Len(t)
  PROVE  GetBufferByteRange(p, 0, offset).data
           \o GetBufferByteRange(p, offset, Len(t) + 1).data = t
<1> DEFINE n == Len(t)
           zero == 0
           last == n + 1
           a == zero + offset
           z == offset + last
<1>1. n \in Nat /\ ByteLen(t) = n /\ offset \in 0..n
  BY BytesAreChars
<1>2. a = offset /\ a \in Nat /\ z \in Nat /\ a <= n /\ n <= z /\ ~(zero > n) /\ ~(offset > n)
  BY <1>1
<1>3. /\ GetBufferByteRange(p, zero, offset).data = Slice(t, zero, Min({a, n}))
      /\ GetBufferByteRange(p, offset, last).data = Slice(t, offset, Min({z, n}))
  <2> HIDE DEF n, zero, last, a, z
  <2> QED BY <1>1, <1>2 DEF GetBufferByteRange, Answer, a, z
<1>4. Min({a, n}) = offset /\ Min({z, n}) = n
  <2>1. Min({a, n}) = a
    <3> HIDE DEF a, n, z
    <3> QED BY <1>1, <1>2, LeastOfTwo
  <2>2. Min({z, n}) = IF z <= n THEN z ELSE n
    <3> HIDE DEF a, n, z
    <3> QED BY <1>1, <1>2, LeastOfTwo
  <2> HIDE DEF z, n, a
  <2> QED BY <1>1, <1>2, <2>1, <2>2
<1>5. Slice(t, zero, offset) \o Slice(t, offset, n) = t
  <2>1. zero = 0 /\ n = Len(t)
    OBVIOUS
  <2> HIDE DEF zero, n
  <2> QED BY <1>1, <2>1, TwoPieces
<1> QED BY <1>3, <1>4, <1>5

(* A part of a text declares, if it begins with the keyword but for white  *)
(* space.                                                                  *)
DeclaresIn(t, from, to) ==
  \E k \in (from + 1)..to :
    t[k] = Keyword /\ \A j \in (from + 1)..(k - 1) : t[j] \in Whitespace

LEMMA DeclaresIs ==
  ASSUME NEW line \in Text, NEW zero, zero = 0
  PROVE  Declares(line) <=> DeclaresIn(line, zero, Len(line))
<1> DEFINE n == Len(line)
           dark == {i \in DOMAIN line : line[i] \notin Whitespace}
           beyond == n + 1
           T == dark \union {beyond}
           k == Min(T)
           a == k - 1
           rest == SubSeq(line, k, n)
<1>1. n \in Nat /\ DOMAIN line = 1..n /\ line \in Seq(Chars)
  BY LenProperties DEF Text
<1>2. T \subseteq Nat /\ T # {}
  BY <1>1
<1>3. \A i \in T : i \in 1..beyond
  BY <1>1
<1>4. beyond \in T /\ \A i \in 1..n : line[i] \notin Whitespace => i \in T
  BY <1>1
<1>5. \A i \in T : i = beyond \/ line[i] \notin Whitespace
  OBVIOUS
<1>6. Trimmed(line) = rest
  BY DEF Trimmed
<1>7. beyond = n + 1 /\ Keyword \notin Whitespace
  BY AgentTextAssumption DEF AgentTextAssumption
<1> HIDE DEF T, dark, beyond
<1>8. k \in T /\ \A y \in T : k <= y
  BY <1>2, MinIsLeast
<1> HIDE DEF k
<1>9. /\ k \in 1..beyond /\ a \in Nat /\ k = a + 1 /\ a <= n /\ n <= Len(line)
  <2>1. k \in 1..(n + 1)
    BY <1>3, <1>7, <1>8
  <2> QED BY <1>1, <1>7, <2>1
<1> HIDE DEF a
<1>10. /\ rest \in Seq(Chars) /\ Len(rest) = n - a
       /\ \A i \in 1..(n - a) : rest[i] = line[a + i]
  <2> HIDE DEF n
  <2> QED BY <1>1, <1>9, PartShape
<1> HIDE DEF rest
<1>11. \A j \in 1..(k - 1) : line[j] \in Whitespace
  <2> SUFFICES ASSUME NEW j \in 1..(k - 1), line[j] \notin Whitespace PROVE FALSE
    OBVIOUS
  <2>1. j \in 1..n /\ j < k
    BY <1>1, <1>7, <1>9
  <2>2. k <= j
    BY <1>4, <1>8, <2>1
  <2> QED BY <1>1, <1>9, <2>1, <2>2
<1>12. CASE k = beyond
  <2>1. a = n
    <3> HIDE DEF n
    <3>1. k = n + 1 /\ k = a + 1
      BY <1>7, <1>9, <1>12
    <3> QED BY <1>1, <1>9, <3>1
  <2>2. rest = <<>>
    BY <1>10, <2>1, <1>1, EmptySeq
  <2>3. ~Declares(line)
    BY <1>6, <2>2 DEF Declares
  <2>4. \A j \in 1..n : line[j] # Keyword
    BY <1>1, <1>7, <1>9, <1>11, <1>12
  <2>5. ~DeclaresIn(line, zero, n)
    BY <1>1, <2>4 DEF DeclaresIn
  <2> QED BY <2>3, <2>5 DEF n
<1>13. CASE k # beyond
  <2>1. k \in 1..n /\ line[k] \notin Whitespace /\ 1 \in 1..(n - a) /\ a + 1 = k
    BY <1>1, <1>5, <1>7, <1>8, <1>9, <1>13
  <2>2. rest # <<>> /\ Head(rest) = line[k]
    <3>1. rest[1] = line[k] /\ Len(rest) # 0
      BY <1>10, <2>1
    <3> QED BY <1>10, <3>1, EmptySeq, HeadTailProperties
  <2>3. Declares(line) <=> line[k] = Keyword
    BY <1>6, <2>2 DEF Declares
  <2>4. ASSUME line[k] = Keyword PROVE DeclaresIn(line, zero, n)
    BY <1>1, <1>11, <2>1, <2>4 DEF DeclaresIn
  <2>5. ASSUME DeclaresIn(line, zero, n) PROVE line[k] = Keyword
    <3>1. PICK i \in 1..n : line[i] = Keyword /\ \A j \in 1..(i - 1) : line[j] \in Whitespace
      BY <2>5 DEF DeclaresIn
    <3>2. i \in T
      BY <1>4, <1>7, <3>1
    <3>3. k <= i
      BY <1>8, <3>2
    <3>4. ~(k < i)
      <4> SUFFICES ASSUME k < i PROVE FALSE
        OBVIOUS
      <4>1. k \in 1..(i - 1)
        BY <1>1, <2>1, <3>1
      <4> QED BY <2>1, <3>1, <4>1
    <3>5. k = i
      BY <1>1, <2>1, <3>3, <3>4
    <3> QED BY <3>1, <3>5
  <2> QED BY <2>3, <2>4, <2>5 DEF n
<1> QED BY <1>12, <1>13

LEMMA SliceDeclares ==
  ASSUME NEW t \in Text, NEW from, NEW to, IsPart(t, from, to)
  PROVE  Declares(Slice(t, from, to)) <=> DeclaresIn(t, from, to)
<1> DEFINE line == Slice(t, from, to)
           n == Len(line)
           zero == 0
<1>1. from \in Nat /\ to \in Nat /\ from <= to /\ to <= Len(t) /\ t \in Seq(Chars)
  BY DEF IsPart, Text
<1>2. line \in Text /\ n = to - from /\ \A k \in 1..(to - from) : line[k] = t[from + k]
  BY SliceShape
<1>3. zero = 0
  OBVIOUS
<1> HIDE DEF line, zero
<1>4. Declares(line) <=> DeclaresIn(line, zero, n)
  BY <1>2, <1>3, DeclaresIs
<1> HIDE DEF n
<1>5. ASSUME DeclaresIn(line, zero, n) PROVE DeclaresIn(t, from, to)
  <2>1. PICK k \in 1..n : line[k] = Keyword /\ \A j \in 1..(k - 1) : line[j] \in Whitespace
    BY <1>3, <1>5 DEF DeclaresIn
  <2> DEFINE l == from + k
  <2>2. l \in (from + 1)..to /\ t[l] = Keyword
    BY <1>1, <1>2, <2>1
  <2>3. ASSUME NEW j \in (from + 1)..(l - 1) PROVE t[j] \in Whitespace
    <3> DEFINE i == j - from
    <3>1. i \in 1..(k - 1) /\ i \in 1..(to - from) /\ from + i = j
      BY <1>1, <1>2, <2>1
    <3> HIDE DEF i
    <3> QED BY <1>2, <2>1, <3>1
  <2> HIDE DEF l
  <2> QED BY <2>2, <2>3 DEF DeclaresIn
<1>6. ASSUME DeclaresIn(t, from, to) PROVE DeclaresIn(line, zero, n)
  <2>1. PICK l \in (from + 1)..to :
          t[l] = Keyword /\ \A j \in (from + 1)..(l - 1) : t[j] \in Whitespace
    BY <1>6 DEF DeclaresIn
  <2> DEFINE k == l - from
  <2>2. k \in 1..n /\ k \in 1..(to - from) /\ from + k = l
    BY <1>1, <1>2, <2>1
  <2>3. line[k] = Keyword
    <3> HIDE DEF k
    <3> QED BY <1>2, <2>1, <2>2
  <2>4. ASSUME NEW j \in 1..(k - 1) PROVE line[j] \in Whitespace
    <3> DEFINE i == from + j
    <3>1. i \in (from + 1)..(l - 1) /\ j \in 1..(to - from) /\ from + j = i
      BY <1>1, <1>2, <2>1
    <3> HIDE DEF i
    <3> QED BY <1>2, <2>1, <3>1
  <2> HIDE DEF k
  <2>5. k \in (zero + 1)..n /\ \A j \in (zero + 1)..(k - 1) : line[j] \in Whitespace
    BY <1>3, <2>2, <2>4
  <2> QED BY <2>3, <2>5 DEF DeclaresIn
<1> QED BY <1>4, <1>5, <1>6 DEF line

(* White space after a part makes no difference.                           *)
LEMMA DeclaresFurther ==
  ASSUME NEW t, NEW from \in Nat, NEW to \in Nat, NEW end \in Nat, from <= to, to <= end,
         \A j \in (to + 1)..end : t[j] \in Whitespace
  PROVE  DeclaresIn(t, from, end) <=> DeclaresIn(t, from, to)
<1>1. ASSUME DeclaresIn(t, from, end) PROVE DeclaresIn(t, from, to)
  <2>1. PICK k \in (from + 1)..end :
          t[k] = Keyword /\ \A j \in (from + 1)..(k - 1) : t[j] \in Whitespace
    BY <1>1 DEF DeclaresIn
  <2>2. Keyword \notin Whitespace
    BY AgentTextAssumption DEF AgentTextAssumption
  <2>3. k \notin (to + 1)..end
    BY <2>1, <2>2
  <2>4. k \in (from + 1)..to
    BY <2>1, <2>3
  <2> QED BY <2>1, <2>4 DEF DeclaresIn
<1>2. ASSUME DeclaresIn(t, from, to) PROVE DeclaresIn(t, from, end)
  <2>1. (from + 1)..to \subseteq (from + 1)..end
    OBVIOUS
  <2> QED BY <1>2, <2>1 DEF DeclaresIn
<1> QED BY <1>1, <1>2

(* Where a line begins that is not the first, the line before has ended.   *)
LEMMA NewlineBefore ==
  ASSUME OneByte, NEW t \in Text, NEW starts, starts = LineStarts(t),
         NEW i, i \in 1..Len(starts), i # Len(starts), NEW next, next = starts[i + 1]
  PROVE  next \in 1..Len(t) /\ t[next] = Newline /\ LineEndOffset(t, starts, i) = next - 1
<1> DEFINE n == Len(t)
           m == Len(starts)
           j == i + 1
           ends == Newlines(t, next)
           T == ends \union {0}
<1>1. /\ n \in Nat /\ m \in Nat /\ IsIndex(starts, n)
      /\ \A k \in 1..m : starts[k] \in 0..n
      /\ \A k \in 1..m : k # m => starts[k] < starts[k + 1]
  BY StartsCover, BytesAreChars DEF Covers, IsIndex
<1>2. j \in 1..m /\ i < j
  BY <1>1
<1>3. starts[i] \in 0..n /\ next \in 0..n /\ starts[i] < next
  BY <1>1, <1>2
<1>4. next \in 1..n
  <2> HIDE DEF n
  <2> QED BY <1>1, <1>3
<1>5. LineEndOffset(t, starts, i) = next - 1
  BY LineLies
<1>6. OnLine(starts, j, next)
  <2>1. starts[j] = next
    OBVIOUS
  <2>2. j # m => next < starts[j + 1]
    BY <1>1, <1>2
  <2> HIDE DEF j
  <2> QED BY <1>2, <1>3, <2>1, <2>2 DEF OnLine
<1>7. PositionAt(t, next) = [line |-> j, column |-> next - starts[j] + 1]
  <2> HIDE DEF j
  <2> QED BY <1>3, <1>6, PlaceOnLine
<1>8. next - StartOf(t, next) + 1 = next - next + 1
  BY <1>7 DEF PositionAt, StartOf
<1>9. ends \subseteq 1..next /\ StartOf(t, next) \in 0..next
  <2>1. next \in Nat
    <3> HIDE DEF n
    <3> QED BY <1>1, <1>4
  <2> HIDE DEF n
  <2> QED BY <2>1, NewlinesAre
<1>10. StartOf(t, next) = next
  <2> HIDE DEF n
  <2> QED BY <1>4, <1>8, <1>9
<1>11. next \in Nat /\ T \in SUBSET (0..next) /\ T # {}
  <2> HIDE DEF n
  <2>1. next \in Nat
    BY <1>1, <1>4
  <2> HIDE DEF ends
  <2> QED BY <1>9, <2>1
<1>12. Max(T) \in T
  <2> HIDE DEF T, n
  <2> QED BY <1>11, MaxFromZero
<1>13. next \in ends
  <2>1. Max(T) = next
    BY <1>10 DEF StartOf
  <2> HIDE DEF ends
  <2> QED BY <1>4, <1>12, <2>1
<1> QED BY <1>4, <1>5, <1>13 DEF Newlines

(* One line as read_file reads it, with its end.                           *)
LEMMA LineReadIs ==
  ASSUME OneByte, NEW t \in Text, NEW starts, starts = LineStarts(t),
         NEW i \in 1..Len(t) + 1, NEW before, before = i - 1
  PROVE  LineRange(t, before, i) =
           IF i > Len(starts) THEN <<>>
           ELSE Slice(t, starts[i], IF i < Len(starts) THEN starts[i + 1] ELSE Len(t))
<1> DEFINE m == Len(starts)
           upto == Min({i, m})
<1>1. m \in Nat /\ i \in Nat \ {0} /\ ByteLen(t) = Len(t)
  BY BytesAreChars, IndexEnds
<1>2. LineRange(t, before, i) =
        IF before >= upto THEN <<>>
        ELSE Slice(t, starts[before + 1], IF upto < m THEN starts[upto + 1] ELSE ByteLen(t))
  BY DEF LineRange
<1> HIDE DEF m
<1>3. upto = IF i <= m THEN i ELSE m
  BY <1>1, LeastOfTwo
<1> HIDE DEF upto
<1>4. CASE i > m
  BY <1>1, <1>2, <1>3, <1>4 DEF m
<1>5. CASE ~(i > m)
  <2>1. upto = i /\ ~(before >= upto) /\ before + 1 = i
    BY <1>1, <1>3, <1>5
  <2> QED BY <1>1, <1>2, <1>5, <2>1 DEF m
<1> QED BY <1>4, <1>5

LEMMA NothingDeclares == ~Declares(<<>>)
<1> DEFINE nothing == <<>>
           zero == 0
<1>1. nothing \in Text /\ Len(nothing) = 0 /\ zero = 0
  BY EmptySeq DEF Text
<1> HIDE DEF nothing, zero
<1>2. Declares(nothing) <=> DeclaresIn(nothing, zero, Len(nothing))
  BY <1>1, DeclaresIs
<1>3. (zero + 1)..Len(nothing) = {}
  BY <1>1
<1> QED BY <1>2, <1>3 DEF DeclaresIn, nothing

(* A line that is read declares just if str::lines' line does.             *)
LEMMA LineDeclares ==
  ASSUME OneByte, NEW t \in Text, NEW starts, starts = LineStarts(t),
         NEW i \in 1..Len(t) + 1, i \in 1..Len(starts), NEW before, before = i - 1
  PROVE  Declares(LineRange(t, before, i)) <=> Declares(LineAt(t, starts, i))
<1> DEFINE from == starts[i]
           to == LineEndOffset(t, starts, i)
           m == Len(starts)
           next == starts[i + 1]
           stop == IF i < m THEN next ELSE Len(t)
<1>1. /\ from \in Nat /\ to \in Nat /\ from <= to /\ to <= Len(t)
      /\ m \in Nat /\ (i = m => to = Len(t))
  BY LineLies DEF Lies
<1>2. PICK end \in Nat : AsLine(t, LineAt(t, starts, i), from, end, to)
  BY LineAtIs
<1>3. i # m => next \in 1..Len(t) /\ t[next] = Newline /\ to = next - 1
  BY NewlineBefore
<1>4. LineRange(t, before, i) = Slice(t, from, stop)
  <2>1. ~(i > Len(starts))
    BY <1>1
  <2> QED BY <2>1, LineReadIs
<1>5. Newline \in Whitespace /\ Len(t) \in Nat
  BY AgentTextAssumption, BytesAreChars DEF AgentTextAssumption
<1>6. stop \in Nat /\ to <= stop /\ stop <= Len(t) /\ \A j \in (to + 1)..stop : t[j] \in Whitespace
  <2>1. CASE i = m
    <3>1. stop = to
      BY <1>1, <2>1
    <3>2. (to + 1)..to = {}
      BY <1>1
    <3> HIDE DEF stop, to
    <3> QED BY <1>1, <3>1, <3>2
  <2>2. CASE i # m
    <3>1. i < m /\ stop = next
      BY <1>1, <2>2
    <3>2. next \in 1..Len(t) /\ t[next] = Newline /\ to = next - 1
      BY <1>3, <2>2
    <3> HIDE DEF stop, to, next
    <3>3. (to + 1)..stop = {next}
      BY <1>5, <3>1, <3>2
    <3> QED BY <1>5, <3>1, <3>2, <3>3
  <2> QED BY <2>1, <2>2
<1> HIDE DEF from, to, stop, next, m
<1>7. /\ IsPart(t, from, end) /\ end <= to /\ LineAt(t, starts, i) = Slice(t, from, end)
      /\ \A j \in (end + 1)..to : t[j] \in Whitespace
  BY <1>2 DEF AsLine
<1>8. Declares(LineAt(t, starts, i)) <=> DeclaresIn(t, from, end)
  BY <1>7, SliceDeclares
<1>9. IsPart(t, from, stop) /\ from <= end /\ end <= stop
  BY <1>1, <1>6, <1>7 DEF IsPart
<1>10. Declares(Slice(t, from, stop)) <=> DeclaresIn(t, from, stop)
  BY <1>9, SliceDeclares
<1>11. \A j \in (end + 1)..stop : t[j] \in Whitespace
  <2>1. \A j \in (end + 1)..stop : j \in (end + 1)..to \/ j \in (to + 1)..stop
    BY <1>1, <1>6
  <2> QED BY <1>6, <1>7, <2>1
<1>12. DeclaresIn(t, from, stop) <=> DeclaresIn(t, from, end)
  BY <1>1, <1>6, <1>9, <1>11, DeclaresFurther
<1> QED BY <1>4, <1>8, <1>10, <1>12

(* list_symbols names the lines that read_file reads a declaration on.     *)
LEMMA SymbolLines ==
  ASSUME OneByte, NEW t \in Text
  PROVE  {s.line : s \in ListSymbols(t)} =
           {i \in 1..Len(t) + 1 : Declares(LineRange(t, i - 1, i))}
<1> DEFINE starts == LineStarts(t)
           lines == LinesOf(t)
           m == Len(starts)
           Read(i) == LineRange(t, i - 1, i)
           named == {s.line : s \in ListSymbols(t)}
<1>1. /\ lines \in Seq(Text)
      /\ Len(lines) = m \/ (Len(lines) = m - 1 /\ LineAt(t, starts, m) = <<>>)
      /\ \A i \in 1..Len(lines) : i \in 1..m /\ lines[i] = LineAt(t, starts, i)
  <2> DEFINE s == starts
  <2>1. s = LineStarts(t)
    OBVIOUS
  <2> HIDE DEF s
  <2> QED BY <2>1, LinesAre
<1>2. m \in 1..(Len(t) + 1) /\ Len(t) \in Nat /\ Len(lines) \in Nat /\ DOMAIN lines = 1..Len(lines)
  BY <1>1, IndexEnds, BytesAreChars, LenProperties
<1>3. \A i : i \in named <=> i \in 1..Len(lines) /\ Declares(lines[i])
  <2> DEFINE D == {j \in DOMAIN lines : Declares(lines[j])}
             Sym(i) == [name |-> Tail(Trimmed(lines[i])), line |-> i]
  <2>1. ListSymbols(t) = {Sym(i) : i \in D}
    BY DEF ListSymbols
  <2>2. \A i : Sym(i).line = i
    OBVIOUS
  <2>3. \A i : i \in D <=> i \in 1..Len(lines) /\ Declares(lines[i])
    BY <1>2
  <2> HIDE DEF D, Sym, lines
  <2>4. \A i : i \in named <=> i \in D
    BY <2>1, <2>2
  <2> QED BY <2>3, <2>4
<1>4. \A i \in 1..m : i \in 1..Len(t) + 1 /\ (Declares(Read(i)) <=> Declares(LineAt(t, starts, i)))
  <2> SUFFICES ASSUME NEW i \in 1..m
               PROVE  i \in 1..Len(t) + 1 /\ (Declares(Read(i)) <=> Declares(LineAt(t, starts, i)))
    OBVIOUS
  <2> DEFINE before == i - 1
  <2>1. i \in 1..Len(t) + 1 /\ before = i - 1
    BY <1>2
  <2> HIDE DEF before
  <2>2. Declares(LineRange(t, before, i)) <=> Declares(LineAt(t, starts, i))
    BY <2>1, LineDeclares
  <2> QED BY <2>1, <2>2
<1>5. ASSUME NEW i \in 1..Len(t) + 1, i \notin 1..m PROVE ~Declares(Read(i))
  <2> DEFINE before == i - 1
  <2>1. i > m /\ before = i - 1
    BY <1>2, <1>5
  <2> HIDE DEF before
  <2>2. LineRange(t, before, i) = <<>>
    BY <2>1, LineReadIs
  <2> QED BY <2>1, <2>2, NothingDeclares
<1> HIDE DEF starts, lines, m, Read, named
<1>6. ASSUME NEW i, i \in named PROVE i \in 1..Len(t) + 1 /\ Declares(Read(i))
  BY <1>1, <1>3, <1>4, <1>6
<1>7. ASSUME NEW i \in 1..Len(t) + 1, Declares(Read(i)) PROVE i \in named
  <2>1. i \in 1..m /\ Declares(LineAt(t, starts, i))
    BY <1>4, <1>5, <1>7
  <2>2. i \in 1..Len(lines)
    <3>1. CASE Len(lines) = m
      BY <2>1, <3>1
    <3>2. CASE Len(lines) = m - 1 /\ LineAt(t, starts, m) = <<>>
      <4>1. i # m
        BY <2>1, <3>2, NothingDeclares
      <4> QED BY <1>2, <2>1, <3>2, <4>1
    <3> QED BY <1>1, <3>1, <3>2
  <2> QED BY <1>1, <1>3, <2>1, <2>2
<1>8. named = {i \in 1..Len(t) + 1 : Declares(Read(i))}
  BY <1>6, <1>7
<1> QED BY <1>8 DEF named, Read

(* As many lines as str::lines counts are all the lines there are to read. *)
LEMMA CountedLines ==
  ASSUME OneByte, NEW t \in Text, NEW count, count = Len(LinesOf(t)), NEW zero, zero = 0
  PROVE  LineRange(t, zero, count) = t
<1> DEFINE starts == LineStarts(t)
           m == Len(starts)
           n == Len(t)
           upto == Min({count, m})
           last == starts[m]
<1>1. /\ LinesOf(t) \in Seq(Text)
      /\ count = m \/ (count = m - 1 /\ LineAt(t, starts, m) = <<>>)
  <2> DEFINE s == starts
             lines == LinesOf(t)
  <2>1. s = LineStarts(t) /\ lines = LinesOf(t)
    OBVIOUS
  <2> HIDE DEF s, lines
  <2>2. lines \in Seq(Text) /\ (Len(lines) = Len(s) \/ (Len(lines) = Len(s) - 1
                                                        /\ LineAt(t, s, Len(s)) = <<>>))
    BY <2>1, LinesAre
  <2> QED BY <2>1, <2>2
<1>2. count \in Nat /\ n \in Nat /\ ByteLen(t) = n
  BY <1>1, LenProperties, BytesAreChars
<1>3. /\ starts[1] = zero /\ m \in 1..(n + 1) /\ \A i \in 1..m : starts[i] \in 0..n
  BY IndexEnds
<1>4. LineRange(t, zero, count) =
        IF zero >= upto THEN <<>>
        ELSE Slice(t, starts[zero + 1], IF upto < m THEN starts[upto + 1] ELSE ByteLen(t))
  BY DEF LineRange
<1>5. Slice(t, zero, n) = t
  <2> HIDE DEF n
  <2> QED BY WholeSlice DEF n
<1>6. ASSUME LineAt(t, starts, m) = <<>> PROVE last = n
  <2> DEFINE text == LineText(t, starts, m)
             to == LineEndOffset(t, starts, m)
  <2>1. ~(m < m) /\ m \in 1..m
    BY <1>2, <1>3
  <2>2. text = <<>>
    BY <1>6, <2>1 DEF LineAt
  <2>3. Lies(t, m, last, to) /\ to = n
    <3> DEFINE s == starts
    <3>1. s = LineStarts(t) /\ m \in 1..Len(s) /\ m = Len(s)
      BY <2>1
    <3> HIDE DEF s
    <3>2. Lies(t, m, s[m], LineEndOffset(t, s, m)) /\ LineEndOffset(t, s, m) = Len(t)
      BY <3>1, LineLies
    <3> QED BY <3>2 DEF s
  <2>4. Len(text) = to - last /\ last \in Nat
    BY <2>3 DEF Lies
  <2> HIDE DEF text, to, last
  <2>5. Len(text) = 0
    BY <2>2, EmptySeq
  <2> QED BY <1>2, <2>3, <2>4, <2>5
<1> HIDE DEF starts, m, n, last
<1>7. upto = IF count <= m THEN count ELSE m
  <2>1. m \in Nat
    BY <1>2, <1>3
  <2> QED BY <1>2, <2>1, LeastOfTwo
<1> HIDE DEF upto
<1>8. CASE count = m
  <2>1. upto = m /\ ~(zero >= upto) /\ ~(upto < m) /\ zero + 1 = 1
    BY <1>2, <1>3, <1>7, <1>8
  <2> QED BY <1>2, <1>3, <1>4, <1>5, <2>1
<1>9. CASE count = m - 1 /\ LineAt(t, starts, m) = <<>>
  <2>1. last = n /\ upto = count
    BY <1>2, <1>3, <1>6, <1>7, <1>9
  <2>2. CASE m = 1
    <3>1. n = zero
      BY <1>3, <2>1, <2>2 DEF last
    <3>2. zero >= upto
      BY <1>9, <2>1, <2>2
    <3>3. t = <<>>
      BY <3>1, EmptySeq DEF n, Text
    <3> QED BY <1>4, <3>2, <3>3
  <2>3. CASE m # 1
    <3>1. ~(zero >= upto) /\ upto < m /\ upto + 1 = m /\ zero + 1 = 1
      BY <1>2, <1>3, <1>9, <2>1, <2>3
    <3>2. LineRange(t, zero, count) = Slice(t, zero, last)
      BY <1>3, <1>4, <3>1 DEF last
    <3> QED BY <1>5, <2>1, <3>2
  <2> QED BY <2>2, <2>3
<1> QED BY <1>1, <1>8, <1>9

(* What ToolsAgree says of one buffer and its text, part by part.           *)
ReadsJoin(p, t) ==
  \A line \in 0..Len(t) + 1 :
    ReadFile(p, 0, line).data \o ReadFile(p, line, Len(t) + 1).data = t
RangesJoin(p, t) ==
  \A offset \in 0..Len(t) :
    GetBufferByteRange(p, 0, offset).data
      \o GetBufferByteRange(p, offset, Len(t) + 1).data = t
LinesMatch(p, t) == ReadFile(p, 0, ListOpenBuffers[p].data.line_count).data = t
SymbolsMatch(p, t) ==
  /\ {s.line : s \in ListSymbols(t)} =
       {i \in 1..Len(t) + 1 : Declares(ReadFile(p, i - 1, i).data)}
  /\ \A query \in Queries : \A s \in QuerySymbolsInBuffers(query)[p].data :
       Declares(ReadFile(p, s.line - 1, s.line).data)
DriftMatches(p) ==
  \A file \in Contents, has_error \in BOOLEAN :
    InspectBufferDrift(p, file).data.has_drift
      <=> "buffer_disk_mismatch" \in InspectContradictions(p, file, has_error).data
AgreeOn(p, t) ==
  /\ ReadsJoin(p, t)
  /\ RangesJoin(p, t)
  /\ LinesMatch(p, t)
  /\ SymbolsMatch(p, t)
  /\ DriftMatches(p)

(* Tools that answer one question in different ways give one answer        *)
(* (tools.rs: read_file, get_buffer_byte_range, list_symbols,              *)
(* query_symbols, list_open_buffers, inspect_buffer_drift,                 *)
(* inspect_contradictions).                                                *)
THEOREM ToolsAlwaysAgree ==
  ASSUME OneByte
  PROVE  Spec => []ToolsAgree
<1>1. ASSUME TextsInv, NEW p \in Open, NEW t, t = buffer[p].text
      PROVE  AgreeOn(p, t)
  <2>1. t \in Text
    BY <1>1, WrittenIs DEF TextsInv, Wording, Open, IsOpen
  <2>2. \A start, end : ReadFile(p, start, end).data = LineRange(t, start, end)
    BY <1>1 DEF ReadFile, Answer
  <2>3. ReadsJoin(p, t)
    <3>1. \A line \in 0..Len(t) + 1 :
            LineRange(t, 0, line) \o LineRange(t, line, Len(t) + 1) = t
      BY <2>1, ReadInPieces
    <3> QED BY <2>2, <3>1 DEF ReadsJoin
  <2>4. RangesJoin(p, t)
    BY <1>1, <2>1, BytesInPieces DEF RangesJoin
  <2>5. LinesMatch(p, t)
    <3> DEFINE count == Len(LinesOf(t))
               zero == 0
    <3>1. ListOpenBuffers[p].data.line_count = count
      BY <1>1 DEF ListOpenBuffers, GetBufferMetadata, Answer
    <3>2. count = Len(LinesOf(t)) /\ zero = 0
      OBVIOUS
    <3> HIDE DEF count, zero
    <3>3. LineRange(t, zero, count) = t
      BY <2>1, <3>2, CountedLines
    <3> QED BY <2>2, <3>1, <3>2, <3>3 DEF LinesMatch
  <2>6. SymbolsMatch(p, t)
    <3> DEFINE named == {s.line : s \in ListSymbols(t)}
               declared == {i \in 1..Len(t) + 1 : Declares(LineRange(t, i - 1, i))}
    <3>1. named = declared
      BY <2>1, SymbolLines
    <3>2. declared = {i \in 1..Len(t) + 1 : Declares(ReadFile(p, i - 1, i).data)}
      BY <2>2
    <3>3. ASSUME NEW query \in Queries, NEW s \in QuerySymbolsInBuffers(query)[p].data
          PROVE  Declares(ReadFile(p, s.line - 1, s.line).data)
      <4>1. s \in ListSymbols(t)
        BY <1>1, <3>3 DEF QuerySymbolsInBuffers, QuerySymbols, Answer
      <4>2. s.line \in named
        BY <4>1
      <4>3. s.line \in declared
        BY <3>1, <4>2
      <4> QED BY <2>2, <4>3
    <3> QED BY <3>1, <3>2, <3>3 DEF SymbolsMatch
  <2>7. DriftMatches(p)
    <3> SUFFICES ASSUME NEW file \in Contents, NEW has_error \in BOOLEAN
                 PROVE  InspectBufferDrift(p, file).data.has_drift
                          <=> "buffer_disk_mismatch"
                                \in InspectContradictions(p, file, has_error).data
      BY DEF DriftMatches
    <3>1. file # None
      BY AgentToolsAssumption, CharsAssumption DEF AgentToolsAssumption, CharsAssumption
    <3>2. InspectBufferDrift(p, file).data.has_drift = (t # file)
      BY <1>1, <3>1 DEF InspectBufferDrift, Answer
    <3>3. "buffer_disk_mismatch" \in InspectContradictions(p, file, has_error).data
            <=> t # file
      BY <1>1, <3>1 DEF InspectContradictions, Answer
    <3> QED BY <3>2, <3>3
  <2> QED BY <2>3, <2>4, <2>5, <2>6, <2>7 DEF AgreeOn
<1>2. TextsInv => \A p \in Open : AgreeOn(p, buffer[p].text)
  BY <1>1
<1>3. \A p : GetBufferSnapshotProof(p).data = buffer[p].text
  BY DEF GetBufferSnapshotProof, Answer
<1>4. TextsInv => ToolsAgree
  BY <1>2, <1>3 DEF ToolsAgree, AgreeOn, ReadsJoin, RangesJoin, SymbolsMatch,
                    LinesMatch, DriftMatches
<1> QED BY <1>4, TextsOnly, PTL
=============================================================================
