--------------------------- MODULE TokenCache_proof ---------------------------
(***************************************************************************)
(* Proofs about the token cache, for every set of resources and inputs and *)
(* every size limit.                                                       *)
(***************************************************************************)
EXTENDS TokenCache, FoldTheorems, FiniteSetTheorems, TLAPS

(* Sums of bytes.  The sum over a finite set is a fold that takes the      *)
(* elements in some order; that order does not matter.                     *)
Sizes(entries, S) == \A r \in S : entries[r].size_bytes \in Nat

SizesOf(entries, S) == [r \in S |-> entries[r].size_bytes]

Choice(S) == [T \in SUBSET S |-> CHOOSE x \in T : TRUE]

Adding(entries, S) == [r \in S |-> [n \in Nat |-> entries[r].size_bytes + n]]

IsSum(g, entries, S, choose) == Folds(g, SUBSET S, 0, Adding(entries, S), choose)

LEMMA BytesIsFold ==
  ASSUME NEW entries, NEW S, IsFiniteSet(S), Sizes(entries, S)
  PROVE  \E g \in [SUBSET S -> Nat] : IsSum(g, entries, S, Choice(S)) /\ Bytes(entries, S) = g[S]
<1> DEFINE F == Adding(entries, S)
<1>1. F \in [S -> [Nat -> Nat]] /\ \A r \in S, n \in Nat : F[r][n] = entries[r].size_bytes + n
  BY DEF Sizes, Adding
<1>2. \A T \in SUBSET S : T # {} => Choice(S)[T] \in T /\ Choice(S)[T] = CHOOSE x \in T : TRUE
  BY DEF Choice
<1> HIDE DEF F
<1>9. Chooses(Choice(S), S)
  BY <1>2 DEF Chooses
<1>3. PICK g \in [SUBSET S -> Nat] : Folds(g, SUBSET S, 0, F, Choice(S))
  BY <1>1, <1>9, FoldExists
<1> DEFINE Eq(i) == i = [s \in SUBSET S |->
                           IF s = {} THEN 0
                           ELSE entries[CHOOSE x \in s : TRUE].size_bytes
                                  + i[s \ {CHOOSE x \in s : TRUE}]]
           it == CHOOSE i : Eq(i)
<1>4. Eq(g)
  <2>1. ASSUME NEW s \in SUBSET S, s # {}
        PROVE  g[s] = entries[CHOOSE x \in s : TRUE].size_bytes + g[s \ {CHOOSE x \in s : TRUE}]
    <3> DEFINE c == CHOOSE x \in s : TRUE
    <3>1. Choice(S)[s] = c /\ c \in s
      BY <1>2, <2>1
    <3> HIDE DEF c
    <3>2. g[s] = F[c][g[s \ {c}]] /\ c \in S /\ g[s \ {c}] \in Nat
      BY <1>3, <2>1, <3>1 DEF Folds
    <3>3. g[s] = entries[c].size_bytes + g[s \ {c}]
      BY <1>1, <3>2
    <3> QED BY <3>3 DEF c
  <2>2. g[{}] = 0
    BY <1>3 DEF Folds
  <2> QED BY <2>1, <2>2
<1>5. Bytes(entries, S) = it[S]
  BY DEF Bytes, MapThenSumSet, MapThenFoldSet
<1>6. Eq(it)
  <2> HIDE DEF Eq
  <2> QED BY <1>4
<1> HIDE DEF it
<1>7. \A T \in SUBSET S : g[T] = it[T]
  <2> DEFINE P == {T \in SUBSET S : g[T] = it[T]}
  <2>1. ASSUME NEW T \in SUBSET S, \A x \in T : T \ {x} \in P PROVE T \in P
    <3>1. CASE T = {}
      BY <3>1, <1>4, <1>6
    <3>2. CASE T # {}
      <4> DEFINE c == CHOOSE x \in T : TRUE
      <4>1. c \in T
        BY <3>2
      <4>2. g[T] = entries[c].size_bytes + g[T \ {c}]
        BY <1>4, <3>2
      <4>3. it[T] = entries[c].size_bytes + it[T \ {c}]
        BY <1>6, <3>2
      <4> HIDE DEF c
      <4> QED BY <4>1, <4>2, <4>3, <2>1
    <3> QED BY <3>1, <3>2
  <2> HIDE DEF P
  <2>2. \A T \in SUBSET S : T \in P
    BY <2>1, SetFiniteInduction
  <2> QED BY <2>2 DEF P
<1>8. IsSum(g, entries, S, Choice(S))
  BY <1>3 DEF IsSum, F
<1> QED BY <1>5, <1>7, <1>8

(* One fold for a set and its subsets.                                     *)
LEMMA BytesBySubset ==
  ASSUME NEW entries, NEW S, IsFiniteSet(S), Sizes(entries, S)
  PROVE  \E g \in [SUBSET S -> Nat] :
           /\ IsSum(g, entries, S, Choice(S))
           /\ \A T \in SUBSET S : Bytes(entries, T) = g[T]
<1>1. PICK g \in [SUBSET S -> Nat] : IsSum(g, entries, S, Choice(S))
  BY BytesIsFold
<1>2. ASSUME NEW T \in SUBSET S PROVE Bytes(entries, T) = g[T]
  <2>1. IsFiniteSet(T) /\ Sizes(entries, T)
    BY FS_Subset DEF Sizes
  <2>2. PICK h \in [SUBSET T -> Nat] : IsSum(h, entries, T, Choice(T)) /\ Bytes(entries, T) = h[T]
    BY <2>1, BytesIsFold
  <2> DEFINE F == Adding(entries, T)
  <2>3. Folds(h, SUBSET T, 0, F, Choice(T))
    BY <2>2 DEF IsSum
  <2>4. Folds(g, SUBSET T, 0, F, Choice(T))
    <3> SUFFICES ASSUME NEW U \in SUBSET T
                 PROVE  g[U] = IF U = {} THEN 0 ELSE F[Choice(T)[U]][g[U \ {Choice(T)[U]}]]
      BY DEF Folds
    <3>1. CASE U = {}
      BY <1>1, <3>1 DEF IsSum, Folds
    <3>2. CASE U # {}
      <4>1. Choice(T)[U] = Choice(S)[U] /\ Choice(T)[U] \in U
        BY <3>2 DEF Choice
      <4>2. g[U \ {Choice(T)[U]}] \in Nat
        OBVIOUS
      <4>3. g[U] = Adding(entries, S)[Choice(S)[U]][g[U \ {Choice(S)[U]}]]
        BY <1>1, <3>2 DEF IsSum, Folds
      <4> QED BY <3>2, <4>1, <4>2, <4>3 DEF Adding
    <3> QED BY <3>1, <3>2
  <2> DEFINE choose == Choice(T)
             zero == 0
  <2>5. Chooses(choose, T)
    BY <2>1 DEF Choice, Chooses
  <2>6. Folds(h, SUBSET T, zero, F, choose) /\ Folds(g, SUBSET T, zero, F, choose)
    BY <2>3, <2>4
  <2> HIDE DEF F, choose, zero
  <2>7. \A U \in SUBSET T : g[U] = h[U]
    BY <2>5, <2>6, FoldUnique
  <2> QED BY <2>2, <2>7
<1> QED BY <1>1, <1>2

(* The bytes of a set of entries are those of any one of them and of the   *)
(* others.                                                                 *)
LEMMA BytesAdd ==
  ASSUME NEW entries, NEW S, IsFiniteSet(S), Sizes(entries, S)
  PROVE  /\ Bytes(entries, {}) = 0
         /\ \A T \in SUBSET S :
              /\ Bytes(entries, T) \in Nat
              /\ \A x \in T : Bytes(entries, T) = entries[x].size_bytes + Bytes(entries, T \ {x})
<1>1. PICK g \in [SUBSET S -> Nat] :
        /\ IsSum(g, entries, S, Choice(S))
        /\ \A T \in SUBSET S : Bytes(entries, T) = g[T]
  BY BytesBySubset
<1> DEFINE choose == Choice(S)
           size == SizesOf(entries, S)
           F == Adding(entries, S)
           zero == 0
<1>2. Chooses(choose, S)
  BY DEF Choice, Chooses
<1>3. size \in [S -> Nat] /\ \A x \in S : size[x] = entries[x].size_bytes
  BY DEF SizesOf, Sizes
<1>4. Adds(F, size, S)
  BY <1>3 DEF Adding, Adds
<1>5. g[{}] = 0 /\ Folds(g, SUBSET S, zero, F, choose)
  BY <1>1 DEF IsSum, Folds
<1> HIDE DEF choose, size, F, zero
<1>6. AnyOrder(g, size, S)
  BY <1>2, <1>3, <1>4, <1>5, SumAnyOrder
<1>7. ASSUME NEW T \in SUBSET S, NEW x \in T
      PROVE  g[T] = entries[x].size_bytes + g[T \ {x}]
  <2>1. g[T] = size[x] + g[T \ {x}]
    BY <1>6 DEF AnyOrder
  <2>2. size[x] = entries[x].size_bytes
    BY <1>3
  <2> QED BY <2>1, <2>2
<1>8. Bytes(entries, {}) = 0 /\ \A T \in SUBSET S : Bytes(entries, T) \in Nat
  BY <1>1, <1>5
<1>9. ASSUME NEW T \in SUBSET S, NEW x \in T
      PROVE  Bytes(entries, T) = entries[x].size_bytes + Bytes(entries, T \ {x})
  <2>1. T \ {x} \in SUBSET S
    OBVIOUS
  <2> QED BY <1>1, <1>7, <2>1
<1> QED BY <1>8, <1>9

(* They depend on the sizes only.                                          *)
LEMMA BytesAgree ==
  ASSUME NEW entries, NEW others, NEW S, IsFiniteSet(S), Sizes(entries, S),
         \A r \in S : others[r].size_bytes = entries[r].size_bytes
  PROVE  Bytes(others, S) = Bytes(entries, S)
<1>1. Sizes(others, S)
  BY DEF Sizes
<1> DEFINE P == {T \in SUBSET S : Bytes(others, T) = Bytes(entries, T)}
<1>2. ASSUME NEW T \in SUBSET S, \A x \in T : T \ {x} \in P PROVE T \in P
  <2>1. CASE T = {}
    BY <1>1, <2>1, BytesAdd
  <2>2. CASE T # {}
    <3>1. PICK x : x \in T
      BY <2>2
    <3>2. Bytes(others, T) = others[x].size_bytes + Bytes(others, T \ {x})
      BY <1>1, <3>1, BytesAdd
    <3>3. Bytes(entries, T) = entries[x].size_bytes + Bytes(entries, T \ {x})
      BY <3>1, BytesAdd
    <3> QED BY <1>2, <3>1, <3>2, <3>3
  <2> QED BY <2>1, <2>2
<1> HIDE DEF P
<1>3. \A T \in SUBSET S : T \in P
  BY <1>2, SetFiniteInduction
<1> QED BY <1>3 DEF P

(* The bytes of a set are those of a part of it and of the rest.           *)
LEMMA BytesSplit ==
  ASSUME NEW entries, NEW S, IsFiniteSet(S), Sizes(entries, S), NEW R
  PROVE  Bytes(entries, S) = Bytes(entries, S \intersect R) + Bytes(entries, S \ R)
<1> DEFINE P == {T \in SUBSET S : Bytes(entries, T) =
                                    Bytes(entries, T \intersect R) + Bytes(entries, T \ R)}
<1>1. ASSUME NEW T \in SUBSET S, \A x \in T : T \ {x} \in P PROVE T \in P
  <2>1. CASE T = {}
    <3>1. T \intersect R = {} /\ T \ R = {}
      BY <2>1
    <3>2. Bytes(entries, {}) = 0
      BY BytesAdd
    <3> QED BY <2>1, <3>1, <3>2
  <2>2. CASE T # {}
    <3>1. PICK x : x \in T
      BY <2>2
    <3> DEFINE size == entries[x].size_bytes
               whole == Bytes(entries, T \ {x})
               in == Bytes(entries, (T \ {x}) \intersect R)
               out == Bytes(entries, (T \ {x}) \ R)
    <3>2. Bytes(entries, T) = size + whole
      BY <3>1, BytesAdd
    <3>3. size \in Nat
      BY <3>1 DEF Sizes
    <3>4. in \in Nat /\ out \in Nat
      BY BytesAdd
    <3>5. whole = in + out
      BY <1>1, <3>1
    <3>6. CASE x \in R
      <4>1. /\ (T \intersect R) \ {x} = (T \ {x}) \intersect R
            /\ T \ R = (T \ {x}) \ R
            /\ x \in T \intersect R
            /\ T \intersect R \in SUBSET S
        BY <3>1, <3>6
      <4>2. Bytes(entries, T \intersect R) = size + Bytes(entries, (T \intersect R) \ {x})
        BY <4>1, BytesAdd
      <4>3. Bytes(entries, T \intersect R) = size + in /\ Bytes(entries, T \ R) = out
        BY <4>1, <4>2
      <4> HIDE DEF in, out, whole, size
      <4> QED BY <3>2, <3>3, <3>4, <3>5, <4>3
    <3>7. CASE x \notin R
      <4>1. /\ (T \ R) \ {x} = (T \ {x}) \ R
            /\ T \intersect R = (T \ {x}) \intersect R
            /\ x \in T \ R
            /\ T \ R \in SUBSET S
        BY <3>1, <3>7
      <4>2. Bytes(entries, T \ R) = size + Bytes(entries, (T \ R) \ {x})
        BY <4>1, BytesAdd
      <4>3. Bytes(entries, T \ R) = size + out /\ Bytes(entries, T \intersect R) = in
        BY <4>1, <4>2
      <4> HIDE DEF in, out, whole, size
      <4> QED BY <3>2, <3>3, <3>4, <3>5, <4>3
    <3> QED BY <3>6, <3>7
  <2> QED BY <2>1, <2>2
<1> HIDE DEF P
<1>2. \A T \in SUBSET S : T \in P
  BY <1>1, SetFiniteInduction
<1> QED BY <1>2 DEF P

----------------------------------------------------------------------------
(* The least recently used set is closed downwards: what it leaves out was *)
(* not used before any of its members.                                     *)
LEMMA OldestAreOlder ==
  ASSUME NEW n \in Int, IsFiniteSet(DOMAIN cache),
         \A r \in DOMAIN cache : cache[r].last_access \in Nat,
         NEW g \in Oldest(n), NEW k \in DOMAIN cache \ Oldest(n)
  PROVE  cache[g].last_access < cache[k].last_access
<1> DEFINE Before(r) == {s \in DOMAIN cache : cache[s].last_access < cache[r].last_access}
<1>1. g \in DOMAIN cache /\ Cardinality(Before(g)) < n
  BY DEF Oldest
<1>2. ~(Cardinality(Before(k)) < n)
  BY DEF Oldest
<1>3. \A r \in DOMAIN cache : IsFiniteSet(Before(r)) /\ Cardinality(Before(r)) \in Nat
  BY FS_Subset, FS_CardinalityType
<1>4. SUFFICES ASSUME cache[k].last_access <= cache[g].last_access
              PROVE  FALSE
  BY <1>1
<1>5. Before(k) \subseteq Before(g)
  BY <1>1, <1>4
<1> HIDE DEF Before
<1>6. Cardinality(Before(k)) <= Cardinality(Before(g))
  BY <1>1, <1>3, <1>5, FS_Subset
<1> QED BY <1>1, <1>2, <1>3, <1>6

(* Room is made by taking out one of the least recently used sets.         *)
LEMMA EvictedAreOldest ==
  ASSUME IsFiniteSet(DOMAIN cache), NEW needed
  PROVE  \/ Evicted(needed) = {}
         \/ \E n \in Int : Evicted(needed) = Oldest(n)
<1> DEFINE count == Cardinality(DOMAIN cache)
           room  == {n \in 0..count :
                       SaturatingSub(total_bytes, Bytes(cache, Oldest(n))) + needed <= MaxBytes}
           tried == room \union {count}
<1>1. count \in Nat
  BY FS_CardinalityType
<1>2. tried \subseteq Nat /\ tried # {}
  BY <1>1
<1> HIDE DEF tried
<1>3. Min(tried) \in Nat
  BY <1>2, MinIsLeast
<1>4. Evicted(needed) = IF needed > MaxBytes THEN {} ELSE Oldest(Min(tried))
  BY DEF Evicted, tried
<1> QED BY <1>3, <1>4

(* No more of the entries, no more bytes.                                  *)
LEMMA BytesMonotone ==
  ASSUME NEW entries, NEW S, IsFiniteSet(S), Sizes(entries, S), NEW T \in SUBSET S
  PROVE  Bytes(entries, T) <= Bytes(entries, S)
<1>1. Bytes(entries, S) = Bytes(entries, S \intersect T) + Bytes(entries, S \ T)
  BY BytesSplit
<1>2. S \intersect T = T
  OBVIOUS
<1> DEFINE in == Bytes(entries, T)
           out == Bytes(entries, S \ T)
<1>3. in \in Nat /\ out \in Nat
  BY BytesAdd
<1>4. Bytes(entries, S) = in + out
  BY <1>1, <1>2
<1> SUFFICES in <= Bytes(entries, S)
  OBVIOUS
<1> HIDE DEF in, out
<1> QED BY <1>3, <1>4

(* A finite cache of entries with sizes, and its total in the counter.     *)
Counted ==
  /\ IsFiniteSet(DOMAIN cache)
  /\ Sizes(cache, DOMAIN cache)
  /\ total_bytes = Bytes(cache, DOMAIN cache)

(* What is left of the counter once a part of the cache is taken out.      *)
LEMMA TotalWithout ==
  ASSUME Counted, NEW gone \in SUBSET DOMAIN cache
  PROVE  /\ SaturatingSub(total_bytes, Bytes(cache, gone)) = Bytes(cache, DOMAIN cache \ gone)
         /\ Bytes(cache, DOMAIN cache \ gone) \in Nat
<1>1. Bytes(cache, DOMAIN cache) =
        Bytes(cache, DOMAIN cache \intersect gone) + Bytes(cache, DOMAIN cache \ gone)
  BY BytesSplit DEF Counted
<1>2. DOMAIN cache \intersect gone = gone
  OBVIOUS
<1> DEFINE out == Bytes(cache, gone)
           left == Bytes(cache, DOMAIN cache \ gone)
<1>3. out \in Nat /\ left \in Nat
  BY BytesAdd DEF Counted
<1>4. total_bytes = out + left
  BY <1>1, <1>2 DEF Counted
<1> SUFFICES SaturatingSub(total_bytes, out) = left /\ left \in Nat
  OBVIOUS
<1> HIDE DEF out, left
<1> QED BY <1>3, <1>4 DEF SaturatingSub

(* None is nobody, and as many as there are is everybody.                  *)
LEMMA OldestBounds ==
  ASSUME IsFiniteSet(DOMAIN cache), \A r \in DOMAIN cache : cache[r].last_access \in Nat
  PROVE  /\ Oldest(0) = {}
         /\ Oldest(Cardinality(DOMAIN cache)) = DOMAIN cache
<1> DEFINE Before(r) == {s \in DOMAIN cache : cache[s].last_access < cache[r].last_access}
<1>1. ASSUME NEW r \in DOMAIN cache
      PROVE  /\ Cardinality(Before(r)) \in Nat
             /\ Cardinality(Before(r)) < Cardinality(DOMAIN cache)
  <2>1. Before(r) \subseteq DOMAIN cache /\ r \notin Before(r)
    OBVIOUS
  <2> HIDE DEF Before
  <2>2. IsFiniteSet(Before(r)) /\ Cardinality(Before(r)) \in Nat
    BY <2>1, FS_Subset, FS_CardinalityType
  <2>3. Before(r) \subseteq DOMAIN cache /\ Before(r) # DOMAIN cache
    BY <2>1
  <2>4. Cardinality(Before(r)) < Cardinality(DOMAIN cache)
    <3>1. /\ Cardinality(Before(r)) <= Cardinality(DOMAIN cache)
          /\ Cardinality(Before(r)) # Cardinality(DOMAIN cache)
      BY <2>3, FS_Subset
    <3>2. Cardinality(DOMAIN cache) \in Nat
      BY FS_CardinalityType
    <3> QED BY <2>2, <3>1, <3>2
  <2> QED BY <2>2, <2>4
<1>2. Oldest(0) = {r \in DOMAIN cache : Cardinality(Before(r)) < 0}
  BY DEF Oldest
<1>3. Oldest(Cardinality(DOMAIN cache)) =
        {r \in DOMAIN cache : Cardinality(Before(r)) < Cardinality(DOMAIN cache)}
  BY DEF Oldest
<1> HIDE DEF Before
<1> QED BY <1>1, <1>2, <1>3

(* Room is made: what stays and the new entry fit, and where they fit      *)
(* already nothing is evicted.                                             *)
LEMMA RoomIsMade ==
  ASSUME Counted, \A r \in DOMAIN cache : cache[r].last_access \in Nat, NEW needed \in Nat
  PROVE  /\ Evicted(needed) \subseteq DOMAIN cache
         /\ needed > MaxBytes => Evicted(needed) = {}
         /\ needed <= MaxBytes =>
              Bytes(cache, DOMAIN cache \ Evicted(needed)) + needed <= MaxBytes
         /\ total_bytes + needed <= MaxBytes => Evicted(needed) = {}
<1> DEFINE count == Cardinality(DOMAIN cache)
           room  == {n \in 0..count :
                       SaturatingSub(total_bytes, Bytes(cache, Oldest(n))) + needed <= MaxBytes}
           tried == room \union {count}
           n == Min(tried)
<1>1. count \in Nat /\ MaxBytes \in Nat
  BY TokenCacheAssumption, FS_CardinalityType DEF Counted
<1>2. Oldest(0) = {} /\ Oldest(count) = DOMAIN cache
  BY OldestBounds DEF Counted
<1>3. \A m \in Int : Oldest(m) \subseteq DOMAIN cache
  BY DEF Oldest
<1>4. \A m \in Int : /\ SaturatingSub(total_bytes, Bytes(cache, Oldest(m))) =
                          Bytes(cache, DOMAIN cache \ Oldest(m))
                     /\ Bytes(cache, DOMAIN cache \ Oldest(m)) \in Nat
  BY <1>3, TotalWithout
<1>5. Bytes(cache, {}) = 0
  BY BytesAdd DEF Counted
<1>6. tried \subseteq Nat /\ tried # {}
  BY <1>1
<1>7. n \in tried /\ n \in Nat /\ \A m \in tried : n <= m
  <2> HIDE DEF tried
  <2> QED BY <1>6, MinIsLeast
<1>8. Evicted(needed) = IF needed > MaxBytes THEN {} ELSE Oldest(n)
  BY DEF Evicted
<1> HIDE DEF n
<1>9. Evicted(needed) \subseteq DOMAIN cache
  BY <1>3, <1>7, <1>8
<1>10. ASSUME needed > MaxBytes PROVE Evicted(needed) = {}
  BY <1>8, <1>10
<1>11. ASSUME needed <= MaxBytes
       PROVE  Bytes(cache, DOMAIN cache \ Evicted(needed)) + needed <= MaxBytes
  <2>1. Evicted(needed) = Oldest(n)
    BY <1>1, <1>8, <1>11
  <2>2. DOMAIN cache \ Oldest(count) = {}
    BY <1>2
  <2>3. Bytes(cache, DOMAIN cache \ Oldest(count)) + needed <= MaxBytes
    BY <1>5, <1>11, <2>2
  <2>4. CASE n \in room
    <3>1. SaturatingSub(total_bytes, Bytes(cache, Oldest(n))) + needed <= MaxBytes
      BY <2>4
    <3> QED BY <1>4, <1>7, <2>1, <3>1
  <2>5. CASE n = count
    BY <2>1, <2>3, <2>5
  <2> QED BY <1>7, <2>4, <2>5
<1>12. ASSUME total_bytes + needed <= MaxBytes PROVE Evicted(needed) = {}
  <2>1. CASE needed > MaxBytes
    BY <1>10, <2>1
  <2>2. CASE ~(needed > MaxBytes)
    <3>1. DOMAIN cache \ Oldest(0) = DOMAIN cache
      BY <1>2
    <3>2. SaturatingSub(total_bytes, Bytes(cache, Oldest(0))) = total_bytes
      BY <1>4, <3>1 DEF Counted
    <3>3. 0 \in room
      BY <1>1, <1>12, <3>2
    <3>4. n = 0
      BY <1>7, <3>3
    <3> QED BY <1>2, <1>8, <2>2, <3>4
  <2> QED BY <2>1, <2>2
<1> QED BY <1>9, <1>10, <1>11, <1>12

----------------------------------------------------------------------------
(* What is cached is a finite map to entries that hold the tokens of their *)
(* own input and were last used no later than now.                         *)
Cached ==
  /\ access_counter \in Nat
  /\ IsFiniteSet(DOMAIN cache)
  /\ cache \in [DOMAIN cache -> Entry]
  /\ \A r \in DOMAIN cache : /\ cache[r].tokens = cache[r].input
                            /\ cache[r].last_access <= access_counter

Inv == Cached /\ RecencyUnique /\ ServedFresh

LEMMA StoreStep ==
  ASSUME Inv, NEW resource \in Resources, NEW input \in Inputs, Store(resource, input)
  PROVE  Cached' /\ RecencyUnique'
<1> DEFINE size == SizeOf[input]
           new  == [input |-> input, tokens |-> input, size_bytes |-> size,
                    last_access |-> access_counter + 1]
           gone == Evicted(size) \union ({resource} \intersect (DOMAIN cache \ Evicted(size)))
           kept == Without(cache, gone)
<1>1. access_counter' = access_counter + 1
  BY DEF Store
<1>2. cache' = [r \in DOMAIN kept \union {resource} |->
                  IF r = resource THEN new ELSE kept[r]]
  BY DEF Store
<1>3. DOMAIN kept \subseteq DOMAIN cache /\ \A r \in DOMAIN kept : kept[r] = cache[r]
  BY DEF Without
<1>4. new \in Entry
  BY TokenCacheAssumption DEF Inv, Cached, Entry
<1> HIDE DEF gone, kept
<1>5. DOMAIN cache' = DOMAIN kept \union {resource}
  BY <1>2
<1>6. /\ cache'[resource] = new
      /\ \A r \in DOMAIN kept : r # resource => cache'[r] = cache[r]
  BY <1>2, <1>3
<1>7. IsFiniteSet(DOMAIN cache')
  BY <1>3, <1>5, FS_Subset, FS_AddElement DEF Inv, Cached
<1>8. cache' \in [DOMAIN cache' -> Entry]
  BY <1>2, <1>3, <1>4 DEF Inv, Cached
<1>9. \A r \in DOMAIN cache' : /\ cache'[r].tokens = cache'[r].input
                              /\ cache'[r].last_access <= access_counter'
  <2>1. TAKE r \in DOMAIN cache'
  <2>2. CASE r = resource
    BY <2>2, <1>1, <1>6 DEF Inv, Cached
  <2>3. CASE r # resource
    <3>1. r \in DOMAIN cache /\ cache'[r] = cache[r]
      BY <2>3, <1>3, <1>5, <1>6
    <3>2. cache[r] \in Entry
      BY <3>1 DEF Inv, Cached
    <3> QED BY <3>1, <3>2, <1>1 DEF Inv, Cached, Entry
  <2> QED BY <2>2, <2>3
<1>10. RecencyUnique'
  <2>1. \A r \in DOMAIN cache' : r # resource =>
          r \in DOMAIN cache /\ cache'[r] = cache[r] /\ cache[r].last_access < access_counter + 1
    <3>1. TAKE r \in DOMAIN cache'
    <3>2. HAVE r # resource
    <3>3. r \in DOMAIN cache /\ cache'[r] = cache[r]
      BY <3>2, <1>3, <1>5, <1>6
    <3>4. cache[r] \in Entry
      BY <3>3 DEF Inv, Cached
    <3> QED BY <3>3, <3>4 DEF Inv, Cached, Entry
  <2>2. cache'[resource].last_access = access_counter + 1
    BY <1>6
  <2>3. access_counter \in Nat
    BY DEF Inv, Cached
  <2> QED BY <2>1, <2>2, <2>3 DEF Inv, RecencyUnique
<1> QED BY <1>1, <1>7, <1>8, <1>9, <1>10 DEF Inv, Cached

(* A hit stamps the entry and hands out its tokens, which are those of the *)
(* input asked for.                                                        *)
LEMMA TokenizeStep ==
  ASSUME Inv, NEW resource \in Resources, NEW input \in Inputs, Tokenize(resource, input)
  PROVE  Inv'
<1>1. CASE IsHit(resource, input)
  <2> DEFINE hit == [cache[resource] EXCEPT !.last_access = access_counter + 1]
  <2>1. /\ resource \in DOMAIN cache
        /\ cache[resource].input = input
        /\ cache[resource] \in Entry
    BY <1>1 DEF IsHit, Inv, Cached
  <2>2. /\ access_counter' = access_counter + 1
        /\ cache' = [cache EXCEPT ![resource] = hit]
        /\ served' = {[asked |-> input, given |-> cache[resource].tokens]}
    BY <1>1 DEF Tokenize
  <2>3. access_counter \in Nat
    BY DEF Inv, Cached
  <2>4. /\ hit \in Entry
        /\ hit.last_access = access_counter + 1
        /\ hit.tokens = cache[resource].tokens
        /\ hit.input = cache[resource].input
    BY <2>1, <2>3 DEF Entry
  <2> HIDE DEF hit
  <2>5. /\ DOMAIN cache' = DOMAIN cache
        /\ cache' \in [DOMAIN cache -> Entry]
        /\ cache'[resource] = hit
        /\ \A r \in DOMAIN cache : r # resource => cache'[r] = cache[r]
    BY <2>1, <2>2, <2>4 DEF Inv, Cached
  <2>6. \A r \in DOMAIN cache : /\ cache[r].last_access \in Nat
                               /\ cache[r].last_access < access_counter + 1
    BY <2>3 DEF Inv, Cached, Entry
  <2>7. Cached'
    BY <2>1, <2>2, <2>3, <2>4, <2>5, <2>6 DEF Inv, Cached
  <2>8. RecencyUnique'
    BY <2>3, <2>4, <2>5, <2>6 DEF Inv, RecencyUnique
  <2>9. ServedFresh'
    BY <2>1, <2>2 DEF Inv, Cached, ServedFresh
  <2> QED BY <2>7, <2>8, <2>9 DEF Inv
<1>2. CASE ~IsHit(resource, input)
  <2>1. Store(resource, input) /\ served' = {[asked |-> input, given |-> input]}
    BY <1>2 DEF Tokenize
  <2>2. ServedFresh'
    BY <2>1 DEF ServedFresh
  <2> QED BY <2>1, <2>2, StoreStep DEF Inv
<1> QED BY <1>1, <1>2

(* Taking entries out disturbs nothing.                                    *)
LEMMA RemovalStep ==
  ASSUME Inv, NEW rs, cache' = Without(cache, rs), served' = {},
         access_counter' = access_counter
  PROVE  Inv'
<1>1. /\ DOMAIN cache' \subseteq DOMAIN cache
      /\ \A r \in DOMAIN cache' : cache'[r] = cache[r]
      /\ cache' \in [DOMAIN cache' -> Entry]
  BY DEF Without, Inv, Cached
<1>2. IsFiniteSet(DOMAIN cache')
  BY <1>1, FS_Subset DEF Inv, Cached
<1> QED BY <1>1, <1>2 DEF Inv, Cached, RecencyUnique, ServedFresh

LEMMA EmptyCache ==
  ASSUME NEW c, c = [r \in {} |-> 0]
  PROVE  /\ DOMAIN c = {}
         /\ IsFiniteSet(DOMAIN c)
         /\ c \in [DOMAIN c -> Entry]
BY FS_EmptySet

LEMMA Initially == Init => Inv
<1>1. SUFFICES ASSUME Init PROVE Inv
  OBVIOUS
<1>2. /\ DOMAIN cache = {}
      /\ IsFiniteSet(DOMAIN cache)
      /\ cache \in [DOMAIN cache -> Entry]
  BY <1>1, EmptyCache DEF Init
<1> QED BY <1>1, <1>2 DEF Init, Inv, Cached, RecencyUnique, ServedFresh

LEMMA Step == Inv /\ [Next]_vars => Inv'
<1>1. SUFFICES ASSUME Inv, [Next]_vars PROVE Inv'
  OBVIOUS
<1>2. ASSUME NEW resource \in Resources, NEW input \in Inputs, Prime(resource, input)
      PROVE  Inv'
  <2>1. Store(resource, input) /\ served' = {}
    BY <1>2 DEF Prime
  <2> QED BY <1>1, <2>1, StoreStep DEF Inv, ServedFresh
<1>3. ASSUME NEW resource \in Resources, NEW input \in Inputs, Tokenize(resource, input)
      PROVE  Inv'
  BY <1>1, <1>3, TokenizeStep
<1>4. ASSUME NEW resource \in Resources, Invalidate(resource)
      PROVE  Inv'
  BY <1>1, <1>4, RemovalStep DEF Invalidate
<1>5. CASE Clear
  <2>1. /\ DOMAIN cache' = {}
        /\ IsFiniteSet(DOMAIN cache')
        /\ cache' \in [DOMAIN cache' -> Entry]
    BY <1>5, EmptyCache DEF Clear
  <2> QED BY <1>1, <1>5, <2>1 DEF Clear, Inv, Cached, RecencyUnique, ServedFresh
<1>6. CASE UNCHANGED vars
  BY <1>1, <1>6 DEF vars, Inv, Cached, RecencyUnique, ServedFresh
<1> QED BY <1>1, <1>2, <1>3, <1>4, <1>5, <1>6 DEF Next

----------------------------------------------------------------------------
(* The accounting of bytes.                                                *)
Fitting(entries) == {r \in DOMAIN entries : entries[r].size_bytes <= MaxBytes}

Accounted ==
  /\ DOMAIN cache \subseteq Resources
  /\ served \subseteq [asked : Inputs, given : Inputs]
  /\ BytesAccounted
  /\ WithinLimit

LEMMA AccountedIsCounted ==
  Cached /\ BytesAccounted => /\ Counted
                              /\ \A r \in DOMAIN cache : cache[r].last_access \in Nat
BY DEF Cached, Counted, BytesAccounted, Entry, Sizes

(* What a miss leaves: the entries it neither evicts nor replaces, and the *)
(* new one.                                                                *)
LEMMA StoreResult ==
  ASSUME Inv, Accounted, NEW resource \in Resources, NEW input \in Inputs,
         Store(resource, input)
  PROVE  LET gone == Evicted(SizeOf[input])
             kept == (DOMAIN cache \ gone) \ {resource}
         IN  /\ resource \notin kept
             /\ DOMAIN cache' = kept \union {resource}
             /\ \A r \in kept : cache'[r] = cache[r]
             /\ cache'[resource].size_bytes = SizeOf[input]
             /\ total_bytes' = Bytes(cache, kept) + SizeOf[input]
<1> DEFINE size == SizeOf[input]
           gone == Evicted(size)
           old  == {resource} \intersect (DOMAIN cache \ gone)
           kept == (DOMAIN cache \ gone) \ {resource}
           left == Without(cache, gone \union old)
           new  == [input |-> input, tokens |-> input, size_bytes |-> size,
                    last_access |-> access_counter + 1]
<1>1. size \in Nat
  BY TokenCacheAssumption
<1>2. Counted /\ \A r \in DOMAIN cache : cache[r].last_access \in Nat
  BY AccountedIsCounted DEF Inv, Accounted
<1>3. gone \subseteq DOMAIN cache
  BY <1>1, <1>2, RoomIsMade
<1>4. cache' = [r \in DOMAIN left \union {resource} |-> IF r = resource THEN new ELSE left[r]]
  BY DEF Store
<1>5. total_bytes' = SaturatingSub(SaturatingSub(total_bytes, Bytes(cache, gone)),
                                   Bytes(cache, old)) + size
  BY DEF Store
<1>6. new.size_bytes = size
  OBVIOUS
<1> HIDE DEF gone, new
<1>7. DOMAIN left = kept /\ \A r \in kept : left[r] = cache[r]
  BY <1>3 DEF Without
<1>8. SaturatingSub(total_bytes, Bytes(cache, gone)) = Bytes(cache, DOMAIN cache \ gone)
  BY <1>2, <1>3, TotalWithout
<1>9. SaturatingSub(Bytes(cache, DOMAIN cache \ gone), Bytes(cache, old)) = Bytes(cache, kept)
  <2> DEFINE S == DOMAIN cache \ gone
             out == Bytes(cache, old)
             in == Bytes(cache, kept)
  <2>1. IsFiniteSet(S) /\ Sizes(cache, S)
    BY <1>2, FS_Subset DEF Counted, Sizes
  <2>2. S \intersect {resource} = old /\ S \ {resource} = kept
    OBVIOUS
  <2>3. Bytes(cache, S) = out + in
    BY <2>1, <2>2, BytesSplit
  <2>4. out \in Nat /\ in \in Nat
    BY <2>1, BytesAdd
  <2> HIDE DEF S, out, in
  <2>5. SaturatingSub(Bytes(cache, S), out) = in
    BY <2>3, <2>4 DEF SaturatingSub
  <2> QED BY <2>5 DEF S, out, in
<1>10. total_bytes' = Bytes(cache, kept) + size
  BY <1>5, <1>8, <1>9
<1> HIDE DEF left
<1>11. /\ DOMAIN cache' = kept \union {resource}
       /\ cache'[resource].size_bytes = size
       /\ \A r \in kept : cache'[r] = cache[r]
  BY <1>4, <1>6, <1>7
<1> QED BY <1>10, <1>11 DEF gone

LEMMA StoreAccounts ==
  ASSUME Inv, Accounted, NEW resource \in Resources, NEW input \in Inputs,
         Store(resource, input)
  PROVE  /\ DOMAIN cache' \subseteq Resources
         /\ BytesAccounted'
         /\ WithinLimit'
<1> DEFINE size == SizeOf[input]
           gone == Evicted(size)
           kept == (DOMAIN cache \ gone) \ {resource}
           now  == kept \union {resource}
<1>1. /\ resource \notin kept
      /\ DOMAIN cache' = now
      /\ \A r \in kept : cache'[r] = cache[r]
      /\ cache'[resource].size_bytes = size
      /\ total_bytes' = Bytes(cache, kept) + size
  BY StoreResult
<1>2. size \in Nat /\ MaxBytes \in Nat
  BY TokenCacheAssumption
<1>3. Counted /\ \A r \in DOMAIN cache : cache[r].last_access \in Nat
  BY AccountedIsCounted DEF Inv, Accounted
<1>4. /\ size > MaxBytes => gone = {}
      /\ size <= MaxBytes => Bytes(cache, DOMAIN cache \ gone) + size <= MaxBytes
  BY <1>2, <1>3, RoomIsMade
<1> HIDE DEF gone
<1>5. /\ kept \in SUBSET (DOMAIN cache \ gone)
      /\ now \ {resource} = kept
      /\ now \subseteq DOMAIN cache \union {resource}
  BY <1>1
<1> HIDE DEF kept, now
<1>6. /\ IsFiniteSet(DOMAIN cache \ gone) /\ Sizes(cache, DOMAIN cache \ gone)
      /\ IsFiniteSet(kept) /\ Sizes(cache, kept)
  BY <1>3, <1>5, FS_Subset DEF Counted, Sizes
<1>7. IsFiniteSet(now) /\ Sizes(cache', now)
  <2>1. now = kept \union {resource}
    BY DEF now
  <2>2. IsFiniteSet(now)
    BY <1>6, <2>1, FS_AddElement
  <2> QED BY <1>1, <1>2, <1>6, <2>1, <2>2 DEF Sizes
<1>8. Bytes(cache', kept) = Bytes(cache, kept)
  BY <1>1, <1>6, BytesAgree
<1>9. Bytes(cache', now) = size + Bytes(cache, kept)
  <2>1. resource \in now
    BY DEF now
  <2>2. Bytes(cache', now) = cache'[resource].size_bytes + Bytes(cache', now \ {resource})
    BY <1>7, <2>1, BytesAdd
  <2> QED BY <1>1, <1>5, <1>8, <2>2
<1>10. Bytes(cache, kept) \in Nat /\ Bytes(cache, DOMAIN cache \ gone) \in Nat
       /\ Bytes(cache, kept) <= Bytes(cache, DOMAIN cache \ gone)
  BY <1>5, <1>6, BytesAdd, BytesMonotone
<1>11. total_bytes' = Bytes(cache', DOMAIN cache')
  BY <1>1, <1>2, <1>9, <1>10
<1>12. Bytes(cache', Fitting(cache')) <= MaxBytes
  <2>1. Fitting(cache') \in SUBSET now
    BY <1>1 DEF Fitting
  <2>2. CASE size <= MaxBytes
    <3>1. /\ Bytes(cache', Fitting(cache')) <= Bytes(cache', now)
          /\ Bytes(cache', Fitting(cache')) \in Nat
      BY <1>7, <2>1, BytesMonotone, BytesAdd
    <3>2. Bytes(cache', now) <= MaxBytes /\ Bytes(cache', now) \in Nat
      BY <1>2, <1>4, <1>9, <1>10, <2>2
    <3> QED BY <1>2, <3>1, <3>2
  <2>3. CASE size > MaxBytes
    <3>1. Fitting(cache') \subseteq kept
      BY <1>1, <1>2, <2>3 DEF Fitting, now
    <3>2. Fitting(cache') \in SUBSET Fitting(cache)
      BY <1>1, <1>5, <3>1 DEF Fitting
    <3>3. /\ IsFiniteSet(Fitting(cache)) /\ Sizes(cache, Fitting(cache))
          /\ IsFiniteSet(Fitting(cache')) /\ Sizes(cache, Fitting(cache'))
      <4>1. Fitting(cache) \subseteq DOMAIN cache
        BY DEF Fitting
      <4> QED BY <1>3, <3>2, <4>1, FS_Subset DEF Counted, Sizes
    <3>4. Bytes(cache', Fitting(cache')) = Bytes(cache, Fitting(cache'))
      BY <1>1, <3>1, <3>3, BytesAgree
    <3>5. /\ Bytes(cache, Fitting(cache')) <= Bytes(cache, Fitting(cache))
          /\ Bytes(cache, Fitting(cache')) \in Nat
          /\ Bytes(cache, Fitting(cache)) \in Nat
      BY <3>2, <3>3, BytesMonotone, BytesAdd
    <3>6. Bytes(cache, Fitting(cache)) <= MaxBytes
      BY DEF Accounted, WithinLimit, Fitting
    <3> QED BY <1>2, <3>4, <3>5, <3>6
  <2> QED BY <1>2, <2>2, <2>3
<1>13. DOMAIN cache' \subseteq Resources
  BY <1>1, <1>5 DEF Accounted
<1> QED BY <1>11, <1>12, <1>13 DEF BytesAccounted, WithinLimit, Fitting

(* Taking entries out of a cache within its limit leaves one.              *)
LEMMA FewerFit ==
  ASSUME Inv, Accounted, DOMAIN cache' \subseteq DOMAIN cache,
         \A r \in DOMAIN cache' : cache'[r].size_bytes = cache[r].size_bytes
  PROVE  WithinLimit' /\ Bytes(cache', DOMAIN cache') = Bytes(cache, DOMAIN cache')
<1>1. Counted
  BY AccountedIsCounted DEF Inv, Accounted
<1>2. /\ Fitting(cache') \subseteq Fitting(cache)
      /\ Fitting(cache) \subseteq DOMAIN cache
      /\ Fitting(cache') \subseteq DOMAIN cache'
  BY DEF Fitting
<1>3. /\ IsFiniteSet(Fitting(cache)) /\ Sizes(cache, Fitting(cache))
      /\ IsFiniteSet(Fitting(cache')) /\ Sizes(cache, Fitting(cache'))
      /\ IsFiniteSet(DOMAIN cache') /\ Sizes(cache, DOMAIN cache')
  BY <1>1, <1>2, FS_Subset DEF Counted, Sizes
<1>4. Bytes(cache', Fitting(cache')) = Bytes(cache, Fitting(cache'))
  BY <1>2, <1>3, BytesAgree
<1>5. /\ Bytes(cache, Fitting(cache')) <= Bytes(cache, Fitting(cache))
      /\ Bytes(cache, Fitting(cache')) \in Nat
      /\ Bytes(cache, Fitting(cache)) \in Nat
  BY <1>2, <1>3, BytesMonotone, BytesAdd
<1>6. Bytes(cache, Fitting(cache)) <= MaxBytes /\ MaxBytes \in Nat
  BY TokenCacheAssumption DEF Accounted, WithinLimit, Fitting
<1>7. Bytes(cache', Fitting(cache')) <= MaxBytes
  BY <1>4, <1>5, <1>6
<1>8. Bytes(cache', DOMAIN cache') = Bytes(cache, DOMAIN cache')
  BY <1>3, BytesAgree
<1> QED BY <1>7, <1>8 DEF WithinLimit, Fitting

LEMMA AccountedInitially == Init => Accounted
<1> SUFFICES ASSUME Init PROVE Accounted
  OBVIOUS
<1>1. DOMAIN cache = {} /\ IsFiniteSet({})
  BY EmptyCache, FS_EmptySet DEF Init
<1>2. Bytes(cache, {}) = 0
  BY <1>1, BytesAdd DEF Sizes
<1>3. {r \in DOMAIN cache : cache[r].size_bytes <= MaxBytes} = {}
  BY <1>1
<1> QED BY <1>1, <1>2, <1>3, TokenCacheAssumption
        DEF Init, Accounted, BytesAccounted, WithinLimit

LEMMA AccountedStep == Inv /\ Accounted /\ [Next]_vars => Accounted'
<1> SUFFICES ASSUME Inv, Accounted, [Next]_vars PROVE Accounted'
  OBVIOUS
<1>1. Counted
  BY AccountedIsCounted DEF Inv, Accounted
<1>2. ASSUME NEW resource \in Resources, NEW input \in Inputs, Prime(resource, input)
      PROVE  Accounted'
  BY <1>2, StoreAccounts DEF Prime, Accounted
<1>3. ASSUME NEW resource \in Resources, NEW input \in Inputs, Tokenize(resource, input)
      PROVE  Accounted'
  <2>1. CASE IsHit(resource, input)
    <3>1. /\ resource \in DOMAIN cache /\ cache[resource].tokens = input
      BY <2>1 DEF IsHit, Inv, Cached
    <3>2. /\ cache' = [cache EXCEPT ![resource] =
                          [cache[resource] EXCEPT !.last_access = access_counter + 1]]
          /\ served' = {[asked |-> input, given |-> cache[resource].tokens]}
          /\ total_bytes' = total_bytes
      BY <1>3, <2>1 DEF Tokenize
    <3>3. DOMAIN cache' = DOMAIN cache
      BY <3>2
    <3>4. [cache[resource] EXCEPT !.last_access = access_counter + 1].size_bytes
            = cache[resource].size_bytes
      BY <3>1 DEF Inv, Cached, Entry
    <3>5. \A r \in DOMAIN cache' : cache'[r].size_bytes = cache[r].size_bytes
      BY <3>1, <3>2, <3>4
    <3>6. WithinLimit' /\ Bytes(cache', DOMAIN cache') = Bytes(cache, DOMAIN cache)
      BY <3>3, <3>5, FewerFit
    <3> QED BY <3>1, <3>2, <3>3, <3>6 DEF Accounted, BytesAccounted
  <2>2. CASE ~IsHit(resource, input)
    <3>1. Store(resource, input) /\ served' = {[asked |-> input, given |-> input]}
      BY <1>3, <2>2 DEF Tokenize
    <3> QED BY <3>1, StoreAccounts DEF Accounted
  <2> QED BY <2>1, <2>2
<1>4. ASSUME NEW resource \in Resources, Invalidate(resource)
      PROVE  Accounted'
  <2>1. /\ resource \in DOMAIN cache
        /\ cache' = Without(cache, {resource})
        /\ total_bytes' = SaturatingSub(total_bytes, cache[resource].size_bytes)
        /\ served' = {}
    BY <1>4 DEF Invalidate
  <2>2. /\ DOMAIN cache' = DOMAIN cache \ {resource}
        /\ \A r \in DOMAIN cache' : cache'[r] = cache[r]
    BY <2>1 DEF Without
  <2>3. WithinLimit' /\ Bytes(cache', DOMAIN cache') = Bytes(cache, DOMAIN cache \ {resource})
    BY <2>2, FewerFit
  <2>4. total_bytes' = Bytes(cache, DOMAIN cache \ {resource})
    <3> DEFINE left == Bytes(cache, DOMAIN cache \ {resource})
               size == cache[resource].size_bytes
    <3>1. total_bytes = size + left
      BY <1>1, <2>1, BytesAdd DEF Counted
    <3>2. size \in Nat /\ left \in Nat
      BY <1>1, <2>1, BytesAdd DEF Counted, Sizes
    <3>3. total_bytes' = SaturatingSub(total_bytes, size)
      BY <2>1
    <3> HIDE DEF left, size
    <3>4. total_bytes' = left
      BY <3>1, <3>2, <3>3 DEF SaturatingSub
    <3> QED BY <3>4 DEF left
  <2> QED BY <2>1, <2>2, <2>3, <2>4 DEF Accounted, BytesAccounted
<1>5. CASE Clear
  <2>1. DOMAIN cache' = {} /\ total_bytes' = 0 /\ served' = {}
    BY <1>5, EmptyCache DEF Clear
  <2>2. Bytes(cache', {}) = 0
    BY FS_EmptySet, BytesAdd DEF Sizes
  <2>3. {r \in DOMAIN cache' : cache'[r].size_bytes <= MaxBytes} = {}
    BY <2>1
  <2> QED BY <2>1, <2>2, <2>3, TokenCacheAssumption DEF Accounted, BytesAccounted, WithinLimit
<1>6. CASE UNCHANGED vars
  BY <1>6 DEF vars, Accounted, BytesAccounted, WithinLimit
<1> QED BY <1>2, <1>3, <1>4, <1>5, <1>6 DEF Next

----------------------------------------------------------------------------
(* Cached is an invariant of the specification, with the two below.        *)
THEOREM Invariance == Spec => []Inv
BY Initially, Step, PTL DEF Spec

(* cache.rs stamps every insertion and every hit with a fresh count, so    *)
(* that the entry to evict is never a tie.                                 *)
THEOREM RecencyIsUnique == Spec => []RecencyUnique
<1>1. Inv => RecencyUnique
  BY DEF Inv
<1> QED BY <1>1, Invariance, PTL

(* tokenize and tokenize_range answer with the tokens of the source and    *)
(* the language they were asked for (for sources told apart by their hash). *)
THEOREM AnswersAreFresh == Spec => []ServedFresh
<1>1. Inv => ServedFresh
  BY DEF Inv
<1> QED BY <1>1, Invariance, PTL

(* evict_if_needed, whatever room a call needs: every entry it evicts was  *)
(* last used before every entry it keeps.                                  *)
EvictionOrder ==
  \A needed \in Nat : \A g \in Evicted(needed), k \in DOMAIN cache \ Evicted(needed) :
    cache[g].last_access < cache[k].last_access

THEOREM EvictionIsLRU == Spec => []EvictionOrder
<1>1. Inv => EvictionOrder
  <2>1. SUFFICES ASSUME Inv, NEW needed \in Nat, NEW g \in Evicted(needed),
                       NEW k \in DOMAIN cache \ Evicted(needed)
                PROVE  cache[g].last_access < cache[k].last_access
    BY DEF EvictionOrder
  <2>2. PICK n \in Int : Evicted(needed) = Oldest(n)
    BY <2>1, EvictedAreOldest DEF Inv, Cached
  <2>3. \A r \in DOMAIN cache : cache[r].last_access \in Nat
    BY <2>1 DEF Inv, Cached, Entry
  <2> QED BY <2>1, <2>2, <2>3, OldestAreOlder DEF Inv, Cached
<1> QED BY <1>1, Invariance, PTL

(* The byte accounting of cache.rs: with the cache a finite map to entries *)
(* (Inv), every call leaves the counter at the sum of what is cached and   *)
(* what fits the cache within its limit.                                   *)
THEOREM AccountingIsKept == Spec => [](Inv /\ Accounted)
<1>1. Init => Inv /\ Accounted
  BY Initially, AccountedInitially
<1>2. Inv /\ Accounted /\ [Next]_vars => Inv' /\ Accounted'
  BY Step, AccountedStep
<1> QED BY <1>1, <1>2, PTL DEF Spec

(* TOTAL_BYTES is the sum of the sizes of the entries, after any sequence  *)
(* of calls: no saturating subtraction of cache.rs ever saturates.         *)
THEOREM TotalIsSum == Spec => []BytesAccounted
<1>1. Inv /\ Accounted => BytesAccounted
  BY DEF Accounted
<1> QED BY <1>1, AccountingIsKept, PTL

(* evict_if_needed keeps the entries that fit MAX_CACHE_BYTES within it.   *)
THEOREM CacheIsWithinLimit == Spec => []WithinLimit
<1>1. Inv /\ Accounted => WithinLimit
  BY DEF Accounted
<1> QED BY <1>1, AccountingIsKept, PTL

(* Every variable of the cache holds a value of its type.                  *)
THEOREM TypeCorrect == Spec => []TypeOK
<1>1. Inv /\ Accounted => TypeOK
  <2> SUFFICES ASSUME Inv, Accounted PROVE TypeOK
    OBVIOUS
  <2>1. total_bytes \in Nat
    <3>1. Counted
      BY AccountedIsCounted DEF Inv, Accounted
    <3> QED BY <3>1, BytesAdd DEF Counted
  <2>2. \A r \in DOMAIN cache : cache[r] \in Entry
    BY DEF Inv, Cached
  <2> QED BY <2>1, <2>2 DEF Inv, Cached, Accounted, TypeOK
<1> QED BY <1>1, AccountingIsKept, PTL

(* What a miss of prime, tokenize or tokenize_range evicts was used before *)
(* all that it keeps, and it evicts nothing when there was room.           *)
THEOREM MissEvictsOldest == Spec => EvictsOldest
<1> DEFINE Evicts ==
      \A resource \in Resources, input \in Inputs :
        Store(resource, input) =>
          LET gone == DOMAIN cache \ DOMAIN cache'
              kept == (DOMAIN cache \intersect DOMAIN cache') \ {resource}
          IN  /\ \A g \in gone, k \in kept : cache[g].last_access < cache[k].last_access
              /\ gone # {} => total_bytes + SizeOf[input] > MaxBytes
<1>1. Inv /\ Accounted => Evicts
  <2> SUFFICES ASSUME Inv, Accounted, NEW resource \in Resources, NEW input \in Inputs,
                      Store(resource, input)
               PROVE  /\ \A g \in DOMAIN cache \ DOMAIN cache',
                            k \in (DOMAIN cache \intersect DOMAIN cache') \ {resource} :
                           cache[g].last_access < cache[k].last_access
                      /\ DOMAIN cache \ DOMAIN cache' # {} =>
                           total_bytes + SizeOf[input] > MaxBytes
    OBVIOUS
  <2> DEFINE gone == Evicted(SizeOf[input])
  <2>1. DOMAIN cache' = ((DOMAIN cache \ gone) \ {resource}) \union {resource}
    BY StoreResult
  <2>2. SizeOf[input] \in Nat /\ MaxBytes \in Nat
    BY TokenCacheAssumption
  <2>3. Counted /\ \A r \in DOMAIN cache : cache[r].last_access \in Nat
    BY AccountedIsCounted DEF Inv, Accounted
  <2>4. total_bytes + SizeOf[input] <= MaxBytes => gone = {}
    BY <2>2, <2>3, RoomIsMade
  <2>5. gone = {} \/ \E n \in Int : gone = Oldest(n)
    BY <2>3, EvictedAreOldest DEF Counted
  <2>6. \A g \in gone, k \in DOMAIN cache \ gone : cache[g].last_access < cache[k].last_access
    BY <2>3, <2>5, OldestAreOlder DEF Counted
  <2>7. total_bytes \in Nat
    BY <2>3, BytesAdd DEF Counted
  <2> HIDE DEF gone
  <2>8. /\ DOMAIN cache \ DOMAIN cache' \subseteq gone
        /\ (DOMAIN cache \intersect DOMAIN cache') \ {resource} \subseteq DOMAIN cache \ gone
    BY <2>1
  <2> QED BY <2>2, <2>4, <2>6, <2>7, <2>8
<1>2. Inv /\ Accounted => [Evicts]_vars
  BY <1>1
<1> QED BY <1>2, AccountingIsKept, PTL DEF EvictsOldest
==============================================================================
