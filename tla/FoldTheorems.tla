---------------------------- MODULE FoldTheorems ----------------------------
(***************************************************************************)
(* What the proofs of several components need of the data they share:      *)
(* sequences of anything, induction, and that folds over finite sets are   *)
(* what their defining equation says.                                      *)
(*                                                                         *)
(* The induction theorems of the library speak of an operator, which no    *)
(* prover here can put something in for.  Here the property is a set: of   *)
(* the numbers, or the subsets of a finite set, that have it.  In the same *)
(* way the operation folded and the choice of the next element are         *)
(* functions.                                                              *)
(***************************************************************************)
EXTENDS Integers, FiniteSetsExt, FiniteSetTheorems, SequenceTheorems,
        WellFoundedInduction, TLAPS

IsSeq(s) == \E S : s \in Seq(S)

(* What the sequence operations do to a sequence of anything.              *)

LEMMA AppendShape ==
  ASSUME NEW s, IsSeq(s), NEW e
  PROVE  /\ IsSeq(Append(s, e))
         /\ Len(s) \in Nat
         /\ Len(Append(s, e)) = Len(s) + 1
         /\ \A i \in 1..Len(s) : Append(s, e)[i] = s[i]
         /\ Append(s, e)[Len(s) + 1] = e
<1>1. PICK S : s \in Seq(S)  BY DEF IsSeq
<1>2. s \in Seq(S \union {e})  BY <1>1, SeqMonotonic
<1>3. Append(s, e) \in Seq(S \union {e})  BY <1>2, AppendProperties
<1> QED BY <1>2, <1>3, AppendProperties, LenProperties DEF IsSeq

LEMMA TailShape ==
  ASSUME NEW s, IsSeq(s), s # <<>>
  PROVE  /\ IsSeq(Tail(s))
         /\ Len(s) \in Nat \ {0}
         /\ Head(s) = s[1]
         /\ Len(Tail(s)) = Len(s) - 1
         /\ \A i \in 1..(Len(s) - 1) : Tail(s)[i] = s[i + 1]
<1>1. PICK S : s \in Seq(S)  BY DEF IsSeq
<1> QED BY <1>1, HeadTailProperties, EmptySeq DEF IsSeq

LEMMA EmptyShape == IsSeq(<<>>) /\ Len(<<>>) = 0
BY EmptySeq DEF IsSeq

LEMMA PartShape ==
  ASSUME NEW S, NEW s \in Seq(S), NEW a \in Nat, NEW z \in Nat, a <= z, z <= Len(s),
         NEW first, first = a + 1
  PROVE  /\ SubSeq(s, first, z) \in Seq(S)
         /\ Len(SubSeq(s, first, z)) = z - a
         /\ \A i \in 1..(z - a) : SubSeq(s, first, z)[i] = s[a + i]
<1>1. Len(s) \in Nat /\ \A i \in 1..Len(s) : s[i] \in S
  BY LenProperties, ElementOfSeq
<1>2. \A i \in first..z : s[i] \in S
  BY <1>1
<1>3. first \in Int /\ z \in Int
  OBVIOUS
<1>4. /\ SubSeq(s, first, z) \in Seq(S)
      /\ Len(SubSeq(s, first, z)) = IF first <= z THEN z - first + 1 ELSE 0
      /\ \A i \in 1 .. z - first + 1 : SubSeq(s, first, z)[i] = s[first + i - 1]
  BY <1>2, <1>3, SubSeqProperties
<1> DEFINE part == SubSeq(s, first, z)
<1> HIDE DEF part
<1>5. Len(part) = z - a
  BY <1>4 DEF part
<1>6. ASSUME NEW i \in 1..(z - a) PROVE part[i] = s[a + i]
  <2>1. i \in 1 .. z - first + 1 /\ first + i - 1 = a + i
    OBVIOUS
  <2> QED BY <1>4, <2>1 DEF part
<1> QED BY <1>4, <1>5, <1>6 DEF part

(* The first elements of a sequence, and a sequence cut in two.            *)
LEMMA FirstPart ==
  ASSUME NEW S, NEW s \in Seq(S), NEW k \in Nat, k <= Len(s)
  PROVE  /\ SubSeq(s, 1, k) \in Seq(S)
         /\ Len(SubSeq(s, 1, k)) = k
         /\ \A i \in 1..k : SubSeq(s, 1, k)[i] = s[i]
<1> DEFINE zero == 0
           one == 1
<1>1. one = zero + 1 /\ zero \in Nat /\ zero <= k /\ k - zero = k /\ \A i \in 1..k : zero + i = i
  OBVIOUS
<1> HIDE DEF zero, one
<1>2. /\ SubSeq(s, one, k) \in Seq(S) /\ Len(SubSeq(s, one, k)) = k - zero
      /\ \A i \in 1..(k - zero) : SubSeq(s, one, k)[i] = s[zero + i]
  BY <1>1, PartShape
<1>3. /\ SubSeq(s, one, k) \in Seq(S) /\ Len(SubSeq(s, one, k)) = k
      /\ \A i \in 1..k : SubSeq(s, one, k)[i] = s[i]
  BY <1>1, <1>2
<1> QED BY <1>3 DEF one

LEMMA CutInTwo ==
  ASSUME NEW S, NEW s \in Seq(S), NEW k \in Nat, k <= Len(s), NEW first, first = k + 1
  PROVE  SubSeq(s, 1, k) \o SubSeq(s, first, Len(s)) = s
<1> DEFINE n == Len(s)
           a == SubSeq(s, 1, k)
           b == SubSeq(s, first, n)
           c == a \o b
<1>1. n \in Nat /\ k <= n /\ n <= Len(s)
  BY LenProperties
<1>2. a \in Seq(S) /\ Len(a) = k /\ \A i \in 1..k : a[i] = s[i]
  BY FirstPart
<1> HIDE DEF n
<1>3. b \in Seq(S) /\ Len(b) = n - k /\ \A i \in 1..(n - k) : b[i] = s[k + i]
  BY <1>1, PartShape
<1> HIDE DEF a, b
<1>4. c \in Seq(S) /\ Len(c) = Len(a) + Len(b)
      /\ \A i \in 1..(Len(a) + Len(b)) : c[i] = IF i <= Len(a) THEN a[i] ELSE b[i - Len(a)]
  BY <1>2, <1>3, ConcatProperties
<1> HIDE DEF c
<1>5. Len(c) = n
  BY <1>1, <1>2, <1>3, <1>4
<1>6. ASSUME NEW i \in 1..n PROVE c[i] = s[i]
  <2>1. CASE i <= k
    BY <1>1, <1>2, <1>4, <1>5, <2>1
  <2>2. CASE ~(i <= k)
    <3>1. i - k \in 1..(n - k) /\ k + (i - k) = i
      BY <1>1, <2>2
    <3>2. c[i] = b[i - k]
      BY <1>2, <1>4, <1>5, <2>2
    <3> QED BY <1>3, <3>1, <3>2
  <2> QED BY <2>1, <2>2
<1>7. c = s
  BY <1>4, <1>5, <1>6, SeqEqual DEF n
<1> QED BY <1>7 DEF a, b, c, n

(* The parts of two sequences put together.                                *)
LEMMA Parts ==
  ASSUME NEW S, NEW a \in Seq(S), NEW b \in Seq(S), NEW k, k = Len(a), NEW first, first = k + 1
  PROVE  SubSeq(a \o b, 1, k) = a /\ SubSeq(a \o b, first, Len(a \o b)) = b
<1> DEFINE c == a \o b
           l == Len(b)
           n == Len(c)
           x == SubSeq(c, 1, k)
           y == SubSeq(c, first, n)
<1>1. k \in Nat /\ l \in Nat
  BY LenProperties
<1>2. /\ c \in Seq(S) /\ n = k + l
      /\ \A i \in 1..(k + l) : c[i] = IF i <= k THEN a[i] ELSE b[i - k]
  BY ConcatProperties
<1> HIDE DEF c, l
<1>3. n \in Nat /\ k <= n /\ n - k = l
  BY <1>1, <1>2
<1>4. x \in Seq(S) /\ Len(x) = k /\ \A i \in 1..k : x[i] = c[i]
  BY <1>1, <1>2, <1>3, FirstPart
<1>5. n <= Len(c)
  BY <1>3 DEF n
<1> HIDE DEF n
<1>6. y \in Seq(S) /\ Len(y) = n - k /\ \A i \in 1..(n - k) : y[i] = c[k + i]
  BY <1>1, <1>2, <1>3, <1>5, PartShape
<1> HIDE DEF x, y
<1>7. x = a
  <2>1. \A i \in 1..k : i \in 1..(k + l) /\ i <= k
    BY <1>1
  <2>2. \A i \in 1..k : x[i] = a[i]
    BY <1>2, <1>4, <2>1
  <2> QED BY <1>4, <2>2, SeqEqual
<1>8. y = b
  <2>1. \A i \in 1..l : k + i \in 1..(k + l) /\ ~(k + i <= k) /\ (k + i) - k = i
    BY <1>1
  <2>2. \A i \in 1..l : y[i] = b[i]
    BY <1>2, <1>3, <1>6, <2>1
  <2>3. Len(y) = l
    BY <1>3, <1>6
  <2> QED BY <1>6, <2>2, <2>3, SeqEqual DEF l
<1> QED BY <1>7, <1>8 DEF x, y, c, n

(* What is appended to the second part is appended to the whole.           *)
EndsLonger(a, b, e) == Append(a \o b, e) = a \o Append(b, e)

LEMMA AppendToConcat ==
  ASSUME NEW S, NEW a \in Seq(S), NEW b \in Seq(S), NEW e \in S
  PROVE  EndsLonger(a, b, e)
<1> DEFINE ab == a \o b
           be == Append(b, e)
           x == Append(ab, e)
           y == a \o be
           l == Len(a)
           m == Len(b)
<1>1. l \in Nat /\ m \in Nat
  BY LenProperties
<1>2. /\ ab \in Seq(S) /\ Len(ab) = l + m
      /\ \A i \in 1..(l + m) : ab[i] = IF i <= l THEN a[i] ELSE b[i - l]
  BY ConcatProperties
<1>3. be \in Seq(S) /\ Len(be) = m + 1 /\ be[m + 1] = e /\ \A i \in 1..m : be[i] = b[i]
  BY AppendProperties
<1> HIDE DEF l, m, ab, be
<1>4. x \in Seq(S) /\ Len(x) = Len(ab) + 1 /\ x[Len(ab) + 1] = e
      /\ \A i \in 1..Len(ab) : x[i] = ab[i]
  BY <1>2, AppendProperties
<1>5. /\ y \in Seq(S) /\ Len(y) = l + Len(be)
      /\ \A i \in 1..(l + Len(be)) : y[i] = IF i <= l THEN a[i] ELSE be[i - l]
  BY <1>3, ConcatProperties DEF l
<1> HIDE DEF x, y
<1>6. Len(x) = Len(y) /\ Len(x) = l + m + 1
  BY <1>1, <1>2, <1>3, <1>4, <1>5
<1>7. ASSUME NEW i \in 1..Len(x) PROVE x[i] = y[i]
  <2>1. i \in 1..(l + m + 1) /\ i \in 1..(l + Len(be))
    BY <1>1, <1>3, <1>6
  <2>2. CASE i <= l
    BY <1>1, <1>2, <1>4, <1>5, <2>1, <2>2
  <2>3. CASE ~(i <= l) /\ i <= l + m
    <3>1. i - l \in 1..m /\ i \in 1..(l + m)
      BY <1>1, <2>1, <2>3
    <3> QED BY <1>2, <1>3, <1>4, <1>5, <2>1, <2>3, <3>1
  <2>4. CASE i = l + m + 1
    <3>1. ~(i <= l) /\ i - l = m + 1
      BY <1>1, <2>4
    <3> QED BY <1>2, <1>3, <1>4, <1>5, <2>1, <2>4, <3>1
  <2> QED BY <1>1, <2>1, <2>2, <2>3, <2>4
<1>8. x = y
  BY <1>4, <1>5, <1>6, <1>7, SeqEqual
<1> QED BY <1>8 DEF EndsLonger, x, y, ab, be

----------------------------------------------------------------------------
(* A non-empty set of naturals has a least element.                        *)
LEMMA LeastNatural ==
  ASSUME NEW T, T \subseteq Nat, T # {}
  PROVE  \E x \in T : \A y \in T : x <= y
<1> DEFINE R == OpToRel(<, Nat)
<1>1. R = {ss \in Nat \X Nat : ss[1] < ss[2]}
  BY DEF OpToRel
<1>2. IsWellFoundedOn(R, Nat)
  BY NatLessThanWellFounded
<1> HIDE DEF R
<1>3. PICK x \in T : \A y \in T : ~(<<y, x>> \in R)
  BY <1>2, WFMin
<1>4. ASSUME NEW y \in T, y < x PROVE FALSE
  <2>1. <<y, x>> \in Nat \X Nat /\ <<y, x>>[1] < <<y, x>>[2]
    BY <1>4
  <2>2. <<y, x>> \in R
    BY <1>1, <2>1
  <2> QED BY <1>3, <2>2
<1> QED BY <1>4

(* The maximum and the minimum of the community modules.                   *)
LEMMA MinIsLeast ==
  ASSUME NEW T, T \subseteq Nat, T # {}
  PROVE  /\ Min(T) \in T
         /\ \A y \in T : Min(T) <= y
<1>1. PICK x \in T : \A y \in T : x <= y
  BY LeastNatural
<1> QED BY <1>1 DEF Min

LEMMA MaxFromZero ==
  ASSUME NEW n \in Nat, NEW T \in SUBSET (0..n), T # {}
  PROVE  /\ Max(T) \in T
         /\ \A y \in T : y <= Max(T)
<1> DEFINE M == {n - y : y \in T}
<1>1. M \subseteq Nat /\ M # {}
  <2>1. \A y \in T : n - y \in Nat
    OBVIOUS
  <2> QED BY <2>1
<1> HIDE DEF M
<1>2. PICK m \in M : \A k \in M : m <= k
  BY <1>1, LeastNatural
<1>3. PICK x \in T : m = n - x
  BY <1>2 DEF M
<1>4. \A y \in T : n - y \in M
  BY DEF M
<1>5. \A y \in T : y <= x
  BY <1>2, <1>3, <1>4
<1>6. \E z \in T : \A y \in T : z >= y
  BY <1>3, <1>5
<1>7. Max(T) \in T /\ \A y \in T : Max(T) >= y
  BY <1>6 DEF Max
<1> QED BY <1>7

LEMMA MaxIsGreatest ==
  ASSUME NEW n \in Nat, NEW T \in SUBSET (1..n), T # {}
  PROVE  /\ Max(T) \in T
         /\ \A y \in T : y <= Max(T)
<1>1. T \in SUBSET (0..n)
  OBVIOUS
<1> QED BY <1>1, MaxFromZero

(* Induction over the naturals.                                            *)
LEMMA SetNatInduction ==
  ASSUME NEW P, 0 \in P, \A n \in Nat : n \in P => n + 1 \in P
  PROVE  \A n \in Nat : n \in P
<1> SUFFICES ASSUME Nat \ P # {} PROVE FALSE
  OBVIOUS
<1>1. PICK m \in Nat \ P : \A n \in Nat \ P : m <= n
  BY LeastNatural
<1>2. m - 1 \in Nat /\ m - 1 \in P
  BY <1>1
<1> QED BY <1>1, <1>2

(* What holds of a finite set when it holds of the set without any one of  *)
(* its elements, holds of all of them.                                     *)
LEMMA SetFiniteInduction ==
  ASSUME NEW S, IsFiniteSet(S), NEW P,
         \A T \in SUBSET S : (\A x \in T : T \ {x} \in P) => T \in P
  PROVE  \A T \in SUBSET S : T \in P
<1> DEFINE Q == {n \in Nat : \A T \in SUBSET S : Cardinality(T) = n => T \in P}
<1>1. 0 \in Q
  BY FS_Subset, FS_EmptySet
<1>2. ASSUME NEW n \in Nat, n \in Q PROVE n + 1 \in Q
  <2> SUFFICES ASSUME NEW T \in SUBSET S, Cardinality(T) = n + 1 PROVE T \in P
    OBVIOUS
  <2>1. ASSUME NEW x \in T PROVE T \ {x} \in P
    <3>1. Cardinality(T \ {x}) = Cardinality(T) - 1
      BY FS_Subset, FS_RemoveElement
    <3>2. Cardinality(T \ {x}) = n
      BY <3>1
    <3> QED BY <1>2, <3>2
  <2> QED BY <2>1
<1> HIDE DEF Q
<1>3. \A n \in Nat : n \in Q
  BY <1>1, <1>2, SetNatInduction
<1>4. \A T \in SUBSET S : Cardinality(T) \in Nat
  BY FS_Subset, FS_CardinalityType
<1> QED BY <1>3, <1>4 DEF Q

----------------------------------------------------------------------------
(* The element of a subset of S that a fold takes first.                   *)
Chooses(choose, S) ==
  /\ IsFiniteSet(S)
  /\ \A T \in SUBSET S : T # {} => choose[T] \in T

(* F adds the size of an element.                                          *)
Adds(F, size, S) ==
  /\ size \in [S -> Nat]
  /\ \A x \in S, n \in Nat : F[x][n] = size[x] + n

(* The equation of a fold has a solution.                                  *)
Folds(g, sets, base, F, choose) ==
  \A T \in sets :
    g[T] = IF T = {} THEN base ELSE F[choose[T]][g[T \ {choose[T]}]]

LEMMA FoldExists ==
  ASSUME NEW S, NEW A, NEW base \in A, NEW F \in [S -> [A -> A]],
         NEW choose, Chooses(choose, S)
  PROVE  \E g \in [SUBSET S -> A] : Folds(g, SUBSET S, base, F, choose)
<1> DEFINE D(n) == {T \in SUBSET S : Cardinality(T) <= n}
           P == {n \in Nat : \E g \in [D(n) -> A] : Folds(g, D(n), base, F, choose)}
<1>0. IsFiniteSet(S) /\ \A T \in SUBSET S : T # {} => choose[T] \in T
  BY DEF Chooses
<1>1. \A T \in SUBSET S : IsFiniteSet(T) /\ Cardinality(T) \in Nat
                          /\ (Cardinality(T) = 0 <=> T = {})
  BY <1>0, FS_Subset, FS_CardinalityType, FS_EmptySet
<1>2. 0 \in P
  <2> DEFINE g == [T \in D(0) |-> base]
  <2>1. \A T \in D(0) : T = {}
    BY <1>1
  <2>2. g \in [D(0) -> A] /\ Folds(g, D(0), base, F, choose)
    BY <2>1 DEF Folds
  <2> QED BY <2>2
<1>3. ASSUME NEW n \in Nat, n \in P PROVE n + 1 \in P
  <2>1. PICK g \in [D(n) -> A] : Folds(g, D(n), base, F, choose)
    BY <1>3
  <2> DEFINE h == [T \in D(n + 1) |->
                     IF T = {} THEN base ELSE F[choose[T]][g[T \ {choose[T]}]]]
  <2>2. ASSUME NEW T \in D(n + 1), T # {}
        PROVE  choose[T] \in S /\ T \ {choose[T]} \in D(n) /\ T \ {choose[T]} \in D(n + 1)
    <3>1. choose[T] \in T /\ T \ {choose[T]} \in SUBSET S
      BY <1>0, <2>2
    <3>2. Cardinality(T \ {choose[T]}) = Cardinality(T) - 1
      BY <1>1, <3>1, FS_RemoveElement
    <3> QED BY <1>1, <3>1, <3>2
  <2>3. h \in [D(n + 1) -> A]
    BY <2>2
  <2>4. ASSUME NEW T \in D(n), T \in D(n + 1) PROVE h[T] = g[T]
    BY <2>1, <2>4 DEF Folds
  <2>5. Folds(h, D(n + 1), base, F, choose)
    <3> SUFFICES ASSUME NEW T \in D(n + 1)
                 PROVE  h[T] = IF T = {} THEN base ELSE F[choose[T]][h[T \ {choose[T]}]]
      BY DEF Folds
    <3>1. CASE T = {}
      BY <3>1
    <3>2. CASE T # {}
      <4>1. h[T] = F[choose[T]][g[T \ {choose[T]}]]
        BY <3>2
      <4>2. h[T \ {choose[T]}] = g[T \ {choose[T]}]
        BY <2>2, <2>4, <3>2
      <4> HIDE DEF h
      <4> QED BY <3>2, <4>1, <4>2
    <3> QED BY <3>1, <3>2
  <2> HIDE DEF h
  <2>6. \E f \in [D(n + 1) -> A] : Folds(f, D(n + 1), base, F, choose)
    BY <2>3, <2>5
  <2>7. n + 1 \in Nat
    OBVIOUS
  <2> HIDE DEF D
  <2> QED BY <2>6, <2>7
<1> HIDE DEF P
<1>4. \A n \in Nat : n \in P
  BY <1>2, <1>3, SetNatInduction
<1>5. D(Cardinality(S)) = SUBSET S /\ Cardinality(S) \in Nat
  BY <1>0, FS_Subset, FS_CardinalityType
<1>6. Cardinality(S) \in P
  BY <1>4, <1>5
<1> HIDE DEF D
<1>7. \E g \in [D(Cardinality(S)) -> A] : Folds(g, D(Cardinality(S)), base, F, choose)
  BY <1>6 DEF P
<1> QED BY <1>5, <1>7

(* A fold over a sequence takes its last index first.                      *)
Latest(n) == [T \in SUBSET (1..n) |-> Max(T)]

LEMMA LatestChooses ==
  ASSUME NEW n \in Nat
  PROVE  /\ Chooses(Latest(n), 1..n)
         /\ \A i \in 1..n : Max(1..i) = i
<1>1. \A T \in SUBSET (1..n) : T # {} => Max(T) \in T /\ \A y \in T : y <= Max(T)
  BY MaxIsGreatest
<1>2. IsFiniteSet(1..n)
  BY FS_Interval
<1>3. ASSUME NEW i \in 1..n PROVE Max(1..i) = i
  <2>1. 1..i \in SUBSET (1..n) /\ 1..i # {} /\ i \in 1..i
    OBVIOUS
  <2>2. Max(1..i) \in 1..i /\ i <= Max(1..i)
    BY <1>1, <2>1
  <2> QED BY <2>2
<1> QED BY <1>1, <1>2, <1>3 DEF Chooses, Latest

(* The sets such a fold takes elements from, one after the other.          *)
LEMMA PrefixSets ==
  ASSUME NEW n \in Nat
  PROVE  /\ 1..0 = {}
         /\ \A i \in 1..n : /\ 1..i \in SUBSET (1..n) /\ 1..i # {}
                          /\ Max(1..i) = i
                          /\ (1..i) \ {i} = 1..(i - 1)
<1>1. ASSUME NEW i \in 1..n PROVE (1..i) \ {i} = 1..(i - 1)
  <2>1. \A j \in Int : (1 <= j /\ j <= i /\ j # i) <=> (1 <= j /\ j <= i - 1)
    OBVIOUS
  <2> QED BY <2>1
<1>2. ASSUME NEW i \in 1..n PROVE 1..i \in SUBSET (1..n) /\ i \in 1..i
  OBVIOUS
<1>3. 1..0 = {}
  OBVIOUS
<1> QED BY <1>1, <1>2, <1>3, LatestChooses

(* Folds over the indices 1..n in their order: function F[i] is applied to *)
(* what the indices before i have led to.                                  *)
InOrder(g, n, A, base, F) ==
  /\ g[{}] = base
  /\ \A s \in SUBSET (1..n) : s # {} =>
       Max(s) \in 1..n /\ g[s \ {Max(s)}] \in A /\ g[s] = F[Max(s)][g[s \ {Max(s)}]]

GoesOn(it, n, A, F) ==
  \A s \in SUBSET (1..n) :
    s # {} /\ it[s \ {Max(s)}] \in A => it[s] = F[Max(s)][it[s \ {Max(s)}]]

StepByStep(h, n, base, F) == h[0] = base /\ \A i \in 1..n : h[i] = F[i][h[i - 1]]

(* There is such a fold ...                                                *)
LEMMA FoldInOrder ==
  ASSUME NEW n \in Nat, NEW D, D = 1..n, NEW A, NEW base \in A, NEW F \in [D -> [A -> A]]
  PROVE  \E g \in [SUBSET D -> A] : InOrder(g, n, A, base, F)
<1>1. Chooses(Latest(n), D)
  BY LatestChooses
<1>2. PICK g \in [SUBSET D -> A] : Folds(g, SUBSET D, base, F, Latest(n))
  BY <1>1, FoldExists
<1>3. ASSUME NEW s \in SUBSET D, s # {}
      PROVE  /\ Max(s) \in D /\ g[s \ {Max(s)}] \in A
             /\ g[s] = F[Max(s)][g[s \ {Max(s)}]]
  <2>1. Max(s) \in D /\ Latest(n)[s] = Max(s) /\ s \ {Max(s)} \in SUBSET D
    BY <1>1, <1>3 DEF Chooses, Latest
  <2> QED BY <1>2, <1>3, <2>1 DEF Folds
<1>4. g[{}] = base
  BY <1>2 DEF Folds
<1> QED BY <1>3, <1>4 DEF InOrder

(* ... and this is what it has done after each index.                      *)
LEMMA FoldSteps ==
  ASSUME NEW n \in Nat, NEW D, D = 1..n, NEW A, NEW base \in A, NEW F \in [D -> [A -> A]],
         NEW it, it[{}] = base, GoesOn(it, n, A, F)
  PROVE  \E h \in [0..n -> A] : it[D] = h[n] /\ StepByStep(h, n, base, F)
<1> DEFINE P == {i \in Nat : i <= n => it[1..i] \in A}
           h == [i \in 0..n |-> it[1..i]]
<1>1. ASSUME NEW i \in 1..n, it[1..(i - 1)] \in A
      PROVE  it[1..i] = F[i][it[1..(i - 1)]] /\ it[1..i] \in A
  <2> DEFINE s == 1..i
  <2>1. s \in SUBSET (1..n) /\ s # {} /\ Max(s) = i /\ s \ {i} = 1..(i - 1)
    BY PrefixSets
  <2> HIDE DEF s
  <2>2. it[s] = F[i][it[1..(i - 1)]]
    BY <1>1, <2>1 DEF GoesOn
  <2>3. F[i] \in [A -> A]
    OBVIOUS
  <2> QED BY <1>1, <2>2, <2>3 DEF s
<1>2. 0 \in P
  BY PrefixSets
<1>3. ASSUME NEW i \in Nat, i \in P PROVE i + 1 \in P
  <2> SUFFICES ASSUME i + 1 <= n PROVE it[1..(i + 1)] \in A
    OBVIOUS
  <2> DEFINE j == i + 1
  <2>1. j \in 1..n /\ j - 1 = i /\ it[1..i] \in A
    BY <1>3
  <2> HIDE DEF j
  <2> QED BY <1>1, <2>1 DEF j
<1> HIDE DEF P
<1>4. \A i \in Nat : i \in P
  BY <1>2, <1>3, SetNatInduction
<1>5. \A i \in 0..n : it[1..i] \in A
  BY <1>4 DEF P
<1>6. h \in [0..n -> A] /\ h[0] = base /\ it[D] = h[n]
  BY <1>5, PrefixSets
<1>7. ASSUME NEW i \in 1..n PROVE h[i] = F[i][h[i - 1]]
  <2>1. i \in 0..n /\ i - 1 \in 0..n /\ it[1..(i - 1)] \in A
    BY <1>5
  <2> QED BY <1>1, <2>1
<1> QED BY <1>6, <1>7 DEF StepByStep

Unfolds(it, n, A, base, F) ==
  /\ n \in Nat /\ base \in A /\ F \in [1..n -> [A -> A]]
  /\ it[{}] = base
  /\ GoesOn(it, n, A, F)

LEMMA FoldUnfolds ==
  ASSUME NEW it, NEW n, NEW A, NEW base, NEW F, Unfolds(it, n, A, base, F)
  PROVE  \E h \in [0..n -> A] : it[1..n] = h[n] /\ StepByStep(h, n, base, F)
<1> DEFINE D == 1..n
<1>1. n \in Nat /\ base \in A /\ it[{}] = base /\ GoesOn(it, n, A, F)
  BY DEF Unfolds
<1>2. D = 1..n /\ F \in [D -> [A -> A]]
  BY DEF Unfolds
<1> HIDE DEF D
<1> QED BY <1>1, <1>2, FoldSteps

(* So there is what a recursive function defines, and it is the only one.  *)
LEMMA RecursionSteps ==
  ASSUME NEW n \in Nat, NEW A, NEW base \in A, NEW F \in [1..n -> [A -> A]]
  PROVE  \E h \in [0..n -> A] : StepByStep(h, n, base, F)
<1> DEFINE D == 1..n
<1>1. D = 1..n /\ F \in [D -> [A -> A]]
  OBVIOUS
<1> HIDE DEF D
<1>2. PICK g \in [SUBSET D -> A] : InOrder(g, n, A, base, F)
  BY <1>1, FoldInOrder
<1>3. g[{}] = base /\ GoesOn(g, n, A, F)
  BY <1>2 DEF InOrder, GoesOn
<1> QED BY <1>1, <1>3, FoldSteps

Unrolls(f, n, A, base, F) ==
  /\ f[0] = base
  /\ \A i \in 1..n : f[i - 1] \in A => f[i] = F[i][f[i - 1]]

LEMMA RecursionIs ==
  ASSUME NEW n \in Nat, NEW A, NEW base \in A, NEW F \in [1..n -> [A -> A]],
         NEW h \in [0..n -> A], StepByStep(h, n, base, F),
         NEW f, Unrolls(f, n, A, base, F)
  PROVE  \A i \in 0..n : f[i] = h[i]
<1> DEFINE P == {i \in Nat : i <= n => f[i] = h[i]}
<1>1. 0 \in P
  BY DEF StepByStep, Unrolls
<1>2. ASSUME NEW i \in Nat, i \in P PROVE i + 1 \in P
  <2> SUFFICES ASSUME i + 1 <= n PROVE f[i + 1] = h[i + 1]
    OBVIOUS
  <2> DEFINE j == i + 1
  <2>1. j \in 1..n /\ j - 1 = i /\ f[i] = h[i] /\ h[i] \in A
    BY <1>2
  <2> HIDE DEF j
  <2>2. f[j] = F[j][f[i]] /\ h[j] = F[j][h[i]]
    BY <2>1 DEF StepByStep, Unrolls
  <2> QED BY <2>1, <2>2 DEF j
<1> HIDE DEF P
<1>3. \A i \in Nat : i \in P
  BY <1>1, <1>2, SetNatInduction
<1> QED BY <1>3 DEF P

(* ... and only one.                                                       *)
LEMMA FoldUnique ==
  ASSUME NEW S, NEW base, NEW F, NEW choose, Chooses(choose, S),
         NEW g, Folds(g, SUBSET S, base, F, choose),
         NEW h, Folds(h, SUBSET S, base, F, choose)
  PROVE  \A T \in SUBSET S : g[T] = h[T]
<1> DEFINE P == {T \in SUBSET S : g[T] = h[T]}
<1>1. ASSUME NEW T \in SUBSET S, \A x \in T : T \ {x} \in P PROVE T \in P
  <2>1. CASE T = {}
    BY <2>1 DEF Folds
  <2>2. CASE T # {}
    <3>1. g[T \ {choose[T]}] = h[T \ {choose[T]}]
      BY <1>1, <2>2 DEF Chooses
    <3> QED BY <2>2, <3>1 DEF Folds
  <2> QED BY <2>1, <2>2
<1> HIDE DEF P
<1>2. \A T \in SUBSET S : T \in P
  BY <1>1, SetFiniteInduction DEF Chooses
<1> QED BY <1>2 DEF P

AnyOrder(g, size, S) ==
  \A T \in SUBSET S : \A x \in T : g[T] = size[x] + g[T \ {x}]

(* A sum does not depend on the order it is taken in: any element may come *)
(* first.                                                                  *)
LEMMA SumAnyOrder ==
  ASSUME NEW S, NEW choose, Chooses(choose, S), NEW size \in [S -> Nat],
         NEW F, Adds(F, size, S),
         NEW base, NEW g \in [SUBSET S -> Nat], Folds(g, SUBSET S, base, F, choose)
  PROVE  AnyOrder(g, size, S)
<1> DEFINE P == {T \in SUBSET S : \A x \in T : g[T] = size[x] + g[T \ {x}]}
<1>1. ASSUME NEW T \in SUBSET S, T # {}
      PROVE  choose[T] \in T /\ g[T] = size[choose[T]] + g[T \ {choose[T]}]
  <2>1. choose[T] \in T /\ g[T \ {choose[T]}] \in Nat
    BY <1>1 DEF Chooses
  <2> QED BY <1>1, <2>1 DEF Folds, Adds
<1>2. ASSUME NEW T \in SUBSET S, \A x \in T : T \ {x} \in P PROVE T \in P
  <2> SUFFICES ASSUME NEW x \in T PROVE g[T] = size[x] + g[T \ {x}]
    OBVIOUS
  <2> DEFINE c == choose[T]
  <2>1. c \in T /\ g[T] = size[c] + g[T \ {c}]
    BY <1>1
  <2> HIDE DEF c
  <2>2. CASE x = c
    BY <2>1, <2>2
  <2>3. CASE x # c
    <3>1. g[T \ {c}] = size[x] + g[(T \ {c}) \ {x}]
      BY <1>2, <2>1, <2>3
    <3>2. g[T \ {x}] = size[c] + g[(T \ {x}) \ {c}]
      BY <1>2, <2>1, <2>3
    <3>3. (T \ {x}) \ {c} = (T \ {c}) \ {x}
      OBVIOUS
    <3>4. g[(T \ {c}) \ {x}] \in Nat /\ size[x] \in Nat /\ size[c] \in Nat
      BY <2>1 DEF Adds
    <3> DEFINE rest == g[(T \ {c}) \ {x}]
    <3>5. g[T] = size[c] + (size[x] + rest) /\ g[T \ {x}] = size[c] + rest
      BY <2>1, <3>1, <3>2, <3>3
    <3> HIDE DEF rest
    <3>6. rest \in Nat
      BY <3>4 DEF rest
    <3> QED BY <3>4, <3>5, <3>6
  <2> QED BY <2>2, <2>3
<1> HIDE DEF P
<1>3. \A T \in SUBSET S : T \in P
  BY <1>2, SetFiniteInduction DEF Chooses
<1> QED BY <1>3 DEF P, AnyOrder
=============================================================================
