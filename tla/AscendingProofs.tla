--------------------------- MODULE AscendingProofs ---------------------------
(***************************************************************************)
(* What Ascending and At compute, for every finite set of naturals and     *)
(* every sequence.  The library's induction theorems take a predicate, so  *)
(* induction is stated for a set of naturals (SetInduction) and derived    *)
(* from the well-foundedness of <.                                         *)
(***************************************************************************)
EXTENDS Ascending, Integers, Sequences, FiniteSetTheorems, WellFoundedInduction, TLAPS

\* A set that holds 0 and with each natural the next holds them all.
LEMMA SetInduction ==
    ASSUME NEW S, 0 \in S, \A n \in Nat : n \in S => n + 1 \in S
    PROVE  \A n \in Nat : n \in S
<1> SUFFICES ASSUME Nat \ S # {} PROVE FALSE
  OBVIOUS
<1> DEFINE R == {p \in Nat \X Nat : p[1] < p[2]}
<1>1. PICK m \in Nat \ S : \A y \in Nat \ S : ~ (<<y, m>> \in R)
  <2>1. IsWellFoundedOn(R, Nat)
    BY NatLessThanWellFounded DEF OpToRel
  <2>2. Nat \ S \subseteq Nat /\ Nat \ S # {}
    OBVIOUS
  <2> HIDE DEF R
  <2> QED BY <2>1, <2>2, WFMin
<1>2. m # 0 /\ m - 1 \in Nat
  OBVIOUS
<1>3. m - 1 \in Nat \ S
  BY <1>2
<1>4. <<m - 1, m>> \in R
  BY <1>2
<1> QED BY <1>1, <1>3, <1>4

\* s lists S in ascending order.
Lists(s, S) ==
    /\ s \in [1..Cardinality(S) -> S]
    /\ Increasing(s)
    /\ \A x \in S : \E k \in DOMAIN s : s[k] = x

\* A set with a greatest element is listed by listing the others first.
LEMMA OneMoreListed ==
    ASSUME NEW n \in Nat, NEW S \in SUBSET (1..n + 1), n + 1 \in S,
           NEW s, Lists(s, S \ {n + 1})
    PROVE  \E t : Lists(t, S)
<1> DEFINE B == S \ {n + 1}
           c == Cardinality(B)
           t == [k \in 1..(c + 1) |-> IF k = c + 1 THEN n + 1 ELSE s[k]]
<1>1. IsFiniteSet(S) /\ IsFiniteSet(B) /\ c \in Nat /\ Cardinality(S) = c + 1
  <2>1. n + 1 \in Int /\ IsFiniteSet(1..n + 1)
    BY FS_Interval
  <2>2. IsFiniteSet(S)
    BY <2>1, FS_Subset
  <2>3. IsFiniteSet(B) /\ Cardinality(B) = Cardinality(S) - 1
    BY <2>2, FS_RemoveElement
  <2> QED BY <2>2, <2>3, FS_CardinalityType
<1> HIDE DEF c
<1>2. /\ s \in [1..c -> B]
      /\ \A i, j \in 1..c : i < j => s[i] < s[j]
      /\ \A x \in B : \E k \in 1..c : s[k] = x
  BY DEF Lists, Increasing, c
<1>3. \A k \in 1..c : s[k] \in S /\ s[k] \in Nat /\ s[k] < n + 1
  <2>1. \A x \in B : x \in S /\ x \in Nat /\ x < n + 1
    OBVIOUS
  <2> HIDE DEF B
  <2> QED BY <1>2, <2>1
<1>4. t \in [1..c + 1 -> S]
  BY <1>1, <1>3
<1>5. \A i, j \in 1..(c + 1) : i < j => t[i] < t[j]
  <2> SUFFICES ASSUME NEW i \in 1..(c + 1), NEW j \in 1..(c + 1), i < j PROVE t[i] < t[j]
    OBVIOUS
  <2>1. i \in 1..c /\ t[i] = s[i]
    BY <1>1
  <2>2. CASE j = c + 1
    BY <1>1, <1>3, <2>1, <2>2
  <2>3. CASE j # c + 1
    BY <1>1, <1>2, <2>1, <2>3
  <2> QED BY <2>2, <2>3
<1>6. ASSUME NEW x \in S PROVE \E k \in 1..(c + 1) : t[k] = x
  <2>1. CASE x = n + 1
    BY <1>1, <2>1
  <2>2. CASE x # n + 1
    <3>1. PICK k \in 1..c : s[k] = x
      BY <1>2, <2>2
    <3>2. k \in 1..(c + 1) /\ t[k] = x
      BY <1>1, <3>1
    <3> QED BY <3>2
  <2> QED BY <2>1, <2>2
<1>7. DOMAIN t = 1..(c + 1)
  OBVIOUS
<1> HIDE DEF t
<1>8. Lists(t, S)
  BY <1>1, <1>4, <1>5, <1>6, <1>7 DEF Lists, Increasing
<1> QED BY <1>8

\* Every bounded set of positive naturals can be listed.
LEMMA ListExists ==
    ASSUME NEW n \in Nat, NEW S \in SUBSET (1..n)
    PROVE  \E s : Lists(s, S)
<1> DEFINE G == {m \in Nat : \A U \in SUBSET (1..m) : \E s : Lists(s, U)}
<1>1. 0 \in G
  <2> SUFFICES ASSUME NEW U \in SUBSET (1..0) PROVE \E s : Lists(s, U)
    OBVIOUS
  <2>1. U = {}
    OBVIOUS
  <2>3. Cardinality(U) = 0
    BY <2>1, FS_EmptySet
  <2>2. Lists([k \in 1..0 |-> k], U)
    BY <2>1, <2>3 DEF Lists, Increasing
  <2> QED BY <2>2
<1>2. ASSUME NEW m \in Nat, m \in G PROVE m + 1 \in G
  <2> SUFFICES ASSUME NEW U \in SUBSET (1..m + 1) PROVE \E s : Lists(s, U)
    OBVIOUS
  <2>1. U \ {m + 1} \in SUBSET (1..m)
    OBVIOUS
  <2>2. PICK s : Lists(s, U \ {m + 1})
    BY <1>2, <2>1
  <2>3. CASE m + 1 \in U
    BY <2>2, <2>3, OneMoreListed
  <2>4. CASE m + 1 \notin U
    <3>1. U \ {m + 1} = U
      BY <2>4
    <3> QED BY <2>2, <3>1
  <2> QED BY <2>3, <2>4
<1>3. \A m \in Nat : m \in G
  <2> HIDE DEF G
  <2> QED BY <1>1, <1>2, SetInduction
<1> QED BY <1>3

\* Ascending lists the set.
LEMMA AscendingLists ==
    ASSUME NEW n \in Nat, NEW S \in SUBSET (1..n)
    PROVE  /\ IsFiniteSet(S) /\ Cardinality(S) \in Nat
           /\ Ascending(S) \in [1..Cardinality(S) -> S]
           /\ \A i, j \in 1..Cardinality(S) : i < j => Ascending(S)[i] < Ascending(S)[j]
           /\ \A x \in S : \E k \in 1..Cardinality(S) : Ascending(S)[k] = x
<1>1. IsFiniteSet(S) /\ Cardinality(S) \in Nat
  <2>1. IsFiniteSet(1..n)
    BY FS_Interval
  <2> QED BY <2>1, FS_Subset, FS_CardinalityType
<1>2. \E s \in [1..Cardinality(S) -> S] :
          Increasing(s) /\ \A x \in S : \E k \in DOMAIN s : s[k] = x
  BY ListExists, ZenonT(60) DEF Lists
<1>3. /\ Ascending(S) \in [1..Cardinality(S) -> S]
      /\ Increasing(Ascending(S))
      /\ \A x \in S : \E k \in DOMAIN Ascending(S) : Ascending(S)[k] = x
  BY <1>2 DEF Ascending
<1> QED BY <1>1, <1>3 DEF Increasing

\* The first position, if it is kept, stays first.
LEMMA FirstStaysFirst ==
    ASSUME NEW n \in Nat, NEW S \in SUBSET (1..n), 1 \in S
    PROVE  1 \in 1..Cardinality(S) /\ Ascending(S)[1] = 1
<1>1. PICK k \in 1..Cardinality(S) : Ascending(S)[k] = 1
  BY AscendingLists
<1>2. Cardinality(S) \in Nat /\ 1 \in 1..Cardinality(S)
  <2>1. Cardinality(S) \in Nat
    BY AscendingLists
  <2> QED BY <1>1, <2>1
<1>3. Ascending(S)[1] \in 1..n
  BY <1>2, AscendingLists
<1>4. k = 1
  <2> SUFFICES ASSUME 1 < k PROVE FALSE
    BY <1>1, <1>2
  <2>1. Ascending(S)[1] < Ascending(S)[k]
    BY <1>1, <1>2, AscendingLists
  <2> QED BY <1>1, <1>3, <2>1
<1> QED BY <1>1, <1>2, <1>4

\* What At keeps of a sequence: exactly the elements at the positions.
LEMMA AtKeeps ==
    ASSUME NEW T, NEW s \in Seq(T), NEW I \in SUBSET DOMAIN s
    PROVE  /\ At(s, I) \in Seq(T)
           /\ Len(At(s, I)) = Cardinality(I) /\ Cardinality(I) \in Nat
           /\ DOMAIN At(s, I) = 1..Cardinality(I)
           /\ \A k \in 1..Cardinality(I) :
                 Ascending(I)[k] \in I /\ At(s, I)[k] = s[Ascending(I)[k]]
           /\ \A i \in I : \E k \in 1..Cardinality(I) :
                 Ascending(I)[k] = i /\ At(s, I)[k] = s[i]
           /\ \A j, k \in 1..Cardinality(I) : j < k => Ascending(I)[j] < Ascending(I)[k]
<1>1. Len(s) \in Nat /\ I \in SUBSET (1..Len(s))
  OBVIOUS
<1>2. /\ Cardinality(I) \in Nat
      /\ Ascending(I) \in [1..Cardinality(I) -> I]
      /\ \A i, j \in 1..Cardinality(I) : i < j => Ascending(I)[i] < Ascending(I)[j]
      /\ \A x \in I : \E k \in 1..Cardinality(I) : Ascending(I)[k] = x
  BY <1>1, AscendingLists
<1>3. At(s, I) = [k \in 1..Cardinality(I) |-> s[Ascending(I)[k]]]
  BY DEF At
<1>4. \A k \in 1..Cardinality(I) : s[Ascending(I)[k]] \in T
  BY <1>1, <1>2
<1>5. At(s, I) \in Seq(T) /\ Len(At(s, I)) = Cardinality(I)
  BY <1>2, <1>3, <1>4
<1> QED BY <1>2, <1>3, <1>5

-----------------------------------------------------------------------------
(* Counting.                                                               *)

\* What is matched one to one is equally many.
LEMMA MatchedCount ==
    ASSUME NEW S, NEW T, IsFiniteSet(S), NEW f \in [S -> T],
           \A x, y \in S : f[x] = f[y] => x = y,
           \A t \in T : \E x \in S : f[x] = t
    PROVE  IsFiniteSet(T) /\ Cardinality(T) = Cardinality(S)
<1>1. f \in Bijection(S, T)
  BY DEF Bijection, Injection, Surjection, IsInjective
<1>2. ExistsBijection(S, T)
  BY <1>1 DEF ExistsBijection
<1> QED BY <1>2, FS_Bijection

\* Adding the same number to every element of a set keeps their count.
LEMMA ShiftKeepsCount ==
    ASSUME NEW S \in SUBSET Nat, IsFiniteSet(S), NEW d \in Nat
    PROVE  /\ IsFiniteSet({d + x : x \in S})
           /\ Cardinality({d + x : x \in S}) = Cardinality(S)
<1> DEFINE T == {d + x : x \in S}
           f == [x \in S |-> d + x]
<1>1. f \in [S -> T]
  OBVIOUS
<1>2. \A x, y \in S : f[x] = f[y] => x = y
  <2>1. \A x \in S : x \in Nat
    OBVIOUS
  <2> QED BY <2>1
<1>3. \A t \in T : \E x \in S : f[x] = t
  OBVIOUS
<1> HIDE DEF f, T
<1>4. IsFiniteSet(T) /\ Cardinality(T) = Cardinality(S)
  BY <1>1, <1>2, <1>3, MatchedCount
<1> QED BY <1>4 DEF T

\* The element listed r-th has all but r elements after it.
LEMMA RankFromTheEnd ==
    ASSUME NEW n \in Nat, NEW S \in SUBSET (1..n), NEW r \in 1..Cardinality(S)
    PROVE  Cardinality({x \in S : Ascending(S)[r] < x}) = Cardinality(S) - r
<1> DEFINE c == Cardinality(S)
           A == Ascending(S)
           T == {x \in S : A[r] < x}
           f == [k \in 1..(c - r) |-> A[r + k]]
<1>1. /\ c \in Nat /\ A \in [1..c -> S]
      /\ \A i, j \in 1..c : i < j => A[i] < A[j]
      /\ \A x \in S : \E k \in 1..c : A[k] = x
  BY AscendingLists
<1>2. \A x \in S : x \in Nat
  OBVIOUS
<1> HIDE DEF A
<1>3. r \in Nat /\ c - r \in Nat /\ r <= c
  BY <1>1
<1> HIDE DEF c
<1>4. \A k \in 1..(c - r) : r + k \in 1..c /\ r < r + k /\ k \in Nat
  BY <1>1, <1>3
<1>5. \A k \in 1..(c - r) : A[r + k] \in T
  BY <1>1, <1>3, <1>4 DEF c
<1>6. f \in [1..(c - r) -> T]
  BY <1>5
<1>7. \A k, l \in 1..(c - r) : f[k] = f[l] => k = l
  <2> SUFFICES ASSUME NEW k \in 1..(c - r), NEW l \in 1..(c - r), A[r + k] = A[r + l]
               PROVE  k = l
    OBVIOUS
  <2>1. /\ r + k \in 1..c /\ r + l \in 1..c /\ k \in Nat /\ l \in Nat
        /\ A[r + k] \in Nat /\ A[r + l] \in Nat
    BY <1>1, <1>2, <1>4
  <2>2. ~ (r + k < r + l) /\ ~ (r + l < r + k)
    BY <1>1, <2>1
  <2> QED BY <1>3, <2>1, <2>2
<1>8. \A t \in T : \E k \in 1..(c - r) : f[k] = t
  <2> SUFFICES ASSUME NEW t \in T PROVE \E k \in 1..(c - r) : f[k] = t
    OBVIOUS
  <2>1. t \in S /\ A[r] < t
    OBVIOUS
  <2>2. PICK k \in 1..c : A[k] = t
    BY <1>1, <2>1
  <2>3. r < k
    <3>1. SUFFICES ASSUME k <= r PROVE FALSE
      BY <1>1, <1>3
    <3>2. k < r \/ k = r
      BY <1>1, <1>3, <3>1
    <3>3. A[k] \in Nat /\ A[r] \in Nat /\ r \in 1..c
      BY <1>1, <1>2 DEF c
    <3>4. A[k] <= A[r]
      BY <1>1, <3>2, <3>3
    <3> QED BY <2>1, <2>2, <3>3, <3>4
  <2>4. k - r \in 1..(c - r) /\ r + (k - r) = k
    BY <1>1, <1>3, <2>3
  <2> QED BY <2>2, <2>4
<1>9. IsFiniteSet(1..(c - r)) /\ Cardinality(1..(c - r)) = c - r
  BY <1>3, FS_Interval
<1> DEFINE D == 1..(c - r)
<1>10. /\ IsFiniteSet(D) /\ f \in [D -> T]
       /\ \A k, l \in D : f[k] = f[l] => k = l
       /\ \A t \in T : \E k \in D : f[k] = t
  BY <1>6, <1>7, <1>8, <1>9
<1>11. Cardinality(D) = c - r
  BY <1>9
<1> HIDE DEF f, T, D
<1>12. Cardinality(T) = Cardinality(D)
  BY <1>10, MatchedCount
<1> QED BY <1>11, <1>12 DEF T, A, c
=============================================================================
