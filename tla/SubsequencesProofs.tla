-------------------------- MODULE SubsequencesProofs --------------------------
(* What Pick returns, for every sequence and every set of its positions.    *)
EXTENDS Subsequences, SequencesExt, SequenceTheorems, FiniteSetTheorems,
        NaturalsInduction, WellFoundedInduction, TLAPS

\* Every set of naturals that is not empty has a least member.
LEMMA LeastNatural ==
  ASSUME NEW T \in SUBSET Nat, T # {}
  PROVE  \E x \in T : \A y \in T : x <= y
<1> DEFINE R == {ss \in Nat \X Nat : ss[1] < ss[2]}
<1>1. IsWellFoundedOn(R, Nat)
  BY NatLessThanWellFounded DEF OpToRel
<1>2. PICK x \in T : \A y \in T : ~(<<y, x>> \in R)
  BY <1>1, WFMin
<1>3. ASSUME NEW y \in T, y < x
      PROVE  FALSE
  <2>1. <<y, x>> \in Nat \X Nat
    OBVIOUS
  <2>2. <<y, x>> \in R
    BY <1>3, <2>1
  <2> QED
    BY <1>2, <2>2
<1> QED
  BY <1>3

\* The ranks of positions, one after another.
LEMMA RankSteps ==
  ASSUME NEW n \in Nat, NEW I \in SUBSET (1..n)
  PROVE  /\ IsFiniteSet(I)
         /\ \A i \in Int : RankIn(I, i) \in Nat /\ RankIn(I, i) <= Cardinality(I)
         /\ RankIn(I, 0) = 0
         /\ RankIn(I, n) = Cardinality(I)
         /\ \A i \in Int : RankIn(I, i) = RankIn(I, i - 1) + IF i \in I THEN 1 ELSE 0
<1> DEFINE Below(i) == {j \in I : j <= i}
<1>0. \A j \in I : j \in Int /\ 1 <= j /\ j <= n
  OBVIOUS
<1>1. IsFiniteSet(I)
  <2>1. IsFiniteSet(1..n)
    BY FS_Interval
  <2> QED
    BY <2>1, FS_Subset
<1>2. ASSUME NEW i \in Int
      PROVE  /\ IsFiniteSet(Below(i))
             /\ Cardinality(Below(i)) \in Nat
             /\ Cardinality(Below(i)) <= Cardinality(I)
  <2>1. Below(i) \in SUBSET I
    OBVIOUS
  <2> HIDE DEF Below
  <2> QED
    BY <1>1, <2>1, FS_Subset, FS_CardinalityType
<1>3. Below(0) = {}
  <2>1. ASSUME NEW j \in I, j <= 0
        PROVE  FALSE
    BY <1>0, <2>1
  <2> QED
    BY <2>1
<1>4. Below(n) = I
  <2>1. ASSUME NEW j \in I
        PROVE  j \in Below(n)
    <3>1. j <= n
      BY <1>0
    <3> QED
      BY <3>1
  <2>2. \A j : j \in Below(n) => j \in I
    OBVIOUS
  <2> HIDE DEF Below
  <2> QED
    BY <2>1, <2>2
<1>5. ASSUME NEW i \in Int
      PROVE  Cardinality(Below(i)) = Cardinality(Below(i - 1)) + IF i \in I THEN 1 ELSE 0
  <2>1. i - 1 \in Int
    OBVIOUS
  <2>2. \A j \in I : j <= i <=> j <= i - 1 \/ j = i
    BY <1>0
  <2>3. i \notin Below(i - 1)
    OBVIOUS
  <2>4. CASE i \in I
    <3>1. Below(i) = Below(i - 1) \cup {i}
      BY <2>2, <2>4
    <3> HIDE DEF Below
    <3> QED
      BY <1>2, <2>1, <2>3, <2>4, <3>1, FS_AddElement
  <2>5. CASE i \notin I
    <3>1. Below(i) = Below(i - 1)
      BY <2>2, <2>5
    <3> HIDE DEF Below
    <3> QED
      BY <1>2, <2>1, <2>5, <3>1
  <2> QED
    BY <2>4, <2>5
<1> QED
  BY <1>1, <1>2, <1>3, <1>4, <1>5, FS_EmptySet DEF RankIn

\* No two positions have one rank.
LEMMA RanksDiffer ==
  ASSUME NEW n \in Nat, NEW I \in SUBSET (1..n), NEW i \in I, NEW k \in I, i < k
  PROVE  RankIn(I, i) < RankIn(I, k)
<1> DEFINE Below(j) == {h \in I : h <= j}
<1>1. i \in Int /\ k \in Int /\ k - 1 \in Int /\ \A j \in I : j \in Int
  OBVIOUS
<1>2. Below(i) \in SUBSET Below(k - 1) /\ Below(k - 1) \in SUBSET I
  <2>1. \A j \in I : j <= i => j <= k - 1
    BY <1>1
  <2> QED
    BY <2>1
<1>3. IsFiniteSet(I)
  BY RankSteps
<1>4. Cardinality(Below(i)) <= Cardinality(Below(k - 1))
  <2> HIDE DEF Below
  <2> QED
    BY <1>2, <1>3, FS_Subset
<1>5. RankIn(I, i) <= RankIn(I, k - 1)
  BY <1>4 DEF RankIn
<1>6. /\ RankIn(I, k) = RankIn(I, k - 1) + 1
      /\ RankIn(I, i) \in Nat /\ RankIn(I, k - 1) \in Nat
  <2>1. \A j \in Int : RankIn(I, j) \in Nat
    BY RankSteps
  <2>2. \A j \in Int : RankIn(I, j) = RankIn(I, j - 1) + IF j \in I THEN 1 ELSE 0
    BY RankSteps
  <2>3. RankIn(I, k) = RankIn(I, k - 1) + 1
    BY <1>1, <2>2
  <2> QED
    BY <1>1, <2>1, <2>3
<1> QED
  BY <1>5, <1>6

\* Every rank up to the number of positions has its position.
LEMMA NthIsThere ==
  ASSUME NEW n \in Nat, NEW I \in SUBSET (1..n), NEW k \in 1..Cardinality(I)
  PROVE  Nth(I, k) \in I /\ RankIn(I, Nth(I, k)) = k
<1> DEFINE T == {m \in Nat : RankIn(I, m) >= k}
<1>1. Cardinality(I) \in Nat
  BY RankSteps, FS_CardinalityType
<1>2. n \in T
  BY <1>1, RankSteps
<1>3. PICK m \in T : \A y \in T : m <= y
  BY <1>2, LeastNatural
<1>4. m # 0
  BY <1>1, RankSteps
<1>5. m - 1 \in Nat /\ m - 1 \notin T
  BY <1>3, <1>4
<1>6. RankIn(I, m - 1) < k /\ RankIn(I, m) >= k
  BY <1>1, <1>5, RankSteps
<1>7. m \in I /\ RankIn(I, m) = k
  <2>1. RankIn(I, m) = RankIn(I, m - 1) + IF m \in I THEN 1 ELSE 0
    BY RankSteps
  <2>2. RankIn(I, m) \in Nat /\ RankIn(I, m - 1) \in Nat
    BY <1>5, RankSteps
  <2> QED
    BY <1>1, <1>6, <2>1, <2>2
<1> QED
  BY <1>7 DEF Nth

\* Every position has its rank.
LEMMA NthOfRank ==
  ASSUME NEW n \in Nat, NEW I \in SUBSET (1..n), NEW i \in I
  PROVE  RankIn(I, i) \in 1..Cardinality(I) /\ Nth(I, RankIn(I, i)) = i
<1>1. i \in Int /\ Cardinality(I) \in Nat
  BY RankSteps, FS_CardinalityType
<1>2. RankIn(I, i) \in 1..Cardinality(I)
  <2>1. RankIn(I, i) = RankIn(I, i - 1) + 1 /\ RankIn(I, i - 1) \in Nat
        /\ RankIn(I, i) <= Cardinality(I)
    BY <1>1, RankSteps
  <2> QED
    BY <1>1, <2>1
<1> DEFINE m == Nth(I, RankIn(I, i))
<1>3. m \in I /\ RankIn(I, m) = RankIn(I, i)
  BY <1>2, NthIsThere
<1>4. ~(m < i) /\ ~(i < m)
  <2>1. RankIn(I, i) \in Int
    BY <1>2
  <2>2. m < i => RankIn(I, m) < RankIn(I, i)
    BY <1>3, RanksDiffer
  <2>3. i < m => RankIn(I, i) < RankIn(I, m)
    BY <1>3, RanksDiffer
  <2> QED
    BY <1>3, <2>1, <2>2, <2>3
<1>5. \A j \in I : j \in Int
  OBVIOUS
<1>6. m = i
  <2> HIDE DEF m
  <2> QED
    BY <1>1, <1>3, <1>4, <1>5
<1> QED
  BY <1>2, <1>6

\* What is picked: a sequence of as many elements as positions, of exactly the
\* elements at these.
THEOREM Picked ==
  ASSUME NEW S, NEW s \in Seq(S), NEW I \in SUBSET DOMAIN s
  PROVE  /\ IsFiniteSet(I)
         /\ Pick(s, I) \in Seq(S)
         /\ Len(Pick(s, I)) = Cardinality(I)
         /\ ToSet(Pick(s, I)) = {s[i] : i \in I}
<1>1. Len(s) \in Nat /\ DOMAIN s = 1..Len(s) /\ I \in SUBSET (1..Len(s))
  BY LenProperties
<1>2. IsFiniteSet(I) /\ Cardinality(I) \in Nat
  BY <1>1, RankSteps, FS_CardinalityType
<1>3. \A k \in 1..Cardinality(I) : Nth(I, k) \in I
  BY <1>1, NthIsThere
<1>4. \A i \in I : s[i] \in S
  BY <1>1, ElementOfSeq
<1>5. Pick(s, I) \in [1..Cardinality(I) -> S]
  BY <1>3, <1>4 DEF Pick
<1>6. Pick(s, I) \in Seq(S) /\ Len(Pick(s, I)) = Cardinality(I)
  BY <1>2, <1>5, IsASeq, LenProperties
<1>7. ASSUME NEW x \in ToSet(Pick(s, I))
      PROVE  x \in {s[i] : i \in I}
  BY <1>3, <1>7 DEF ToSet, Pick
<1>8. ASSUME NEW i \in I
      PROVE  s[i] \in ToSet(Pick(s, I))
  <2>1. RankIn(I, i) \in 1..Cardinality(I) /\ Nth(I, RankIn(I, i)) = i
    BY <1>1, NthOfRank
  <2>2. Pick(s, I)[RankIn(I, i)] = s[i]
    BY <2>1 DEF Pick
  <2> QED
    BY <1>5, <2>1, <2>2 DEF ToSet
<1> QED
  BY <1>2, <1>6, <1>7, <1>8

\* How many numbers there are up to n.
LEMMA UpTo ==
  ASSUME NEW n \in Nat
  PROVE  IsFiniteSet(1..n) /\ Cardinality(1..n) = n
<1>1. 1 \in Int /\ n \in Int
  OBVIOUS
<1>2. /\ IsFiniteSet(1..n)
      /\ Cardinality(1..n) = IF 1 > n THEN 0 ELSE n - 1 + 1
  BY <1>1, FS_Interval
<1>3. (IF 1 > n THEN 0 ELSE n - 1 + 1) = n
  OBVIOUS
<1> QED
  BY <1>2, <1>3

\* The positions 1..n have the ranks 1..n.
LEMMA RankOfAll ==
  ASSUME NEW n \in Nat, NEW i \in 1..n
  PROVE  RankIn(1..n, i) = i
<1>1. {j \in 1..n : j <= i} = 1..i
  OBVIOUS
<1>2. i \in Nat
  OBVIOUS
<1>3. Cardinality(1..i) = i
  BY <1>2, UpTo
<1> QED
  BY <1>1, <1>3 DEF RankIn

\* Who picks all has what there was.
LEMMA PickedAll ==
  ASSUME NEW S, NEW s \in Seq(S)
  PROVE  Pick(s, DOMAIN s) = s
<1>1. Len(s) \in Nat /\ DOMAIN s = 1..Len(s) /\ s = [i \in 1..Len(s) |-> s[i]]
  BY LenProperties
<1>2. Cardinality(1..Len(s)) = Len(s)
  BY <1>1, UpTo
<1>3. ASSUME NEW k \in 1..Len(s)
      PROVE  Nth(1..Len(s), k) = k
  <2>1. \A i \in 1..Len(s) : RankIn(1..Len(s), i) = i
    BY <1>1, RankOfAll
  <2> QED
    BY <2>1 DEF Nth
<1> QED
  BY <1>1, <1>2, <1>3 DEF Pick
=============================================================================
