------------------------------- MODULE TopProofs -------------------------------
(***************************************************************************)
(* The first n of a finite set by a strict total order, the order given as *)
(* a set of pairs.  A trimmed ZSET, the pool of candidates and the page of *)
(* a feed are such; the proofs about them share the facts below.           *)
(***************************************************************************)
EXTENDS FiniteSetTheorems, TLAPS

StrictOrder(R, S) ==
    /\ \A p \in S : <<p, p>> \notin R
    /\ \A p, q, r \in S : <<p, q>> \in R /\ <<q, r>> \in R => <<p, r>> \in R
    /\ \A p, q \in S : p = q \/ <<p, q>> \in R \/ <<q, p>> \in R

AboveIn(R, S, p) == {q \in S : <<q, p>> \in R}

TopOf(R, n, S) == {p \in S : Cardinality(AboveIn(R, S, p)) < n}

\* Everything above a member is a proper part of what is above those below it.
LEMMA RankGrows ==
    ASSUME NEW S, IsFiniteSet(S), NEW R, StrictOrder(R, S),
           NEW p \in S, NEW q \in S, <<p, q>> \in R
    PROVE  /\ Cardinality(AboveIn(R, S, p)) \in Nat
           /\ Cardinality(AboveIn(R, S, q)) \in Nat
           /\ Cardinality(AboveIn(R, S, p)) < Cardinality(AboveIn(R, S, q))
<1>1. /\ AboveIn(R, S, p) \in SUBSET S
      /\ AboveIn(R, S, q) \in SUBSET S
  BY DEF AboveIn
<1>2. IsFiniteSet(AboveIn(R, S, p)) /\ IsFiniteSet(AboveIn(R, S, q))
  BY <1>1, FS_Subset
<1>3. /\ Cardinality(AboveIn(R, S, p)) \in Nat
      /\ Cardinality(AboveIn(R, S, q)) \in Nat
  BY <1>2, FS_CardinalityType
<1>4. AboveIn(R, S, p) \in SUBSET AboveIn(R, S, q)
  BY DEF AboveIn, StrictOrder
<1>5. p \in AboveIn(R, S, q) /\ p \notin AboveIn(R, S, p)
  BY DEF AboveIn, StrictOrder
<1>6. /\ Cardinality(AboveIn(R, S, p)) <= Cardinality(AboveIn(R, S, q))
      /\ Cardinality(AboveIn(R, S, p)) # Cardinality(AboveIn(R, S, q))
  BY <1>2, <1>4, <1>5, FS_Subset
<1> QED
  BY <1>3, <1>6

\* The first n are above all the others.
LEMMA TopIsAbove ==
    ASSUME NEW S, IsFiniteSet(S), NEW R, StrictOrder(R, S), NEW n \in Nat,
           NEW p \in TopOf(R, n, S), NEW q \in S \ TopOf(R, n, S)
    PROVE  <<p, q>> \in R
<1>1. p \in S /\ q \in S /\ p # q
  BY DEF TopOf
<1>2. ASSUME <<q, p>> \in R PROVE FALSE
  <2>1. /\ Cardinality(AboveIn(R, S, p)) \in Nat
        /\ Cardinality(AboveIn(R, S, q)) \in Nat
        /\ Cardinality(AboveIn(R, S, q)) < Cardinality(AboveIn(R, S, p))
    BY <1>1, <1>2, RankGrows
  <2>2. /\ Cardinality(AboveIn(R, S, p)) < n
        /\ ~(Cardinality(AboveIn(R, S, q)) < n)
    BY DEF TopOf
  <2> QED
    BY <2>1, <2>2
<1> QED
  BY <1>1, <1>2 DEF StrictOrder

\* When some are left over, the first n are n at least.
LEMMA TopIsFull ==
    ASSUME NEW S, IsFiniteSet(S), NEW R, StrictOrder(R, S), NEW n \in Nat,
           S # TopOf(R, n, S)
    PROVE  /\ IsFiniteSet(TopOf(R, n, S))
           /\ Cardinality(TopOf(R, n, S)) \in Nat
           /\ Cardinality(TopOf(R, n, S)) >= n
<1> DEFINE Rank(p) == Cardinality(AboveIn(R, S, p))
           Ranks == {k \in Nat : \E p \in S \ TopOf(R, n, S) : Rank(p) = k}
<1>1. TopOf(R, n, S) \in SUBSET S
  BY DEF TopOf
<1>2. IsFiniteSet(TopOf(R, n, S))
  BY <1>1, FS_Subset
<1>3. \A p \in S : AboveIn(R, S, p) \in SUBSET S
  BY DEF AboveIn
<1>4. \A p \in S : IsFiniteSet(AboveIn(R, S, p)) /\ Rank(p) \in Nat
  BY <1>3, FS_Subset, FS_CardinalityType
<1>5. PICK x \in S : x \notin TopOf(R, n, S)
  BY <1>1
<1>6. Rank(x) \in Ranks
  BY <1>4, <1>5
<1>7. Ranks \subseteq Nat
  OBVIOUS
<1>8. PICK k \in Ranks : \A j \in Ranks : ~(<<j, k>> \in OpToRel(<, Nat))
  <2> HIDE DEF Ranks, Rank
  <2> QED
    BY <1>6, <1>7, NatLessThanWellFounded, WFMin
<1>9. \A j \in Ranks : ~(j < k)
  <2> HIDE DEF Ranks
  <2> QED
    BY <1>7, <1>8 DEF OpToRel
<1>10. PICK b \in S \ TopOf(R, n, S) : Rank(b) = k
  BY <1>8
<1>11. ASSUME NEW c \in AboveIn(R, S, b) PROVE c \in TopOf(R, n, S)
  <2>1. SUFFICES ASSUME c \notin TopOf(R, n, S) PROVE FALSE
    OBVIOUS
  <2>2. c \in S /\ <<c, b>> \in R
    BY <1>11 DEF AboveIn
  <2>3. Rank(c) < Rank(b)
    BY <1>10, <2>2, RankGrows
  <2>4. Rank(c) \in Ranks
    BY <1>4, <2>1, <2>2
  <2> QED
    BY <1>9, <1>10, <2>3, <2>4
<1>12. AboveIn(R, S, b) \in SUBSET TopOf(R, n, S)
  BY <1>11
<1>13. Rank(b) <= Cardinality(TopOf(R, n, S))
  BY <1>2, <1>12, FS_Subset
<1>14. ~(Rank(b) < n)
  BY <1>10 DEF TopOf
<1>15. Cardinality(TopOf(R, n, S)) \in Nat
  BY <1>2, FS_CardinalityType
<1> QED
  BY <1>2, <1>4, <1>10, <1>13, <1>14, <1>15

\* The first n are n at most.
LEMMA TopIsBounded ==
    ASSUME NEW S, IsFiniteSet(S), NEW R, StrictOrder(R, S), NEW n \in Nat
    PROVE  /\ IsFiniteSet(TopOf(R, n, S))
           /\ Cardinality(TopOf(R, n, S)) \in Nat
           /\ Cardinality(TopOf(R, n, S)) <= n
<1> DEFINE Rank(p) == Cardinality(AboveIn(R, S, p))
           Gaps == {k \in Nat : \E p \in TopOf(R, n, S) : Rank(p) + k = n}
<1>1. TopOf(R, n, S) \in SUBSET S
  BY DEF TopOf
<1>2. IsFiniteSet(TopOf(R, n, S))
  BY <1>1, FS_Subset
<1>3. Cardinality(TopOf(R, n, S)) \in Nat
  BY <1>2, FS_CardinalityType
<1>4. \A p \in S : AboveIn(R, S, p) \in SUBSET S
  BY DEF AboveIn
<1>5. \A p \in S : IsFiniteSet(AboveIn(R, S, p)) /\ Rank(p) \in Nat
  BY <1>4, FS_Subset, FS_CardinalityType
<1>6. CASE TopOf(R, n, S) = {}
  BY <1>2, <1>3, <1>6, FS_EmptySet
<1>7. CASE TopOf(R, n, S) # {}
  <2>1. PICK x : x \in TopOf(R, n, S)
    BY <1>7
  <2>2. x \in S /\ Rank(x) < n
    BY <2>1 DEF TopOf
  <2>3. n - Rank(x) \in Gaps
    BY <1>5, <2>1, <2>2
  <2>4. PICK k \in Gaps : \A j \in Gaps : ~(<<j, k>> \in OpToRel(<, Nat))
    <3>1. Gaps \subseteq Nat
      OBVIOUS
    <3> HIDE DEF Gaps, Rank
    <3> QED
      BY <2>3, <3>1, NatLessThanWellFounded, WFMin
  <2>5. \A j \in Gaps : ~(j < k)
    <3>1. Gaps \subseteq Nat
      OBVIOUS
    <3> HIDE DEF Gaps
    <3> QED
      BY <2>4, <3>1 DEF OpToRel
  <2>6. PICK b \in TopOf(R, n, S) : Rank(b) + k = n
    BY <2>4
  <2>7. b \in S /\ Rank(b) \in Nat /\ Rank(b) < n
    BY <1>1, <1>5, <2>6 DEF TopOf
  <2>8. ASSUME NEW c \in TopOf(R, n, S), c # b PROVE c \in AboveIn(R, S, b)
    <3>1. SUFFICES ASSUME <<b, c>> \in R PROVE FALSE
      BY <1>1, <2>7, <2>8 DEF AboveIn, StrictOrder
    <3>2. c \in S /\ Rank(c) \in Nat /\ Rank(b) < Rank(c)
      BY <1>1, <2>7, <3>1, RankGrows
    <3>3. Rank(c) < n
      BY <2>8 DEF TopOf
    <3>4. n - Rank(c) \in Gaps
      BY <3>2, <3>3
    <3> QED
      BY <2>5, <2>6, <2>7, <3>2, <3>4
  <2>9. TopOf(R, n, S) \in SUBSET (AboveIn(R, S, b) \union {b})
    BY <2>8
  <2>10. b \notin AboveIn(R, S, b)
    BY <2>7 DEF AboveIn, StrictOrder
  <2>11. /\ IsFiniteSet(AboveIn(R, S, b) \union {b})
         /\ Cardinality(AboveIn(R, S, b) \union {b}) = Rank(b) + 1
    BY <1>5, <2>7, <2>10, FS_AddElement
  <2>12. Cardinality(TopOf(R, n, S)) <= Rank(b) + 1
    BY <2>9, <2>11, FS_Subset
  <2> QED
    BY <1>2, <1>3, <2>7, <2>12
<1> QED
  BY <1>6, <1>7
===============================================================================
