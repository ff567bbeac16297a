------------------------------ MODULE QueueProofs ------------------------------
(***************************************************************************)
(* What Kept returns.                                                      *)
(***************************************************************************)
EXTENDS Queues, FiniteSetTheorems, SequenceTheorems, WellFoundedInduction, TLAPS

(* A set of numbers that has a member has a lowest one. *)
LEMMA LeastOf ==
    ASSUME NEW T, T \subseteq Nat, T # {}
    PROVE  \E m \in T : \A k \in T : m <= k
<1>1. PICK m \in T : \A k \in T : ~ (<<k, m>> \in OpToRel(<, Nat))
    BY NatLessThanWellFounded, WFMin
<1>2. ASSUME NEW k \in T, k < m
      PROVE  FALSE
    BY <1>1, <1>2 DEF OpToRel
<1>3. \A k \in T : m <= k
    BY <1>2
<1> QED
    BY <1>3

(* How many positions of S are up to i: between 1 and all, and more for a  *)
(* later one.                                                              *)
LEMMA RankGrows ==
    ASSUME NEW S, S \subseteq Nat, IsFiniteSet(S),
           NEW rank, rank = [i \in S |-> Cardinality({j \in S : j <= i})]
    PROVE  /\ rank \in [S -> 1..Cardinality(S)]
           /\ \A i, k \in S : i < k => rank[i] < rank[k]
<1> DEFINE upTo(i) == {j \in S : j <= i}
<1>1. Cardinality(S) \in Nat
    BY FS_CardinalityType
<1>2. ASSUME NEW i \in S
      PROVE  IsFiniteSet(upTo(i)) /\ Cardinality(upTo(i)) \in 1..Cardinality(S)
  <2>1. upTo(i) \in SUBSET S /\ i \in upTo(i)
      OBVIOUS
  <2>2. IsFiniteSet(upTo(i)) /\ Cardinality(upTo(i)) <= Cardinality(S)
      BY <2>1, FS_Subset
  <2>3. Cardinality(upTo(i)) \in Nat /\ Cardinality(upTo(i)) # 0
      BY <2>1, <2>2, FS_CardinalityType, FS_EmptySet
  <2> QED
      BY <1>1, <2>2, <2>3
<1>3. ASSUME NEW i \in S, NEW k \in S, i < k
      PROVE  Cardinality(upTo(i)) < Cardinality(upTo(k))
  <2>1. upTo(i) \in SUBSET upTo(k) /\ k \in upTo(k) /\ k \notin upTo(i)
    <3>1. i \in Nat /\ k \in Nat /\ \A j \in S : j \in Nat
        OBVIOUS
    <3>2. \A j \in S : j <= i => j <= k
        BY <1>3, <3>1
    <3>3. k <= k /\ ~(k <= i)
        BY <1>3, <3>1
    <3> QED
        BY <3>2, <3>3
  <2>2. Cardinality(upTo(i)) <= Cardinality(upTo(k)) /\ Cardinality(upTo(i)) # Cardinality(upTo(k))
      BY <1>2, <2>1, FS_Subset
  <2>3. Cardinality(upTo(i)) \in Nat /\ Cardinality(upTo(k)) \in Nat
      BY <1>2
  <2> QED
      BY <2>2, <2>3
<1> QED
    BY <1>2, <1>3

(* k is what stands in q at the positions S, each once and in their order:  *)
(* at tells where it stood.                                                *)
PlacedBy(at, k, q, S) ==
    /\ at \in [DOMAIN k -> S]
    /\ \A n \in DOMAIN k : k[n] = q[at[n]]
    /\ \A n, j \in DOMAIN k : n < j => at[n] < at[j]
    /\ \A i \in S : \E n \in DOMAIN k : at[n] = i

(* Kept is that. *)
LEMMA KeptIs ==
    ASSUME NEW T, NEW q \in Seq(T), NEW S \in SUBSET (DOMAIN q)
    PROVE  Kept(q, S) \in Seq(T) /\ \E at : PlacedBy(at, Kept(q, S), q, S)
<1> DEFINE rank == [i \in S |-> Cardinality({j \in S : j <= i})]
           at == [n \in 1..Cardinality(S) |-> CHOOSE i \in S : rank[i] = n]
<1>1. DOMAIN q = 1..Len(q) /\ Len(q) \in Nat /\ q \in [1..Len(q) -> T]
    BY LenProperties
<1>2. S \subseteq Nat /\ IsFiniteSet(S) /\ Cardinality(S) \in Nat
  <2>1. IsFiniteSet(1..Len(q))
      BY <1>1, FS_Interval
  <2> QED
      BY <1>1, <2>1, FS_Subset, FS_CardinalityType
<1>3. /\ rank \in [S -> 1..Cardinality(S)]
      /\ \A i, k \in S : i < k => rank[i] < rank[k]
    BY <1>2, RankGrows
<1>4. Kept(q, S) = [n \in 1..Cardinality(S) |-> q[at[n]]]
    BY DEF Kept
<1> HIDE DEF rank
<1>5. \A i, k \in S : rank[i] = rank[k] => i = k
  <2> SUFFICES ASSUME NEW i \in S, NEW k \in S, rank[i] = rank[k], i # k
               PROVE  FALSE
      OBVIOUS
  <2>1. i < k \/ k < i
      BY <1>2
  <2>2. rank[i] \in Nat /\ rank[k] \in Nat
      BY <1>3
  <2> QED
      BY <1>3, <2>1, <2>2
<1>6. \A n \in 1..Cardinality(S) : \E i \in S : rank[i] = n
  <2>1. rank \in Injection(S, 1..Cardinality(S))
      BY <1>3, <1>5 DEF Injection, IsInjective
  <2>2. IsFiniteSet(1..Cardinality(S)) /\ Cardinality(1..Cardinality(S)) = Cardinality(S)
      BY <1>2, FS_Interval
  <2>3. rank \in Surjection(S, 1..Cardinality(S))
      BY <2>1, <2>2, FS_Injection
  <2> QED
      BY <2>3 DEF Surjection
<1>7. \A n \in 1..Cardinality(S) : at[n] \in S /\ rank[at[n]] = n
    BY <1>6
<1>8. at \in [1..Cardinality(S) -> S]
    BY <1>7
<1> HIDE DEF at
<1>9. \A n, k \in 1..Cardinality(S) : n < k => at[n] < at[k]
  <2> SUFFICES ASSUME NEW n \in 1..Cardinality(S), NEW k \in 1..Cardinality(S), n < k,
                      ~(at[n] < at[k])
               PROVE  FALSE
      OBVIOUS
  <2>1. at[n] \in Nat /\ at[k] \in Nat /\ at[n] # at[k]
      BY <1>2, <1>7
  <2>2. rank[at[k]] < rank[at[n]]
      BY <1>3, <1>7, <2>1
  <2> QED
      BY <1>7, <2>2
<1>10. \A i \in S : \E n \in 1..Cardinality(S) : at[n] = i
    BY <1>3, <1>5, <1>7
<1>11. Kept(q, S) \in Seq(T) /\ DOMAIN Kept(q, S) = 1..Cardinality(S)
  <2> DEFINE n == Cardinality(S)
  <2>1. \A k \in 1..n : q[at[k]] \in T
      BY <1>1, <1>8
  <2>2. Kept(q, S) \in [1..n -> T]
      BY <1>4, <2>1
  <2> QED
      BY <1>2, <2>2, SeqDef
<1> QED
    BY <1>4, <1>8, <1>9, <1>10, <1>11 DEF PlacedBy
=============================================================================
