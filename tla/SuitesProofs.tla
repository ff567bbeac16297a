----------------------------- MODULE SuitesProofs -----------------------------
(***************************************************************************)
(* What the choice of a suite promises the two ends, for all lists and for *)
(* every number of exchanges and ciphers.                                  *)
(***************************************************************************)
EXTENDS Suites, QueueProofs

(* indexOf finds a name the list has, at a place of the list. *)
LEMMA PlaceOf ==
    ASSUME NEW list \in Seq(Nat), NEW n \in ToSet(list)
    PROVE  indexOf(list, n) \in Nat /\ indexOf(list, n) \in DOMAIN list
<1> DEFINE places == {i \in DOMAIN list : list[i] = n}
<1>1. places \subseteq Nat /\ places # {}
    BY DEF ToSet
<1>2. PICK i \in places : \A j \in places : i <= j
    BY <1>1, LeastOf
<1>3. i \in DOMAIN list /\ list[i] = n /\ \A j \in DOMAIN list : list[j] = n => i <= j
    BY <1>2
<1>4. indexOf(list, n) \in DOMAIN list
    BY <1>3 DEF indexOf
<1> QED
    BY <1>4

(* Both ends find the same names in common. *)
LEMMA CommonIsSymmetric ==
    ASSUME NEW ours, NEW theirs, NEW known
    PROVE  common(ours, theirs, known) = common(theirs, ours, known)
BY DEF common

(* Lowest is a member, none scores less, and none before it scores as      *)
(* little.                                                                 *)
LEMMA LowestIs ==
    ASSUME NEW S, S \subseteq Nat, S # {}, NEW score \in [S -> Nat]
    PROVE  /\ Lowest(S, score) \in S
           /\ \A k \in S : \/ score[Lowest(S, score)] < score[k]
                           \/ score[Lowest(S, score)] = score[k] /\ Lowest(S, score) <= k
<1> DEFINE scores == {score[n] : n \in S}
<1>1. scores \subseteq Nat /\ scores # {}
    OBVIOUS
<1>2. PICK low \in scores : \A x \in scores : low <= x
    BY <1>1, LeastOf
<1> DEFINE best == {n \in S : score[n] = low}
<1>3. best \subseteq Nat /\ best # {}
    BY <1>2
<1>4. PICK m \in best : \A k \in best : m <= k
    BY <1>3, LeastOf
<1>5. ASSUME NEW k \in S
      PROVE  score[m] < score[k] \/ (score[m] = score[k] /\ m <= k)
  <2>1. low <= score[k] /\ low \in Nat /\ score[k] \in Nat /\ score[m] = low
      BY <1>1, <1>2, <1>4
  <2>2. CASE score[k] = low
      BY <1>4, <2>1, <2>2
  <2>3. CASE score[k] # low
      BY <2>1, <2>3
  <2> QED
      BY <2>2, <2>3
<1>6. m \in S /\ \A k \in S : score[m] < score[k] \/ (score[m] = score[k] /\ m <= k)
    BY <1>4, <1>5
<1> QED
    BY <1>6 DEF Lowest

(* What is chosen is one that there is, or none. *)
LEMMA ChosenIsKnown ==
    ASSUME NEW ours \in Seq(Nat), NEW theirs \in Seq(Nat)
    PROVE  chooseKex(ours, theirs) \in 0..KEX /\ chooseCipher(ours, theirs) \in 0..CIPHERS
<1>1. ASSUME NEW known \in Nat
      PROVE  0 \in 0..known /\ common(ours, theirs, known) \subseteq 1..known /\ 1..known \subseteq 0..known
    BY DEF common
<1>2. KEX \in Nat /\ CIPHERS \in Nat
    BY SuitesAssumption
<1>3. chooseKex(ours, theirs) \in 0..KEX
  <2> DEFINE both == common(ours, theirs, KEX)
             none == [n \in both |-> 0]
  <2>1. both \subseteq Nat /\ both \subseteq 0..KEX /\ 0 \in 0..KEX
      BY <1>1, <1>2
  <2>2. none \in [both -> Nat]
      OBVIOUS
  <2>3. chooseKex(ours, theirs) = IF both = {} THEN 0 ELSE Lowest(both, none)
      BY DEF chooseKex
  <2> HIDE DEF both, none
  <2>4. both # {} => Lowest(both, none) \in both
      BY <2>1, <2>2, LowestIs
  <2> QED
      BY <2>1, <2>3, <2>4
<1>4. chooseCipher(ours, theirs) \in 0..CIPHERS
  <2> DEFINE both == common(ours, theirs, CIPHERS)
             rank == [n \in both |-> indexOf(ours, n) + indexOf(theirs, n)]
  <2>1. both \subseteq Nat /\ both \subseteq 0..CIPHERS /\ 0 \in 0..CIPHERS
      BY <1>1, <1>2
  <2>2. rank \in [both -> Nat]
    <3>1. ASSUME NEW n \in both
          PROVE  indexOf(ours, n) + indexOf(theirs, n) \in Nat
      <4>1. indexOf(ours, n) \in Nat /\ indexOf(theirs, n) \in Nat
          BY PlaceOf DEF common
      <4> QED
          BY <4>1
    <3> QED
        BY <3>1
  <2>3. chooseCipher(ours, theirs) = IF both = {} THEN 0 ELSE Lowest(both, rank)
      BY DEF chooseCipher
  <2> HIDE DEF both, rank
  <2>4. both # {} => Lowest(both, rank) \in both
      BY <2>1, <2>2, LowestIs
  <2> QED
      BY <2>1, <2>3, <2>4
<1> QED
    BY <1>3, <1>4

(* What each end computes is the same, whichever list is its own: neither  *)
(* decides for the other, and no message needs to say what was chosen      *)
(* (E2E.js, chooseKex and chooseCipher).                                   *)
THEOREM ChoiceIsSymmetric ==
    ASSUME NEW ours \in Seq(Nat), NEW theirs \in Seq(Nat)
    PROVE  /\ chooseKex(ours, theirs) = chooseKex(theirs, ours)
           /\ chooseCipher(ours, theirs) = chooseCipher(theirs, ours)
<1>1. chooseKex(ours, theirs) = chooseKex(theirs, ours)
    BY CommonIsSymmetric DEF chooseKex
<1> DEFINE both == common(ours, theirs, CIPHERS)
<1>2. both = common(theirs, ours, CIPHERS)
    BY CommonIsSymmetric
<1>3. ASSUME NEW n \in both
      PROVE  indexOf(ours, n) + indexOf(theirs, n) = indexOf(theirs, n) + indexOf(ours, n)
  <2>1. indexOf(ours, n) \in Nat /\ indexOf(theirs, n) \in Nat
      BY PlaceOf DEF common
  <2> QED
      BY <2>1
<1>4. [n \in both |-> indexOf(ours, n) + indexOf(theirs, n)]
        = [n \in both |-> indexOf(theirs, n) + indexOf(ours, n)]
    BY <1>3
<1>5. chooseCipher(ours, theirs) = chooseCipher(theirs, ours)
    BY <1>2, <1>4 DEF chooseCipher
<1> QED
    BY <1>1, <1>5

(* A cipher is missing only when the lists share none.  One that is chosen *)
(* is in both lists, no shared one has a lower rank in the two together,   *)
(* and none before it in the canonical order ranks as low.                 *)
THEOREM CipherIsLowest ==
    ASSUME NEW ours \in Seq(Nat), NEW theirs \in Seq(Nat),
           NEW chosen, chosen = chooseCipher(ours, theirs),
           NEW rank, rank = [n \in common(ours, theirs, CIPHERS) |->
                                indexOf(ours, n) + indexOf(theirs, n)]
    PROVE  /\ chosen = 0 <=> common(ours, theirs, CIPHERS) = {}
           /\ chosen # 0 => /\ chosen \in ToSet(ours) \cap ToSet(theirs)
                            /\ \A n \in common(ours, theirs, CIPHERS) :
                                  \/ rank[chosen] < rank[n]
                                  \/ rank[chosen] = rank[n] /\ chosen <= n
<1> DEFINE both == common(ours, theirs, CIPHERS)
<1>1. both \subseteq Nat /\ 0 \notin both
    BY SuitesAssumption DEF common
<1>2. CASE both = {}
    BY <1>2 DEF chooseCipher
<1>3. CASE both # {}
  <2>1. ASSUME NEW n \in both
        PROVE  indexOf(ours, n) + indexOf(theirs, n) \in Nat
    <3>1. indexOf(ours, n) \in Nat /\ indexOf(theirs, n) \in Nat
        BY PlaceOf DEF common
    <3> QED
        BY <3>1
  <2>2. rank \in [both -> Nat]
      BY <2>1
  <2>3. chosen = Lowest(both, rank)
      BY <1>3 DEF chooseCipher
  <2> HIDE DEF both
  <2>4. /\ chosen \in both
        /\ \A n \in both : rank[chosen] < rank[n] \/ (rank[chosen] = rank[n] /\ chosen <= n)
    <3>1. /\ Lowest(both, rank) \in both
          /\ \A n \in both : \/ rank[Lowest(both, rank)] < rank[n]
                             \/ rank[Lowest(both, rank)] = rank[n] /\ Lowest(both, rank) <= n
        BY <1>1, <1>3, <2>2, LowestIs
    <3> QED
        BY <3>1, <2>3
  <2> USE DEF both
  <2>5. chosen # 0 /\ chosen \in ToSet(ours) \cap ToSet(theirs)
      BY <1>1, <2>4 DEF common
  <2> QED
      BY <1>3, <2>4, <2>5
<1> QED
    BY <1>2, <1>3

(* The exchange is the first in the canonical order that both have, and is *)
(* missing only when they share none.                                      *)
THEOREM KexIsFirst ==
    ASSUME NEW ours \in Seq(Nat), NEW theirs \in Seq(Nat),
           NEW chosen, chosen = chooseKex(ours, theirs)
    PROVE  /\ chosen = 0 <=> common(ours, theirs, KEX) = {}
           /\ chosen # 0 => /\ chosen \in ToSet(ours) \cap ToSet(theirs)
                            /\ \A n \in common(ours, theirs, KEX) : chosen <= n
<1> DEFINE both == common(ours, theirs, KEX)
           none == [n \in both |-> 0]
<1>1. both \subseteq Nat /\ 0 \notin both
    BY SuitesAssumption DEF common
<1>2. CASE both = {}
    BY <1>2 DEF chooseKex
<1>3. CASE both # {}
  <2>1. none \in [both -> Nat] /\ \A n \in both : none[n] = 0
      OBVIOUS
  <2>2. chosen = Lowest(both, none)
      BY <1>3 DEF chooseKex
  <2> HIDE DEF both, none
  <2>3. /\ chosen \in both
        /\ \A n \in both : none[chosen] < none[n] \/ (none[chosen] = none[n] /\ chosen <= n)
    <3>1. /\ Lowest(both, none) \in both
          /\ \A n \in both : \/ none[Lowest(both, none)] < none[n]
                             \/ none[Lowest(both, none)] = none[n] /\ Lowest(both, none) <= n
        BY <1>1, <1>3, <2>1, LowestIs
    <3> QED
        BY <3>1, <2>2
  <2> USE DEF both
  <2>4. \A n \in both : chosen <= n
      BY <2>1, <2>3
  <2>5. chosen # 0 /\ chosen \in ToSet(ours) \cap ToSet(theirs)
      BY <1>1, <2>3 DEF common
  <2> QED
      BY <1>3, <2>4, <2>5
<1> QED
    BY <1>2, <1>3
=============================================================================
