-------------------------------- MODULE Suites --------------------------------
(***************************************************************************)
(* The suite two ends encrypt with (libs/E2E.js: KEX, CIPHERS, chooseKex,  *)
(* chooseCipher).  Each lists in its offer what it can do and, of ciphers, *)
(* in the order it likes them; both choose, from the two lists alone.      *)
(*                                                                         *)
(* A name stands for its place in the canonical order, counted from 1.     *)
(* None in common is 0.                                                    *)
(***************************************************************************)
EXTENDS Naturals, Sequences, SequencesExt

CONSTANTS
    KEX,        \* how many exchanges there are
    CIPHERS     \* and ciphers

ASSUME SuitesAssumption == KEX \in Nat \ {0} /\ CIPHERS \in Nat \ {0}

Suite == [kex: 0..KEX, cipher: 0..CIPHERS]
NoSuite == [kex |-> 0, cipher |-> 0]

common(ours, theirs, known) == {n \in 1..known : n \in ToSet(ours) /\ n \in ToSet(theirs)}

indexOf(list, n) == CHOOSE i \in DOMAIN list : list[i] = n /\ \A j \in DOMAIN list : list[j] = n => i <= j

(* Of S, the one with the lowest score; of several, the first in canonical *)
(* order.                                                                  *)
Lowest(S, score) ==
    CHOOSE n \in S : \A k \in S : score[n] < score[k] \/ (score[n] = score[k] /\ n <= k)

(* The first in canonical order that both have. *)
chooseKex(ours, theirs) ==
    LET both == common(ours, theirs, KEX)
    IN  IF both = {} THEN 0 ELSE Lowest(both, [n \in both |-> 0])

(* Mutant: each end takes the one it likes best. *)
chooseCipherOwn(ours, theirs) ==
    LET both == common(ours, theirs, CIPHERS)
    IN  IF both = {} THEN 0 ELSE Lowest(both, [n \in both |-> indexOf(ours, n)])

(* The one with the lowest rank in both lists together. *)
chooseCipher(ours, theirs) ==
    LET both == common(ours, theirs, CIPHERS)
    IN  IF both = {} THEN 0
        ELSE Lowest(both, [n \in both |-> indexOf(ours, n) + indexOf(theirs, n)])
=============================================================================
