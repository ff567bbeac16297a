-------------------------------- MODULE Queues --------------------------------
(* What is left of a queue, written so that it can be reasoned about:       *)
(* SelectSeq is built into the tools, without a definition to expand.       *)
EXTENDS Naturals, Sequences, FiniteSets

(* What stands at the positions S of q, in order. *)
Kept(q, S) ==
    LET place == [i \in S |-> Cardinality({j \in S : j <= i})]
    IN  [n \in 1..Cardinality(S) |-> q[CHOOSE i \in S : place[i] = n]]
=============================================================================
