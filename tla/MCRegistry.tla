------------------------------ MODULE MCRegistry ------------------------------
(* TLC instances of Registry: lo has the lower id, hi1 and hi2 are          *)
(* instances of one peer.  c1 is dialled by lo, the others to lo: c2 and c4 *)
(* by hi1, c3 by hi2.                                                       *)
EXTENDS Registry

CONSTANTS lo, hi1, hi2, c1, c2, c3, c4

MCProc == {lo, hi1, hi2}
MCId == [x \in MCProc |-> IF x = lo THEN 1 ELSE 2]
MCDialler == [c \in Conn |-> CASE c = c1 -> lo [] c \in {c2, c4} -> hi1 [] c = c3 -> hi2]
MCListener == [c \in Conn |-> IF c = c1 THEN hi1 ELSE lo]
MCCalm == [faults |-> FALSE, twins |-> FALSE, twice |-> FALSE, stops |-> FALSE]
MCTwins == {[MCCalm EXCEPT !.twins = TRUE]}
MCTwice == {[MCCalm EXCEPT !.twice = TRUE]}
MCWorlds == {MCCalm} \cup {[MCCalm EXCEPT !.faults = TRUE]} \cup MCTwins
    \cup {[MCCalm EXCEPT !.stops = TRUE]}
=============================================================================
