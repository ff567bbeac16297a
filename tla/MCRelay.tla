-------------------------------- MODULE MCRelay --------------------------------
(* TLC instances of Relay. *)
EXTENDS Relay

CONSTANTS a, b

MCEnd == {a, b}

MCAsks(i, j) == [e \in MCEnd |-> IF e = a THEN i ELSE j]
MCCalm == [permits |-> TRUE, asks |-> MCAsks(1, 0), again |-> FALSE, tears |-> {}, breaks |-> {},
           accepts |-> MCEnd, requires |-> {}, slow |-> FALSE]
MCWorlds ==
    {[MCCalm EXCEPT !.requires = r, !.tears = t, !.breaks = x] :
        r \in {{}, {a}, {b}}, t \in SUBSET MCEnd, x \in {{}, {a}, {b}}}
    \cup {[MCCalm EXCEPT !.asks = MCAsks(2, 0), !.tears = t, !.requires = r] :
            t \in {{a}, {b}}, r \in {{}, {b}}}
    \cup {[MCCalm EXCEPT !.permits = FALSE]}
    \cup {[MCCalm EXCEPT !.accepts = {a}, !.requires = r] : r \in {{}, {b}}}
    \cup {[MCCalm EXCEPT !.asks = MCAsks(1, 1), !.requires = r] : r \in {{}, {b}}}
    \cup {[MCCalm EXCEPT !.asks = MCAsks(2, 0), !.again = TRUE],
          [MCCalm EXCEPT !.slow = TRUE, !.requires = {a}]}

(* One end asks again while it holds the other, and its connection to the *)
(* relay may fail.                                                         *)
MCAgainWorlds == {[MCCalm EXCEPT !.asks = MCAsks(2, 0), !.again = TRUE, !.breaks = {a}]}
=============================================================================
