----------------------------- MODULE MCE2ESwitch ------------------------------
(* TLC instance of E2ESwitch: a sends a message of two frames, b a small    *)
(* one; where nothing fails, a frame of a relayed peer too.                 *)
EXTENDS E2ESwitch

CONSTANTS a, b, large, small, relayed, offerA, offerB

MCEnd == {a, b}
MCMsg == {large, small, relayed, offerA, offerB}
MCSender == [m \in MCMsg |-> IF m \in {large, offerA} THEN a ELSE b]
MCKind == [m \in MCMsg |-> CASE m \in {large, small} -> "link"
                             [] m = relayed -> "forward"
                             [] m \in {offerA, offerB} -> "switch"]
MCChunks == [m \in MCMsg |-> IF m = large THEN 2 ELSE 1]
(* Both have both exchanges; the ciphers they like in opposite orders. *)
MCLists(x, y) == [e \in MCEnd |-> IF e = a THEN x ELSE y]
MCAnythingFails == [sends |-> {large, small}, faults |-> TRUE,
                    kex |-> MCLists(<<1, 2>>, <<1, 2>>), ciphers |-> MCLists(<<1, 2>>, <<2, 1>>)]
MCNothingFails == [MCAnythingFails EXCEPT !.sends = {large, small, relayed}, !.faults = FALSE]
(* Ends with little in common, or nothing. *)
MCPoor == {[MCNothingFails EXCEPT !.sends = {small}, !.kex = MCLists(<<1, 2>>, <<2>>), !.ciphers = c] :
            c \in {MCLists(<<2, 1>>, <<2, 1>>), MCLists(<<2, 1>>, <<1>>)}}
MCNone == [MCAnythingFails EXCEPT !.sends = {small}, !.ciphers = MCLists(<<2>>, <<1>>)]
MCWorlds == {MCAnythingFails, MCNothingFails} \cup MCPoor \cup {MCNone}
MCFailingWorlds == {MCAnythingFails}
=============================================================================
