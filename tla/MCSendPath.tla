------------------------------ MODULE MCSendPath ------------------------------
(* TLC instance of SendPath: one end that sends a large message, a small    *)
(* one, a relayed frame and a heartbeat, and switches encryption on.        *)
EXTENDS SendPath

CONSTANTS a, large, small, relayed, beat, offer

MCEnd == {a}
MCMsg == {large, small, relayed, beat, offer}
MCSender == [m \in MCMsg |-> a]
MCKind == [m \in MCMsg |-> CASE m \in {large, small} -> "link"
                             [] m = relayed -> "forward"
                             [] m = beat -> "heartbeat"
                             [] m = offer -> "switch"]
MCChunks == [m \in MCMsg |-> IF m = large THEN 3 ELSE 1]
=============================================================================
