----------------------------- MODULE MCMaintainer ------------------------------
(* TLC instance of Maintainer. *)
EXTENDS Maintainer

CONSTANTS c1, c2

MCCall == {c1, c2}
(* Calls over a connection that fails, with and without                    *)
(* disconnectOnReplyTimeout, and a connection that is kept.                *)
MCCalling == [maintained |-> FALSE, enabled |-> FALSE, drops |-> FALSE, calls |-> MCCall,
              inbound |-> TRUE, failures |-> 1, stops |-> FALSE]
MCKept == [maintained |-> TRUE, enabled |-> TRUE, drops |-> FALSE, calls |-> {},
           inbound |-> TRUE, failures |-> 2, stops |-> FALSE]
MCWorlds == {MCCalling, [MCCalling EXCEPT !.drops = TRUE, !.inbound = FALSE],
             MCKept, [MCKept EXCEPT !.stops = TRUE, !.enabled = FALSE],
             [MCKept EXCEPT !.calls = {c1}, !.failures = 1, !.inbound = FALSE]}
=============================================================================
