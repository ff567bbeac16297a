----------------------------- MODULE CallContract -----------------------------
(***************************************************************************)
(* What a call promises (libs/AnyPeer.js: send() with awaitReply, and      *)
(* rpc), whatever happens to the connection under it: it is answered by    *)
(* its own reply, if that comes while it waits, or it fails; and it does   *)
(* one or the other, once.                                                 *)
(***************************************************************************)
CONSTANT Call

VARIABLES
    outcome,    \* outcome[c]: what its promise is
    arrived     \* the calls whose reply has come

contractVars == <<outcome, arrived>>

Init ==
    /\ outcome = [c \in Call |-> "idle"]
    /\ arrived = {}

Ask(c) ==
    /\ outcome[c] = "idle"
    /\ outcome' = [outcome EXCEPT ![c] = "waiting"]
    /\ UNCHANGED arrived

Fail(c) ==
    /\ outcome[c] \in {"idle", "waiting"}
    /\ outcome' = [outcome EXCEPT ![c] = "failed"]
    /\ UNCHANGED arrived

(* Its reply comes, in time or too late. *)
Arrive(c) ==
    /\ outcome[c] # "idle" /\ c \notin arrived
    /\ arrived' = arrived \cup {c}
    /\ outcome' = [outcome EXCEPT ![c] = IF @ = "waiting" THEN "answered" ELSE @]

(* A connection that goes fails all that waits on it. *)
FailAll ==
    /\ outcome' = [c \in Call |-> IF outcome[c] = "waiting" THEN "failed" ELSE outcome[c]]
    /\ UNCHANGED arrived

Next == FailAll \/ \E c \in Call : Ask(c) \/ Fail(c) \/ Arrive(c)

Settles == \A c \in Call : outcome[c] = "waiting" ~> outcome[c] # "waiting"

Spec == Init /\ [][Next]_contractVars /\ Settles
=============================================================================
