--------------------------------- MODULE Calls ---------------------------------
(***************************************************************************)
(* Calls that await a reply (libs/AnyPeer.js: _sendInner, _resolveReply,   *)
(* _rejectPending, _supersede; libs/AnySocket.js: the other end's rpc),    *)
(* over a connection that is watched by heartbeats.                        *)
(*                                                                         *)
(* A call is entered under the number of its packet; its reply, its timer, *)
(* its signal and the end of the connection all settle it by that entry.   *)
(* Numbers go round, shared with everything else that is sent.             *)
(***************************************************************************)
EXTENDS Heartbeat

CONSTANTS
    Call,
    NoCall,
    MaxSeq      \* the largest number: 2^31 - 1

ASSUME CallsAssumption == NoCall \notin Call /\ MaxSeq \in Nat \ {0}

VARIABLES
    dropsOnTimeout, \* disconnectOnReplyTimeout
    seq,            \* the last number given
    packets,        \* packets[n]: the call entered under n
    timers,         \* the calls whose timer is armed
    number,         \* number[c]: the number its packet went out under
    calls,          \* calls[c]: its promise
    far             \* far[c]: how far it is at the other end

callVars == <<dropsOnTimeout, seq, packets, timers, number, calls, far>>

CallTypeOK ==
    /\ dropsOnTimeout \in BOOLEAN
    /\ seq \in 0..MaxSeq
    /\ packets \in [0..MaxSeq -> Call \cup {NoCall}]
    /\ timers \subseteq Call
    /\ number \in [Call -> 0..MaxSeq]
    /\ calls \in [Call -> {"idle", "waiting", "answered", "failed"}]
    /\ far \in [Call -> {"none", "sent", "guarded", "running", "replied", "arrived", "lost",
                         "unserialised", "queued"}]

CallInit ==
    /\ dropsOnTimeout \in BOOLEAN
    /\ seq = 0
    /\ packets = [n \in 0..MaxSeq |-> NoCall]
    /\ timers = {}
    /\ number = [c \in Call |-> 0]
    /\ calls = [c \in Call |-> "idle"]
    /\ far = [c \in Call |-> "none"]

-----------------------------------------------------------------------------
(* Mutant: the numbers go round to 0. *)
getSeqFromZero == IF seq >= MaxSeq THEN 0 ELSE seq + 1
getSeq == IF seq >= MaxSeq THEN 1 ELSE seq + 1

(* Bound: a number is not given again while its last call or the answer to *)
(* that is under way.  That takes 2^31 - 1 packets within a replyTimeout.  *)
InUse(n) ==
    \E c \in Call : number[c] = n /\ (c \in timers \/ far[c] \in {"sent", "guarded", "running", "replied"})

(* A heartbeat, a message, a reply: whatever else is numbered. *)
OtherSends ==
    /\ isConnected
    /\ ~InUse(getSeq)
    /\ seq' = getSeq
    /\ UNCHANGED <<beatVars, dropsOnTimeout, packets, timers, number, calls, far>>

(* A message that cannot be serialised throws in the worker of the link    *)
(* queue, which stays marked as running: on this connection it takes       *)
(* nothing more.                                                           *)
Stuck == \E c \in Call : far[c] = "unserialised"

(* The call is entered under its number, and its timer armed, once send()  *)
(* has returned and whatever that found.                                   *)
Enter(c) ==
    /\ calls[c] = "idle"
    /\ isConnected
    /\ ~InUse(getSeq)
    /\ seq' = getSeq
    /\ number' = [number EXCEPT ![c] = getSeq]
    /\ packets' = [packets EXCEPT ![getSeq] = c]
    /\ timers' = timers \cup {c}
    /\ UNCHANGED <<beatVars, dropsOnTimeout>>

CallOut(c) ==
    /\ Enter(c)
    /\ calls' = [calls EXCEPT ![c] = "waiting"]
    /\ far' = [far EXCEPT ![c] = IF Stuck THEN "queued" ELSE "sent"]

(* Its message cannot be serialised: it fails at once, the connection stays *)
(* up, and the call stays entered until its timer.                          *)
SendFails(c) ==
    /\ Enter(c)
    /\ state = "CONNECTED" /\ ~Stuck
    /\ calls' = [calls EXCEPT ![c] = "failed"]
    /\ far' = [far EXCEPT ![c] = "unserialised"]

CallRefused(c) ==
    /\ calls[c] = "idle"
    /\ ~isConnected
    /\ calls' = [calls EXCEPT ![c] = "failed"]
    /\ UNCHANGED <<beatVars, dropsOnTimeout, seq, packets, timers, number, far>>

-----------------------------------------------------------------------------
(* The other end: a method that is not found or that the guard refuses is  *)
(* answered with that; otherwise what the method returns or throws is.     *)
Dispatch(c) ==
    /\ far[c] = "sent"
    /\ state = "CONNECTED" /\ ~silent
    /\ \E next \in {"replied", "guarded"} : far' = [far EXCEPT ![c] = next]
    /\ UNCHANGED <<beatVars, dropsOnTimeout, seq, packets, timers, number, calls>>

GuardSettles(c) ==
    /\ far[c] = "guarded"
    /\ ~silent
    /\ \E next \in {"replied", "running"} : far' = [far EXCEPT ![c] = next]
    /\ UNCHANGED <<beatVars, dropsOnTimeout, seq, packets, timers, number, calls>>

MethodSettles(c) ==
    /\ far[c] = "running"
    /\ ~silent
    /\ far' = [far EXCEPT ![c] = "replied"]
    /\ UNCHANGED <<beatVars, dropsOnTimeout, seq, packets, timers, number, calls>>

-----------------------------------------------------------------------------
(* What settles a call                                                     *)

(* A promise settles once. *)
Settled(c, how) == IF calls[c] = "waiting" THEN how ELSE calls[c]

(* The call entered under a number settles, and is entered no more. *)
Settle(n, how) ==
    /\ packets' = [packets EXCEPT ![n] = NoCall]
    /\ timers' = timers \ {packets[n]}
    /\ calls' = [calls EXCEPT ![packets[n]] = Settled(packets[n], how)]

(* A reply carries the number of its call, negated: 0 would be none.  One  *)
(* for which nobody waits any more is dropped.                             *)
ReplyIn(c) ==
    LET n == number[c] IN
    /\ far[c] = "replied"
    /\ state = "CONNECTED"
    /\ Received
    /\ far' = [far EXCEPT ![c] = "arrived"]
    /\ IF -n < 0 /\ packets[n] # NoCall
       THEN Settle(n, "answered")
       ELSE UNCHANGED <<packets, timers, calls>>
    /\ UNCHANGED <<dropsOnTimeout, seq, number>>

(* The caller's signal, while its call is entered: only that one, however  *)
(* the numbers went.                                                       *)
Abort(c) ==
    /\ calls[c] # "idle"
    /\ packets[number[c]] = c
    /\ Settle(number[c], "failed")
    /\ UNCHANGED <<beatVars, dropsOnTimeout, seq, number, far>>

(* The connection goes: whatever is entered fails, and what was on its way *)
(* is lost.  The next one numbers from the start.                          *)
RejectPending ==
    /\ packets' = [n \in 0..MaxSeq |-> NoCall]
    /\ timers' = timers \ {packets[n] : n \in 0..MaxSeq}
    /\ calls' = [c \in Call |->
                    IF c \in {packets[n] : n \in 0..MaxSeq} THEN Settled(c, "failed") ELSE calls[c]]
    /\ far' = [c \in Call |-> IF far[c] \in {"none", "arrived"} THEN far[c] ELSE "lost"]
    /\ seq' = 0
    /\ UNCHANGED <<dropsOnTimeout, number>>

(* replyTimeout: the call fails alone. *)
TimesOut(c) ==
    /\ c \in timers
    /\ ~dropsOnTimeout
    /\ Settle(number[c], "failed")
    /\ UNCHANGED <<beatVars, dropsOnTimeout, seq, number, far>>

(* With disconnectOnReplyTimeout it takes the connection with it. *)
TimeoutDrops(c) == c \in timers /\ dropsOnTimeout

CallSteps ==
    \/ OtherSends
    \/ \E c \in Call :
        \/ CallOut(c) \/ CallRefused(c) \/ SendFails(c)
        \/ Dispatch(c) \/ GuardSettles(c) \/ MethodSettles(c)
        \/ ReplyIn(c) \/ Abort(c) \/ TimesOut(c)

-----------------------------------------------------------------------------
(* The calls keep what CallContract promises. *)
Arrived == {c \in Call : far[c] = "arrived"}
Contract == INSTANCE CallContract WITH outcome <- calls, arrived <- Arrived
CallsKeepContract == Contract!Spec
=============================================================================
