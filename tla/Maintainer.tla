------------------------------ MODULE Maintainer -------------------------------
(***************************************************************************)
(* A maintained connection (libs/Maintainer.js) to one peer, with what the *)
(* registry of the process tells it (libs/AnySocket.js: connect,           *)
(* onProtocolReady, onPeerDisconnected), over connections that are watched *)
(* by heartbeats (Heartbeat) and carry calls (Calls).                      *)
(*                                                                         *)
(* `peer` is the connection registered for that peer, if there is one.  It *)
(* was dialled by the handle or by the other end; the duplicate rule may   *)
(* put another in its place.  "disconnected" is emitted in the step that   *)
(* takes it out, "connected" from a timer, and a dial resolves at once.    *)
(***************************************************************************)
EXTENDS Calls

CONSTANTS
    MaxLinks,   \* how many connections there may be
    MaxAttempt, \* where attempts are no longer counted: past maxDelay
    Worlds      \* the conditions considered: a set of World

World ==
    [maintained: BOOLEAN,   \* is the peer maintained, or only connected?
     enabled: BOOLEAN,      \* heartbeatEnabled
     drops: BOOLEAN,        \* disconnectOnReplyTimeout
     calls: SUBSET Call,    \* the calls that are made
     inbound: BOOLEAN,      \* does the other end dial too?
     failures: Nat,         \* how many things may fail
     stops: BOOLEAN]        \* may the handle be stopped, or give up?

ASSUME MaintainerAssumption ==
    /\ MaxLinks \in Nat \ {0} /\ MaxAttempt \in Nat \ {0}
    /\ Worlds \subseteq World

VARIABLES
    world,      \* the conditions of this behaviour; never changes
    failed,     \* how many things have failed
    links,      \* connections that have been ready so far
    peer,       \* the one registered, 0 for none
    announcing, \* those whose "connected" is on a timer
    handle

keepVars == <<world, failed, links, peer, announcing, handle>>
vars == <<beatVars, callVars, keepVars>>

Handle ==
    [active: BOOLEAN,
     dialing: BOOLEAN,      \* _dialing
     retry: BOOLEAN,        \* is _timer armed?
     stable: BOOLEAN,       \* is _stable armed?
     peer: 0..MaxLinks,     \* 0 for none
     known: BOOLEAN,        \* is peerID known?
     failing: BOOLEAN,      \* is _failingSince set?
     attempt: 0..MaxAttempt]

(* Type invariant. *)
TypeOK ==
    /\ BeatTypeOK /\ CallTypeOK
    /\ world \in Worlds
    /\ failed \in 0..world.failures
    /\ links \in 0..MaxLinks /\ peer \in 0..links
    /\ announcing \subseteq 1..links
    /\ handle \in Handle
    /\ peer = 0 <=> ~isConnected

(* maintain() dials at once. *)
Init ==
    /\ world \in Worlds
    /\ BeatInit /\ enabled = world.enabled
    /\ CallInit /\ dropsOnTimeout = world.drops
    /\ failed = 0
    /\ links = 1 /\ peer = 1 /\ announcing = {}
    /\ handle = [active |-> world.maintained, dialing |-> world.maintained, retry |-> FALSE,
                 stable |-> FALSE, peer |-> 0, known |-> FALSE, failing |-> FALSE, attempt |-> 0]

MayFail == failed < world.failures /\ failed' = failed + 1

-----------------------------------------------------------------------------
(* What the handle does, as what becomes of it                             *)

stop(h) == [h EXCEPT !.active = FALSE, !.retry = FALSE, !.stable = FALSE]

(* _adopt, of the peer that is registered: of any other nothing comes. *)
adopt(h, p) ==
    IF p = 0 THEN h
    ELSE [h EXCEPT !.retry = FALSE, !.peer = p, !.known = TRUE, !.failing = FALSE, !.stable = TRUE]

(* _schedule: one timer at most; it may have failed for too long. *)
schedule(h) ==
    IF ~h.active \/ h.retry THEN {h}
    ELSE {[h EXCEPT !.failing = TRUE, !.retry = TRUE, !.attempt = IF @ < MaxAttempt THEN @ + 1 ELSE @]}
        \cup {g \in {stop(h)} : h.failing /\ world.stops}

(* Mutant: the peer it holds goes, and nothing is scheduled. *)
onDisconnectedKept(h, p) == IF h.active /\ h.peer = p THEN {[h EXCEPT !.stable = FALSE]} ELSE {h}

(* _onDisconnected and _lost: only the peer it holds. *)
onDisconnected(h, p) ==
    IF h.active /\ h.peer = p THEN schedule([h EXCEPT !.peer = 0, !.stable = FALSE]) ELSE {h}

(* _onConnected: the peer it knows, over another connection. *)
onConnected(h, p) == IF h.active /\ h.known /\ h.peer # p THEN adopt(h, p) ELSE h

-----------------------------------------------------------------------------
(* The registry                                                            *)

(* A connection is ready, and nothing was registered. *)
Registered ==
    /\ peer = 0 /\ links < MaxLinks
    /\ links' = links + 1 /\ peer' = links + 1
    /\ announcing' = announcing \cup {links + 1}
    /\ LinkUp

(* It takes the place of the one registered, which is retired: its calls   *)
(* fail, and "disconnected" is emitted.                                    *)
Superseded ==
    /\ peer # 0 /\ links < MaxLinks
    /\ MayFail
    /\ links' = links + 1 /\ peer' = links + 1
    /\ announcing' = announcing \cup {links + 1}
    /\ RejectPending
    /\ LinkUp

(* The connection is gone. *)
Gone ==
    /\ peer # 0
    /\ RejectPending
    /\ LinkDown
    /\ peer' = 0
    /\ handle' \in onDisconnected(handle, peer)
    /\ UNCHANGED <<world, links, announcing>>

Fails == Gone /\ MayFail
HeartbeatDrops == TooManyMissed /\ Gone /\ UNCHANGED failed
E2ETimesOut ==
    /\ e2eTimer = 0
    /\ Gone
    /\ IF silent THEN UNCHANGED failed ELSE MayFail
CallDrops(c) == TimeoutDrops(c) /\ Gone /\ UNCHANGED failed

(* "connected", unless it has gone meanwhile. *)
Announce(p) ==
    /\ p \in announcing
    /\ announcing' = announcing \ {p}
    /\ handle' = IF peer = p THEN onConnected(handle, p) ELSE handle
    /\ UNCHANGED <<beatVars, callVars, world, failed, links, peer>>

(* The other end dials. *)
InboundUp ==
    /\ world.inbound
    /\ Registered
    /\ UNCHANGED <<callVars, world, failed, handle>>

InboundSupersedes ==
    /\ world.inbound
    /\ Superseded
    /\ handle' \in onDisconnected(handle, peer)
    /\ UNCHANGED world

-----------------------------------------------------------------------------
(* The dial of the handle settles                                          *)

resolved(h, p) == IF h.active THEN adopt([h EXCEPT !.dialing = FALSE], p) ELSE [h EXCEPT !.dialing = FALSE]

DialUp ==
    /\ handle.dialing
    /\ Registered
    /\ handle' = resolved(handle, links + 1)
    /\ UNCHANGED <<callVars, world, failed>>

(* A duplicate of the one registered, which is kept and resolves the dial, *)
DialIsDuplicate ==
    /\ handle.dialing
    /\ peer # 0
    /\ handle' = resolved(handle, peer)
    /\ UNCHANGED <<beatVars, callVars, world, failed, links, peer, announcing>>

(* or is retired for it. *)
DialSupersedes ==
    /\ handle.dialing
    /\ Superseded
    /\ \E h \in onDisconnected(handle, peer) : handle' = resolved(h, links + 1)
    /\ UNCHANGED world

DialFails ==
    /\ handle.dialing
    /\ MayFail
    /\ LET h == [handle EXCEPT !.dialing = FALSE]
       IN  handle' \in IF ~h.active THEN {h}
                       ELSE IF h.known /\ peer # 0 THEN {adopt(h, peer)}
                       ELSE schedule(h)
    /\ UNCHANGED <<beatVars, callVars, world, links, peer, announcing>>

-----------------------------------------------------------------------------
(* The timers of the handle, and the application                           *)

(* _dial: nothing to do while dialling, or when the peer has come. *)
RetryFires ==
    /\ handle.retry
    /\ LET h == [handle EXCEPT !.retry = FALSE]
       IN  handle' = IF h.dialing THEN h
                     ELSE IF h.known /\ peer # 0 THEN adopt(h, peer)
                     ELSE [h EXCEPT !.dialing = TRUE]
    /\ UNCHANGED <<beatVars, callVars, world, failed, links, peer, announcing>>

StableFires ==
    /\ handle.stable
    /\ handle' = [handle EXCEPT !.stable = FALSE, !.attempt = 0]
    /\ UNCHANGED <<beatVars, callVars, world, failed, links, peer, announcing>>

(* fail(): its peer is disconnected, or it backs off. *)
HandleFails ==
    /\ handle.active
    /\ MayFail
    /\ IF handle.peer # 0
       THEN /\ RejectPending /\ LinkDown
            /\ peer' = 0
            /\ handle' \in onDisconnected([handle EXCEPT !.stable = FALSE], peer)
            /\ UNCHANGED <<world, links, announcing>>
       ELSE /\ handle' \in schedule([handle EXCEPT !.stable = FALSE])
            /\ UNCHANGED <<beatVars, callVars, world, links, peer, announcing>>

HandleStops ==
    /\ handle.active /\ world.stops
    /\ handle' = stop(handle)
    /\ UNCHANGED <<beatVars, callVars, world, failed, links, peer, announcing>>

-----------------------------------------------------------------------------
(* The steps of the connection and of its calls. *)
BeatTimer == (BeatEarly \/ BeatSent \/ BeatMissed) /\ UNCHANGED <<callVars, keepVars>>
Connection ==
    \/ (Received \/ SwitchStarts \/ SwitchEnds \/ Tick) /\ UNCHANGED <<callVars, keepVars>>
    \/ GoesSilent /\ MayFail /\ UNCHANGED <<callVars, world, links, peer, announcing, handle>>
Called ==
    /\ CallSteps
    /\ \A c \in Call : calls'[c] = calls[c] \/ c \in world.calls
    /\ UNCHANGED keepVars

Next ==
    \/ Connection \/ BeatTimer \/ Called
    \/ Fails \/ HeartbeatDrops \/ E2ETimesOut \/ \E c \in Call : CallDrops(c)
    \/ \E p \in announcing : Announce(p)
    \/ InboundUp \/ InboundSupersedes
    \/ DialUp \/ DialIsDuplicate \/ DialSupersedes \/ DialFails
    \/ RetryFires \/ StableFires \/ HandleFails \/ HandleStops

Spec == Init /\ [][Next]_vars

(* Time passes and timers go off; an end that is there is heard from and   *)
(* completes a switch; a dial settles; the event loop turns.               *)
Fairness ==
    /\ WF_vars(Tick /\ UNCHANGED <<callVars, keepVars>>)
    /\ WF_vars(BeatTimer \/ HeartbeatDrops \/ E2ETimesOut)
    /\ WF_vars(Received /\ UNCHANGED <<callVars, keepVars>>)
    /\ WF_vars(SwitchEnds /\ UNCHANGED <<callVars, keepVars>>)
    /\ WF_vars(DialUp \/ DialIsDuplicate \/ RetryFires)
    /\ \A c \in Call : WF_vars((TimesOut(c) /\ UNCHANGED keepVars) \/ CallDrops(c))

FairSpec == Spec /\ Fairness

-----------------------------------------------------------------------------
(* A handle that has not stopped holds the peer that is registered, dials, *)
(* or will: nothing that goes wrong leaves it waiting for nothing.         *)
KeepsTrying ==
    handle.active => \/ handle.dialing \/ handle.retry
                     \/ handle.peer # 0 /\ handle.peer = peer

(* Once no more goes wrong, the peer is held again and answers, whatever   *)
(* the link did before: heartbeats find the one that only went silent.     *)
Recovers ==
    <>[](handle.active /\ enabled => handle.peer # 0 /\ handle.peer = peer /\ ~silent)
=============================================================================
