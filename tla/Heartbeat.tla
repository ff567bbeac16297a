------------------------------- MODULE Heartbeat -------------------------------
(***************************************************************************)
(* Is the other end still there (libs/AnyProtocol.js: _received,           *)
(* _heartbeat, _heartbeatPong and what changeState does to the timers).    *)
(*                                                                         *)
(* Time passes in ticks.  A timer that is due goes off before the next     *)
(* one.  Anything received only notes the time and resets the count: the   *)
(* heartbeat timer is left as it was, and waits out the rest of the        *)
(* interval when it goes off early.  While encryption is switched on it is *)
(* off, and e2eTimeout bounds that.                                        *)
(***************************************************************************)
EXTENDS Integers

CONSTANTS
    Interval,   \* heartbeatInterval, in ticks
    MaxMissed,  \* heartbeatsMaxMissed
    E2EWait     \* e2eTimeout, in ticks

ASSUME HeartbeatAssumption ==
    /\ Interval \in Nat \ {0}
    /\ MaxMissed \in Nat \ {0}
    /\ E2EWait \in Nat \ {0}

Off == -1       \* a timer that is not armed

VARIABLES
    enabled,    \* heartbeatEnabled
    state,      \* of the connection, past its handshake
    quiet,      \* ticks since anything was received
    beat,       \* ticks to go on the heartbeat timer
    e2eTimer,   \* and on that of e2eTimeout
    ponged,     \* heartbeatPonged
    missed,     \* heartbeatsMissed
    silent,     \* has the other end gone without closing?
    switched    \* has encryption been switched on, or begun to be?

beatVars == <<enabled, state, quiet, beat, e2eTimer, ponged, missed, silent, switched>>

(* The longest a connection can be quiet: a switch that began when it was  *)
(* last heard, then an interval to the first heartbeat and one for each    *)
(* miss.  Beyond it quiet is not counted.                                  *)
Longest == E2EWait + (MaxMissed + 1) * Interval
Later(n) == IF n > Longest THEN n ELSE n + 1

BeatTypeOK ==
    /\ enabled \in BOOLEAN
    /\ state \in {"CONNECTED", "SWITCHING_PROTOCOL", "DISCONNECTED"}
    /\ quiet \in 0..Longest + 1
    /\ beat \in Off..Interval
    /\ e2eTimer \in Off..E2EWait
    /\ ponged \in BOOLEAN /\ missed \in 0..MaxMissed
    /\ silent \in BOOLEAN /\ switched \in BOOLEAN

(* As changeState(CONNECTED) calls it. *)
Rearmed == IF enabled THEN Interval ELSE Off

BeatInit ==
    /\ enabled \in BOOLEAN
    /\ state = "CONNECTED"
    /\ quiet = 0 /\ beat = Rearmed /\ e2eTimer = Off
    /\ ponged = TRUE /\ missed = 0
    /\ silent = FALSE /\ switched = FALSE

isConnected == state # "DISCONNECTED"

-----------------------------------------------------------------------------
(* A connection takes the place of one that closed. *)
LinkUp ==
    /\ state' = "CONNECTED"
    /\ quiet' = 0 /\ beat' = Rearmed /\ e2eTimer' = Off
    /\ ponged' = TRUE /\ missed' = 0
    /\ silent' = FALSE /\ switched' = FALSE
    /\ UNCHANGED enabled

(* disconnect(): every timer is off, and nothing is counted any more. *)
LinkDown ==
    /\ state' = "DISCONNECTED"
    /\ beat' = Off /\ e2eTimer' = Off
    /\ quiet' = 0 /\ ponged' = TRUE /\ missed' = 0
    /\ silent' = FALSE /\ switched' = FALSE
    /\ UNCHANGED enabled

(* Mutant: what is received does not reset the misses. *)
ReceivedOnly ==
    /\ isConnected /\ ~silent
    /\ quiet' = 0
    /\ UNCHANGED <<enabled, state, beat, e2eTimer, ponged, missed, silent, switched>>

(* Anything at all from the other end. *)
Received ==
    /\ isConnected /\ ~silent
    /\ quiet' = 0
    /\ ponged' = TRUE
    /\ missed' = 0
    /\ UNCHANGED <<enabled, state, beat, e2eTimer, silent, switched>>

(* The timer goes off early: something came since it was armed. *)
BeatEarly ==
    /\ beat = 0
    /\ quiet < Interval
    /\ beat' = Interval - quiet
    /\ UNCHANGED <<enabled, state, quiet, e2eTimer, ponged, missed, silent, switched>>

(* Mutant: only an answer arms the timer again. *)
BeatSentOnce ==
    /\ beat = 0
    /\ quiet >= Interval /\ ponged
    /\ ponged' = FALSE
    /\ missed' = 0
    /\ beat' = Off
    /\ UNCHANGED <<enabled, state, quiet, e2eTimer, silent, switched>>

(* A heartbeat goes out, and the timer is armed to count its miss. *)
BeatSent ==
    /\ beat = 0
    /\ quiet >= Interval /\ ponged
    /\ ponged' = FALSE
    /\ missed' = 0
    /\ beat' = Interval
    /\ UNCHANGED <<enabled, state, quiet, e2eTimer, silent, switched>>

(* Mutant: the misses have no limit. *)
BeatMissedOn ==
    /\ beat = 0
    /\ quiet >= Interval /\ ~ponged
    /\ missed' = missed + 1
    /\ beat' = Interval
    /\ UNCHANGED <<enabled, state, quiet, e2eTimer, ponged, silent, switched>>

(* One went unanswered: another goes out, *)
BeatMissed ==
    /\ beat = 0
    /\ quiet >= Interval /\ ~ponged
    /\ missed + 1 < MaxMissed
    /\ missed' = missed + 1
    /\ beat' = Interval
    /\ UNCHANGED <<enabled, state, quiet, e2eTimer, ponged, silent, switched>>

(* or it was one too many. *)
TooManyMissed == beat = 0 /\ quiet >= Interval /\ ~ponged /\ missed + 1 >= MaxMissed

(* Encryption is switched on, by either end: the timer is off until the    *)
(* other's offer has come.                                                 *)
SwitchStarts ==
    /\ state = "CONNECTED" /\ ~switched
    /\ state' = "SWITCHING_PROTOCOL"
    /\ switched' = TRUE
    /\ beat' = Off
    /\ e2eTimer' = E2EWait
    /\ UNCHANGED <<enabled, quiet, ponged, missed, silent>>

SwitchEnds ==
    /\ state = "SWITCHING_PROTOCOL"
    /\ quiet <= E2EWait - e2eTimer
    /\ state' = "CONNECTED"
    /\ e2eTimer' = Off
    /\ beat' = Rearmed
    /\ UNCHANGED <<enabled, quiet, ponged, missed, silent, switched>>

(* Time passes where a timer counts it.  The other end answers a heartbeat *)
(* within an interval, unless it is gone.                                  *)
Tick ==
    /\ beat # Off \/ e2eTimer # Off
    /\ beat # 0 /\ e2eTimer # 0
    /\ silent \/ quiet + 1 < 2 * Interval
    /\ quiet' = Later(quiet)
    /\ beat' = IF beat = Off THEN Off ELSE beat - 1
    /\ e2eTimer' = IF e2eTimer = Off THEN Off ELSE e2eTimer - 1
    /\ UNCHANGED <<enabled, state, ponged, missed, silent, switched>>

GoesSilent ==
    /\ isConnected /\ ~silent
    /\ silent' = TRUE
    /\ UNCHANGED <<enabled, state, quiet, beat, e2eTimer, ponged, missed, switched>>

Beats == Received \/ BeatEarly \/ BeatSent \/ BeatMissed \/ SwitchStarts \/ SwitchEnds

-----------------------------------------------------------------------------
(* A silent end is found out, and no other: heartbeats drop the connection *)
(* only after as many intervals without a word as the misses allowed and   *)
(* one, whenever they and what is received fall; and a connection that is  *)
(* up has not been quiet for longer.                                       *)
FoundOut ==
    /\ TooManyMissed => quiet >= (MaxMissed + 1) * Interval
    /\ enabled /\ isConnected => quiet <= Longest
=============================================================================
