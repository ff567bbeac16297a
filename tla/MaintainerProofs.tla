--------------------------- MODULE MaintainerProofs ----------------------------
(***************************************************************************)
(* What Maintainer keeps for every interval, number of misses, timeout,    *)
(* call, link and world.                                                   *)
(***************************************************************************)
EXTENDS Maintainer, TLAPS

USE HeartbeatAssumption

-----------------------------------------------------------------------------
(* Heartbeats                                                              *)

(* Which timer is armed in which state, and what the count of misses says. *)
Armed ==
    /\ state = "CONNECTED" => e2eTimer = Off /\ (enabled <=> beat # Off)
    /\ state = "SWITCHING_PROTOCOL" => beat = Off /\ e2eTimer # Off /\ switched
    /\ state = "DISCONNECTED" => ponged /\ beat = Off /\ e2eTimer = Off
    /\ ponged => missed = 0
    /\ ~ponged => enabled
    /\ missed < MaxMissed

(* How long the timer that is armed has been running. *)
Waited == IF state = "SWITCHING_PROTOCOL" THEN E2EWait - e2eTimer ELSE Interval - beat

(* A heartbeat that is out went out after a quiet interval, and each miss  *)
(* took another.                                                           *)
QuietAtLeast == ~ponged => quiet >= missed * Interval + Interval + Waited

(* And it is quiet no longer than the timers let it be. *)
QuietAtMost ==
    /\ enabled /\ state = "CONNECTED" =>
        quiet + beat <= (IF switched THEN E2EWait ELSE 0)
                        + (IF ponged THEN Interval ELSE missed * Interval + 2 * Interval)
    /\ enabled /\ state = "SWITCHING_PROTOCOL" => quiet + e2eTimer <= Longest

BeatInv == BeatTypeOK /\ Armed /\ QuietAtLeast /\ QuietAtMost

(* What a step may do to a connection. *)
BeatStep ==
    \/ UNCHANGED beatVars
    \/ LinkUp \/ LinkDown
    \/ Received \/ BeatEarly \/ BeatSent \/ BeatMissed
    \/ SwitchStarts \/ SwitchEnds \/ Tick \/ GoesSilent

(* One interval more, as the provers need it spelled out.                  *)
LEMMA TimesNext ==
    ASSUME NEW m \in Nat
    PROVE  /\ m * Interval \in Nat
           /\ (m + 1) * Interval = m * Interval + Interval
  OBVIOUS

(* More intervals take no less time.                                       *)
LEMMA TimesMonotonic ==
    ASSUME NEW m \in Nat, NEW n \in Nat, m <= n
    PROVE  m * Interval <= n * Interval
<1>1. PICK k \in Nat : n = m + k
  OBVIOUS
<1>2. n * Interval = m * Interval + k * Interval /\ k * Interval \in Nat
  BY <1>1
<1>3. m * Interval \in Nat
  OBVIOUS
<1>4. QED
  BY <1>2, <1>3

(* The longest quiet, without the product. *)
LEMMA LongestIs ==
    /\ MaxMissed * Interval \in Nat
    /\ Longest = E2EWait + MaxMissed * Interval + Interval
<1>1. (MaxMissed + 1) * Interval = MaxMissed * Interval + Interval /\ MaxMissed * Interval \in Nat
  BY TimesNext
<1>2. QED
  BY <1>1 DEF Longest

(* The misses counted so far took less than those allowed. *)
LEMMA MissedSoFar ==
    ASSUME BeatTypeOK, Armed
    PROVE  /\ missed * Interval \in Nat
           /\ (missed + 1) * Interval = missed * Interval + Interval
           /\ missed * Interval + Interval <= MaxMissed * Interval
           /\ ponged => missed * Interval = 0
<1>1. missed \in Nat /\ missed + 1 \in Nat /\ missed + 1 <= MaxMissed
  BY DEF BeatTypeOK, Armed
<1>2. missed * Interval \in Nat /\ (missed + 1) * Interval = missed * Interval + Interval
  BY <1>1, TimesNext
<1>3. (missed + 1) * Interval <= MaxMissed * Interval
  BY <1>1, TimesMonotonic
<1>4. ponged => missed * Interval = 0
  BY DEF Armed
<1>5. QED
  BY <1>2, <1>3, <1>4

(* It holds when a connection is fresh, or there is none. *)
LEMMA BeatInitially ==
    BeatInit => BeatInv
<1>1. MaxMissed * Interval \in Nat /\ Longest = E2EWait + MaxMissed * Interval + Interval
  BY LongestIs
<1> SUFFICES ASSUME BeatInit
             PROVE  BeatInv
  OBVIOUS
<1>2. BeatTypeOK /\ Armed
  <2>1. enabled \in BOOLEAN /\ state = "CONNECTED" /\ quiet = 0 /\ e2eTimer = -1 /\ beat = Rearmed /\ ponged /\ missed = 0
    BY DEF BeatInit, Off
  <2>2. beat \in Off..Interval /\ (enabled <=> beat # Off)
    BY <2>1 DEF Rearmed, Off
  <2>3. ponged \in BOOLEAN /\ silent \in BOOLEAN /\ switched \in BOOLEAN
    BY DEF BeatInit
  <2>4. quiet \in 0..Longest + 1
    BY <1>1, <2>1
  <2>5. missed \in 0..MaxMissed /\ missed < MaxMissed
    BY <2>1
  <2>6. e2eTimer \in Off..E2EWait
    BY <2>1 DEF Off
  <2>7. QED
    BY <2>1, <2>2, <2>3, <2>4, <2>5, <2>6 DEF BeatTypeOK, Armed, Off
<1>3. QuietAtLeast /\ QuietAtMost
  BY DEF BeatInit, QuietAtLeast, QuietAtMost, Rearmed, Off
<1>4. QED
  BY <1>2, <1>3 DEF BeatInv

(* And every step keeps it. *)
LEMMA BeatStepKeeps ==
    BeatInv /\ BeatStep => BeatInv'
<1> SUFFICES ASSUME BeatInv, BeatStep
             PROVE  BeatInv'
  OBVIOUS
<1>1. MaxMissed * Interval \in Nat /\ Longest = E2EWait + MaxMissed * Interval + Interval
  BY LongestIs
<1>2. /\ missed * Interval \in Nat
      /\ (missed + 1) * Interval = missed * Interval + Interval
      /\ missed * Interval + Interval <= MaxMissed * Interval
      /\ ponged => missed * Interval = 0
  BY MissedSoFar DEF BeatInv
<1>3. 0 * Interval = 0
  OBVIOUS
<1>4. BeatTypeOK /\ Armed /\ QuietAtLeast /\ QuietAtMost
  BY DEF BeatInv
<1>a. CASE UNCHANGED beatVars
  BY <1>4, <1>a DEF BeatInv, beatVars, BeatTypeOK, Armed, Waited, QuietAtLeast, QuietAtMost
<1>b. CASE LinkUp
  <2>1. BeatTypeOK' /\ Armed'
    <3>1. ponged' \in BOOLEAN /\ silent' \in BOOLEAN /\ switched' \in BOOLEAN /\ enabled' \in BOOLEAN
      BY <1>4, <1>b DEF LinkUp, BeatTypeOK
    <3>2. quiet' \in 0..Longest + 1 /\ missed' \in 0..MaxMissed /\ missed' < MaxMissed
      BY <1>1, <1>4, <1>b DEF LinkUp, BeatTypeOK
    <3>3. /\ beat' \in Off..Interval /\ e2eTimer' \in Off..E2EWait
          /\ state' = "CONNECTED" => e2eTimer' = Off /\ (enabled' <=> beat' # Off)
      BY <1>4, <1>b DEF LinkUp, Rearmed, BeatTypeOK, Armed, Off
    <3>4. state' \in {"CONNECTED", "DISCONNECTED"} /\ missed' = 0
      BY <1>4, <1>b DEF LinkUp, BeatTypeOK, Armed, Off
    <3>5. (state' = "DISCONNECTED" => ponged' /\ beat' = Off /\ e2eTimer' = Off) /\ (~ponged' => enabled')
      BY <1>4, <1>b DEF LinkUp, BeatTypeOK, Armed, Off
    <3>6. QED
      BY <3>1, <3>2, <3>3, <3>4, <3>5 DEF BeatTypeOK, Armed, Off
  <2>2. QuietAtLeast' /\ QuietAtMost'
    BY <1>1, <1>b, <2>1 DEF LinkUp, Rearmed, BeatTypeOK, Armed, Waited, QuietAtLeast, QuietAtMost, Off
  <2>3. QED
    BY <2>1, <2>2 DEF BeatInv
<1>c. CASE LinkDown
  <2>1. BeatTypeOK' /\ Armed'
    <3>1. ponged' \in BOOLEAN /\ silent' \in BOOLEAN /\ switched' \in BOOLEAN /\ enabled' \in BOOLEAN
      BY <1>4, <1>c DEF LinkDown, BeatTypeOK
    <3>2. quiet' \in 0..Longest + 1 /\ missed' \in 0..MaxMissed /\ missed' < MaxMissed
      BY <1>1, <1>4, <1>c DEF LinkDown, BeatTypeOK
    <3>3. /\ beat' \in Off..Interval /\ e2eTimer' \in Off..E2EWait
          /\ state' = "CONNECTED" => e2eTimer' = Off /\ (enabled' <=> beat' # Off)
      BY <1>4, <1>c DEF LinkDown, BeatTypeOK, Armed, Off
    <3>4. state' \in {"CONNECTED", "DISCONNECTED"} /\ missed' = 0
      BY <1>4, <1>c DEF LinkDown, BeatTypeOK, Armed, Off
    <3>5. (state' = "DISCONNECTED" => ponged' /\ beat' = Off /\ e2eTimer' = Off) /\ (~ponged' => enabled')
      BY <1>4, <1>c DEF LinkDown, BeatTypeOK, Armed, Off
    <3>6. QED
      BY <3>1, <3>2, <3>3, <3>4, <3>5 DEF BeatTypeOK, Armed, Off
  <2>2. QuietAtLeast' /\ QuietAtMost'
    BY <1>1, <1>4, <1>c, <2>1 DEF LinkDown, BeatTypeOK, Armed, Waited, QuietAtLeast, QuietAtMost, Off
  <2>3. QED
    BY <2>1, <2>2 DEF BeatInv
<1>d. CASE Received
  BY <1>1, <1>2, <1>3, <1>4, <1>d
     DEF Received, isConnected, BeatInv, BeatTypeOK, Armed, Waited, QuietAtLeast, QuietAtMost, Off
<1>e. CASE BeatEarly
  BY <1>1, <1>2, <1>4, <1>e
     DEF BeatEarly, BeatInv, BeatTypeOK, Armed, Waited, QuietAtLeast, QuietAtMost, Off
<1>f. CASE BeatSent
  <2>1. BeatTypeOK' /\ Armed'
    <3>1. ponged' \in BOOLEAN /\ silent' \in BOOLEAN /\ switched' \in BOOLEAN /\ enabled' \in BOOLEAN
      BY <1>4, <1>f DEF BeatSent, BeatTypeOK
    <3>2. quiet' \in 0..Longest + 1 /\ missed' \in 0..MaxMissed /\ missed' < MaxMissed
      BY <1>1, <1>4, <1>f DEF BeatSent, BeatTypeOK
    <3>3. /\ beat' \in Off..Interval /\ e2eTimer' \in Off..E2EWait
          /\ state' = "CONNECTED" => e2eTimer' = Off /\ (enabled' <=> beat' # Off)
      BY <1>4, <1>f DEF BeatSent, BeatTypeOK, Armed, Off
    <3>4. state' \in {"CONNECTED", "DISCONNECTED"} /\ missed' = 0
      BY <1>4, <1>f DEF BeatSent, BeatTypeOK, Armed, Off
    <3>5. (state' = "DISCONNECTED" => ponged' /\ beat' = Off /\ e2eTimer' = Off) /\ (~ponged' => enabled')
      BY <1>4, <1>f DEF BeatSent, BeatTypeOK, Armed, Off
    <3>6. QED
      BY <3>1, <3>2, <3>3, <3>4, <3>5 DEF BeatTypeOK, Armed, Off
  <2>2. QuietAtLeast' /\ QuietAtMost'
    BY <1>1, <1>2, <1>4, <1>f, <2>1 DEF BeatSent, BeatTypeOK, Armed, Waited, QuietAtLeast, QuietAtMost, Off
  <2>3. QED
    BY <2>1, <2>2 DEF BeatInv
<1>g. CASE BeatMissed
  BY <1>1, <1>2, <1>4, <1>g
     DEF BeatMissed, BeatInv, BeatTypeOK, Armed, Waited, QuietAtLeast, QuietAtMost, Off
<1>h. CASE SwitchStarts
  BY <1>1, <1>2, <1>4, <1>h
     DEF SwitchStarts, BeatInv, BeatTypeOK, Armed, Waited, QuietAtLeast, QuietAtMost, Off
<1>i. CASE SwitchEnds
  BY <1>1, <1>2, <1>4, <1>i
     DEF SwitchEnds, BeatInv, BeatTypeOK, Armed, Waited, QuietAtLeast, QuietAtMost, Rearmed, Off
<1>j. CASE Tick
  BY <1>1, <1>2, <1>4, <1>j
     DEF Tick, Later, BeatInv, BeatTypeOK, Armed, Waited, QuietAtLeast, QuietAtMost, Off
<1>k. CASE GoesSilent
  BY <1>4, <1>k DEF GoesSilent, BeatInv, BeatTypeOK, Armed, Waited, QuietAtLeast, QuietAtMost
<1>5. QED
  BY <1>a, <1>b, <1>c, <1>d, <1>e, <1>f, <1>g, <1>h, <1>i, <1>j, <1>k DEF BeatStep

(* Nothing the rest of the process does is another step of a connection. *)
LEMMA NextIsBeatStep ==
    [Next]_vars => BeatStep
<1> SUFFICES ASSUME [Next]_vars
             PROVE  BeatStep
  OBVIOUS
<1>a. CASE UNCHANGED vars
  BY <1>a DEF vars, BeatStep
<1>b. CASE Connection
  BY <1>b DEF Connection, BeatStep
<1>c. CASE BeatTimer
  BY <1>c DEF BeatTimer, BeatStep
<1>d. CASE Called
  BY <1>d DEF Called, CallSteps, OtherSends, Enter, CallOut, CallRefused, SendFails, Dispatch,
              GuardSettles, MethodSettles, ReplyIn, Abort, TimesOut, BeatStep
<1>e. CASE Fails \/ HeartbeatDrops \/ E2ETimesOut \/ \E c \in Call : CallDrops(c)
  BY <1>e DEF Fails, HeartbeatDrops, E2ETimesOut, CallDrops, Gone, BeatStep
<1>f. CASE \E p \in announcing : Announce(p)
  BY <1>f DEF Announce, BeatStep
<1>g. CASE InboundUp \/ InboundSupersedes
  BY <1>g DEF InboundUp, InboundSupersedes, Registered, Superseded, BeatStep
<1>h. CASE DialUp \/ DialIsDuplicate \/ DialSupersedes \/ DialFails
  BY <1>h DEF DialUp, DialIsDuplicate, DialSupersedes, DialFails, Registered, Superseded, BeatStep
<1>i. CASE RetryFires \/ StableFires \/ HandleFails \/ HandleStops
  BY <1>i DEF RetryFires, StableFires, HandleFails, HandleStops, BeatStep
<1>j. QED
  BY <1>a, <1>b, <1>c, <1>d, <1>e, <1>f, <1>g, <1>h, <1>i DEF Next

(* When heartbeats drop the connection it has been quiet for all the       *)
(* intervals, and it is never quiet longer than the timers let it.         *)
LEMMA BeatInvFindsOut ==
    BeatInv => FoundOut
<1> SUFFICES ASSUME BeatInv
             PROVE  FoundOut
  OBVIOUS
<1>1. MaxMissed * Interval \in Nat /\ Longest = E2EWait + MaxMissed * Interval + Interval
  BY LongestIs
<1>2. /\ missed * Interval \in Nat
      /\ missed * Interval + Interval <= MaxMissed * Interval
      /\ ponged => missed * Interval = 0
  BY MissedSoFar DEF BeatInv
<1>3. ASSUME TooManyMissed
      PROVE  quiet >= (MaxMissed + 1) * Interval
  <2>1. missed + 1 = MaxMissed /\ state = "CONNECTED"
    BY <1>3 DEF TooManyMissed, BeatInv, BeatTypeOK, Armed, Off
  <2>2. (missed + 1) * Interval = missed * Interval + Interval
    BY <2>1, TimesNext DEF BeatInv, BeatTypeOK
  <2>3. (MaxMissed + 1) * Interval = MaxMissed * Interval + Interval
    BY TimesNext
  <2>4. quiet >= missed * Interval + Interval + Interval
    BY <1>3, <2>1 DEF TooManyMissed, BeatInv, QuietAtLeast, Waited
  <2>5. MaxMissed * Interval = missed * Interval + Interval
    BY <2>1, <2>2
  <2>6. quiet \in Nat
    BY DEF BeatInv, BeatTypeOK
  <2>7. QED
    BY <1>2, <2>3, <2>4, <2>5, <2>6
<1>4. ASSUME enabled, isConnected
      PROVE  quiet <= Longest
  BY <1>1, <1>2, <1>4 DEF isConnected, BeatInv, BeatTypeOK, Armed, QuietAtMost, Off
<1>5. QED
  BY <1>3, <1>4 DEF FoundOut

(* Heartbeats find a silent end out in time and blame no other, however    *)
(* long the interval and however many misses are allowed                   *)
(* (AnyProtocol.js: _heartbeat, _received, changeState).                   *)
THEOREM FoundOutHolds ==
    Spec => []FoundOut
<1>1. Init => BeatInv
  BY BeatInitially DEF Init
<1>2. BeatInv /\ [Next]_vars => BeatInv'
  BY BeatStepKeeps, NextIsBeatStep
<1>3. QED
  BY <1>1, <1>2, BeatInvFindsOut, PTL DEF Spec

-----------------------------------------------------------------------------
(* Calls                                                                   *)

UnderWay == {"sent", "guarded", "running", "replied"}

(* A number has the call it was last given to, if it has any; what waits   *)
(* is entered and has its timer; and an answer that is under way finds its *)
(* own call, or none.                                                      *)
Entries ==
    /\ \A n \in 0..MaxSeq : packets[n] # NoCall => number[packets[n]] = n /\ packets[n] \in timers
    /\ \A c \in timers : packets[number[c]] = c
    /\ \A c \in Call :
        /\ calls[c] = "waiting" => c \in timers
        /\ calls[c] = "idle" => c \notin timers /\ far[c] = "none"
        /\ far[c] \in UnderWay => number[c] >= 1 /\ packets[number[c]] \in {c, NoCall}

CallInv == CallTypeOK /\ Entries

(* What a step may do to the calls. *)
CallsStep == UNCHANGED callVars \/ RejectPending \/ CallSteps

(* There is no call at first. *)
LEMMA CallInitially ==
    CallInit => CallInv
BY CallsAssumption DEF CallInit, CallInv, CallTypeOK, Entries, UnderWay

(* A number that is given out is a number, and never 0. *)
LEMMA GetSeqType ==
    ASSUME seq \in 0..MaxSeq
    PROVE  getSeq \in 1..MaxSeq
BY CallsAssumption DEF getSeq

(* A call that leaves the table, and its timer, leaves the others as they  *)
(* were.                                                                   *)
LEMMA SettleKeeps ==
    ASSUME CallInv, NEW n \in 0..MaxSeq, packets[n] # NoCall, NEW how \in {"answered", "failed"},
           Settle(n, how), UNCHANGED <<dropsOnTimeout, seq, number>>,
           far' \in [Call -> {"none", "sent", "guarded", "running", "replied", "arrived", "lost",
                           "unserialised", "queued"}],
           \A c \in Call : far'[c] = far[c] \/ (far'[c] = "arrived" /\ calls[c] # "idle")
    PROVE  CallInv'
<1> DEFINE c == packets[n]
<1>1. c \in Call /\ c \in timers /\ number[c] = n
  BY DEF CallInv, CallTypeOK, Entries
<1>2. CallTypeOK'
  BY <1>1 DEF Settle, Settled, CallInv, CallTypeOK
<1>3. ASSUME NEW m \in 0..MaxSeq, packets'[m] # NoCall
      PROVE  number'[packets'[m]] = m /\ packets'[m] \in timers'
  BY <1>1, <1>3 DEF Settle, CallInv, CallTypeOK, Entries
<1>4. ASSUME NEW d \in timers'
      PROVE  packets'[number'[d]] = d
  BY <1>1, <1>4 DEF Settle, CallInv, CallTypeOK, Entries
<1>5. ASSUME NEW d \in Call
      PROVE  /\ calls'[d] = "waiting" => d \in timers'
             /\ calls'[d] = "idle" => d \notin timers' /\ far'[d] = "none"
             /\ far'[d] \in UnderWay => number'[d] >= 1 /\ packets'[number'[d]] \in {d, NoCall}
  BY <1>1, <1>5 DEF Settle, Settled, CallInv, CallTypeOK, Entries, UnderWay
<1>6. QED
  BY <1>2, <1>3, <1>4, <1>5 DEF CallInv, Entries

(* Every step keeps the entries. *)
LEMMA CallsStepKeeps ==
    CallInv /\ CallsStep => CallInv'
<1> SUFFICES ASSUME CallInv, CallsStep
             PROVE  CallInv'
  OBVIOUS
<1> USE DEF CallInv, CallTypeOK
<1>1. getSeq \in 1..MaxSeq
  BY GetSeqType
<1>a. CASE UNCHANGED callVars
  BY <1>a DEF callVars, Entries
<1>b. CASE RejectPending
  <2>1. ASSUME NEW c \in timers
        PROVE  c \in {packets[n] : n \in 0..MaxSeq}
    BY DEF Entries
  <2>2. timers' = {}
    BY <1>b, <2>1 DEF RejectPending
  <2>3. CallTypeOK'
    <3>1. packets' \in [0..MaxSeq -> Call \cup {NoCall}] /\ seq' \in 0..MaxSeq
      BY <1>b, CallsAssumption DEF RejectPending
    <3>2. calls' \in [Call -> {"idle", "waiting", "answered", "failed"}]
      BY <1>b DEF RejectPending, Settled
    <3>3. far' \in [Call -> {"none", "sent", "guarded", "running", "replied", "arrived", "lost",
                           "unserialised", "queued"}]
      BY <1>b DEF RejectPending
    <3>4. QED
      BY <1>b, <2>2, <3>1, <3>2, <3>3 DEF RejectPending
  <2>4. ASSUME NEW c \in Call
        PROVE  /\ calls'[c] # "waiting"
               /\ calls'[c] = "idle" => far'[c] = "none"
               /\ far'[c] \notin UnderWay
    BY <1>b, <2>1 DEF RejectPending, Settled, Entries, UnderWay
  <2>5. QED
    BY <1>b, <2>2, <2>3, <2>4 DEF RejectPending, Entries
<1>c. CASE OtherSends
  BY <1>1, <1>c DEF OtherSends, Entries
<1>d. ASSUME NEW c \in Call, CallOut(c) \/ SendFails(c)
      PROVE  CallInv'
  <2>0. /\ Enter(c)
        /\ \/ calls' = [calls EXCEPT ![c] = "waiting"]
           \/ calls' = [calls EXCEPT ![c] = "failed"]
        /\ \E next \in {"sent", "queued", "unserialised"} : far' = [far EXCEPT ![c] = next]
    BY <1>d DEF CallOut, SendFails
  <2>1. c \notin timers /\ \A n \in 0..MaxSeq : packets[n] # c
    BY <2>0, CallsAssumption DEF Enter, Entries
  <2>2. \A d \in Call : d \in timers \/ far[d] \in UnderWay => number[d] # getSeq
    BY <2>0 DEF Enter, InUse, UnderWay
  <2>3. packets[getSeq] = NoCall
    BY <1>1, <2>2 DEF Entries
  <2>a. /\ seq' = getSeq /\ number' = [number EXCEPT ![c] = getSeq]
        /\ packets' = [packets EXCEPT ![getSeq] = c] /\ timers' = timers \cup {c}
        /\ UNCHANGED dropsOnTimeout
    BY <2>0 DEF Enter
  <2>4. CallTypeOK'
    BY <1>1, <2>0, <2>a
  <2>5. \A n \in 0..MaxSeq : packets'[n] # NoCall => number'[packets'[n]] = n /\ packets'[n] \in timers'
    BY <1>1, <2>a, <2>1 DEF Entries
  <2>6. \A d \in timers' : packets'[number'[d]] = d
    BY <1>1, <2>a, <2>1, <2>2 DEF Entries
  <2>7. ASSUME NEW d \in Call
        PROVE  /\ calls'[d] = "waiting" => d \in timers'
               /\ calls'[d] = "idle" => d \notin timers' /\ far'[d] = "none"
               /\ far'[d] \in UnderWay => number'[d] >= 1 /\ packets'[number'[d]] \in {d, NoCall}
    BY <1>1, <2>0, <2>a, <2>1, <2>2 DEF Entries, UnderWay
  <2>8. QED
    BY <2>4, <2>5, <2>6, <2>7 DEF Entries
<1>e. ASSUME NEW c \in Call, CallRefused(c)
      PROVE  CallInv'
  <2>1. CallTypeOK'
    BY <1>e DEF CallRefused
  <2>2. UNCHANGED <<packets, timers, number>> /\ calls' = [calls EXCEPT ![c] = "failed"]
    BY <1>e DEF CallRefused
  <2>3. ASSUME NEW d \in Call
        PROVE  /\ calls'[d] = "waiting" => d \in timers
               /\ calls'[d] = "idle" => d \notin timers /\ far'[d] = "none"
               /\ far'[d] \in UnderWay => number[d] >= 1 /\ packets[number[d]] \in {d, NoCall}
    BY <1>e, <2>2 DEF CallRefused, Entries, UnderWay
  <2>4. QED
    BY <2>1, <2>2, <2>3 DEF Entries
<1>f. ASSUME NEW c \in Call, Dispatch(c) \/ GuardSettles(c) \/ MethodSettles(c)
      PROVE  CallInv'
  <2>1. CallTypeOK'
    BY <1>f DEF Dispatch, GuardSettles, MethodSettles
  <2>2. UNCHANGED <<packets, timers, number, calls>>
    BY <1>f DEF Dispatch, GuardSettles, MethodSettles
  <2>3. far[c] \in UnderWay /\ \E next \in UnderWay : far' = [far EXCEPT ![c] = next]
    BY <1>f DEF Dispatch, GuardSettles, MethodSettles, UnderWay
  <2>4. ASSUME NEW d \in Call
        PROVE  /\ calls[d] = "idle" => d \notin timers /\ far'[d] = "none"
               /\ far'[d] \in UnderWay => number[d] >= 1 /\ packets[number[d]] \in {d, NoCall}
    <3>1. CASE d = c
      BY <2>3, <3>1 DEF Entries, UnderWay
    <3>2. CASE d # c
      BY <2>3, <3>2 DEF Entries
    <3>3. QED
      BY <3>1, <3>2
  <2>5. QED
    BY <2>1, <2>2, <2>4 DEF Entries
<1>g. ASSUME NEW c \in Call, ReplyIn(c)
      PROVE  CallInv'
  <2>1. number[c] \in 0..MaxSeq /\ far[c] = "replied" /\ calls[c] # "idle"
    BY <1>g DEF ReplyIn, Entries
  <2>2. /\ far' = [far EXCEPT ![c] = "arrived"]
        /\ UNCHANGED <<dropsOnTimeout, seq, number>>
    BY <1>g DEF ReplyIn
  <2>3. CASE packets[number[c]] # NoCall /\ Settle(number[c], "answered")
    BY <2>1, <2>2, <2>3, SettleKeeps
  <2>4. CASE UNCHANGED <<packets, timers, calls>>
    BY <2>1, <2>2, <2>4 DEF Entries, UnderWay
  <2>5. QED
    BY <1>g, <2>3, <2>4 DEF ReplyIn
<1>h. ASSUME NEW c \in Call, Abort(c) \/ TimesOut(c)
      PROVE  CallInv'
  <2>1. number[c] \in 0..MaxSeq /\ packets[number[c]] = c /\ c # NoCall
    BY <1>h, CallsAssumption DEF Abort, TimesOut, Entries
  <2>2. Settle(number[c], "failed") /\ UNCHANGED <<dropsOnTimeout, seq, number, far>>
    BY <1>h DEF Abort, TimesOut
  <2>3. QED
    BY <2>1, <2>2, SettleKeeps
<1>2. QED
  BY <1>a, <1>b, <1>c, <1>d, <1>e, <1>f, <1>g, <1>h DEF CallsStep, CallSteps

(* Nothing the rest of the process does is another step of the calls. *)
LEMMA NextIsCallsStep ==
    [Next]_vars => CallsStep
<1> SUFFICES ASSUME [Next]_vars
             PROVE  CallsStep
  OBVIOUS
<1>a. CASE UNCHANGED vars
  BY <1>a DEF vars, CallsStep
<1>b. CASE Connection
  BY <1>b DEF Connection, CallsStep
<1>c. CASE BeatTimer
  BY <1>c DEF BeatTimer, CallsStep
<1>d. CASE Called
  BY <1>d DEF Called, CallsStep
<1>e. CASE Fails \/ HeartbeatDrops \/ E2ETimesOut \/ \E c \in Call : CallDrops(c)
  BY <1>e DEF Fails, HeartbeatDrops, E2ETimesOut, CallDrops, Gone, CallsStep
<1>f. CASE \E p \in announcing : Announce(p)
  BY <1>f DEF Announce, CallsStep
<1>g. CASE InboundUp \/ InboundSupersedes
  BY <1>g DEF InboundUp, InboundSupersedes, Superseded, CallsStep
<1>h. CASE DialUp \/ DialIsDuplicate
  BY <1>h DEF DialUp, DialIsDuplicate, CallsStep
<1>i. CASE DialSupersedes
  BY <1>i DEF DialSupersedes, Superseded, CallsStep
<1>j. CASE DialFails
  BY <1>j DEF DialFails, CallsStep
<1>k. CASE RetryFires \/ StableFires \/ HandleStops
  BY <1>k DEF RetryFires, StableFires, HandleStops, CallsStep
<1>l. CASE HandleFails
  BY <1>l DEF HandleFails, CallsStep
<1>m. QED
  BY <1>a, <1>b, <1>c, <1>d, <1>e, <1>f, <1>g, <1>h, <1>i, <1>j, <1>k, <1>l DEF Next

(* A step of the calls is one the contract allows, or none. *)
LEMMA CallsStepAllowed ==
    CallInv /\ CallsStep => [Contract!Next]_(Contract!contractVars)
<1> SUFFICES ASSUME CallInv, CallsStep
             PROVE  Contract!Next \/ UNCHANGED <<calls, Arrived>>
  BY DEF Contract!contractVars
<1>1. CallTypeOK /\ Entries
  BY DEF CallInv
<1>a. CASE UNCHANGED callVars
  BY <1>a DEF callVars, Arrived
<1>b. CASE RejectPending
  <2>1. \A c \in Call : calls[c] = "waiting" => c \in {packets[n] : n \in 0..MaxSeq}
    BY <1>1 DEF Entries, CallTypeOK
  <2>2. calls' = [c \in Call |-> IF calls[c] = "waiting" THEN "failed" ELSE calls[c]]
    BY <1>b, <2>1 DEF RejectPending, Settled
  <2>3. Arrived' = Arrived
    BY <1>b DEF RejectPending, Arrived
  <2>4. Contract!FailAll
    BY <2>2, <2>3 DEF Contract!FailAll
  <2>5. QED
    BY <2>4 DEF Contract!Next
<1>c. CASE OtherSends
  BY <1>c DEF OtherSends, Arrived
<1>d. ASSUME NEW c \in Call, CallOut(c)
      PROVE  Contract!Next
  <2>1. Arrived' = Arrived
    BY <1>1, <1>d DEF Enter, CallOut, Arrived, Entries, CallTypeOK
  <2>2. Contract!Ask(c)
    BY <1>d, <2>1 DEF Enter, CallOut, Contract!Ask
  <2>3. QED
    BY <2>2 DEF Contract!Next
<1>e. ASSUME NEW c \in Call, CallRefused(c) \/ SendFails(c)
      PROVE  Contract!Next
  <2>1. Arrived' = Arrived
    <3>1. CASE CallRefused(c)
      BY <3>1 DEF CallRefused, Arrived
    <3>2. CASE SendFails(c)
      BY <1>1, <3>2 DEF Enter, SendFails, Arrived, Entries, CallTypeOK
    <3>3. QED
      BY <1>e, <3>1, <3>2
  <2>2. Contract!Fail(c)
    BY <1>e, <2>1 DEF Enter, CallRefused, SendFails, Contract!Fail
  <2>3. QED
    BY <2>2 DEF Contract!Next
<1>f. ASSUME NEW c \in Call, Dispatch(c) \/ GuardSettles(c) \/ MethodSettles(c)
      PROVE  UNCHANGED <<calls, Arrived>>
  <2>1. calls' = calls /\ far[c] # "arrived"
        /\ \E next \in UnderWay : far' = [far EXCEPT ![c] = next]
    BY <1>f DEF Dispatch, GuardSettles, MethodSettles, UnderWay
  <2>2. QED
    BY <1>1, <2>1 DEF Arrived, CallTypeOK, UnderWay
<1>g. ASSUME NEW c \in Call, ReplyIn(c)
      PROVE  Contract!Next
  <2>1. number[c] \in 1..MaxSeq /\ calls[c] # "idle" /\ packets[number[c]] \in {c, NoCall}
    BY <1>1, <1>g DEF ReplyIn, Entries, UnderWay, CallTypeOK
  <2>2. c \notin Arrived /\ Arrived' = Arrived \cup {c}
    BY <1>1, <1>g DEF ReplyIn, Arrived, CallTypeOK
  <2>3. calls' = [calls EXCEPT ![c] = IF calls[c] = "waiting" THEN "answered" ELSE calls[c]]
    <3>1. CASE packets[number[c]] = c
      BY <1>g, <2>1, <3>1, CallsAssumption DEF ReplyIn, Settle, Settled
    <3>2. CASE packets[number[c]] = NoCall
      BY <1>1, <1>g, <2>1, <3>2, CallsAssumption DEF ReplyIn, Entries, CallTypeOK
    <3>3. QED
      BY <2>1, <3>1, <3>2
  <2>4. Contract!Arrive(c)
    BY <1>1, <2>1, <2>2, <2>3 DEF Contract!Arrive, CallTypeOK
  <2>5. QED
    BY <2>4 DEF Contract!Next
<1>h. ASSUME NEW c \in Call, Abort(c) \/ TimesOut(c)
      PROVE  Contract!Next \/ UNCHANGED <<calls, Arrived>>
  <2>1. packets[number[c]] = c
    BY <1>1, <1>h DEF Abort, TimesOut, Entries
  <2>2. calls' = [calls EXCEPT ![c] = Settled(c, "failed")] /\ Arrived' = Arrived
    BY <1>h, <2>1 DEF Abort, TimesOut, Settle, Arrived
  <2>3. CASE calls[c] = "waiting"
    BY <2>2, <2>3 DEF Settled, Contract!Fail, Contract!Next
  <2>4. CASE calls[c] # "waiting"
    BY <1>1, <2>2, <2>4 DEF Settled, CallTypeOK
  <2>5. QED
    BY <2>3, <2>4
<1>2. QED
  BY <1>a, <1>b, <1>c, <1>d, <1>e, <1>f, <1>g, <1>h DEF CallsStep, CallSteps

(* Whatever happens to the connection, its timers and the numbers, a call  *)
(* is answered by its own reply or fails, once (AnyPeer.js: _sendInner,    *)
(* _resolveReply, _rejectPending): the safety part of CallsKeepContract.   *)
THEOREM CallsRefineContract ==
    Spec => Contract!Init /\ [][Contract!Next]_(Contract!contractVars)
<1>1. Init => CallInv
  BY CallInitially DEF Init
<1>2. CallInv /\ [Next]_vars => CallInv'
  BY CallsStepKeeps, NextIsCallsStep
<1>3. CallInv /\ [Next]_vars => [Contract!Next]_(Contract!contractVars)
  BY CallsStepAllowed, NextIsCallsStep
<1>4. Init => Contract!Init
  BY DEF Init, CallInit, Arrived, Contract!Init
<1>5. QED
  BY <1>1, <1>2, <1>3, <1>4, PTL DEF Spec

-----------------------------------------------------------------------------
(* The handle                                                              *)

(* The state of the handle and of the registry is what it is said to be.   *)
KeepTypeOK ==
    /\ world \in Worlds
    /\ failed \in 0..world.failures
    /\ links \in 0..MaxLinks /\ peer \in 0..links
    /\ announcing \subseteq 1..links
    /\ handle \in Handle
    /\ peer = 0 <=> ~isConnected

KeepInv == KeepTypeOK /\ KeepsTrying

(* A handle that is active is not left waiting for nothing, with p         *)
(* registered.                                                             *)
Trying(h, p) == h.active => h.dialing \/ h.retry \/ (h.peer # 0 /\ h.peer = p)

(* Adopting a peer, stopping and scheduling leave a handle that tries.     *)
LEMMA AdoptTries ==
    ASSUME NEW h \in Handle, NEW p \in 0..MaxLinks
    PROVE  /\ adopt(h, p) \in Handle
           /\ p # 0 => Trying(adopt(h, p), p)
BY DEF adopt, Handle, Trying

(* Scheduling arms the timer, or gives up.                                 *)
LEMMA ScheduleTries ==
    ASSUME NEW h \in Handle, NEW g \in schedule(h), NEW p \in 0..MaxLinks
    PROVE  g \in Handle /\ Trying(g, p)
<1>1. stop(h) \in Handle /\ ~stop(h).active
  BY DEF stop, Handle
<1>2. CASE ~h.active \/ h.retry
  BY <1>2 DEF schedule, Trying
<1>3. CASE g = stop(h)
  BY <1>1, <1>3 DEF Trying
<1>4. CASE g = [h EXCEPT !.failing = TRUE, !.retry = TRUE, !.attempt = IF @ < MaxAttempt THEN @ + 1 ELSE @]
  <2>1. (IF h.attempt < MaxAttempt THEN h.attempt + 1 ELSE h.attempt) \in 0..MaxAttempt
    BY MaintainerAssumption DEF Handle
  <2>2. g \in Handle
    BY <1>4, <2>1 DEF Handle
  <2>3. g.retry
    BY <1>4 DEF Handle
  <2>4. QED
    BY <2>2, <2>3 DEF Trying
<1>5. QED
  BY <1>2, <1>3, <1>4 DEF schedule

(* So does what the handle makes of a peer that goes, *)
LEMMA LostTries ==
    ASSUME NEW h \in Handle, NEW p \in 0..MaxLinks, Trying(h, p),
           NEW g \in onDisconnected(h, p), NEW q \in 0..MaxLinks
    PROVE  g \in Handle /\ Trying(g, q)
<1>1. CASE h.active /\ h.peer = p
  <2>1. [h EXCEPT !.peer = 0, !.stable = FALSE] \in Handle
    <3>1. 0 \in 0..MaxLinks
      BY MaintainerAssumption
    <3>2. QED
      BY <3>1 DEF Handle
  <2>2. QED
    BY <1>1, <2>1, ScheduleTries DEF onDisconnected
<1>2. CASE ~(h.active /\ h.peer = p)
  BY <1>2 DEF onDisconnected, Trying
<1>3. QED
  BY <1>1, <1>2

(* of one that is announced, and of a dial that resolves with it.          *)
LEMMA FoundTries ==
    ASSUME NEW h \in Handle, NEW p \in 1..MaxLinks
    PROVE  /\ Trying(h, p) => onConnected(h, p) \in Handle /\ Trying(onConnected(h, p), p)
           /\ resolved(h, p) \in Handle /\ Trying(resolved(h, p), p)
<1>1. [h EXCEPT !.dialing = FALSE] \in Handle /\ ([h EXCEPT !.dialing = FALSE]).active = h.active
  BY DEF Handle
<1>2. p \in 0..MaxLinks /\ p # 0
  BY MaintainerAssumption
<1>3. adopt(h, p) \in Handle /\ Trying(adopt(h, p), p)
  BY <1>2, AdoptTries
<1>4. resolved(h, p) \in Handle /\ Trying(resolved(h, p), p)
  BY <1>1, <1>2, AdoptTries DEF resolved, Trying
<1>5. QED
  BY <1>3, <1>4 DEF onConnected

(* maintain() dials at once. *)
LEMMA KeepInitially ==
    Init => KeepInv
<1> SUFFICES ASSUME Init
             PROVE  KeepInv
  OBVIOUS
<1>1. world \in Worlds /\ 0 \in 0..world.failures
  BY MaintainerAssumption DEF Init, World
<1>2. links \in 0..MaxLinks /\ peer \in 0..links /\ announcing \subseteq 1..links /\ peer # 0 /\ isConnected
  BY MaintainerAssumption DEF Init, BeatInit, isConnected
<1>3. world.maintained \in BOOLEAN /\ 0 \in 0..MaxLinks /\ 0 \in 0..MaxAttempt
  BY MaintainerAssumption DEF Init, World
<1>4. handle \in Handle /\ (handle.active => handle.dialing)
  BY <1>3 DEF Init, Handle
<1>5. failed \in 0..world.failures
  BY <1>1 DEF Init
<1>6. QED
  BY <1>1, <1>2, <1>4, <1>5 DEF KeepInv, KeepTypeOK, KeepsTrying

(* A failure is counted, and only as many as there may be. *)
LEMMA MayFailType ==
    ASSUME KeepTypeOK, MayFail \/ UNCHANGED failed, UNCHANGED world
    PROVE  failed' \in 0..world'.failures
<1>1. world.failures \in Nat
  BY MaintainerAssumption DEF KeepTypeOK, World
<1>2. QED
  BY <1>1 DEF KeepTypeOK, MayFail

(* A connection that goes, for whatever reason. *)
LEMMA GoneKeeps ==
    ASSUME KeepInv, LinkDown, peer' = 0,
           NEW h \in Handle, Trying(h, peer), handle' \in onDisconnected(h, peer),
           MayFail \/ UNCHANGED failed, UNCHANGED <<world, links, announcing>>
    PROVE  KeepInv'
<1>1. peer \in 0..MaxLinks /\ 0 \in 0..MaxLinks
  BY MaintainerAssumption DEF KeepInv, KeepTypeOK
<1>2. handle' \in Handle /\ Trying(handle', 0)
  BY <1>1, LostTries
<1>3. failed' \in 0..world'.failures
  BY MayFailType DEF KeepInv
<1>4. ~isConnected'
  BY DEF LinkDown, isConnected
<1>5. KeepTypeOK'
  BY <1>2, <1>3, <1>4 DEF KeepInv, KeepTypeOK
<1>6. QED
  BY <1>2, <1>5 DEF KeepInv, KeepsTrying, Trying

(* A connection that takes its place. *)
LEMMA UpKeeps ==
    ASSUME KeepInv, links < MaxLinks, links' = links + 1, peer' = links + 1,
           announcing' = announcing \cup {links + 1}, LinkUp,
           handle' \in Handle, Trying(handle', links + 1),
           MayFail \/ UNCHANGED failed, UNCHANGED world
    PROVE  KeepInv'
<1>1. failed' \in 0..world'.failures
  BY MayFailType DEF KeepInv
<1>2. isConnected' /\ peer' # 0
  BY DEF LinkUp, isConnected, KeepInv, KeepTypeOK
<1>3. links' \in 0..MaxLinks /\ peer' \in 0..links' /\ announcing' \subseteq 1..links'
  BY MaintainerAssumption DEF KeepInv, KeepTypeOK
<1>4. KeepTypeOK'
  BY <1>1, <1>2, <1>3 DEF KeepInv, KeepTypeOK
<1>5. QED
  BY <1>4 DEF KeepInv, KeepsTrying, Trying

(* What leaves the connection and the registry alone. *)
LEMMA SameLinkKeeps ==
    ASSUME KeepInv, isConnected' = isConnected, UNCHANGED <<world, links, peer>>,
           announcing' \subseteq announcing,
           handle' \in Handle, Trying(handle', peer),
           MayFail \/ UNCHANGED failed
    PROVE  KeepInv'
<1>1. failed' \in 0..world'.failures
  BY MayFailType DEF KeepInv
<1>2. KeepTypeOK'
  BY <1>1 DEF KeepInv, KeepTypeOK
<1>3. QED
  BY <1>2 DEF KeepInv, KeepsTrying, Trying

(* Every step keeps a handle that tries. *)
LEMMA KeepNext ==
    KeepInv /\ [Next]_vars => KeepInv'
<1> SUFFICES ASSUME KeepInv, [Next]_vars
             PROVE  KeepInv'
  OBVIOUS
<1>1. handle \in Handle /\ Trying(handle, peer) /\ peer \in 0..MaxLinks /\ links \in Nat
  BY MaintainerAssumption DEF KeepInv, KeepTypeOK, KeepsTrying, Trying
<1>2. links < MaxLinks => links + 1 \in 1..MaxLinks
  BY <1>1, MaintainerAssumption
<1>a. CASE UNCHANGED vars
  BY <1>a DEF vars, keepVars, beatVars, KeepInv, KeepTypeOK, KeepsTrying, isConnected
<1>b. CASE Connection
  <2>1. isConnected' = isConnected
    BY <1>b DEF Connection, Received, SwitchStarts, SwitchEnds, Tick, GoesSilent, isConnected
  <2>2. (MayFail \/ UNCHANGED failed) /\ UNCHANGED <<world, links, peer, announcing, handle>>
    BY <1>b DEF Connection, keepVars
  <2>3. QED
    BY <1>1, <2>1, <2>2, SameLinkKeeps
<1>c. CASE BeatTimer
  <2>1. isConnected' = isConnected
    BY <1>c DEF BeatTimer, BeatEarly, BeatSent, BeatMissed, isConnected
  <2>2. UNCHANGED keepVars
    BY <1>c DEF BeatTimer
  <2>3. QED
    BY <1>1, <2>1, <2>2, SameLinkKeeps DEF keepVars
<1>d. CASE Called
  <2>1. isConnected' = isConnected
    BY <1>d DEF Called, CallSteps, OtherSends, Enter, CallOut, CallRefused, SendFails, Dispatch,
                GuardSettles, MethodSettles, ReplyIn, Received, Abort, TimesOut, beatVars, isConnected
  <2>2. UNCHANGED keepVars
    BY <1>d DEF Called
  <2>3. QED
    BY <1>1, <2>1, <2>2, SameLinkKeeps DEF keepVars
<1>e. CASE Fails \/ HeartbeatDrops \/ E2ETimesOut \/ \E c \in Call : CallDrops(c)
  <2>1. Gone /\ (MayFail \/ UNCHANGED failed)
    BY <1>e DEF Fails, HeartbeatDrops, E2ETimesOut, CallDrops
  <2>2. QED
    BY <1>1, <2>1, GoneKeeps DEF Gone
<1>f. ASSUME NEW p \in announcing, Announce(p)
      PROVE  KeepInv'
  <2>1. p \in 1..MaxLinks
    BY MaintainerAssumption DEF KeepInv, KeepTypeOK
  <2>2. handle' \in Handle /\ Trying(handle', peer)
    BY <1>1, <1>f, <2>1, FoundTries DEF Announce
  <2>3. QED
    BY <1>f, <2>2, SameLinkKeeps DEF Announce, beatVars, isConnected
<1>g. CASE InboundUp
  <2>1. Trying(handle, links + 1)
    BY <1>1, <1>g DEF InboundUp, Registered, Trying
  <2>2. QED
    BY <1>1, <1>g, <2>1, UpKeeps DEF InboundUp, Registered
<1>h. CASE InboundSupersedes
  <2>1. links < MaxLinks /\ handle' \in onDisconnected(handle, peer)
    BY <1>h DEF InboundSupersedes, Superseded
  <2>2. links + 1 \in 0..MaxLinks
    BY <1>2, <2>1
  <2>3. handle' \in Handle /\ Trying(handle', links + 1)
    BY <1>1, <2>1, <2>2, LostTries
  <2>4. QED
    BY <1>h, <2>3, UpKeeps DEF InboundSupersedes, Superseded
<1>i. CASE DialUp
  <2>1. handle' \in Handle /\ Trying(handle', links + 1)
    BY <1>1, <1>2, <1>i, FoundTries DEF DialUp, Registered
  <2>2. QED
    BY <1>i, <2>1, UpKeeps DEF DialUp, Registered
<1>j. CASE DialIsDuplicate
  <2>1. handle' \in Handle /\ Trying(handle', peer)
    BY <1>1, <1>j, FoundTries DEF DialIsDuplicate
  <2>2. QED
    BY <1>j, <2>1, SameLinkKeeps DEF DialIsDuplicate, beatVars, isConnected
<1>k. CASE DialSupersedes
  <2>1. PICK h \in onDisconnected(handle, peer) : handle' = resolved(h, links + 1)
    BY <1>k DEF DialSupersedes
  <2>2. h \in Handle
    BY <1>1, <2>1, LostTries
  <2>3. handle' \in Handle /\ Trying(handle', links + 1)
    BY <1>2, <1>k, <2>1, <2>2, FoundTries DEF DialSupersedes, Superseded
  <2>4. QED
    BY <1>k, <2>3, UpKeeps DEF DialSupersedes, Superseded
<1>l. CASE DialFails
  <2> DEFINE h == [handle EXCEPT !.dialing = FALSE]
  <2>1. h \in Handle
    BY <1>1 DEF Handle
  <2>2. handle' \in Handle /\ Trying(handle', peer)
    <3>1. CASE ~h.active /\ handle' = h
      BY <2>1, <3>1 DEF Trying
    <3>2. CASE peer # 0 /\ handle' = adopt(h, peer)
      BY <1>1, <2>1, <3>2, AdoptTries
    <3>3. CASE handle' \in schedule(h)
      BY <1>1, <2>1, <3>3, ScheduleTries
    <3>4. QED
      BY <1>l, <3>1, <3>2, <3>3 DEF DialFails
  <2>3. QED
    BY <1>l, <2>2, SameLinkKeeps DEF DialFails, beatVars, isConnected
<1>m. CASE RetryFires
  <2> DEFINE h == [handle EXCEPT !.retry = FALSE]
  <2>1. h \in Handle /\ h.dialing = handle.dialing
    BY <1>1 DEF Handle
  <2>2. handle' \in Handle /\ Trying(handle', peer)
    <3>1. CASE h.dialing /\ handle' = h
      BY <2>1, <3>1 DEF Trying
    <3>2. CASE peer # 0 /\ handle' = adopt(h, peer)
      BY <1>1, <2>1, <3>2, AdoptTries
    <3>3. CASE handle' = [h EXCEPT !.dialing = TRUE]
      BY <2>1, <3>3 DEF Handle, Trying
    <3>4. QED
      BY <1>m, <3>1, <3>2, <3>3 DEF RetryFires
  <2>3. QED
    BY <1>m, <2>2, SameLinkKeeps DEF RetryFires, beatVars, isConnected
<1>n. CASE StableFires
  <2>1. handle' \in Handle /\ Trying(handle', peer)
    <3>1. 0 \in 0..MaxAttempt
      BY MaintainerAssumption
    <3>2. QED
      BY <1>1, <1>n, <3>1 DEF StableFires, Handle, Trying
  <2>2. QED
    BY <1>n, <2>1, SameLinkKeeps DEF StableFires, beatVars, isConnected
<1>o. CASE HandleFails
  <2> DEFINE h == [handle EXCEPT !.stable = FALSE]
  <2>1. h \in Handle /\ Trying(h, peer)
    BY <1>1 DEF Handle, Trying
  <2>2. CASE handle.peer # 0
    BY <1>o, <2>1, <2>2, GoneKeeps DEF HandleFails
  <2>3. CASE handle.peer = 0
    <3>1. handle' \in Handle /\ Trying(handle', peer)
      BY <1>1, <1>o, <2>1, <2>3, ScheduleTries DEF HandleFails
    <3>2. QED
      BY <1>o, <2>3, <3>1, SameLinkKeeps DEF HandleFails, beatVars, isConnected
  <2>4. QED
    BY <2>2, <2>3
<1>p. CASE HandleStops
  <2>1. handle' \in Handle /\ Trying(handle', peer)
    BY <1>1, <1>p DEF HandleStops, stop, Handle, Trying
  <2>2. QED
    BY <1>p, <2>1, SameLinkKeeps DEF HandleStops, beatVars, isConnected
<1>3. QED
  BY <1>a, <1>b, <1>c, <1>d, <1>e, <1>f, <1>g, <1>h, <1>i, <1>j, <1>k, <1>l, <1>m, <1>n, <1>o, <1>p
     DEF Next

(* Whatever fails and in whatever order, a handle that has not stopped     *)
(* holds the peer that is registered, dials, or will (Maintainer.js).      *)
THEOREM KeepsTryingHolds ==
    Spec => []KeepsTrying
<1>1. KeepInv => KeepsTrying
  BY DEF KeepInv
<1>2. QED
  BY <1>1, KeepInitially, KeepNext, PTL DEF Spec

(* The state is what it is said to be, for every value of the constants.   *)
THEOREM TypeCorrect ==
    Spec => []TypeOK
<1>1. Init => BeatInv /\ CallInv /\ KeepInv
  BY BeatInitially, CallInitially, KeepInitially DEF Init
<1>2. BeatInv /\ CallInv /\ KeepInv /\ [Next]_vars => (BeatInv /\ CallInv /\ KeepInv)'
  BY BeatStepKeeps, NextIsBeatStep, CallsStepKeeps, NextIsCallsStep, KeepNext
<1>3. BeatInv /\ CallInv /\ KeepInv => TypeOK
  BY DEF BeatInv, CallInv, KeepInv, KeepTypeOK, TypeOK
<1>4. QED
  BY <1>1, <1>2, <1>3, PTL DEF Spec
=============================================================================
