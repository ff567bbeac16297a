---------------------------- MODULE E2ESwitchProofs ----------------------------
(***************************************************************************)
(* What the switch keeps at both ends, for all messages, windows, lists of *)
(* suites, and whatever fails.                                             *)
(*                                                                         *)
(* What an end does with its way out is a step of SendPath, so that what   *)
(* SendPathProofs shows of a wire holds of both.  The rest is about what   *)
(* the reader of a wire has made of what is on it: it is before, at or     *)
(* after the writer's offer exactly as its own session says.               *)
(***************************************************************************)
EXTENDS E2ESwitch, SendPathProofs, SuitesProofs

(* There are two ends: each has the other, and nobody else. *)
LEMMA BothEnds ==
    ASSUME NEW e \in End
    PROVE  /\ Peer(e) \in End /\ Peer(e) # e /\ Peer(Peer(e)) = e
           /\ \A x \in End : x = e \/ x = Peer(e)
<1>1. PICK x \in End, y \in End : x # y /\ End = {x, y}
    BY E2ESwitchAssumption
<1>2. Peer(x) = y /\ Peer(y) = x
    BY <1>1 DEF Peer
<1> QED
    BY <1>1, <1>2

(* Each has an offer. *)
LEMMA OfferOf ==
    ASSUME NEW e \in End
    PROVE  /\ Offer(e) \in Offers(e) /\ Offer(e) \in Msg
           /\ Sender[Offer(e)] = e /\ Kind[Offer(e)] = "switch"
<1>1. \E m : m \in Offers(e)
    BY SendPathAssumption DEF Offers
<1>2. Offer(e) \in Offers(e)
    BY <1>1 DEF Offer
<1> QED
    BY <1>2 DEF Offers

-----------------------------------------------------------------------------
(* The way out of both ends is SendPath                                    *)

(* Hanging up is a disconnection, or nothing. *)
LEMMA HangupIs ==
    ASSUME NEW e \in End, Hangup(e)
    PROVE  Disconnect(e) \/ UNCHANGED sendVars
BY DEF Hangup, Disconnect, sendVars

(* Each step is one of SendPath, or leaves its variables alone. *)
LEMMA IsSendStep == SendTypeOK /\ [Next]_vars => [SendNext]_sendVars
<1> SUFFICES ASSUME SendTypeOK, [Next]_vars
             PROVE  [SendNext]_sendVars
    OBVIOUS
<1>1. ASSUME NEW m \in Msg, Send(m) \/ StreamGoesOn(m)
      PROVE  SendNext
    BY <1>1 DEF Send, StreamGoesOn, SendNext, SendStep
<1>2. ASSUME NEW e \in End, CallE2E(e)
      PROVE  UNCHANGED sendVars
    BY <1>2 DEF CallE2E
<1>3. ASSUME NEW e \in End, OfferMade(e)
      PROVE  [SendNext]_sendVars
  <2> DEFINE m == Offer(e)
  <2>1. m \in Offers(e) /\ m \in Msg /\ Sender[m] = e
      BY OfferOf
  <2>2. CASE isConnected(e) /\ status[m] = "unsent"
    <3>1. OfferOut(e, m)
        BY <1>3, <2>2 DEF OfferMade
    <3> QED
        BY <2>1, <3>1 DEF SendNext
  <2>3. CASE ~(isConnected(e) /\ status[m] = "unsent")
    <3>1. /\ status' = [status EXCEPT ![m] = IF @ = "unsent" THEN "rejected" ELSE @]
          /\ UNCHANGED <<state, ready, linkQueue, out, stream>>
        BY <1>3, <2>3 DEF OfferMade
    <3>2. CASE status[m] = "unsent"
      <4>1. SendWhenGone(m)
          BY <2>1, <2>3, <3>1, <3>2 DEF SendWhenGone
      <4> QED
          BY <2>1, <4>1 DEF SendNext, SendStep
    <3>3. CASE status[m] # "unsent"
      <4>1. status' = status
          BY <3>1, <3>3 DEF SendTypeOK
      <4> QED
          BY <3>1, <4>1 DEF sendVars
    <3> QED
        BY <3>2, <3>3
  <2> QED
      BY <2>2, <2>3
<1>4. ASSUME NEW e \in End, Handle(e)
      PROVE  Hangup(e) \/ UNCHANGED sendVars
    BY <1>4 DEF Handle, Receive, ReceiveOffer, Refuse
<1>5. ASSUME NEW e \in End, Accept(e)
      PROVE  Hangup(e) \/ SessionUp(e) \/ UNCHANGED sendVars
    BY <1>5 DEF Accept, OfferFailed, AcceptGoesOn, Derived, DeriveFails
<1>6. ASSUME NEW e \in End, Written(e) \/ E2ETimesOut(e) \/ LinkCloses(e)
      PROVE  WriteDone(e) \/ WriteFails(e) \/ Hangup(e)
    BY <1>6 DEF Written, E2ETimesOut, LinkCloses
<1>7. ASSUME NEW e \in End, Hangup(e) \/ SessionUp(e) \/ WriteDone(e) \/ WriteFails(e)
      PROVE  [SendNext]_sendVars
    BY <1>7, HangupIs DEF SendNext
<1>8. CASE UNCHANGED vars
    BY <1>8 DEF vars
<1> QED
    BY <1>1, <1>2, <1>3, <1>4, <1>5, <1>6, <1>7, <1>8 DEF Next

(* SendInv holds of the two ends together, *)
THEOREM WayOutKeepsInv == Spec => []SendInv
<1>1. Init => SendInv
    BY InitHolds DEF Init
<1>2. SendInv /\ [Next]_vars => SendInv'
  <2>1. SendInv => SendTypeOK
      BY DEF SendInv
  <2> QED
      BY <2>1, IsSendStep, NextKeepsInv
<1> QED
    BY <1>1, <1>2, PTL DEF Spec

(* What the ends of E2ESwitch write is what SendPath allows: E2ESwitch     *)
(* implements it, with no failure of its own but those it has.             *)
THEOREM ImplementsSendPath == Spec => SendSpec
<1>1. Init => SendInit
    BY DEF Init
<1>2. SendInv => SendTypeOK
    BY DEF SendInv
<1> QED
    BY <1>1, <1>2, IsSendStep, WayOutKeepsInv, PTL DEF Spec, SendSpec

-----------------------------------------------------------------------------
(* What a step does to a wire and to a send()                              *)

(* w is the beginning of v. *)
Begins(w, v) ==
    /\ Len(w) <= Len(v)
    /\ \A i \in 1..Len(w) : v[i] = w[i]

(* A beginning of a beginning. *)
LEMMA BeginsOn ==
    ASSUME NEW u \in Seq(Frame), NEW v \in Seq(Frame), NEW w \in Seq(Frame), Begins(u, v), Begins(v, w)
    PROVE  Begins(u, w)
<1>1. Len(u) \in Nat /\ Len(v) \in Nat /\ Len(w) \in Nat
    OBVIOUS
<1>2. Len(u) <= Len(v) /\ Len(v) <= Len(w)
    BY DEF Begins
<1>3. \A i \in 1..Len(u) : i \in 1..Len(v)
    BY <1>1, <1>2
<1> QED
    BY <1>1, <1>2, <1>3 DEF Begins

(* A wire is only written on. *)
LEMMA WritesOn ==
    ASSUME NEW p \in Path, NEW q \in Path, NEW switching, NEW sealing, Writes(p, q, switching, sealing)
    PROVE  Begins(p.wire, q.wire)
<1>1. p.wire \in Seq(Frame)
    BY DEF Path
<1>2. CASE q.wire = p.wire
    BY <1>1, <1>2 DEF Begins
<1>3. ASSUME NEW x \in Frame, q.wire = p.wire \o <<x>>
      PROVE  Begins(p.wire, q.wire)
  <2> DEFINE l == Len(p.wire)
  <2>1. l \in Nat /\ Len(q.wire) = l + 1 /\ \A i \in 1..l : q.wire[i] = p.wire[i]
      BY <1>1, <1>3, OneMore
  <2> HIDE DEF l
  <2>2. l <= Len(q.wire)
      BY <2>1
  <2> QED
      BY <2>1, <2>2 DEF Begins, l
<1> QED
    BY <1>2, <1>3 DEF Writes, Wrote

(* So it is when the session begins. *)
LEMMA SessionWritesOn ==
    ASSUME NEW p \in Path, NEW items \in Seq(Item), NEW q, q = SessionPath(p, items)
    PROVE  Begins(p.wire, q.wire)
<1> DEFINE g == Push(p, items, FALSE, TRUE)
<1>1. q = UnshiftHeld(g, TRUE)
    BY DEF SessionPath
<1>2. g \in Path /\ Begins(p.wire, g.wire)
    BY PushWrites, WritesOn
<1> HIDE DEF g
<1>3. q \in Path /\ Begins(g.wire, q.wire)
    BY <1>1, <1>2, UnshiftWrites, WritesOn
<1>4. p.wire \in Seq(Frame) /\ g.wire \in Seq(Frame) /\ q.wire \in Seq(Frame)
    BY <1>2, <1>3 DEF Path
<1> QED
    BY <1>2, <1>3, <1>4, BeginsOn

(* The singles that wait in the link queue are frames. *)
LEMMA SinglesTyped ==
    ASSUME SendTypeOK, NEW e \in End, NEW s, s = Singles(linkQueue[e])
    PROVE  [i \in DOMAIN s |-> frameOf(s[i])] \in Seq(Item)
<1>1. linkQueue[e] \in Seq(Msg)
    BY DEF SendTypeOK
<1>2. s \in Seq(Msg)
    BY <1>1, KeptIs DEF Singles
<1>3. DOMAIN s = 1..Len(s) /\ Len(s) \in Nat /\ \A i \in DOMAIN s : s[i] \in Msg
    BY <1>2
<1>4. \A i \in DOMAIN s : frameOf(s[i]) \in Item
    BY <1>3 DEF frameOf, Item
<1> QED
    BY <1>3, <1>4, SeqDef

(* What an end has gone through stays: its wire, its session, its closing. *)
Onwards(e) ==
    /\ Begins(out[e].wire, out'[e].wire)
    /\ state[e] = "DISCONNECTED" => state'[e] = "DISCONNECTED" /\ out'[e].wire = out[e].wire

(* Another end's way out does not concern it. *)
LEMMA OthersGoOn ==
    ASSUME SendTypeOK, NEW e \in End, state'[e] = state[e], out'[e] = out[e]
    PROVE  Onwards(e)
<1>1. out[e].wire \in Seq(Frame)
    BY DEF SendTypeOK, Path
<1>2. Begins(out[e].wire, out[e].wire)
    BY <1>1 DEF Begins
<1> QED
    BY <1>2 DEF Onwards

(* A frame is queued on a connection that is up. *)
LEMMA PushGoesOn ==
    ASSUME SendTypeOK, NEW e \in End, isConnected(e), NEW item \in Item,
           NEW switching \in BOOLEAN, NEW sealing \in BOOLEAN,
           out'[e] = Push(out[e], <<item>>, switching, sealing)
    PROVE  Onwards(e)
<1>1. out[e] \in Path /\ <<item>> \in Seq(Item)
    BY DEF SendTypeOK
<1>2. Begins(out[e].wire, out'[e].wire)
    BY <1>1, PushWrites, WritesOn
<1> QED
    BY <1>2 DEF Onwards, isConnected

(* A connection that is dropped writes no more. *)
LEMMA DropGoesOn ==
    ASSUME SendTypeOK, NEW e \in End, NEW also, NEW hand, Drop(e, also, hand)
    PROVE  \A x \in End : Onwards(x)
<1>1. \A x \in End : out[x].wire \in Seq(Frame)
    BY DEF SendTypeOK, Path
<1>2. \A x \in End : out'[x].wire = out[x].wire /\ (state[x] = "DISCONNECTED" => state'[x] = "DISCONNECTED")
  <2>1. /\ out \in [End -> Path] /\ state \in [End -> {"CONNECTED", "SWITCHING_PROTOCOL", "DISCONNECTED"}]
        /\ state' = [state EXCEPT ![e] = "DISCONNECTED"]
        /\ out' = [out EXCEPT ![e].queue = <<>>, ![e].held = <<>>, ![e].hand = hand]
      BY DEF Drop, SendTypeOK
  <2>2. \A x \in End : state[x] = "DISCONNECTED" => state'[x] = "DISCONNECTED"
      BY <2>1
  <2>3. \A x \in End : out'[x].wire = out[x].wire
      BY <2>1 DEF Path
  <2> QED
      BY <2>2, <2>3
<1> QED
    BY <1>1, <1>2 DEF Onwards, Begins

(* So do all of its steps. *)
LEMMA SendGoesOn ==
    ASSUME SendInv, [SendNext]_sendVars, NEW x \in End
    PROVE  Onwards(x)
<1>1. /\ SendTypeOK
      /\ state \in [End -> {"CONNECTED", "SWITCHING_PROTOCOL", "DISCONNECTED"}]
      /\ ready \in [End -> BOOLEAN] /\ out \in [End -> Path] /\ out[x].wire \in Seq(Frame)
    BY DEF SendInv, SendTypeOK, Path
<1>2. ASSUME UNCHANGED <<state, out>>
      PROVE  Onwards(x)
    BY <1>1, <1>2, OthersGoOn
<1>3. ASSUME NEW e \in End, isConnected(e), NEW item \in Item, PushHere(e, <<item>>), state' = state
      PROVE  Onwards(x)
  <2>1. CASE x # e
      BY <1>1, <1>3, <2>1, OthersGoOn DEF PushHere
  <2>2. CASE x = e
    <3>1. out'[e] = Push(out[e], <<item>>, state[e] = "SWITCHING_PROTOCOL", ready[e])
        BY <1>1, <1>3 DEF PushHere
    <3> QED
        BY <1>1, <1>3, <2>2, <3>1, PushGoesOn
  <2> QED
      BY <2>1, <2>2
<1>4. ASSUME NEW m \in Msg, SendLink(m) \/ SendDirect(m)
      PROVE  Onwards(x)
  <2>1. Sender[m] \in End /\ frameOf(m) \in Item
      BY SendPathAssumption DEF frameOf, Item
  <2>2. \/ UNCHANGED <<state, out>>
        \/ isConnected(Sender[m]) /\ PushHere(Sender[m], <<frameOf(m)>>) /\ state' = state
      BY <1>4 DEF SendLink, SendDirect, isConnected
  <2> QED
      BY <1>2, <1>3, <2>1, <2>2
<1>5. ASSUME NEW m \in Msg, StreamPush(m)
      PROVE  Onwards(x)
  <2> DEFINE item == [msg |-> m, chunk |-> stream[m].next]
  <2>1. Sender[m] \in End /\ stream[m].next \in Nat \ {0}
      BY <1>1, SendPathAssumption DEF SendTypeOK, Stream
  <2>2. item \in Item
      BY <2>1 DEF Item
  <2>3. isConnected(Sender[m]) /\ PushHere(Sender[m], <<item>>) /\ state' = state
      BY <1>5 DEF StreamPush
  <2> QED
      BY <1>3, <2>1, <2>2, <2>3
<1>6. ASSUME NEW m \in Msg, StreamAborts(m) \/ StreamEnds(m)
      PROVE  Onwards(x)
  <2>1. RejectSend(m) \/ UNCHANGED <<state, out>>
      BY <1>6 DEF StreamAborts, StreamEnds
  <2>2. Sender[m] \in End
      BY SendPathAssumption
  <2> QED
      BY <1>1, <1>2, <2>1, <2>2, DropGoesOn DEF RejectSend
<1>7. ASSUME NEW e \in End, WriteDone(e)
      PROVE  Onwards(x)
  <2> DEFINE p == out[e]
             q == out'[e]
             rd == ready[e]
             switching == state[e] = "SWITCHING_PROTOCOL"
  <2>1. /\ q = Run([p EXCEPT !.hand = <<>>], switching, rd)
        /\ p \in Path /\ rd \in BOOLEAN /\ switching \in BOOLEAN
        /\ x # e => out'[x] = out[x]
        /\ state' = state
      BY <1>1, <1>7 DEF WriteDone
  <2>2. state[e] = "DISCONNECTED" => p.queue = <<>> /\ ~switching
      BY DEF SendInv, EndOK
  <2> HIDE DEF p, q, rd, switching
  <2>3. /\ q \in Path /\ Writes(p, q, switching, rd)
        /\ p.queue = <<>> /\ ~switching => q.wire = p.wire
      BY <2>1, NextWrites
  <2>4. Begins(p.wire, q.wire)
      BY <2>1, <2>3, WritesOn
  <2>5. CASE x # e
      BY <1>1, <2>1, <2>5, OthersGoOn
  <2>6. CASE x = e
      BY <2>1, <2>2, <2>3, <2>4, <2>6 DEF Onwards, p, q
  <2> QED
      BY <2>5, <2>6
<1>8. ASSUME NEW e \in End, WriteFails(e)
      PROVE  Onwards(x)
  <2>1. CASE \E m : Drop(e, {m}, <<>>)
      BY <1>1, <2>1, DropGoesOn
  <2>2. CASE out' = [out EXCEPT ![e].hand = <<>>, ![e].queue = <<>>] /\ state' = state
    <3>1. out'[x].wire = out[x].wire
        BY <1>1, <2>2 DEF Path
    <3> QED
        BY <1>1, <2>2, <3>1 DEF Onwards, Begins
  <2> QED
      BY <1>8, <2>1, <2>2 DEF WriteFails
<1>9. ASSUME NEW e \in End, SessionUp(e)
      PROVE  Onwards(x)
  <2> DEFINE singles == Singles(linkQueue[e])
             items == [i \in DOMAIN singles |-> frameOf(singles[i])]
  <2>1. items \in Seq(Item)
      BY <1>1, SinglesTyped
  <2>2. /\ state[e] = "SWITCHING_PROTOCOL" /\ state' = [state EXCEPT ![e] = "CONNECTED"]
        /\ out' = [out EXCEPT ![e] = SessionPath(@, items)]
      BY <1>9 DEF SessionUp, Singles
  <2> HIDE DEF items
  <2>3. Begins(out[e].wire, out'[e].wire)
      BY <1>1, <2>1, <2>2, SessionWritesOn
  <2>4. CASE x # e
      BY <1>1, <2>2, <2>4, OthersGoOn
  <2>5. CASE x = e
      BY <2>2, <2>3, <2>5 DEF Onwards
  <2> QED
      BY <2>4, <2>5
<1>10. ASSUME NEW e \in End, NEW m \in Offers(e), OfferOut(e, m)
       PROVE  Onwards(x)
  <2>1. frameOf(m) \in Item
      BY DEF frameOf, Item, Offers
  <2>2. /\ out'[e] = Push(out[e], <<frameOf(m)>>, TRUE, FALSE) /\ isConnected(e)
        /\ x # e => out'[x] = out[x] /\ state'[x] = state[x]
      BY <1>1, <1>10 DEF OfferOut, isConnected
  <2>3. CASE x # e
      BY <1>1, <2>2, <2>3, OthersGoOn
  <2>4. CASE x = e
      BY <1>1, <2>1, <2>2, <2>4, PushGoesOn
  <2> QED
      BY <2>3, <2>4
<1>11. ASSUME NEW m \in Msg, SendWhenGone(m) \/ QueueLink(m)
       PROVE  Onwards(x)
    BY <1>2, <1>11 DEF SendWhenGone, QueueLink
<1>12. ASSUME NEW e \in End, Disconnect(e)
       PROVE  Onwards(x)
    BY <1>1, <1>12, DropGoesOn DEF Disconnect
<1>13. CASE UNCHANGED sendVars
    BY <1>2, <1>13 DEF sendVars
<1> QED
    BY <1>4, <1>5, <1>6, <1>7, <1>8, <1>9, <1>10, <1>11, <1>12, <1>13 DEF SendNext, SendStep

(* What is anywhere in a packet queue was sent, and by its owner. *)
LEMMA WasSent ==
    ASSUME SendInv, NEW e \in End, NEW m \in Msg, NEW c \in Nat, Somewhere(out[e], m, c)
    PROVE  Sender[m] = e /\ status[m] # "unsent"
<1>1. Sender[m] = e
    BY DEF SendInv, EndOK, Own
<1>2. Apart(m, status[m], stream[m], InLink(m), out[e])
    BY <1>1 DEF SendInv, MsgOK
<1> QED
    BY <1>1, <1>2 DEF Apart

(* What is on a wire too. *)
LEMMA OnWire ==
    ASSUME SendInv, NEW e \in End, NEW i \in DOMAIN out[e].wire
    PROVE  /\ out[e].wire[i].msg \in Msg /\ out[e].wire[i].chunk \in Nat
           /\ At(out[e].wire, out[e].wire[i].msg, out[e].wire[i].chunk)
           /\ Sender[out[e].wire[i].msg] = e /\ status[out[e].wire[i].msg] # "unsent"
<1>1. out[e].wire \in Seq(Frame)
    BY DEF SendInv, SendTypeOK, Path
<1>2. out[e].wire[i] \in Frame
    BY <1>1
<1>3. out[e].wire[i].msg \in Msg /\ out[e].wire[i].chunk \in Nat
    BY <1>2, Fields
<1>4. At(out[e].wire, out[e].wire[i].msg, out[e].wire[i].chunk)
    BY DEF At
<1> QED
    BY <1>3, <1>4, WasSent DEF Somewhere

(* What has not been sent stays so, and an offer that was rejected without *)
(* getting out stays rejected.                                             *)
Stays(m) ==
    /\ status[m] = "unsent" => status'[m] = "unsent"
    /\ status[m] = "rejected" =>
          status'[m] = "rejected" \/ \E c \in Nat : At(out[Sender[m]].wire, m, c)

(* Dropping a connection rejects only what was sent. *)
LEMMA DropStays ==
    ASSUME SendInv, NEW e \in End, NEW also, \A k \in also : status[k] # "unsent", NEW hand, Drop(e, also, hand)
    PROVE  \A m \in Msg : Stays(m)
<1> SUFFICES ASSUME NEW m \in Msg
             PROVE  Stays(m)
    OBVIOUS
<1>1. status'[m] = IF m \in Unsent(e) \cup also THEN "rejected" ELSE status[m]
    BY DEF Drop
<1>2. ASSUME m \in ToSet(linkQueue[e])
      PROVE  status[m] # "unsent"
    BY <1>2 DEF SendInv, LinkOK, ToSet
<1>3. ASSUME InQueue(Waiting(e), m) > 0
      PROVE  status[m] # "unsent"
  <2> DEFINE held == out[e].held
             queue == out[e].queue
             w == Waiting(e)
  <2>1. held \in Seq(Item) /\ queue \in Seq(Item) /\ w = held \o queue
      BY DEF SendInv, SendTypeOK, Path, Waiting
  <2> HIDE DEF held, queue, w
  <2>2. w \in Seq(Item)
      BY <2>1
  <2>3. ~(\A i \in DOMAIN w : w[i].msg # m)
    <3>1. InQueue(w, m) \in Nat /\ (InQueue(w, m) = 0 <=> \A i \in DOMAIN w : w[i].msg # m)
        BY <2>2, CountType
    <3>2. InQueue(w, m) # 0
        BY <1>3, <3>1 DEF w
    <3> QED
        BY <3>1, <3>2
  <2>4. PICK i \in DOMAIN w : w[i].msg = m
      BY <2>3
  <2>5. w[i] \in Item
      BY <2>2
  <2>6. w[i].chunk \in Nat
      BY <2>5, Fields
  <2>7. At(held \o queue, m, w[i].chunk)
      BY <2>1, <2>4 DEF At
  <2>8. At(held, m, w[i].chunk) \/ At(queue, m, w[i].chunk)
      BY <2>1, <2>7, AtConcat
  <2>9. Somewhere(out[e], m, w[i].chunk)
      BY <2>8 DEF Somewhere, held, queue
  <2> QED
      BY <2>6, <2>9, WasSent
<1>4. m \in Unsent(e) => status[m] # "unsent"
    BY <1>2, <1>3 DEF Unsent
<1> QED
    BY <1>1, <1>4 DEF Stays

(* Whatever a connection does by itself lets it stay so. *)
GoesOn ==
    \/ \E m \in Msg : StreamPush(m) \/ StreamAborts(m) \/ StreamEnds(m)
    \/ \E e \in End : WriteDone(e) \/ WriteFails(e) \/ SessionUp(e) \/ Disconnect(e)
    \/ UNCHANGED sendVars

(* Each of these steps settles what was sent, and no other. *)
LEMMA GoesOnStays ==
    ASSUME SendInv, GoesOn
    PROVE  \A m \in Msg : Stays(m)
<1>1. ASSUME status' = status
      PROVE  \A m \in Msg : Stays(m)
    BY <1>1 DEF Stays
<1>2. ASSUME NEW k \in Msg, StreamPush(k) \/ StreamAborts(k) \/ StreamEnds(k)
      PROVE  \A m \in Msg : Stays(m)
  <2>1. status[k] = "pending" /\ Sender[k] \in End
      BY <1>2, SendPathAssumption DEF StreamPush, StreamAborts, StreamEnds, Streaming
  <2>2. status \in [Msg -> {"unsent", "pending", "resolved", "rejected"}]
      BY DEF SendInv, SendTypeOK
  <2>3. \/ status' = status
        \/ status' = [status EXCEPT ![k] = "resolved"]
        \/ status' = [status EXCEPT ![k] = "rejected"]
        \/ Drop(Sender[k], {k}, out[Sender[k]].hand)
      BY <1>2 DEF StreamPush, StreamAborts, StreamEnds, RejectSend
  <2>4. ASSUME NEW how, status' = [status EXCEPT ![k] = how]
        PROVE  \A m \in Msg : Stays(m)
      BY <2>1, <2>2, <2>4 DEF Stays
  <2>5. CASE Drop(Sender[k], {k}, out[Sender[k]].hand)
      BY <2>1, <2>5, DropStays
  <2> QED
      BY <1>1, <2>3, <2>4, <2>5
<1>3. ASSUME NEW e \in End, WriteDone(e) \/ WriteFails(e)
      PROVE  \A m \in Msg : Stays(m)
  <2> DEFINE k == out[e].hand[1].msg
  <2>1. out[e] \in Path /\ Sound(out[e]) /\ out[e].hand # <<>>
      BY <1>3 DEF SendInv, SendTypeOK, EndOK, WriteDone, WriteFails
  <2>2. At(out[e].wire, k, out[e].hand[1].chunk) /\ out[e].hand[1].chunk \in Nat
    <3>1. out[e].hand[1] \in Item
        BY <2>1, HandIs
    <3> QED
        BY <2>1, <3>1, Fields DEF Sound
  <2>3. k \in Msg /\ Sender[k] = e
      BY <2>1, InHand
  <2>4. status[k] # "unsent"
      BY <2>2, <2>3, WasSent DEF Somewhere
  <2>5. status \in [Msg -> {"unsent", "pending", "resolved", "rejected"}]
      BY DEF SendInv, SendTypeOK
  <2>6. \/ Settle(k, "resolved") \/ Settle(k, "rejected")
        \/ Drop(e, {k}, <<>>)
      BY <1>3 DEF WriteDone, WriteFails
  <2> HIDE DEF k
  <2>7. ASSUME NEW how, Settle(k, how)
        PROVE  \A m \in Msg : Stays(m)
    <3>1. status' = status \/ status' = [status EXCEPT ![k] = how]
        BY <2>7 DEF Settle
    <3> QED
        BY <2>2, <2>3, <2>4, <2>5, <3>1 DEF Stays
  <2>8. CASE Drop(e, {k}, <<>>)
      BY <2>4, <2>8, DropStays
  <2> QED
      BY <2>6, <2>7, <2>8
<1>4. ASSUME NEW e \in End, SessionUp(e)
      PROVE  \A m \in Msg : Stays(m)
    BY <1>1, <1>4 DEF SessionUp
<1>5. ASSUME NEW e \in End, Disconnect(e)
      PROVE  \A m \in Msg : Stays(m)
    BY <1>5, DropStays DEF Disconnect
<1>6. CASE UNCHANGED sendVars
    BY <1>1, <1>6 DEF sendVars
<1> QED
    BY <1>2, <1>3, <1>4, <1>5, <1>6 DEF GoesOn

-----------------------------------------------------------------------------
(* Types                                                                   *)

(* What each variable of an end is. *)
LEMMA EndTypes ==
    ASSUME TypeOK, NEW e \in End
    PROVE  /\ out[e] \in Path /\ ready[e] \in BOOLEAN
           /\ taken[e] \in Nat /\ opened[e] \in Nat
<1>1. /\ out \in [End -> Path] /\ ready \in [End -> BOOLEAN]
      /\ taken \in [End -> Nat] /\ opened \in [End -> Nat]
    BY Zenon DEF TypeOK, SendTypeOK
<1> QED
    BY <1>1

(* What is on the wire, and next to be read. *)
LEMMA NextFrame ==
    ASSUME TypeOK, NEW e \in End, Taking(e)
    PROVE  /\ taken[e] \in Nat /\ taken[e] + 1 \in DOMAIN out[Peer(e)].wire
           /\ Incoming(e) = out[Peer(e)].wire[taken[e] + 1]
           /\ Incoming(e) \in Frame /\ Incoming(e).msg \in Msg
<1>1. out[Peer(e)].wire \in Seq(Frame) /\ taken[e] \in Nat
    BY BothEnds DEF TypeOK, SendTypeOK, Path
<1>2. taken[e] < Len(out[Peer(e)].wire)
    BY DEF Taking
<1>3. taken[e] + 1 \in DOMAIN out[Peer(e)].wire
    BY <1>1, <1>2
<1>4. Incoming(e) \in Frame
    BY <1>1, <1>3 DEF Incoming
<1> QED
    BY <1>1, <1>3, <1>4 DEF Incoming, Frame

(* Both ends choose among the suites there are. *)
LEMMA SuiteTyped ==
    ASSUME TypeOK, NEW e \in End
    PROVE  suite(e) \in Suite
<1>1. world \in World
    BY E2ESwitchAssumption DEF TypeOK
<1>2. \A x \in End : world.kex[x] \in Seq(Nat) /\ world.ciphers[x] \in Seq(Nat)
    BY <1>1 DEF World
<1>3. Peer(e) \in End
    BY BothEnds
<1>4. /\ chooseKex(world.kex[e], world.kex[Peer(e)]) \in 0..KEX
      /\ chooseCipher(world.ciphers[e], world.ciphers[Peer(e)]) \in 0..CIPHERS
    BY <1>2, <1>3, ChosenIsKnown
<1> QED
    BY <1>4 DEF suite, Suite

(* Why a frame may be refused. *)
Reasons == {"none", "Invalid Packet!", "Invalid encrypted frame",
            "Plaintext message on a connection that requires e2e",
            "e2e offer after e2e was established"}

(* Each step keeps the types, as far as SendPath keeps its own. *)
LEMMA TypeNext == TypeOK /\ SendTypeOK' /\ [Next]_vars => TypeOK'
<1> SUFFICES ASSUME TypeOK, SendTypeOK', [Next]_vars
             PROVE  TypeOK'
    OBVIOUS
<1>a. /\ making \in [End -> Nat] /\ keys \in [End -> Nat] /\ offered \in [End -> Nat]
      /\ taken \in [End -> Nat] /\ opened \in [End -> Nat] /\ got \in [Msg -> Nat]
      /\ parked \in [End -> Seq(Frame)]
    BY DEF TypeOK
<1> USE DEF TypeOK
<1>1. ASSUME NEW e \in End, RejectPending(e)
      PROVE  pending' \in [End -> {"none", "waiting", "resolved"}]
    BY <1>1 DEF RejectPending
<1>2. ASSUME NEW e \in End, startOffer(e)
      PROVE  making' \in [End -> Nat]
    BY <1>2 DEF startOffer
<1>3. ASSUME NEW e \in End, CallE2E(e)
      PROVE  TypeOK'
  <2>1. making' \in [End -> Nat]
      BY <1>2, <1>3 DEF CallE2E
  <2> QED
      BY <1>3, <2>1 DEF CallE2E
<1>4. ASSUME NEW e \in End, OfferMade(e)
      PROVE  TypeOK'
  <2>1. /\ making' \in [End -> Nat] /\ keys' \in [End -> Nat]
    <3> HIDE DEF TypeOK
    <3>1. making' = [making EXCEPT ![e] = @ - 1] /\ making[e] > 0 /\ keys' = [keys EXCEPT ![e] = @ + 1]
        BY <1>4 DEF OfferMade
    <3>2. making[e] - 1 \in Nat /\ keys[e] + 1 \in Nat
        BY <1>a, <3>1
    <3>3. making' \in [End -> Nat]
        BY <1>a, <3>1, <3>2
    <3>4. keys' \in [End -> Nat]
        BY <1>a, <3>1, <3>2
    <3> QED
        BY <3>3, <3>4
  <2>2. offered' \in [End -> Nat]
    <3> HIDE DEF TypeOK
    <3>1. offered' = offered \/ offered' = [offered EXCEPT ![e] = keys'[e]]
        BY <1>4 DEF OfferMade
    <3> QED
        BY <1>a, <2>1, <3>1
  <2>3. pending' \in [End -> {"none", "waiting", "resolved"}]
      BY <1>1, <1>4 DEF OfferMade
  <2>4. UNCHANGED <<world, e2eRequired, accepting, session, taken, opened, parked, got, reason>>
      BY <1>4 DEF OfferMade
  <2> QED
      BY <2>1, <2>2, <2>3, <2>4
<1>5. ASSUME NEW e \in End, Hangup(e)
      PROVE  pending' \in [End -> {"none", "waiting", "resolved"}]
    BY <1>1, <1>5 DEF Hangup
<1>6. ASSUME NEW e \in End, OfferFailed(e) \/ DeriveFails(e)
      PROVE  TypeOK'
  <2>1. accepting' \in [End -> {"none", "offer", "derive"}]
    <3>1. accepting \in [End -> {"none", "offer", "derive"}]
        BY Zenon
    <3>2. accepting' = [accepting EXCEPT ![e] = "none"]
        BY <1>6 DEF OfferFailed, DeriveFails
    <3> HIDE DEF TypeOK
    <3> QED
        BY <3>1, <3>2
  <2> QED
      BY <1>5, <1>6, <2>1 DEF OfferFailed, DeriveFails
<1>7. ASSUME NEW e \in End, E2ETimesOut(e) \/ LinkCloses(e)
      PROVE  TypeOK'
    BY <1>5, <1>7 DEF E2ETimesOut, LinkCloses
<1>8. ASSUME NEW e \in End, AcceptGoesOn(e)
      PROVE  TypeOK'
    BY <1>8 DEF AcceptGoesOn
<1>9. ASSUME NEW e \in End, Taking(e)
      PROVE  taken' \in [End -> Nat]
  <2> HIDE DEF TypeOK
  <2> QED
      BY <1>a, <1>9 DEF Taking
<1>10. ASSUME NEW e \in End, Refuse(e)
       PROVE  /\ pending' \in [End -> {"none", "waiting", "resolved"}]
              /\ reason' \in [End -> Reasons]
              /\ UNCHANGED <<making, accepting, opened, parked, got>>
  <2>1. Objection(e, Incoming(e)) \in Reasons
      BY DEF Objection, Reasons
  <2> QED
      BY <1>5, <1>10, <2>1 DEF Refuse, Reasons
<1>11. ASSUME NEW e \in End, Opened(e)
       PROVE  opened' \in [End -> Nat]
  <2> HIDE DEF TypeOK
  <2> QED
      BY <1>a, <1>11 DEF Opened
<1>12. ASSUME NEW e \in End, Receive(e)
       PROVE  TypeOK'
  <2>1. taken' \in [End -> Nat] /\ Incoming(e) \in Frame /\ Incoming(e).msg \in Msg
      BY <1>9, <1>12, NextFrame DEF Receive
  <2>2. CASE Objection(e, Incoming(e)) # "none"
      BY <1>10, <1>12, <2>1, <2>2 DEF Receive, Reasons
  <2>3. CASE Objection(e, Incoming(e)) = "none"
    <3>0. \/ parked' = [parked EXCEPT ![e] = Append(@, Incoming(e))] /\ got' = got
          \/ got' = [got EXCEPT ![Incoming(e).msg] = @ + 1] /\ parked' = parked
        BY <1>12, <2>3 DEF Receive
    <3>1. parked' \in [End -> Seq(Frame)]
      <4> HIDE DEF TypeOK
      <4>1. Append(parked[e], Incoming(e)) \in Seq(Frame)
          BY <1>a, <2>1
      <4> QED
          BY <1>a, <3>0, <4>1
    <3>2. got' \in [Msg -> Nat]
      <4> HIDE DEF TypeOK
      <4> DEFINE m == Incoming(e).msg
      <4>1. got' = [got EXCEPT ![m] = @ + 1] \/ got' = got
          BY <3>0
      <4>2. m \in Msg
          BY <2>1
      <4> HIDE DEF m
      <4>3. got[m] + 1 \in Nat
          BY <1>a, <4>2
      <4> QED
          BY <1>a, <4>1, <4>3
    <3>3. Opened(e) /\ UNCHANGED <<sendVars, making, pending, accepting, reason>>
        BY <1>12, <2>3 DEF Receive
    <3>4. UNCHANGED <<world, e2eRequired, keys, offered, session>>
        BY <1>12 DEF Receive
    <3> QED
        BY <1>11, <2>1, <3>1, <3>2, <3>3, <3>4
  <2> QED
      BY <2>2, <2>3
<1>13. ASSUME NEW e \in End, ReceiveOffer(e)
       PROVE  TypeOK'
  <2>1. taken' \in [End -> Nat]
      BY <1>9, <1>13 DEF ReceiveOffer
  <2>2. CASE Objection(e, Incoming(e)) # "none"
      BY <1>10, <1>13, <2>1, <2>2 DEF ReceiveOffer, Reasons
  <2>3. CASE Objection(e, Incoming(e)) = "none"
    <3>1. /\ Opened(e) /\ startOffer(e) /\ accepting' = [accepting EXCEPT ![e] = "offer"]
          /\ UNCHANGED <<sendVars, pending, parked, got, reason>>
        BY <1>13, <2>3 DEF ReceiveOffer
    <3>2. making' \in [End -> Nat] /\ opened' \in [End -> Nat]
        BY <1>2, <1>11, <3>1
    <3>3. accepting' \in [End -> {"none", "offer", "derive"}]
        BY <3>1
    <3>4. UNCHANGED <<world, e2eRequired, keys, offered, session>>
        BY <1>13 DEF ReceiveOffer
    <3> QED
        BY <2>1, <3>1, <3>2, <3>3, <3>4
  <2> QED
      BY <2>2, <2>3
<1>14. ASSUME NEW e \in End, Derived(e)
       PROVE  TypeOK'
  <2>1. accepting' \in [End -> {"none", "offer", "derive"}]
      BY <1>14 DEF Derived
  <2>2. CASE ~isConnected(e)
      BY <1>14, <2>1, <2>2 DEF Derived
  <2>3. CASE isConnected(e)
    <3>1. /\ session' = [session EXCEPT
                ![e] = [mine |-> keys[e], theirs |-> offered[Peer(e)], suite |-> suite(e)]]
          /\ pending' = [pending EXCEPT ![e] = IF @ = "waiting" THEN "resolved" ELSE @]
          /\ Unpark(e)
        BY <1>14, <2>3 DEF Derived
    <3>2. session' \in [End -> [mine: Nat, theirs: Nat, suite: Suite]]
      <4>1. keys[e] \in Nat /\ offered[Peer(e)] \in Nat /\ suite(e) \in Suite
          BY BothEnds, SuiteTyped
      <4> QED
          BY <3>1, <4>1
    <3>3. pending' \in [End -> {"none", "waiting", "resolved"}]
        BY <3>1
    <3>4. parked' \in [End -> Seq(Frame)]
      <4> HIDE DEF TypeOK
      <4>1. <<>> \in Seq(Frame)
          OBVIOUS
      <4> QED
          BY <1>a, <3>1, <4>1 DEF Unpark
    <3>5. got' \in [Msg -> Nat]
      <4>1. ASSUME NEW m \in Msg
            PROVE  got[m] + InQueue(parked[e], m) \in Nat
        <5> HIDE DEF TypeOK
        <5>1. parked[e] \in Seq(Frame) /\ got[m] \in Nat
            BY <1>a
        <5>2. InQueue(parked[e], m) \in Nat
            BY <5>1, CountType
        <5> QED
            BY <5>1, <5>2
      <4> QED
          BY <3>1, <4>1 DEF Unpark
    <3>6. UNCHANGED <<world, e2eRequired, making, keys, offered, taken, opened, reason>>
        BY <1>14 DEF Derived
    <3> QED
        BY <2>1, <3>2, <3>3, <3>4, <3>5, <3>6
  <2> QED
      BY <2>2, <2>3
<1>15. ASSUME WhileSending
       PROVE  TypeOK'
    BY <1>15 DEF WhileSending
<1>16. CASE UNCHANGED vars
    BY <1>16 DEF vars, recvVars
<1> QED
    BY <1>3, <1>4, <1>6, <1>7, <1>8, <1>12, <1>13, <1>14, <1>15, <1>16
    DEF Next, Send, StreamGoesOn, Written, Handle, Accept

(* TypeOK: the variables of E2ESwitch are of their types.                  *)
THEOREM SwitchTyped == Spec => []TypeOK
<1>1. Init => TypeOK
  <2>1. ASSUME Init
        PROVE  SendTypeOK
      BY <2>1, InitHolds DEF Init, SendInv
  <2>2. NoSuite \in Suite
      BY SuitesAssumption DEF NoSuite, Suite
  <2> QED
      BY <2>1, <2>2, E2ESwitchAssumption DEF Init, TypeOK
<1>2. SendInv' => SendTypeOK'
    BY DEF SendInv
<1> QED
    BY <1>1, <1>2, TypeNext, WayOutKeepsInv, PTL DEF Spec

-----------------------------------------------------------------------------
(* The invariant of the switch                                             *)

(* An end makes one key pair and offers that; an offer that was not made   *)
(* with it was refused by a connection that had gone.  A session is        *)
(* between the two first key pairs, and e2e() resolves with one.           *)
KeysOK(e) ==
    /\ making[e] + keys[e] <= 1
    /\ offered[e] = 0 =>
          \/ status[Offer(e)] = "unsent"
          \/ /\ status[Offer(e)] = "rejected" /\ state[e] = "DISCONNECTED"
             /\ \A i \in DOMAIN out[e].wire : ~IsOffer(out[e].wire[i])
    /\ offered[e] # 0 => offered[e] = 1 /\ keys[e] = 1
    /\ \A m \in Offers(e) : m # Offer(e) => status[m] = "unsent"
    /\ ready[e] => session[e] = [mine |-> 1, theirs |-> 1, suite |-> suite(e)]
    /\ pending[e] = "resolved" => ready[e]

(* What e has read of the wire w: up to the offer while it has no session, *)
(* the offer last while it is accepted, and from then on it counts what    *)
(* comes after.                                                            *)
ReadUpTo(e, w) ==
    /\ taken[e] <= Len(w)
    /\ ~ready[e] => opened[e] = 0
    /\ ~ready[e] /\ accepting[e] = "none" /\ isConnected(e) => \A i \in 1..taken[e] : ~IsOffer(w[i])
    /\ accepting[e] # "none" => ~ready[e] /\ taken[e] # 0 /\ IsOffer(w[taken[e]])
    /\ ready[e] => \E n \in 1..taken[e] : IsOffer(w[n]) /\ opened[e] = taken[e] - n

(* The wire it reads is the other end's. *)
ReadOK(e) == ReadUpTo(e, out[Peer(e)].wire)

(* Where e2e is required, no message is sent before the session.           *)
Withheld(e) ==
    e2eRequired /\ ~ready[e] =>
        \A m \in Msg : Sender[m] = e /\ Kind[m] \in {"link", "forward"} => status[m] = "unsent"

(* What is parked came from the other end.                                 *)
FromPeer(e) == \A i \in DOMAIN parked[e] : Sender[parked[e][i].msg] = Peer(e)

(* The invariant. *)
SwitchInv ==
    /\ \A e \in End : KeysOK(e)
    /\ \A e \in End : ReadOK(e)
    /\ \A e \in End : Withheld(e)
    /\ \A e \in End : FromPeer(e)
    /\ NothingRefused
    /\ RequiredMeansSealed

(* What holds beside it. *)
Grounds == SendInv /\ SealInv /\ TypeOK

(* There is one offer on a wire. *)
LEMMA OneOfferOnWire ==
    ASSUME SendInv, NEW e \in End, KeysOK(e), NEW i \in DOMAIN out[e].wire, NEW j \in DOMAIN out[e].wire,
           IsOffer(out[e].wire[i]), IsOffer(out[e].wire[j])
    PROVE  i = j
<1> DEFINE w == out[e].wire
<1>1. w \in Seq(Frame) /\ DOMAIN w = 1..Len(w) /\ Len(w) \in Nat /\ Rising(w) /\ Sound(out[e])
    BY DEF SendInv, SendTypeOK, Path, EndOK, Sound, InOrder
<1>2. ASSUME NEW k \in DOMAIN w, IsOffer(w[k])
      PROVE  w[k].msg = Offer(e) /\ w[k].chunk = 1
  <2>1. /\ w[k].msg \in Msg /\ w[k].chunk \in Nat /\ At(w, w[k].msg, w[k].chunk)
        /\ Sender[w[k].msg] = e /\ status[w[k].msg] # "unsent"
      BY OnWire
  <2>2. Kind[w[k].msg] = "switch"
      BY <1>2 DEF IsOffer
  <2>3. w[k].msg = Offer(e)
      BY <2>1, <2>2 DEF KeysOK, Offers
  <2>4. Chunks[w[k].msg] = 1
      BY <2>1, <2>2, SendPathAssumption
  <2>5. w[k].chunk <= 1
      BY <1>1, <2>1, <2>4 DEF Sound, Somewhere
  <2>6. w[k] \in Frame
      BY <1>1
  <2>7. w[k].chunk \in Nat \ {0}
      BY <2>6, Fields
  <2> HIDE DEF w
  <2> QED
      BY <2>3, <2>5, <2>7
<1>3. w[i].msg = w[j].msg /\ w[i].chunk = 1 /\ w[j].chunk = 1
    BY <1>2
<1> HIDE DEF w
<1>4. i \in DOMAIN w /\ j \in DOMAIN w
    BY DEF w
<1>5. ~(i < j) /\ ~(j < i)
    BY <1>1, <1>3, <1>4 DEF Rising
<1>6. i \in Nat /\ j \in Nat
    BY <1>1, <1>4
<1> QED
    BY <1>5, <1>6

(* Before it everything is in clear, and after it sealed, by a session     *)
(* that is up.                                                             *)
LEMMA AroundOffer ==
    ASSUME Grounds, NEW e \in End, KeysOK(e), NEW n \in DOMAIN out[e].wire, IsOffer(out[e].wire[n])
    PROVE  /\ \A i \in DOMAIN out[e].wire : out[e].wire[i].seal = IF i <= n THEN 0 ELSE i - n
           /\ out[e].seals = Len(out[e].wire) - n
           /\ \A i \in DOMAIN out[e].wire : i > n => ready[e]
<1> DEFINE w == out[e].wire
<1>1. w \in Seq(Frame) /\ DOMAIN w = 1..Len(w) /\ Len(w) \in Nat /\ n \in Nat /\ n <= Len(w)
      /\ ready[e] \in BOOLEAN
    BY DEF Grounds, SendInv, SendTypeOK, Path
<1>2. CASE ~ready[e]
  <2>1. Clear(w, out[e].seals)
      BY <1>2 DEF Grounds, SealInv, SealOK
  <2>2. n = Len(w) /\ out[e].seals = 0 /\ \A i \in DOMAIN w : w[i].seal = 0
      BY <2>1 DEF Clear
  <2> HIDE DEF w
  <2>3. \A i \in DOMAIN w : i <= n
      BY <1>1, <2>2
  <2>4. Len(w) - n = 0
      BY <1>1, <2>2
  <2>5. \A i \in DOMAIN w : ~(i > n)
      BY <1>1, <2>3
  <2> QED
      BY <2>2, <2>3, <2>4, <2>5 DEF w
<1>3. CASE ready[e]
  <2>1. PICK k \in DOMAIN w : SealedAfter(k, w) /\ out[e].seals = Len(w) - k
      BY <1>3 DEF Grounds, SealInv, SealOK, Sealed
  <2>2. k = n
      BY <2>1, OneOfferOnWire DEF SealedAfter, Grounds
  <2> QED
      BY <1>3, <2>1, <2>2 DEF SealedAfter
<1> QED
    BY <1>1, <1>2, <1>3

(* What follows no offer is in clear. *)
LEMMA BeforeOffer ==
    ASSUME Grounds, NEW e \in End, NEW t \in Nat, t + 1 \in DOMAIN out[e].wire,
           \A i \in 1..t : ~IsOffer(out[e].wire[i])
    PROVE  out[e].wire[t + 1].seal = 0
<1> DEFINE w == out[e].wire
<1>1. w \in Seq(Frame) /\ DOMAIN w = 1..Len(w) /\ Len(w) \in Nat /\ ready[e] \in BOOLEAN
    BY DEF Grounds, SendInv, SendTypeOK, Path
<1>2. CASE ~ready[e]
    BY <1>2 DEF Grounds, SealInv, SealOK, Clear
<1>3. CASE ready[e]
  <2>1. PICK k \in DOMAIN w : SealedAfter(k, w)
      BY <1>3 DEF Grounds, SealInv, SealOK, Sealed
  <2>2. k \in Nat /\ k \notin 1..t /\ k >= 1
      BY <1>1, <2>1 DEF SealedAfter
  <2>3. t + 1 <= k
      BY <2>2
  <2> QED
      BY <2>1, <2>3 DEF SealedAfter
<1> QED
    BY <1>1, <1>2, <1>3

(* Two sessions that are up are one: both hold the first key pairs and the *)
(* suite that both choose.                                                 *)
LEMMA SessionsMatch ==
    ASSUME TypeOK, \A x \in End : KeysOK(x), NEW e \in End, ready[e], ready[Peer(e)]
    PROVE  SameKeys(e)
<1>1. Peer(e) \in End /\ Peer(Peer(e)) = e
    BY BothEnds
<1>2. /\ session[e] = [mine |-> 1, theirs |-> 1, suite |-> suite(e)]
      /\ session[Peer(e)] = [mine |-> 1, theirs |-> 1, suite |-> suite(Peer(e))]
    BY <1>1 DEF KeysOK
<1>3. suite(e) = suite(Peer(e))
  <2>1. world \in World
      BY E2ESwitchAssumption DEF TypeOK
  <2>2. \A x \in End : world.kex[x] \in Seq(Nat) /\ world.ciphers[x] \in Seq(Nat)
      BY <2>1 DEF World
  <2>3. chooseKex(world.kex[e], world.kex[Peer(e)]) = chooseKex(world.kex[Peer(e)], world.kex[e])
      BY <1>1, <2>2, ChoiceIsSymmetric
  <2>4. chooseCipher(world.ciphers[e], world.ciphers[Peer(e)])
            = chooseCipher(world.ciphers[Peer(e)], world.ciphers[e])
      BY <1>1, <2>2, ChoiceIsSymmetric
  <2> QED
      BY <1>1, <2>3, <2>4 DEF suite
<1> QED
    BY <1>2, <1>3 DEF SameKeys

(* So an honest frame is never objected to. *)
LEMMA Unobjectionable ==
    ASSUME Grounds, SwitchInv, NEW e \in End, Taking(e)
    PROVE  Objection(e, Incoming(e)) = "none"
<1> DEFINE p == Peer(e)
           w == out[p].wire
           t == taken[e]
           f == Incoming(e)
<1>1. /\ p \in End /\ t \in Nat /\ t + 1 \in DOMAIN w /\ f = w[t + 1] /\ accepting[e] = "none" /\ isConnected(e)
      /\ ready[e] \in BOOLEAN /\ opened[e] \in Nat
    BY BothEnds, NextFrame DEF Grounds, Taking, TypeOK, SendTypeOK
<1>2. ReadUpTo(e, w) /\ KeysOK(p)
    BY <1>1 DEF SwitchInv, ReadOK
<1> HIDE DEF p, w, t, f
<1>3. ~(e2eRequired /\ f.seal = 0 /\ Kind[f.msg] \in {"link", "forward"})
    BY <1>1 DEF SwitchInv, RequiredMeansSealed, w
<1>4. CASE ~ready[e]
  <2>1. \A i \in 1..t : ~IsOffer(out[p].wire[i])
      BY <1>1, <1>2, <1>4 DEF ReadUpTo, t, w
  <2>2. out[p].wire[t + 1].seal = 0
      BY <1>1, <2>1, BeforeOffer DEF w
  <2> QED
      BY <1>1, <1>3, <1>4, <2>2 DEF Objection, f, w
<1>5. CASE ready[e]
  <2>1. PICK n \in 1..t : IsOffer(w[n]) /\ opened[e] = t - n
      BY <1>2, <1>5 DEF ReadUpTo, t
  <2>2. n \in DOMAIN w /\ t + 1 > n /\ (t + 1) - n = opened[e] + 1 /\ ~(t + 1 <= n) /\ n # t + 1
    <3>1. w \in Seq(Frame)
        BY <1>1 DEF Grounds, TypeOK, SendTypeOK, Path, w
    <3>2. DOMAIN w = 1..Len(w) /\ Len(w) \in Nat
        BY <3>1
    <3>3. t - n \in Nat
        BY <1>1, <2>1
    <3> QED
        BY <1>1, <2>1, <3>2, <3>3
  <2>3. /\ \A i \in DOMAIN w : w[i].seal = IF i <= n THEN 0 ELSE i - n
        /\ \A i \in DOMAIN w : i > n => ready[p]
      BY <1>1, <1>2, <2>1, <2>2, AroundOffer DEF w
  <2>4. f.seal = opened[e] + 1 /\ ready[p]
      BY <1>1, <2>2, <2>3
  <2>5. SameKeys(e)
      BY <1>5, <2>4, SessionsMatch DEF SwitchInv, Grounds, p
  <2>6. ~IsOffer(f)
      BY <1>1, <1>2, <2>1, <2>2, OneOfferOnWire DEF Grounds, w
  <2> QED
      BY <1>3, <1>5, <2>4, <2>5, <2>6 DEF Objection, IsOffer, f
<1> QED
    BY <1>1, <1>4, <1>5

-----------------------------------------------------------------------------
(* What keeps it                                                           *)

(* OnWire, of both wires at once. *)
AllWritten ==
    \A e \in End : \A i \in DOMAIN out[e].wire :
        LET m == out[e].wire[i].msg IN m \in Msg /\ Sender[m] = e /\ status[m] # "unsent"

(* It follows from what SendPath keeps. *)
LEMMA WiresWritten == SendInv => AllWritten
BY OnWire DEF AllWritten

(* The wire of an end before a step and after it. *)
LEMMA WireTypes ==
    ASSUME TypeOK, TypeOK', NEW e \in End
    PROVE  /\ out[e].wire \in Seq(Frame) /\ DOMAIN out[e].wire = 1..Len(out[e].wire) /\ Len(out[e].wire) \in Nat
           /\ out'[e].wire \in Seq(Frame) /\ DOMAIN out'[e].wire = 1..Len(out'[e].wire)
           /\ Len(out'[e].wire) \in Nat
<1>1. out[e] \in Path /\ out'[e] \in Path
  <2>1. out \in [End -> Path] /\ out' \in [End -> Path]
      BY Zenon DEF TypeOK, SendTypeOK
  <2> QED
      BY <2>1
<1>2. out[e].wire \in Seq(Frame) /\ out'[e].wire \in Seq(Frame)
    BY <1>1 DEF Path
<1> QED
    BY <1>2

(* An offer is known by the one who wrote it, and was made with its keys. *)
LEMMA OfferWasMade ==
    ASSUME Grounds, NEW e \in End, KeysOK(e), NEW i \in DOMAIN out[e].wire, IsOffer(out[e].wire[i])
    PROVE  out[e].wire[i].msg = Offer(e) /\ offered[e] = 1
<1> DEFINE m == out[e].wire[i].msg
<1>1. m \in Msg /\ Sender[m] = e /\ status[m] # "unsent" /\ Kind[m] = "switch"
    BY OnWire DEF Grounds, IsOffer
<1> HIDE DEF m
<1>2. m = Offer(e)
    BY <1>1 DEF KeysOK, Offers
<1>3. offered[e] # 0
    BY <1>1, <1>2 DEF KeysOK
<1> QED
    BY <1>2, <1>3 DEF KeysOK, m

(* Keys, offer and session of an end stay as they were, whatever is sent. *)
LEMMA KeysStay ==
    ASSUME TypeOK, TypeOK', NEW e \in End, KeysOK(e), Onwards(e), \A m \in Offers(e) : Stays(m),
           world' = world, keys'[e] = keys[e], offered'[e] = offered[e],
           session'[e] = session[e], ready'[e] = ready[e],
           making'[e] + keys[e] <= 1,
           pending'[e] = "resolved" => pending[e] = "resolved" \/ ready[e]
    PROVE  KeysOK(e)'
<1>1. Offer(e) \in Offers(e)
    BY OfferOf
<1>2. suite(e)' = suite(e)
    BY DEF suite
<1>3. ASSUME offered[e] = 0
      PROVE  \/ status'[Offer(e)] = "unsent"
             \/ /\ status'[Offer(e)] = "rejected" /\ state'[e] = "DISCONNECTED"
                /\ \A i \in DOMAIN out'[e].wire : ~IsOffer(out'[e].wire[i])
  <2>1. CASE status[Offer(e)] = "unsent"
      BY <1>1, <2>1 DEF Stays
  <2>2. CASE status[Offer(e)] # "unsent"
    <3>1. /\ status[Offer(e)] = "rejected" /\ state[e] = "DISCONNECTED"
          /\ \A i \in DOMAIN out[e].wire : ~IsOffer(out[e].wire[i])
        BY <1>3, <2>2 DEF KeysOK
    <3>2. state'[e] = "DISCONNECTED" /\ out'[e].wire = out[e].wire
        BY <3>1 DEF Onwards
    <3>3. Sender[Offer(e)] = e /\ Kind[Offer(e)] = "switch"
        BY OfferOf
    <3>4. ~ \E c \in Nat : At(out[e].wire, Offer(e), c)
        BY <3>1, <3>3 DEF At, IsOffer
    <3>5. status'[Offer(e)] = "rejected"
        BY <1>1, <3>1, <3>3, <3>4 DEF Stays
    <3> QED
        BY <3>1, <3>2, <3>5
  <2> QED
      BY <2>1, <2>2
<1>4. \A m \in Offers(e) : m # Offer(e) => status'[m] = "unsent"
    BY DEF KeysOK, Stays
<1>5. making'[e] + keys'[e] <= 1 /\ (offered'[e] # 0 => offered'[e] = 1 /\ keys'[e] = 1)
    BY DEF KeysOK
<1>6. ready'[e] => session'[e] = [mine |-> 1, theirs |-> 1, suite |-> suite(e)']
    BY <1>2 DEF KeysOK
<1>7. pending'[e] = "resolved" => ready'[e]
    BY DEF KeysOK
<1> QED
    BY <1>3, <1>4, <1>5, <1>6, <1>7 DEF KeysOK, Offers, Offer

(* What was read was read, however much is written meanwhile. *)
LEMMA ReadStays ==
    ASSUME TypeOK, TypeOK', NEW e \in End, ReadOK(e), Onwards(e), Onwards(Peer(e)),
           taken'[e] = taken[e], opened'[e] = opened[e], ready'[e] = ready[e],
           \/ accepting[e] # "none" /\ accepting'[e] # "none"
           \/ accepting'[e] = "none" /\ (accepting[e] = "none" \/ state'[e] = "DISCONNECTED")
    PROVE  ReadOK(e)'
<1> DEFINE w == out[Peer(e)].wire
           v == out'[Peer(e)].wire
<1>1. Peer(e) \in End /\ Peer(e)' = Peer(e)
    BY BothEnds DEF Peer
<1>2. /\ Len(w) \in Nat /\ DOMAIN w = 1..Len(w) /\ Len(v) \in Nat /\ taken[e] \in Nat
      /\ Begins(w, v) /\ ready[e] \in BOOLEAN
    BY <1>1, WireTypes DEF TypeOK, SendTypeOK, Onwards
<1>3. ReadUpTo(e, w)
    BY DEF ReadOK
<1> HIDE DEF w, v
<1>4. taken'[e] <= Len(v)
    BY <1>2, <1>3 DEF ReadUpTo, Begins
<1>5. \A i \in 1..taken[e] : v[i] = w[i]
    BY <1>2, <1>3 DEF ReadUpTo, Begins
<1>6. ~ready'[e] => opened'[e] = 0
    BY <1>3 DEF ReadUpTo
<1>7. ~ready'[e] /\ accepting'[e] = "none" /\ isConnected(e)' => \A i \in 1..taken'[e] : ~IsOffer(v[i])
    BY <1>3, <1>5 DEF ReadUpTo, isConnected, Onwards
<1>8. accepting'[e] # "none" => ~ready'[e] /\ taken'[e] # 0 /\ IsOffer(v[taken'[e]])
  <2>1. taken[e] # 0 => taken[e] \in 1..taken[e]
      BY <1>2
  <2> QED
      BY <1>3, <1>5, <2>1 DEF ReadUpTo
<1>9. ready'[e] => \E n \in 1..taken'[e] : IsOffer(v[n]) /\ opened'[e] = taken'[e] - n
    BY <1>3, <1>5 DEF ReadUpTo
<1>10. out[Peer(e)].wire' = v
    BY <1>1 DEF v
<1> QED
    BY <1>4, <1>6, <1>7, <1>8, <1>9, <1>10 DEF ReadOK, ReadUpTo

(* Who has a session sent an offer first, *)
LEMMA OfferOnWire ==
    ASSUME SealInv, NEW e \in End, ready[e] \/ \A m \in Offers(e) : status[m] = "resolved"
    PROVE  \E n \in DOMAIN out[e].wire : IsOffer(out[e].wire[n])
<1>1. CASE ready[e]
    BY <1>1 DEF SealInv, SealOK, Sealed, SealedAfter
<1>2. CASE \A m \in Offers(e) : status[m] = "resolved"
  <2>1. status[Offer(e)] = "resolved" /\ Kind[Offer(e)] = "switch" /\ Sender[Offer(e)] = e /\ Offer(e) \in Msg
      BY <1>2, OfferOf
  <2>2. \E c \in Nat : At(out[e].wire, Offer(e), c)
      BY <2>1 DEF SealInv, OfferOK
  <2> QED
      BY <2>1, <2>2 DEF At, IsOffer
<1> QED
    BY <1>1, <1>2

(* and no message before that, where e2e is required. *)
LEMMA SealedStays ==
    ASSUME Grounds, Grounds', SwitchInv, e2eRequired' = e2eRequired, \A e \in End : Withheld(e)',
           \A e \in End : Onwards(e),
           \A e \in End : ready'[e] => ready[e] \/ \A m \in Offers(e) : status[m] = "resolved"
    PROVE  RequiredMeansSealed'
<1> SUFFICES ASSUME e2eRequired', NEW e \in End, NEW i \in DOMAIN out'[e].wire,
                    Kind[out'[e].wire[i].msg] \in {"link", "forward"}
             PROVE  out'[e].wire[i].seal # 0
    BY DEF RequiredMeansSealed
<1> DEFINE w == out[e].wire
           v == out'[e].wire
<1>1. /\ DOMAIN w = 1..Len(w) /\ Len(w) \in Nat /\ DOMAIN v = 1..Len(v) /\ Len(v) \in Nat
      /\ Begins(w, v) /\ i \in Nat
    BY WireTypes DEF Grounds, Onwards
<1>2. AllWritten
    BY WiresWritten DEF Grounds
<1>3. AllWritten'
  <2>1. SendInv'
      BY DEF Grounds
  <2>2. SendInv' => AllWritten'
      BY WiresWritten, PTL
  <2> QED
      BY <2>1, <2>2
<1>4. CASE ~ready'[e]
    BY <1>3, <1>4 DEF AllWritten, Withheld
<1>5. CASE ready'[e]
  <2>1. PICK k \in DOMAIN v : SealedAfter(k, v)
      BY <1>5 DEF Grounds, SealInv, SealOK, Sealed
  <2>2. PICK n \in DOMAIN w : IsOffer(w[n])
      BY <1>5, OfferOnWire DEF Grounds
  <2> HIDE DEF w, v
  <2>3. n \in DOMAIN v /\ v[n] = w[n] /\ n \in Nat /\ k \in Nat
      BY <1>1, <2>1, <2>2 DEF Begins
  <2>4. k <= n
    <3>1. n \in 1..k - 1 => FALSE
        BY <2>1, <2>2, <2>3 DEF SealedAfter
    <3>2. n >= 1
        BY <1>1, <2>2
    <3> QED
        BY <2>3, <3>1, <3>2
  <2>5. CASE i > k
    <3>1. v[i].seal = i - k
        BY <1>1, <2>1, <2>3, <2>5 DEF SealedAfter, v
    <3> QED
        BY <1>1, <2>3, <2>5, <3>1 DEF v
  <2>6. CASE ~(i > k)
    <3>1. i \in DOMAIN w /\ v[i] = w[i]
        BY <1>1, <2>2, <2>3, <2>4, <2>6 DEF Begins, v
    <3>2. Kind[w[i].msg] \in {"link", "forward"}
        BY <3>1 DEF v
    <3>3. status[w[i].msg] # "unsent" /\ Sender[w[i].msg] = e /\ w[i].msg \in Msg
        BY <1>2, <3>1 DEF AllWritten, w
    <3>4. Withheld(e)
        BY DEF SwitchInv
    <3>5. e2eRequired /\ RequiredMeansSealed
        BY DEF SwitchInv
    <3>6. w[i].seal # 0
        BY <3>1, <3>2, <3>5 DEF RequiredMeansSealed, w
    <3> QED
        BY <3>1, <3>6 DEF v
  <2> QED
      BY <2>5, <2>6
<1> QED
    BY <1>4, <1>5 DEF Grounds, TypeOK, SendTypeOK

(* A step that leaves the switch where it is: no key is made, nothing is   *)
(* read and no session begins.                                             *)
Rests ==
    /\ UNCHANGED <<world, e2eRequired, ready, keys, offered, session, taken, opened, parked, reason>>
    /\ \A e \in End :
        /\ making'[e] + keys[e] <= 1
        /\ pending'[e] = "resolved" => pending[e] = "resolved" \/ ready[e]
        /\ \/ accepting[e] # "none" /\ accepting'[e] # "none"
           \/ accepting'[e] = "none" /\ (accepting[e] = "none" \/ state'[e] = "DISCONNECTED")

(* It keeps the invariant, if no message gets out before its time. *)
LEMMA RestsKeep ==
    ASSUME Grounds, Grounds', SwitchInv, [Next]_vars, Rests,
           \A m \in Msg : Kind[m] = "switch" => Stays(m), \A e \in End : Withheld(e)'
    PROVE  SwitchInv'
<1>1. \A e \in End : Onwards(e)
    BY IsSendStep, SendGoesOn DEF Grounds, TypeOK
<1>2. ASSUME NEW e \in End
      PROVE  KeysOK(e)' /\ ReadOK(e)' /\ FromPeer(e)'
  <2>1. Peer(e) \in End /\ KeysOK(e) /\ ReadOK(e) /\ FromPeer(e) /\ TypeOK /\ TypeOK'
      BY BothEnds DEF SwitchInv, Grounds
  <2>2. KeysOK(e)'
      BY <1>1, <2>1, KeysStay DEF Rests, Offers
  <2>3. ReadOK(e)'
      BY <1>1, <2>1, ReadStays DEF Rests
  <2>4. FromPeer(e)'
      BY <2>1 DEF FromPeer, Rests, Peer
  <2> QED
      BY <2>2, <2>3, <2>4
<1>3. RequiredMeansSealed'
    BY <1>1, SealedStays DEF Rests
<1>4. NothingRefused'
    BY DEF SwitchInv, NothingRefused, Rests
<1> QED
    BY <1>2, <1>3, <1>4 DEF SwitchInv

(* So it is with whatever a connection does by itself. *)
LEMMA QuietKeeps ==
    ASSUME Grounds, Grounds', SwitchInv, [Next]_vars, Rests, GoesOn
    PROVE  SwitchInv'
<1>1. \A m \in Msg : Stays(m)
    BY GoesOnStays DEF Grounds
<1>2. \A e \in End : Withheld(e)'
    BY <1>1 DEF SwitchInv, Withheld, Rests, Stays
<1> QED
    BY <1>1, <1>2, RestsKeep

(* Hanging up rejects what is waiting, and resolves nothing. *)
LEMMA HangupRests ==
    ASSUME TypeOK, NEW e \in End, Hangup(e)
    PROVE  /\ GoesOn /\ ready' = ready /\ state'[e] = "DISCONNECTED"
           /\ \A x \in End : pending'[x] = "resolved" => pending[x] = "resolved"
<1>1. GoesOn
    BY HangupIs DEF GoesOn
<1>2. state'[e] = "DISCONNECTED"
    BY DEF Hangup, Drop, isConnected, TypeOK, SendTypeOK
<1>3. \A x \in End : pending'[x] = "resolved" => pending[x] = "resolved"
    BY DEF Hangup, RejectPending, TypeOK
<1> QED
    BY <1>1, <1>2, <1>3 DEF Hangup

(* An offer is begun only by an end that has made no keys yet. *)
LEMMA StartsOnce ==
    ASSUME TypeOK, NEW e \in End, NEW x \in End, KeysOK(x), startOffer(e) \/ making' = making
    PROVE  making'[x] + keys[x] <= 1
<1>1. making[x] \in Nat /\ keys[x] \in Nat /\ making[x] + keys[x] <= 1
    BY DEF TypeOK, KeysOK
<1>2. making'[x] = making[x] \/ (making'[x] = 1 /\ keys[x] = 0)
    BY DEF startOffer, TypeOK
<1> QED
    BY <1>1, <1>2

(* The steps that leave it where it is. *)
LEMMA QuietSteps ==
    ASSUME Grounds, SwitchInv, NEW e \in End,
           \/ CallE2E(e) \/ OfferFailed(e) \/ DeriveFails(e) \/ E2ETimesOut(e) \/ LinkCloses(e)
           \/ AcceptGoesOn(e) \/ Written(e) \/ (\E m \in Msg : StreamGoesOn(m))
    PROVE  Rests /\ GoesOn
<1>1. TypeOK /\ \A x \in End : KeysOK(x) /\ (making' = making \/ startOffer(e) => making'[x] + keys[x] <= 1)
    BY StartsOnce DEF Grounds, SwitchInv
<1>2. \A x \in End : /\ pending[x] \in {"none", "waiting", "resolved"}
                     /\ accepting[x] \in {"none", "offer", "derive"}
    BY <1>1 DEF TypeOK
<1>3. accepting \in [End -> {"none", "offer", "derive"}] /\ pending \in [End -> {"none", "waiting", "resolved"}]
    BY <1>1 DEF TypeOK
<1>4. CASE CallE2E(e)
  <2>1. GoesOn
      BY <1>4 DEF CallE2E, GoesOn
  <2>2. /\ UNCHANGED <<world, e2eRequired, ready, keys, offered, session, taken, opened, parked, reason,
                       accepting>>
        /\ making' = making \/ startOffer(e)
      BY <1>4 DEF CallE2E, sendVars
  <2>3. \A x \in End : pending'[x] = "resolved" => pending[x] = "resolved" \/ ready[x]
      BY <1>3, <1>4 DEF CallE2E
  <2> QED
      BY <1>1, <2>1, <2>2, <2>3 DEF Rests
<1>5. CASE OfferFailed(e) \/ DeriveFails(e)
  <2>1. Hangup(e) /\ accepting' = [accepting EXCEPT ![e] = "none"]
      BY <1>5 DEF OfferFailed, DeriveFails
  <2>2. UNCHANGED <<world, e2eRequired, making, keys, offered, session, taken, opened, parked, reason>>
      BY <1>5 DEF OfferFailed, DeriveFails
  <2>3. \A x \in End : accepting'[x] = IF x = e THEN "none" ELSE accepting[x]
      BY <1>3, <2>1
  <2> QED
      BY <1>1, <2>1, <2>2, <2>3, HangupRests DEF Rests
<1>6. CASE E2ETimesOut(e) \/ LinkCloses(e)
  <2>1. Hangup(e)
      BY <1>6 DEF E2ETimesOut, LinkCloses
  <2>2. UNCHANGED <<world, e2eRequired, making, keys, offered, session, taken, opened, parked, reason,
                    accepting>>
      BY <1>6 DEF E2ETimesOut, LinkCloses
  <2> QED
      BY <1>1, <2>1, <2>2, HangupRests DEF Rests
<1>7. CASE AcceptGoesOn(e)
  <2>1. /\ accepting[e] = "offer"
        /\ accepting' = [accepting EXCEPT ![e] = IF isConnected(e) THEN "derive" ELSE "none"]
        /\ UNCHANGED <<sendVars, world, e2eRequired, making, keys, offered, pending, session, taken, opened,
                       parked, reason>>
      BY <1>7 DEF AcceptGoesOn
  <2>2. GoesOn /\ ready' = ready /\ state' = state
      BY <2>1 DEF GoesOn, sendVars
  <2>3. ASSUME NEW x \in End
        PROVE  \/ accepting[x] # "none" /\ accepting'[x] # "none"
               \/ accepting'[x] = "none" /\ (accepting[x] = "none" \/ state'[x] = "DISCONNECTED")
      BY <1>3, <2>1, <2>2 DEF isConnected
  <2> QED
      BY <1>1, <2>1, <2>2, <2>3 DEF Rests
<1>8. CASE Written(e) \/ \E m \in Msg : StreamGoesOn(m)
  <2>1. GoesOn /\ WhileSending
      BY <1>8 DEF Written, StreamGoesOn, GoesOn
  <2>2. UNCHANGED <<world, e2eRequired, making, keys, offered, session, taken, opened, parked, reason,
                    accepting>>
      BY <2>1 DEF WhileSending
  <2>3. \A x \in End : pending'[x] = "resolved" => pending[x] = "resolved"
      BY <2>1 DEF WhileSending
  <2>4. ready' = ready
      BY <1>8 DEF Written, StreamGoesOn, WriteDone, WriteFails, StreamPush, StreamAborts, StreamEnds
  <2> QED
      BY <1>1, <2>1, <2>2, <2>3, <2>4 DEF Rests
<1> QED
    BY <1>4, <1>5, <1>6, <1>7, <1>8

(* A message of the application: none of those is an offer, and where e2e  *)
(* is required it waits for the session.                                   *)
LEMMA SendKeeps ==
    ASSUME Grounds, Grounds', SwitchInv, [Next]_vars, NEW m \in Msg, Send(m)
    PROVE  SwitchInv'
<1>1. Kind[m] # "switch"
  <2>1. world \in World
      BY E2ESwitchAssumption DEF Grounds, TypeOK
  <2>2. m \in world.sends
      BY DEF Send
  <2> QED
      BY <2>1, <2>2 DEF World
<1>2. UNCHANGED ready /\ \A k \in Msg : k # m => status'[k] = status[k]
  <2>1. status \in [Msg -> {"unsent", "pending", "resolved", "rejected"}]
      BY DEF Grounds, TypeOK, SendTypeOK
  <2>2. SendWhenGone(m) \/ QueueLink(m) \/ SendLink(m) \/ SendDirect(m)
      BY DEF Send
  <2>3. ready' = ready
      BY <2>2 DEF SendWhenGone, QueueLink, SendLink, SendDirect
  <2>4. \E how : status' = [status EXCEPT ![m] = how]
      BY <2>2 DEF SendWhenGone, QueueLink, SendLink, SendDirect
  <2> QED
      BY <2>1, <2>3, <2>4
<1>3. WhileSending /\ (Announced(Sender[m]) \/ Kind[m] = "heartbeat")
    BY DEF Send
<1>4. UNCHANGED <<world, e2eRequired, making, keys, offered, session, taken, opened, parked, reason, accepting>>
    BY <1>3 DEF WhileSending
<1>5. Rests
  <2>1. \A x \in End : pending'[x] = "resolved" => pending[x] = "resolved"
      BY <1>3 DEF WhileSending
  <2>2. \A x \in End : making'[x] + keys[x] <= 1
      BY <1>4 DEF SwitchInv, KeysOK
  <2> QED
      BY <1>2, <1>4, <2>1, <2>2 DEF Rests
<1>6. \A k \in Msg : Kind[k] = "switch" => Stays(k)
    BY <1>1, <1>2 DEF Stays
<1>7. ASSUME NEW e \in End
      PROVE  Withheld(e)'
  <2> SUFFICES ASSUME e2eRequired', ~ready'[e], NEW k \in Msg, Sender[k] = e, Kind[k] \in {"link", "forward"}
               PROVE  status'[k] = "unsent"
      BY DEF Withheld
  <2>1. e2eRequired /\ ~ready[e]
      BY <1>2, <1>4
  <2>2. CASE k = m
      BY <1>3, <2>1, <2>2 DEF Announced, SwitchInv, KeysOK
  <2>3. CASE k # m
      BY <1>2, <2>1, <2>3 DEF SwitchInv, Withheld
  <2> QED
      BY <2>2, <2>3
<1> QED
    BY <1>5, <1>6, <1>7, RestsKeep

(* What is in a queue after one more has joined it. *)
LEMMA AppendIs ==
    ASSUME NEW S, NEW q \in Seq(S), NEW x \in S
    PROVE  \A i \in DOMAIN Append(q, x) :
               Append(q, x)[i] = x \/ (i \in DOMAIN q /\ Append(q, x)[i] = q[i])
<1>1. DOMAIN q = 1..Len(q) /\ Len(q) \in Nat
    OBVIOUS
<1>2. DOMAIN Append(q, x) = 1..Len(q) + 1 /\ Append(q, x)[Len(q) + 1] = x
      /\ \A i \in 1..Len(q) : Append(q, x)[i] = q[i]
    OBVIOUS
<1>3. \A i \in 1..Len(q) + 1 : i \in 1..Len(q) \/ i = Len(q) + 1
    BY <1>1
<1> QED
    BY <1>1, <1>2, <1>3

(* Taking in a frame that nothing is objected to. *)
LEMMA HandleKeeps ==
    ASSUME Grounds, Grounds', SwitchInv, NEW e \in End, Handle(e)
    PROVE  SwitchInv'
<1> DEFINE f == Incoming(e)
           p == Peer(e)
           w == out[p].wire
           t == taken[e]
<1>1. Taking(e) /\ Objection(e, f) = "none" /\ TypeOK /\ TypeOK'
    BY Unobjectionable DEF Handle, Receive, ReceiveOffer, Grounds
<1>2. /\ p \in End /\ p # e /\ Peer(p) = e /\ t \in Nat /\ t + 1 \in DOMAIN w /\ f = w[t + 1]
      /\ accepting[e] = "none" /\ isConnected(e) /\ \A x \in End : x = e \/ x = p
    BY <1>1, BothEnds, NextFrame DEF Taking
<1>3. /\ DOMAIN w = 1..Len(w) /\ Len(w) \in Nat /\ ready[e] \in BOOLEAN /\ opened[e] \in Nat
  <2>1. DOMAIN w = 1..Len(w) /\ Len(w) \in Nat
      BY <1>1, <1>2, WireTypes
  <2>2. ready[e] \in BOOLEAN /\ opened[e] \in Nat
      BY <1>1, EndTypes
  <2> QED
      BY <2>1, <2>2
<1>4. /\ UNCHANGED <<sendVars, world, e2eRequired, keys, offered, session, pending, reason>>
      /\ Opened(e) /\ taken' = [taken EXCEPT ![e] = @ + 1]
      /\ \/ ~IsOffer(f) /\ making' = making /\ accepting' = accepting
         \/ IsOffer(f) /\ startOffer(e) /\ accepting' = [accepting EXCEPT ![e] = "offer"]
      /\ parked' = parked \/ parked' = [parked EXCEPT ![e] = Append(@, f)]
    BY <1>1 DEF Handle, Receive, ReceiveOffer, Taking, IsOffer
<1>5. UNCHANGED <<state, ready, linkQueue, out, stream, status>>
    BY <1>4 DEF sendVars
<1>6. \A x \in End : Onwards(x) /\ \A m \in Msg : Stays(m)
    BY <1>1, <1>5, OthersGoOn DEF TypeOK, Stays
<1>7. ASSUME NEW x \in End
      PROVE  KeysOK(x)'
  <2>1. KeysOK(x) /\ making'[x] + keys[x] <= 1
      BY <1>1, <1>4, StartsOnce DEF SwitchInv
  <2> QED
      BY <1>1, <1>4, <1>5, <1>6, <2>1, KeysStay DEF Offers
<1>8. ReadOK(p)'
  <2>1. ReadOK(p) /\ taken'[p] = taken[p] /\ opened'[p] = opened[p] /\ accepting'[p] = accepting[p]
      BY <1>1, <1>2, <1>4 DEF SwitchInv, Opened, TypeOK
  <2> QED
      BY <1>1, <1>2, <1>5, <1>6, <2>1, ReadStays
<1>9. ReadOK(e)'
  <2>1. ReadUpTo(e, w) /\ taken'[e] = t + 1
      BY <1>1, <1>4 DEF SwitchInv, ReadOK, TypeOK
  <2>2. opened'[e] = IF ready[e] THEN opened[e] + 1 ELSE opened[e]
      BY <1>1, <1>4 DEF Opened, TypeOK
  <2>3. Peer(e)' = p /\ out[Peer(e)].wire' = w
      BY <1>5 DEF Peer
  <2>4. accepting'[e] = IF IsOffer(f) THEN "offer" ELSE "none"
      BY <1>1, <1>2, <1>4 DEF TypeOK
  <2>5. IsOffer(f) => ~ready[e]
      BY <1>1 DEF Objection, IsOffer
  <2> HIDE DEF w, t, f, p
  <2>6. t + 1 <= Len(w) /\ t + 1 # 0
      BY <1>2, <1>3
  <2>7. ~ready[e] => opened'[e] = 0
      BY <2>1, <2>2 DEF ReadUpTo
  <2>8. ASSUME ~ready[e], ~IsOffer(f)
        PROVE  \A i \in 1..t + 1 : ~IsOffer(w[i])
    <3>1. \A i \in 1..t : ~IsOffer(w[i])
        BY <1>2, <2>1, <2>8 DEF ReadUpTo, t
    <3>2. \A i \in 1..t + 1 : i \in 1..t \/ i = t + 1
        BY <1>2
    <3> QED
        BY <1>2, <2>8, <3>1, <3>2
  <2>9. ASSUME ready[e]
        PROVE  \E n \in 1..t + 1 : IsOffer(w[n]) /\ opened'[e] = t + 1 - n
    <3>1. PICK n \in 1..t : IsOffer(w[n]) /\ opened[e] = t - n
        BY <2>1, <2>9 DEF ReadUpTo, t
    <3>2. n \in 1..t + 1 /\ opened[e] + 1 = t + 1 - n
        BY <1>2, <3>1
    <3> QED
        BY <2>2, <2>9, <3>1, <3>2
  <2>10. ready' = ready
      BY <1>5
  <2>11. accepting'[e] # "none" <=> IsOffer(f)
      BY <2>4
  <2>12. accepting'[e] # "none" => ~ready'[e] /\ taken'[e] # 0 /\ IsOffer(w[taken'[e]])
      BY <1>2, <2>1, <2>5, <2>6, <2>10, <2>11
  <2>13. ~ready'[e] /\ accepting'[e] = "none" => \A i \in 1..taken'[e] : ~IsOffer(w[i])
      BY <2>1, <2>8, <2>10, <2>11
  <2>14. ready'[e] => \E n \in 1..taken'[e] : IsOffer(w[n]) /\ opened'[e] = taken'[e] - n
    <3> SUFFICES ASSUME ready'[e]
                 PROVE  \E n \in 1..taken'[e] : IsOffer(w[n]) /\ opened'[e] = taken'[e] - n
        OBVIOUS
    <3>1. PICK n \in 1..t + 1 : IsOffer(w[n]) /\ opened'[e] = t + 1 - n
        BY <2>9, <2>10
    <3>2. taken'[e] = t + 1
        BY <2>1
    <3>3. n \in 1..taken'[e] /\ opened'[e] = taken'[e] - n
        BY <1>2, <3>1, <3>2
    <3> QED
        BY <3>1, <3>3
  <2>15. taken'[e] <= Len(w) /\ (~ready'[e] => opened'[e] = 0)
      BY <2>1, <2>6, <2>7, <2>10
  <2> QED
      BY <2>3, <2>12, <2>13, <2>14, <2>15 DEF ReadOK, ReadUpTo
<1>10. \A x \in End : Withheld(x)'
    BY <1>4, <1>5 DEF SwitchInv, Withheld
<1>11. ASSUME NEW x \in End
       PROVE  FromPeer(x)'
  <2>1. Sender[f.msg] = p
      BY <1>1, <1>2, WiresWritten DEF AllWritten, Grounds
  <2>2. FromPeer(x) /\ parked[x] \in Seq(Frame) /\ f \in Frame
      BY <1>1, NextFrame DEF SwitchInv, TypeOK
  <2>3. parked'[x] = parked[x] \/ (x = e /\ parked'[x] = Append(parked[x], f))
    <3>1. parked \in [End -> Seq(Frame)]
        BY <1>1 DEF TypeOK
    <3> QED
        BY <1>4, <3>1
  <2> HIDE DEF f, p
  <2>4. \A i \in DOMAIN Append(parked[x], f) :
            Append(parked[x], f)[i] = f \/ (i \in DOMAIN parked[x] /\ Append(parked[x], f)[i] = parked[x][i])
      BY <2>2, AppendIs
  <2>5. x = e => p = Peer(x)
      BY DEF p
  <2>6. \A i \in DOMAIN parked'[x] : Sender[parked'[x][i].msg] = Peer(x)
    <3>1. \A i \in DOMAIN parked[x] : Sender[parked[x][i].msg] = Peer(x)
        BY <2>2 DEF FromPeer
    <3>2. CASE parked'[x] = parked[x]
        BY <3>1, <3>2
    <3>3. CASE x = e /\ parked'[x] = Append(parked[x], f)
        BY <2>1, <2>4, <2>5, <3>1, <3>3
    <3> QED
        BY <2>3, <3>2, <3>3
  <2> QED
      BY <2>6 DEF FromPeer, Peer
<1>12. NothingRefused' /\ RequiredMeansSealed'
    BY <1>4, <1>5 DEF SwitchInv, NothingRefused, RequiredMeansSealed
<1> QED
    BY <1>2, <1>7, <1>8, <1>9, <1>10, <1>11, <1>12 DEF SwitchInv

(* The keys are made: the offer goes out with them, or the link is gone.   *)
LEMMA OfferMadeKeeps ==
    ASSUME Grounds, Grounds', SwitchInv, [Next]_vars, NEW e \in End, OfferMade(e)
    PROVE  SwitchInv'
<1> DEFINE o == Offer(e)
<1>1. /\ making[e] > 0 /\ making' = [making EXCEPT ![e] = @ - 1] /\ keys' = [keys EXCEPT ![e] = @ + 1]
      /\ UNCHANGED <<world, e2eRequired, accepting, session, taken, opened, parked, reason>>
    BY DEF OfferMade
<1>2. /\ TypeOK /\ TypeOK' /\ o \in Offers(e) /\ o \in Msg /\ Sender[o] = e /\ Kind[o] = "switch" /\ KeysOK(e)
      /\ status \in [Msg -> {"unsent", "pending", "resolved", "rejected"}]
    BY OfferOf DEF Grounds, SwitchInv, TypeOK, SendTypeOK
<1>3. keys[e] = 0 /\ keys'[e] = 1 /\ making'[e] = 0 /\ offered[e] = 0
  <2>1. making[e] \in Nat /\ keys[e] \in Nat /\ offered[e] \in Nat
      BY <1>2 DEF TypeOK
  <2>2. keys[e] = 0 /\ making[e] = 1
      BY <1>1, <1>2, <2>1 DEF KeysOK
  <2>3. keys'[e] = keys[e] + 1 /\ making'[e] = making[e] - 1
      BY <1>1, <1>2 DEF TypeOK
  <2>4. offered[e] = 0
      BY <1>2, <2>1, <2>2 DEF KeysOK
  <2> QED
      BY <2>2, <2>3, <2>4
<1>4. /\ ready' = ready /\ \A m \in Msg : m # o => status'[m] = status[m]
      /\ \A x \in End : pending'[x] = "resolved" => pending[x] = "resolved"
  <2>1. ready' = ready /\ \E how : status' = [status EXCEPT ![o] = how]
      BY DEF OfferMade, OfferOut
  <2>2. pending' = pending \/ RejectPending(e)
      BY DEF OfferMade
  <2>3. \A x \in End : pending'[x] = "resolved" => pending[x] = "resolved"
    <3>1. pending \in [End -> {"none", "waiting", "resolved"}]
        BY <1>2 DEF TypeOK
    <3>2. RejectPending(e) => \A x \in End : pending'[x] = pending[x] \/ pending'[x] = "none"
        BY <3>1 DEF RejectPending
    <3> QED
        BY <2>2, <3>2
  <2> QED
      BY <1>2, <2>1, <2>3
<1>5. \A x \in End : Onwards(x)
    BY IsSendStep, SendGoesOn DEF Grounds, TypeOK
<1>6. KeysOK(e)'
  <2>1. CASE isConnected(e) /\ status[o] = "unsent"
    <3>1. offered'[e] = 1
      <4>1. offered \in [End -> Nat]
          BY <1>2 DEF TypeOK
      <4>2. offered' = [offered EXCEPT ![e] = keys'[e]]
          BY <2>1 DEF OfferMade
      <4> QED
          BY <1>3, <4>1, <4>2
    <3> QED
        BY <1>1, <1>2, <1>3, <1>4, <3>1 DEF KeysOK, suite, Offers, Offer
  <2>2. CASE ~(isConnected(e) /\ status[o] = "unsent")
    <3>1. ~isConnected(e)
        BY <1>2, <1>3, <2>2 DEF KeysOK, isConnected
    <3>2. /\ status' = [status EXCEPT ![o] = IF @ = "unsent" THEN "rejected" ELSE @]
          /\ UNCHANGED <<state, ready, out, offered>>
        BY <2>2 DEF OfferMade
    <3>3. \A i \in DOMAIN out[e].wire : ~IsOffer(out[e].wire[i])
        BY <1>2, <1>3, OfferWasMade
    <3>4. status'[o] = "rejected"
        BY <1>2, <1>3, <3>2 DEF KeysOK
    <3>5. state'[e] = "DISCONNECTED" /\ \A i \in DOMAIN out'[e].wire : ~IsOffer(out'[e].wire[i])
        BY <3>1, <3>2, <3>3 DEF isConnected
    <3>6. offered'[e] = 0
        BY <1>3, <3>2
    <3> QED
        BY <1>1, <1>2, <1>3, <1>4, <3>4, <3>5, <3>6 DEF KeysOK, suite, Offers, Offer
  <2> QED
      BY <2>1, <2>2
<1>7. ASSUME NEW x \in End
      PROVE  KeysOK(x)'
  <2>1. CASE x = e
      BY <1>6, <2>1
  <2>2. CASE x # e
    <3>1. making'[x] = making[x] /\ keys'[x] = keys[x] /\ offered'[x] = offered[x]
      <4>1. /\ making \in [End -> Nat] /\ keys \in [End -> Nat] /\ offered \in [End -> Nat]
          BY <1>2 DEF TypeOK
      <4>2. offered' = offered \/ offered' = [offered EXCEPT ![e] = keys'[e]]
          BY DEF OfferMade
      <4> QED
          BY <1>1, <2>2, <4>1, <4>2
    <3>2. \A m \in Offers(x) : Stays(m)
        BY <1>2, <1>4, <2>2 DEF Offers, Stays
    <3>3. KeysOK(x)
        BY DEF SwitchInv
    <3>4. making'[x] + keys[x] <= 1
        BY <3>1, <3>3 DEF KeysOK
    <3>5. session'[x] = session[x] /\ ready'[x] = ready[x] /\ world' = world
        BY <1>1, <1>4
    <3> QED
        BY <1>2, <1>4, <1>5, <3>1, <3>2, <3>3, <3>4, <3>5, KeysStay
  <2> QED
      BY <2>1, <2>2
<1>8. ASSUME NEW x \in End
      PROVE  ReadOK(x)'
  <2>1. Peer(x) \in End /\ ReadOK(x)
      BY BothEnds DEF SwitchInv
  <2> QED
      BY <1>1, <1>2, <1>4, <1>5, <2>1, ReadStays
<1>9. \A x \in End : Withheld(x)'
    BY <1>1, <1>2, <1>4 DEF SwitchInv, Withheld
<1>10. \A x \in End : FromPeer(x)'
    BY <1>1 DEF SwitchInv, FromPeer, Peer
<1>11. NothingRefused'
    BY <1>1 DEF SwitchInv, NothingRefused
<1>12. RequiredMeansSealed'
    BY <1>1, <1>4, <1>5, <1>9, SealedStays
<1> QED
    BY <1>7, <1>8, <1>9, <1>10, <1>11, <1>12 DEF SwitchInv

(* The session is derived from the first key pairs of both, and the reader *)
(* stands at the offer.                                                    *)
LEMMA DerivedKeeps ==
    ASSUME Grounds, Grounds', SwitchInv, [Next]_vars, NEW e \in End, Derived(e)
    PROVE  SwitchInv'
<1> DEFINE p == Peer(e)
           w == out[p].wire
           v == out'[p].wire
<1>1. /\ accepting[e] = "derive" /\ accepting' = [accepting EXCEPT ![e] = "none"]
      /\ UNCHANGED <<world, e2eRequired, making, keys, offered, taken, opened, reason>>
    BY DEF Derived
<1>2. /\ TypeOK /\ TypeOK' /\ \A x \in End : KeysOK(x) /\ ReadOK(x) /\ FromPeer(x) /\ Withheld(x)
    BY DEF Grounds, SwitchInv
<1>3. accepting \in [End -> {"none", "offer", "derive"}]
      /\ session \in [End -> [mine: Nat, theirs: Nat, suite: Suite]]
      /\ parked \in [End -> Seq(Frame)] /\ ready \in [End -> BOOLEAN]
      /\ pending \in [End -> {"none", "waiting", "resolved"}]
    BY <1>2 DEF TypeOK, SendTypeOK
<1>4. CASE ~isConnected(e)
  <2>1. UNCHANGED <<sendVars, session, pending, parked, got>>
      BY <1>4 DEF Derived
  <2>2. GoesOn /\ ready' = ready /\ state' = state
      BY <2>1 DEF GoesOn, sendVars
  <2>3. Rests
    <3>1. \A x \in End : making'[x] + keys[x] <= 1
        BY <1>1, <1>2 DEF KeysOK
    <3>2. \A x \in End : accepting'[x] = accepting[x] \/ (accepting'[x] = "none" /\ state'[x] = "DISCONNECTED")
        BY <1>1, <1>3, <1>4, <2>2 DEF isConnected
    <3> QED
        BY <1>1, <2>1, <2>2, <3>1, <3>2 DEF Rests
  <2> QED
      BY <2>2, <2>3, QuietKeeps
<1>5. CASE isConnected(e)
  <2>1. /\ SessionUp(e) /\ Unpark(e)
        /\ session' = [session EXCEPT ![e] = [mine |-> keys[e], theirs |-> offered[p], suite |-> suite(e)]]
        /\ pending' = [pending EXCEPT ![e] = IF @ = "waiting" THEN "resolved" ELSE @]
      BY <1>5 DEF Derived
  <2>2. /\ status' = status /\ ready' = [ready EXCEPT ![e] = TRUE]
        /\ \A m \in Offers(e) : status[m] = "resolved"
      BY <2>1 DEF SessionUp
  <2>3. \A x \in End : Onwards(x)
      BY IsSendStep, SendGoesOn DEF Grounds, TypeOK
  <2>4. p \in End /\ p # e /\ Peer(p) = e /\ Peer(e)' = p /\ \A x \in End : x = e \/ x = p
      BY BothEnds DEF Peer
  <2>5. /\ DOMAIN w = 1..Len(w) /\ Len(w) \in Nat /\ Len(v) \in Nat /\ taken[e] \in Nat /\ opened[e] \in Nat
        /\ Begins(w, v) /\ ReadUpTo(e, w) /\ ready[e] \in BOOLEAN
    <3>1. DOMAIN w = 1..Len(w) /\ Len(w) \in Nat /\ Len(v) \in Nat
        BY <1>2, <2>4, WireTypes
    <3>2. taken[e] \in Nat /\ opened[e] \in Nat /\ ready[e] \in BOOLEAN
        BY <1>2, EndTypes
    <3>3. Begins(w, v) /\ ReadUpTo(e, w)
        BY <1>2, <2>3, <2>4 DEF Onwards, ReadOK
    <3> QED
        BY <3>1, <3>2, <3>3
  <2>6. ~ready[e] /\ taken[e] \in DOMAIN w /\ IsOffer(w[taken[e]]) /\ taken[e] <= Len(v) /\ opened[e] = 0
        /\ v[taken[e]] = w[taken[e]]
    <3> HIDE DEF w, v
    <3>1. ~ready[e] /\ taken[e] # 0 /\ IsOffer(w[taken[e]]) /\ taken[e] <= Len(w) /\ opened[e] = 0
        BY <1>1, <2>5 DEF ReadUpTo
    <3>2. taken[e] \in 1..Len(w)
        BY <2>5, <3>1
    <3>3. taken[e] <= Len(v) /\ v[taken[e]] = w[taken[e]]
        BY <2>5, <3>1, <3>2 DEF Begins
    <3> QED
        BY <2>5, <3>1, <3>2, <3>3
  <2>7. KeysOK(e)'
    <3>1. status[Offer(e)] = "resolved"
        BY <2>2, OfferOf
    <3>2. offered[e] = 1 /\ keys[e] = 1
        BY <1>2, <3>1 DEF KeysOK
    <3>3. offered[p] = 1
        BY <1>2, <2>4, <2>6, OfferWasMade
    <3>4. session'[e] = [mine |-> 1, theirs |-> 1, suite |-> suite(e)]
        BY <1>3, <2>1, <3>2, <3>3
    <3>5. suite(e)' = suite(e)
        BY <1>1 DEF suite, Peer
    <3>6. ready'[e]
        BY <1>3, <2>2
    <3>7. offered'[e] = 1 /\ keys'[e] = 1 /\ making'[e] + keys'[e] <= 1
        BY <1>1, <1>2, <3>2 DEF KeysOK
    <3>8. \A m \in Offers(e) : m # Offer(e) => status'[m] = "unsent"
        BY <1>2, <2>2 DEF KeysOK
    <3> QED
        BY <3>4, <3>5, <3>6, <3>7, <3>8 DEF KeysOK, Offers, Offer
  <2>8. KeysOK(p)'
    <3>1. \A m \in Offers(p) : Stays(m)
        BY <2>2 DEF Stays
    <3>2. KeysOK(p) /\ making'[p] + keys[p] <= 1
        BY <1>1, <1>2, <2>4 DEF KeysOK
    <3>3. ready'[p] = ready[p] /\ session'[p] = session[p] /\ pending'[p] = pending[p]
        BY <1>3, <2>1, <2>2, <2>4
    <3> QED
        BY <1>1, <1>2, <2>3, <2>4, <3>1, <3>2, <3>3, KeysStay
  <2>9. ReadOK(e)'
    <3>1. ready'[e] /\ accepting'[e] = "none" /\ out[Peer(e)].wire' = v
        BY <1>1, <1>3, <2>2, <2>4
    <3> HIDE DEF w, v
    <3>2. taken[e] \in 1..taken[e] /\ taken[e] - taken[e] = 0
        BY <2>5, <2>6
    <3>3. \E n \in 1..taken[e] : IsOffer(v[n]) /\ opened[e] = taken[e] - n
        BY <2>6, <3>2
    <3> QED
        BY <1>1, <2>6, <3>1, <3>3 DEF ReadOK, ReadUpTo
  <2>10. ReadOK(p)'
    <3>1. ready'[p] = ready[p] /\ accepting'[p] = accepting[p]
        BY <1>1, <1>3, <2>2, <2>4
    <3>2. taken'[p] = taken[p] /\ opened'[p] = opened[p] /\ ReadOK(p)
        BY <1>1, <1>2, <2>4
    <3> QED
        BY <1>2, <2>3, <2>4, <3>1, <3>2, ReadStays
  <2>11. \A x \in End : Withheld(x)'
      BY <1>1, <1>2, <1>3, <2>2 DEF Withheld
  <2>12. \A x \in End : FromPeer(x)'
    <3>1. \A x \in End : parked'[x] = parked[x] \/ parked'[x] = <<>>
        BY <1>3, <2>1 DEF Unpark
    <3>2. DOMAIN <<>> = {}
        OBVIOUS
    <3> QED
        BY <1>2, <3>1, <3>2 DEF FromPeer, Peer
  <2>13. NothingRefused'
      BY <1>1 DEF SwitchInv, NothingRefused
  <2>14. RequiredMeansSealed'
    <3>1. \A x \in End : ready'[x] => ready[x] \/ \A m \in Offers(x) : status[m] = "resolved"
        BY <1>3, <2>2
    <3> QED
        BY <1>1, <2>3, <2>11, <3>1, SealedStays
  <2> QED
      BY <2>4, <2>7, <2>8, <2>9, <2>10, <2>11, <2>12, <2>13, <2>14 DEF SwitchInv
<1> QED
    BY <1>4, <1>5

(* Every step keeps the invariant, *)
LEMMA SwitchNext == Grounds /\ Grounds' /\ SwitchInv /\ [Next]_vars => SwitchInv'
<1> SUFFICES ASSUME Grounds, Grounds', SwitchInv, [Next]_vars
             PROVE  SwitchInv'
    OBVIOUS
<1>1. ASSUME NEW m \in Msg, Send(m)
      PROVE  SwitchInv'
    BY <1>1, SendKeeps
<1>2. ASSUME NEW m \in Msg, StreamGoesOn(m)
      PROVE  SwitchInv'
  <2>1. Sender[m] \in End
      BY SendPathAssumption
  <2> QED
      BY <1>2, <2>1, QuietSteps, QuietKeeps
<1>3. ASSUME NEW e \in End, CallE2E(e) \/ OfferFailed(e) \/ AcceptGoesOn(e) \/ DeriveFails(e)
                            \/ Written(e) \/ E2ETimesOut(e) \/ LinkCloses(e)
      PROVE  SwitchInv'
    BY <1>3, QuietSteps, QuietKeeps
<1>4. ASSUME NEW e \in End, OfferMade(e) \/ Handle(e) \/ Derived(e)
      PROVE  SwitchInv'
    BY <1>4, OfferMadeKeeps, HandleKeeps, DerivedKeeps
<1>5. CASE UNCHANGED vars
  <2>1. GoesOn /\ Rests
    <3>1. UNCHANGED <<sendVars, world, e2eRequired, making, keys, offered, pending, accepting, session,
                      taken, opened, parked, reason>>
        BY <1>5 DEF vars, recvVars
    <3>2. ready' = ready
        BY <3>1 DEF sendVars
    <3>3. \A e \in End : making'[e] + keys[e] <= 1
        BY <3>1 DEF SwitchInv, KeysOK
    <3> QED
        BY <3>1, <3>2, <3>3 DEF GoesOn, Rests
  <2> QED
      BY <2>1, QuietKeeps
<1> QED
    BY <1>1, <1>2, <1>3, <1>4, <1>5 DEF Next, Accept

(* and nothing has happened at first. *)
LEMMA SwitchInit == Init => SwitchInv
<1> SUFFICES ASSUME Init
             PROVE  SwitchInv
    OBVIOUS
<1>1. SendInit
    BY DEF Init
<1>2. \A e \in End : out[e].wire = <<>> /\ ready[e] = FALSE
    BY <1>1 DEF SendInit
<1>3. \A m \in Msg : status[m] = "unsent"
    BY <1>1 DEF SendInit
<1>4. Len(<<>>) = 0 /\ DOMAIN <<>> = {} /\ 1..0 = {}
    OBVIOUS
<1>5. ASSUME NEW e \in End
      PROVE  KeysOK(e) /\ Withheld(e)
  <2>1. Offer(e) \in Msg /\ \A m \in Offers(e) : m \in Msg
      BY OfferOf DEF Offers
  <2>2. keys[e] = 0 /\ offered[e] = 0 /\ (making[e] = 0 \/ making[e] = 1) /\ pending[e] # "resolved"
      BY DEF Init
  <2>3. making[e] + keys[e] <= 1
      BY <2>2
  <2> QED
      BY <1>2, <1>3, <2>1, <2>2, <2>3 DEF KeysOK, Withheld
<1>6. ASSUME NEW e \in End
      PROVE  ReadOK(e) /\ FromPeer(e)
  <2>1. Peer(e) \in End
      BY BothEnds
  <2>2. taken[e] = 0 /\ opened[e] = 0 /\ accepting[e] = "none" /\ parked[e] = <<>>
      BY DEF Init
  <2> QED
      BY <1>2, <1>4, <2>1, <2>2 DEF ReadOK, ReadUpTo, FromPeer
<1>7. NothingRefused /\ RequiredMeansSealed
    BY <1>2, <1>4 DEF Init, NothingRefused, RequiredMeansSealed
<1> QED
    BY <1>5, <1>6, <1>7 DEF SwitchInv

-----------------------------------------------------------------------------
(* What it gives                                                           *)

(* The division of each wire by its offer holds here too. *)
LEMMA GroundsHold == Spec => []Grounds
BY WayOutKeepsInv, ImplementsSendPath, SealInvariant, SwitchTyped, PTL DEF Grounds

(* The invariant of the switch. *)
THEOREM SwitchInvariant == Spec => []SwitchInv
<1>1. Init => SwitchInv
    BY SwitchInit
<1> QED
    BY <1>1, SwitchNext, GroundsHold, PTL DEF Spec

(* NothingRefused: whenever each end asks, however offers, traffic and     *)
(* failures cross, neither refuses a frame of the other.                   *)
THEOREM NothingIsRefused == Spec => []NothingRefused
<1>1. SwitchInv => NothingRefused
    BY DEF SwitchInv
<1> QED
    BY <1>1, SwitchInvariant, PTL

(* RequiredMeansSealed: where e2e is required, no message of the           *)
(* application, nor one it relays, is written in clear.                    *)
THEOREM RequiredIsSealed == Spec => []RequiredMeansSealed
<1>1. SwitchInv => RequiredMeansSealed
    BY DEF SwitchInv
<1> QED
    BY <1>1, SwitchInvariant, PTL

(* SessionsAgree: ends that are both ready hold one session, and the       *)
(* counter of each is as far as the sealed frames it has taken in.         *)
THEOREM SessionsAlwaysAgree == Spec => []SessionsAgree
<1>1. ASSUME Grounds, SwitchInv
      PROVE  SessionsAgree
  <2> SUFFICES ASSUME \A x \in End : ready[x], NEW e \in End
               PROVE  LET wire == out[Peer(e)].wire
                          unopened == {i \in DOMAIN wire : i > taken[e] /\ wire[i].seal # 0}
                      IN  SameKeys(e) /\ opened[e] + Cardinality(unopened) = out[Peer(e)].seals
      BY DEF SessionsAgree
  <2> DEFINE p == Peer(e)
             w == out[p].wire
             t == taken[e]
             unopened == {i \in DOMAIN w : i > t /\ w[i].seal # 0}
  <2>1. p \in End /\ KeysOK(p) /\ TypeOK /\ ReadUpTo(e, w) /\ ready[p] /\ ready[e]
      BY <1>1, BothEnds DEF SwitchInv, Grounds, ReadOK
  <2>2. w \in Seq(Frame) /\ DOMAIN w = 1..Len(w) /\ Len(w) \in Nat /\ t \in Nat /\ opened[e] \in Nat
    <3>1. w \in Seq(Frame) /\ t \in Nat /\ opened[e] \in Nat
        BY <2>1 DEF TypeOK, SendTypeOK, Path
    <3> HIDE DEF w, t
    <3> QED
        BY <3>1
  <2>3. SameKeys(e)
      BY <1>1, <2>1, SessionsMatch DEF SwitchInv
  <2>4. PICK n \in 1..t : IsOffer(w[n]) /\ opened[e] = t - n
      BY <2>1 DEF ReadUpTo
  <2>5. n \in DOMAIN w /\ n <= t /\ t <= Len(w)
      BY <2>1, <2>2, <2>4 DEF ReadUpTo
  <2>6. /\ \A i \in DOMAIN w : w[i].seal = IF i <= n THEN 0 ELSE i - n
        /\ out[p].seals = Len(w) - n
      BY <1>1, <2>1, <2>4, <2>5, AroundOffer
  <2> HIDE DEF w, t, p
  <2>7. unopened = t + 1..Len(w)
    <3>1. \A i \in DOMAIN w : i > t => w[i].seal = i - n /\ i - n # 0
        BY <2>2, <2>4, <2>5, <2>6
    <3>2. \A i \in 1..Len(w) : i > t => i \in t + 1..Len(w)
        BY <2>2
    <3>3. \A i \in t + 1..Len(w) : i \in 1..Len(w) /\ i > t
        BY <2>2
    <3> QED
        BY <2>2, <3>1, <3>2, <3>3
  <2>8. Cardinality(unopened) = Len(w) - t
    <3>1. t + 1 \in Int /\ Len(w) \in Int
        BY <2>2
    <3>2. Cardinality(t + 1..Len(w)) = IF t + 1 > Len(w) THEN 0 ELSE Len(w) - (t + 1) + 1
        BY <3>1, FS_Interval
    <3>3. (IF t + 1 > Len(w) THEN 0 ELSE Len(w) - (t + 1) + 1) = Len(w) - t
      <4>1. t <= Len(w) /\ t \in Nat /\ Len(w) \in Nat
          BY <2>2, <2>5
      <4>2. CASE t + 1 > Len(w)
          BY <4>1, <4>2
      <4>3. CASE ~(t + 1 > Len(w))
          BY <4>1, <4>3
      <4> QED
          BY <4>2, <4>3
    <3> QED
        BY <2>7, <3>2, <3>3
  <2>9. opened[e] + Cardinality(unopened) = out[p].seals
      BY <2>2, <2>4, <2>5, <2>6, <2>8
  <2> QED
      BY <2>3, <2>9 DEF w, t, p
<1> QED
    BY <1>1, GroundsHold, SwitchInvariant, PTL

-----------------------------------------------------------------------------
(* What is handed on                                                       *)

(* The first t of a queue, *)
LEMMA FirstOf ==
    ASSUME NEW S, NEW q \in Seq(S), NEW t \in Nat, t <= Len(q)
    PROVE  SubSeq(q, 1, t) \in Seq(S) /\ Len(SubSeq(q, 1, t)) = t /\ \A i \in 1..t : SubSeq(q, 1, t)[i] = q[i]
OBVIOUS

(* which stay the first of any queue that goes on from there, *)
LEMMA FirstStay ==
    ASSUME NEW q \in Seq(Frame), NEW v \in Seq(Frame), NEW t \in Nat, t <= Len(q), Begins(q, v)
    PROVE  SubSeq(v, 1, t) = SubSeq(q, 1, t)
<1>1. Len(q) \in Nat /\ Len(v) \in Nat /\ Len(q) <= Len(v)
    BY DEF Begins
<1>2. t <= Len(v) /\ \A i \in 1..t : i \in 1..Len(q)
    BY <1>1
<1>3. \A i \in 1..t : v[i] = q[i]
    BY <1>2 DEF Begins
<1> QED
    BY <1>2, <1>3, FirstOf, SeqEqual

(* and are one more when the next is taken. *)
LEMMA FirstAndNext ==
    ASSUME NEW q \in Seq(Frame), NEW t \in Nat, t + 1 \in DOMAIN q, NEW m
    PROVE  InQueue(SubSeq(q, 1, t + 1), m) = InQueue(SubSeq(q, 1, t), m) + IF q[t + 1].msg = m THEN 1 ELSE 0
<1> DEFINE a == SubSeq(q, 1, t)
           b == SubSeq(q, 1, t + 1)
           x == q[t + 1]
<1>1. x \in Frame /\ t + 1 \in Nat /\ t + 1 <= Len(q) /\ t <= Len(q)
    OBVIOUS
<1>2. /\ a \in Seq(Frame) /\ Len(a) = t /\ \A i \in 1..t : a[i] = q[i]
      /\ b \in Seq(Frame) /\ Len(b) = t + 1 /\ \A i \in 1..t + 1 : b[i] = q[i]
    BY <1>1, FirstOf
<1> HIDE DEF a, b, x
<1>3. b = a \o <<x>>
  <2> DEFINE c == a \o <<x>>
  <2>1. c \in Seq(Frame) /\ Len(c) = t + 1 /\ c[t + 1] = x /\ \A i \in 1..t : c[i] = a[i]
      BY <1>1, <1>2
  <2> HIDE DEF c
  <2>2. \A i \in 1..t + 1 : i \in 1..t \/ i = t + 1
      OBVIOUS
  <2>3. t + 1 \in 1..t + 1
      OBVIOUS
  <2>4. \A i \in 1..t + 1 : b[i] = c[i]
      BY <1>2, <2>1, <2>2, <2>3 DEF x
  <2>5. b = c
      BY <1>2, <2>1, <2>4, SeqEqual
  <2> QED
      BY <2>5 DEF c
<1>4. InQueue(a \o <<x>>, m) = InQueue(a, m) + InQueue(<<x>>, m)
  <2>1. <<x>> \in Seq(Frame)
      BY <1>1
  <2> QED
      BY <1>2, <2>1, CountConcat
<1> QED
    BY <1>3, <1>4, CountOne DEF a, b, x

(* What e has handed on of m, and parked, is what it took in. *)
HandedOn(e) ==
    isConnected(e) =>
        \A m \in Msg : Kind[m] # "switch" /\ Sender[m] = Peer(e) =>
            got[m] + InQueue(parked[e], m) = InQueue(SubSeq(out[Peer(e)].wire, 1, taken[e]), m)

(* It stays so while nothing is taken in. *)
LEMMA HandedStays ==
    ASSUME Grounds, Grounds', SwitchInv, NEW e \in End, HandedOn(e), \A x \in End : Onwards(x),
           taken'[e] = taken[e],
           \A m \in Msg : Sender[m] = Peer(e) =>
               got'[m] + InQueue(parked'[e], m) = got[m] + InQueue(parked[e], m)
    PROVE  HandedOn(e)'
<1> DEFINE w == out[Peer(e)].wire
           v == out'[Peer(e)].wire
<1>1. Peer(e) \in End /\ Peer(e)' = Peer(e) /\ TypeOK /\ TypeOK' /\ taken[e] \in Nat /\ ReadUpTo(e, w)
  <2>1. TypeOK /\ TypeOK' /\ ReadUpTo(e, w)
      BY DEF Grounds, SwitchInv, ReadOK
  <2> QED
      BY <2>1, BothEnds, EndTypes DEF Peer
<1>2. w \in Seq(Frame) /\ v \in Seq(Frame) /\ Begins(w, v) /\ taken[e] <= Len(w)
    BY <1>1, WireTypes DEF Onwards, ReadUpTo
<1>3. SubSeq(v, 1, taken[e]) = SubSeq(w, 1, taken[e])
    BY <1>1, <1>2, FirstStay
<1>4. isConnected(e)' => isConnected(e)
    BY DEF Onwards, isConnected
<1>5. ASSUME isConnected(e)', NEW m \in Msg, Kind[m] # "switch", Sender[m] = Peer(e)
      PROVE  got'[m] + InQueue(parked'[e], m) = InQueue(SubSeq(v, 1, taken'[e]), m)
    BY <1>3, <1>4, <1>5 DEF HandedOn
<1>6. out[Peer(e)].wire' = v /\ \A m : InQueue(parked[e], m)' = InQueue(parked'[e], m)
    BY <1>1 DEF InQueue
<1> HIDE DEF w, v
<1> QED
    BY <1>1, <1>5, <1>6 DEF HandedOn, InQueue

(* A frame is handed on, or parked. *)
LEMMA HandleHands ==
    ASSUME Grounds, Grounds', SwitchInv, ParkedOnce, NEW e \in End, Handle(e), NEW x \in End
    PROVE  HandedOn(x)'
<1> DEFINE f == Incoming(e)
           p == Peer(e)
           w == out[p].wire
           t == taken[e]
<1>1. Taking(e) /\ Objection(e, f) = "none" /\ TypeOK /\ TypeOK' /\ HandedOn(e) /\ HandedOn(x)
    BY Unobjectionable DEF Handle, Receive, ReceiveOffer, Grounds, ParkedOnce, HandedOn
<1>2. /\ p \in End /\ p # e /\ Peer(p) = e /\ t \in Nat /\ t + 1 \in DOMAIN w /\ f = w[t + 1]
      /\ isConnected(e) /\ (x = e \/ x = p) /\ f \in Frame /\ f.msg \in Msg
    BY <1>1, BothEnds, NextFrame DEF Taking
<1>3. Sender[f.msg] = p
    BY <1>2, WiresWritten DEF AllWritten, Grounds
<1>4. /\ UNCHANGED sendVars /\ taken' = [taken EXCEPT ![e] = @ + 1]
      /\ \/ Kind[f.msg] = "switch" /\ UNCHANGED <<parked, got>>
         \/ parked' = [parked EXCEPT ![e] = Append(@, f)] /\ UNCHANGED got
         \/ got' = [got EXCEPT ![f.msg] = @ + 1] /\ UNCHANGED parked
    BY <1>1 DEF Handle, Receive, ReceiveOffer, Taking
<1>5. /\ taken \in [End -> Nat] /\ parked \in [End -> Seq(Frame)] /\ got \in [Msg -> Nat]
      /\ w \in Seq(Frame) /\ UNCHANGED <<state, out>>
    BY <1>1, <1>2, <1>4 DEF TypeOK, SendTypeOK, Path, sendVars
<1>6. CASE x = p
  <2>1. taken'[x] = taken[x] /\ parked'[x] = parked[x]
      BY <1>2, <1>4, <1>5, <1>6
  <2>2. \A m \in Msg : Sender[m] = Peer(x) => got'[m] = got[m]
      BY <1>2, <1>3, <1>4, <1>5, <1>6
  <2>3. \A y \in End : Onwards(y)
      BY <1>1, <1>5, OthersGoOn DEF TypeOK
  <2> QED
      BY <1>1, <2>1, <2>2, <2>3, HandedStays
<1>7. CASE x = e
  <2> SUFFICES ASSUME NEW m \in Msg, Kind[m] # "switch", Sender[m] = p
               PROVE  got'[m] + InQueue(parked'[e], m) = InQueue(SubSeq(w, 1, t + 1), m)
    <3>1. Peer(e)' = p /\ out[Peer(e)].wire' = w /\ taken'[e] = t + 1
        BY <1>4, <1>5 DEF Peer
    <3>2. \A m \in Msg : InQueue(parked[e], m)' = InQueue(parked'[e], m)
        BY DEF InQueue
    <3> HIDE DEF w, t, p
    <3> QED
        BY <1>7, <3>1, <3>2 DEF HandedOn
  <2> DEFINE one == IF f.msg = m THEN 1 ELSE 0
  <2>1. got[m] + InQueue(parked[e], m) = InQueue(SubSeq(w, 1, t), m)
      BY <1>1, <1>2 DEF HandedOn
  <2>2. InQueue(SubSeq(w, 1, t + 1), m) = InQueue(SubSeq(w, 1, t), m) + one
      BY <1>2, <1>5, FirstAndNext
  <2>3. got[m] \in Nat /\ parked[e] \in Seq(Frame) /\ InQueue(parked[e], m) \in Nat /\ one \in {0, 1}
      BY <1>5, CountType
  <2> HIDE DEF f
  <2>4. CASE Kind[f.msg] = "switch" /\ UNCHANGED <<parked, got>>
    <3>1. one = 0
        BY <2>4
    <3> HIDE DEF one
    <3>2. InQueue(SubSeq(w, 1, t), m) = InQueue(SubSeq(w, 1, t + 1), m)
        BY <2>1, <2>2, <2>3, <3>1
    <3> QED
        BY <2>1, <2>4, <3>2
  <2>5. CASE parked' = [parked EXCEPT ![e] = Append(@, f)] /\ UNCHANGED got
    <3>1. parked'[e] = parked[e] \o <<f>>
      <4>1. parked'[e] = Append(parked[e], f)
          BY <1>5, <2>5
      <4> QED
          BY <1>2, <2>3, <4>1, AppendIsConcat
    <3>2. InQueue(parked'[e], m) = InQueue(parked[e], m) + one
      <4>1. <<f>> \in Seq(Frame)
          BY <1>2
      <4>2. InQueue(parked[e] \o <<f>>, m) = InQueue(parked[e], m) + InQueue(<<f>>, m)
        <5> HIDE DEF one
        <5>1. parked[e] \in Seq(Frame)
            BY <2>3
        <5> QED
            BY <4>1, <5>1, CountConcat
      <4> QED
          BY <3>1, <4>2, CountOne
    <3> HIDE DEF one
    <3>3. got[m] + (InQueue(parked[e], m) + one) = (got[m] + InQueue(parked[e], m)) + one
        BY <2>3
    <3> QED
        BY <2>1, <2>2, <2>5, <3>2, <3>3
  <2>6. CASE got' = [got EXCEPT ![f.msg] = @ + 1] /\ UNCHANGED parked
    <3>1. got'[m] = got[m] + one
      <4>1. CASE f.msg = m
          BY <1>5, <2>6, <4>1
      <4>2. CASE f.msg # m
          BY <1>5, <2>3, <2>6, <4>2
      <4> QED
          BY <4>1, <4>2
    <3> HIDE DEF one
    <3>2. (got[m] + one) + InQueue(parked[e], m) = (got[m] + InQueue(parked[e], m)) + one
        BY <2>3
    <3> QED
        BY <2>1, <2>2, <2>6, <3>1, <3>2
  <2> QED
      BY <1>4, <2>4, <2>5, <2>6 DEF f
<1> QED
    BY <1>2, <1>6, <1>7

(* When the session is ready what was parked is handed on. *)
LEMMA DerivedHands ==
    ASSUME Grounds, Grounds', SwitchInv, ParkedOnce, [Next]_vars, NEW e \in End, Derived(e), NEW x \in End
    PROVE  HandedOn(x)'
<1>1. TypeOK /\ HandedOn(x) /\ UNCHANGED taken /\ FromPeer(e)
    BY DEF Derived, Grounds, ParkedOnce, HandedOn, SwitchInv
<1>2. /\ parked \in [End -> Seq(Frame)] /\ got \in [Msg -> Nat] /\ parked[e] \in Seq(Frame)
    BY <1>1 DEF TypeOK
<1>3. \A y \in End : Onwards(y)
    BY IsSendStep, SendGoesOn DEF Grounds, TypeOK
<1>4. CASE UNCHANGED <<parked, got>>
    BY <1>1, <1>3, <1>4, HandedStays
<1>5. CASE Unpark(e)
  <2>1. parked' = [parked EXCEPT ![e] = <<>>] /\ \A m \in Msg : got'[m] = got[m] + InQueue(parked[e], m)
      BY <1>5 DEF Unpark
  <2>2. ASSUME NEW m \in Msg, Sender[m] = Peer(x)
        PROVE  got'[m] + InQueue(parked'[x], m) = got[m] + InQueue(parked[x], m)
    <3>1. got[m] \in Nat /\ InQueue(parked[e], m) \in Nat
          /\ parked[x] \in Seq(Frame) /\ InQueue(parked[x], m) \in Nat
        BY <1>2, CountType
    <3>2. CASE x = e
      <4>1. parked'[x] = <<>>
          BY <1>2, <2>1, <3>2
      <4>2. InQueue(parked'[x], m) = 0
          BY <4>1, CountOne
      <4> QED
          BY <2>1, <3>1, <3>2, <4>2
    <3>3. CASE x # e
      <4>1. Peer(x) # Peer(e) /\ parked'[x] = parked[x]
          BY <1>2, <2>1, <3>3, BothEnds
      <4>2. \A i \in DOMAIN parked[e] : parked[e][i].msg # m
          BY <1>1, <2>2, <4>1 DEF FromPeer
      <4>3. InQueue(parked[e], m) = 0
          BY <1>2, <4>2, CountType
      <4> QED
          BY <2>1, <3>1, <4>1, <4>3
    <3> QED
        BY <3>2, <3>3
  <2> QED
      BY <1>1, <1>3, <2>2, HandedStays
<1> QED
    BY <1>4, <1>5 DEF Derived

(* Every step keeps to that. *)
LEMMA ParkedNext == Grounds /\ Grounds' /\ SwitchInv /\ ParkedOnce /\ [Next]_vars => ParkedOnce'
<1> SUFFICES ASSUME Grounds, Grounds', SwitchInv, ParkedOnce, [Next]_vars, NEW x \in End
             PROVE  HandedOn(x)'
    BY DEF ParkedOnce, HandedOn
<1>1. HandedOn(x) /\ \A y \in End : Onwards(y)
    BY IsSendStep, SendGoesOn DEF Grounds, TypeOK, ParkedOnce, HandedOn
<1>2. ASSUME UNCHANGED <<taken, parked, got>>
      PROVE  HandedOn(x)'
    BY <1>1, <1>2, HandedStays
<1>3. ASSUME NEW m \in Msg, Send(m) \/ StreamGoesOn(m)
      PROVE  HandedOn(x)'
    BY <1>2, <1>3 DEF Send, StreamGoesOn, WhileSending
<1>4. ASSUME NEW e \in End, CallE2E(e) \/ OfferMade(e) \/ OfferFailed(e) \/ AcceptGoesOn(e) \/ DeriveFails(e)
                            \/ Written(e) \/ E2ETimesOut(e) \/ LinkCloses(e)
      PROVE  HandedOn(x)'
    BY <1>2, <1>4 DEF CallE2E, OfferMade, OfferFailed, AcceptGoesOn, DeriveFails, Written,
                      WhileSending, E2ETimesOut, LinkCloses
<1>5. ASSUME NEW e \in End, Handle(e) \/ Derived(e)
      PROVE  HandedOn(x)'
    BY <1>5, HandleHands, DerivedHands
<1>6. CASE UNCHANGED vars
    BY <1>2, <1>6 DEF vars, recvVars
<1> QED
    BY <1>3, <1>4, <1>5, <1>6 DEF Next, Accept

(* ParkedOnce: parking what arrives during the switch, and resuming, drops *)
(* no frame and doubles none.                                              *)
THEOREM HandedOnOnce == Spec => []ParkedOnce
<1>1. Init => ParkedOnce
  <2> SUFFICES ASSUME Init, NEW e \in End, NEW m \in Msg
               PROVE  got[m] + InQueue(parked[e], m) = InQueue(SubSeq(out[Peer(e)].wire, 1, taken[e]), m)
      BY DEF ParkedOnce
  <2>1. out[Peer(e)].wire = <<>> /\ taken[e] = 0 /\ got[m] = 0 /\ parked[e] = <<>>
      BY BothEnds DEF Init, SendInit
  <2>2. SubSeq(<<>>, 1, 0) = <<>>
      OBVIOUS
  <2>3. InQueue(parked[e], m) = 0 /\ InQueue(SubSeq(out[Peer(e)].wire, 1, taken[e]), m) = 0
      BY <2>1, <2>2, CountOne
  <2> QED
      BY <2>1, <2>3
<1> QED
    BY <1>1, ParkedNext, GroundsHold, SwitchInvariant, PTL DEF Spec
=============================================================================
