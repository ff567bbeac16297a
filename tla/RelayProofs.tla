------------------------------ MODULE RelayProofs ------------------------------
(***************************************************************************)
(* What Relay keeps whatever is asked, refused, torn down, late or lost,   *)
(* for any two ends.                                                       *)
(*                                                                         *)
(* Each of the three keeps its part alone: an end sets up a half only from *)
(* what it reads from the relay, and takes it down in the step in which it *)
(* loses the relay; the relay links two peers only while it holds both,    *)
(* and forgets the link in the step in which it loses either.              *)
(*                                                                         *)
(* That the frames which reach a half are its own takes all three at once: *)
(* what is on its way to an end, in both hops and the relay between them,  *)
(* is said in an order, and each end's half agrees with what it will read. *)
(* That nobody is blamed takes, besides, where the messages of a call are: *)
(* the half of the end that was asked is there before the other's is.      *)
(***************************************************************************)
EXTENDS Relay, QueueProofs

(* There are two ends: each has the other, and nobody else. *)
LEMMA TwoEnds ==
    ASSUME NEW e \in End
    PROVE  /\ Other(e) \in End /\ Other(e) # e /\ Other(Other(e)) = e
           /\ End = {e, Other(e)}
<1>1. PICK x \in End, y \in End : x # y /\ End = {x, y}
  BY RelayAssumption
<1>2. Other(x) = y /\ Other(y) = x
  BY <1>1 DEF Other
<1>. QED
  BY <1>1, <1>2

-----------------------------------------------------------------------------
(* What is read                                                            *)

(* m is read from s, and leaves r: it comes first, or is a forward frame   *)
(* with none before it.                                                    *)
Reads(s, m, r) ==
    \E i \in DOMAIN s :
        /\ i = 1 \/ i \in NextForward(s)
        /\ m = s[i] /\ r = RemoveAt(s, i)

(* A queue is what comes before one of its messages, that, and the rest.   *)
LEMMA CutAt ==
    ASSUME NEW T, NEW s \in Seq(T), NEW i \in DOMAIN s
    PROVE  LET p == SubSeq(s, 1, i - 1) q == SubSeq(s, i + 1, Len(s)) IN
           /\ s[i] \in T /\ p \in Seq(T) /\ q \in Seq(T)
           /\ s = (p \o <<s[i]>>) \o q /\ RemoveAt(s, i) = p \o q
           /\ \A j \in DOMAIN p : j \in 1..i - 1 /\ p[j] = s[j]
           /\ i = 1 => p = <<>> /\ q = Tail(s)
<1> DEFINE p == SubSeq(s, 1, i - 1)
           q == SubSeq(s, i + 1, Len(s))
           t == (p \o <<s[i]>>) \o q
<1>1. i \in 1..Len(s) /\ Len(s) \in Nat /\ i \in Nat /\ s[i] \in T
  OBVIOUS
<1>2. p \in Seq(T) /\ Len(p) = i - 1 /\ \A j \in 1..i - 1 : p[j] = s[j]
  BY <1>1
<1>3. q \in Seq(T) /\ Len(q) = Len(s) - i /\ \A j \in 1..Len(s) - i : q[j] = s[i + j]
  BY <1>1
<1>4. t \in Seq(T) /\ s = t
  <2> DEFINE h == p \o <<s[i]>>
  <2> HIDE DEF p, q
  <2>1. h \in Seq(T) /\ Len(h) = i /\ \A j \in 1..i : h[j] = s[j]
    BY <1>1, <1>2
  <2> HIDE DEF h
  <2>2. h \o q \in Seq(T) /\ Len(h \o q) = Len(s)
    BY <1>1, <1>3, <2>1
  <2>3. ASSUME NEW j \in 1..Len(s)
        PROVE  (h \o q)[j] = s[j]
    <3>1. CASE j <= i
      <4>1. (h \o q)[j] = h[j]
        BY <1>1, <1>3, <2>1, <3>1, ConcatProperties
      <4>. QED
        BY <1>1, <2>1, <3>1, <4>1
    <3>2. CASE j > i
      <4>1. j - i \in 1..Len(s) - i /\ i + (j - i) = j
        BY <1>1, <3>2
      <4>2. (h \o q)[j] = q[j - i]
        BY <1>1, <1>3, <2>1, <3>2, ConcatProperties
      <4>. QED
        BY <1>3, <4>1, <4>2
    <3>3. j <= i \/ j > i
      BY <1>1
    <3>. QED
      BY <3>1, <3>2, <3>3
  <2>4. h \o q = s
    BY <2>2, <2>3, SeqEqual
  <2>. QED
    BY <2>2, <2>4 DEF h
<1>5. i = 1 => p = <<>> /\ q = Tail(s)
  BY <1>1
<1>6. \A j \in DOMAIN p : j \in 1..i - 1 /\ p[j] = s[j]
  <2> HIDE DEF p
  <2>1. DOMAIN p = 1..i - 1
    BY <1>2
  <2>. QED
    BY <1>2, <2>1
<1>. QED
  BY <1>1, <1>2, <1>3, <1>4, <1>5, <1>6 DEF RemoveAt

(* What is read is one of the messages; what it overtakes are no forward   *)
(* frames, and if it is none itself it overtakes nothing.                  *)
LEMMA ReadsIs ==
    ASSUME NEW T, NEW s \in Seq(T), NEW m, NEW r, Reads(s, m, r)
    PROVE  \E p \in Seq(T), q \in Seq(T) :
             /\ m \in T /\ s = (p \o <<m>>) \o q /\ r = p \o q
             /\ \A j \in DOMAIN p : p[j].type # "forward"
             /\ m.type # "forward" => p = <<>>
<1>1. PICK i \in DOMAIN s : (i = 1 \/ i \in NextForward(s)) /\ m = s[i] /\ r = RemoveAt(s, i)
  BY DEF Reads
<1>2. PICK p \in Seq(T), q \in Seq(T) :
        /\ m \in T /\ s = (p \o <<m>>) \o q /\ r = p \o q
        /\ \A j \in DOMAIN p : j \in 1..i - 1 /\ p[j] = s[j]
        /\ i = 1 => p = <<>>
  <2> DEFINE P == SubSeq(s, 1, i - 1)
             Q == SubSeq(s, i + 1, Len(s))
  <2>1. /\ s[i] \in T /\ P \in Seq(T) /\ Q \in Seq(T)
        /\ s = (P \o <<s[i]>>) \o Q /\ RemoveAt(s, i) = P \o Q
        /\ \A j \in DOMAIN P : j \in 1..i - 1 /\ P[j] = s[j]
        /\ i = 1 => P = <<>>
    BY CutAt
  <2> HIDE DEF P, Q
  <2>. QED
    BY <1>1, <2>1
<1>3. i # 1 => m.type = "forward" /\ \A j \in 1..i - 1 : s[j].type # "forward"
  BY <1>1 DEF NextForward
<1>4. p = <<>> => \A j \in DOMAIN p : p[j].type # "forward"
  OBVIOUS
<1>. QED
  BY <1>2, <1>3, <1>4

(* The first message may always be read. *)
LEMMA HeadReads ==
    ASSUME NEW T, NEW s \in Seq(T), s # <<>>
    PROVE  Reads(s, Head(s), Tail(s))
<1>1. 1 \in DOMAIN s /\ s[1] = Head(s)
  OBVIOUS
<1>2. RemoveAt(s, 1) = <<>> \o Tail(s) /\ Tail(s) \in Seq(T)
  BY <1>1, CutAt
<1>. QED
  BY <1>1, <1>2 DEF Reads
(* An end reads m, and so does the relay from one. *)
EndReads(e, m) == \E r : Reads(down[e], m, r) /\ down' = [down EXCEPT ![e] = r]
RelayReads(e, m) == \E r : Reads(up[e], m, r) /\ up' = [up EXCEPT ![e] = r]

(* That is what the actions do. *)
LEMMA Reading ==
    ASSUME TypeOK, NEW e \in End
    PROVE  /\ down[e] # <<>> /\ Taken(e) => EndReads(e, Head(down[e]))
           /\ up[e] # <<>> /\ TakenUp(e) => RelayReads(e, Head(up[e]))
           /\ \A i \in NextForward(down[e]) :
                /\ Reads(down[e], down[e][i], RemoveAt(down[e], i))
                /\ down[e][i].type = "forward" /\ down[e] # <<>>
                /\ down' = [down EXCEPT ![e] = RemoveAt(@, i)] => EndReads(e, down[e][i])
           /\ \A i \in NextForward(up[e]) :
                /\ Reads(up[e], up[e][i], RemoveAt(up[e], i))
                /\ up[e][i].type = "forward" /\ up[e] # <<>>
                /\ up' = [up EXCEPT ![e] = RemoveAt(@, i)] => RelayReads(e, up[e][i])
<1>1. down[e] \in Seq(FromRelay) /\ up[e] \in Seq(ToRelay)
  BY DEF TypeOK
<1>2. down[e] # <<>> /\ Taken(e) => EndReads(e, Head(down[e]))
  BY <1>1, HeadReads DEF Taken, EndReads
<1>3. up[e] # <<>> /\ TakenUp(e) => RelayReads(e, Head(up[e]))
  BY <1>1, HeadReads DEF TakenUp, RelayReads
<1>4. ASSUME NEW i \in NextForward(down[e])
      PROVE  /\ Reads(down[e], down[e][i], RemoveAt(down[e], i))
             /\ down[e][i].type = "forward" /\ down[e] # <<>>
  BY <1>1 DEF Reads, NextForward
<1>5. ASSUME NEW i \in NextForward(up[e])
      PROVE  /\ Reads(up[e], up[e][i], RemoveAt(up[e], i))
             /\ up[e][i].type = "forward" /\ up[e] # <<>>
  BY <1>1 DEF Reads, NextForward
<1>. QED
  BY <1>2, <1>3, <1>4, <1>5 DEF EndReads, RelayReads

(* A queue of messages stays one. *)
LEMMA ReadFrom ==
    ASSUME NEW T, NEW s \in Seq(T), NEW m, NEW r, Reads(s, m, r)
    PROVE  m \in T /\ r \in Seq(T) /\ s # <<>>
<1>1. PICK p \in Seq(T), q \in Seq(T) :
         /\ m \in T /\ s = (p \o <<m>>) \o q /\ r = p \o q
         /\ \A j \in DOMAIN p : p[j].type # "forward"
         /\ m.type # "forward" => p = <<>>
  BY ReadsIs
<1>2. Len((p \o <<m>>) \o q) = Len(p) + 1 + Len(q) /\ Len(p) \in Nat /\ Len(q) \in Nat /\ r \in Seq(T)
  BY <1>1
<1>. QED
  BY <1>1, <1>2

(* What is read is typed, and what it leaves. *)
LEMMA ReadTyped ==
    ASSUME TypeOK, NEW e \in End, NEW m
    PROVE  /\ EndReads(e, m) => m \in FromRelay /\ down' \in [End -> Seq(FromRelay)]
           /\ RelayReads(e, m) => m \in ToRelay /\ up' \in [End -> Seq(ToRelay)]
<1>1. down[e] \in Seq(FromRelay) /\ up[e] \in Seq(ToRelay)
  BY DEF TypeOK
<1>2. ASSUME NEW r, Reads(down[e], m, r)
      PROVE  m \in FromRelay /\ r \in Seq(FromRelay)
  BY <1>1, <1>2, ReadFrom
<1>3. ASSUME NEW r, Reads(up[e], m, r)
      PROVE  m \in ToRelay /\ r \in Seq(ToRelay)
  BY <1>1, <1>3, ReadFrom
<1>. QED
  BY <1>2, <1>3 DEF EndReads, RelayReads, TypeOK

(* A forward frame comes to an end that holds its half; *)
ForwardComes(e, m) ==
    /\ relay[e] /\ Holds(e)
    /\ m.type = "forward" /\ EndReads(e, m)
    /\ IF Unreadable(e, m.frame) THEN Unproxy(e)
       ELSE IF m.frame.kind = "offer" THEN OfferIn(e)
       ELSE UNCHANGED <<half, calls, up>>
    /\ UNCHANGED <<world, relay, sent, blamed, peers, linked, asking>>

(* and one comes to the relay.                                             *)
ForwardGoes(e, m) ==
    /\ world.permits
    /\ m.type = "forward" /\ RelayReads(e, m)
    /\ IF Other(e) \in peers THEN Told(Other(e), <<m>>) ELSE UNCHANGED down
    /\ UNCHANGED <<world, relay, half, calls, sent, blamed, peers, linked, asking>>

(* Else the connection over which it came is dropped. *)
LEMMA Forwards ==
    ASSUME NEW e \in End
    PROVE  /\ ReceiveForward(e) => relay[e] /\ ((~Holds(e) /\ DropRelay(e)) \/ \E m : ForwardComes(e, m))
           /\ RelayForward(e) => e \in peers /\ ((~world.permits /\ DropPeer(e)) \/ \E m : ForwardGoes(e, m))
<1>1. ASSUME ReceiveForward(e), Holds(e)
      PROVE  \E m : ForwardComes(e, m)
  <2>1. PICK i \in NextForward(down[e]) :
           /\ relay[e]
           /\ down' = [down EXCEPT ![e] = RemoveAt(down[e], i)]
           /\ IF Unreadable(e, down[e][i].frame) THEN Unproxy(e)
              ELSE IF down[e][i].frame.kind = "offer" THEN OfferIn(e)
              ELSE UNCHANGED <<half, calls, up>>
           /\ UNCHANGED <<world, relay, sent, blamed, peers, linked, asking>>
    BY <1>1 DEF ReceiveForward
  <2>2. down[e][i].type = "forward" /\ Reads(down[e], down[e][i], RemoveAt(down[e], i))
    BY DEF NextForward, Reads
  <2>3. EndReads(e, down[e][i])
    BY <2>1, <2>2 DEF EndReads
  <2>. QED
    BY <1>1, <2>1, <2>2, <2>3 DEF ForwardComes
<1>2. ReceiveForward(e) => relay[e] /\ (~Holds(e) => DropRelay(e))
  BY DEF ReceiveForward
<1>3. ASSUME RelayForward(e), world.permits
      PROVE  \E m : ForwardGoes(e, m)
  <2>1. PICK i \in NextForward(up[e]) :
           /\ up' = [up EXCEPT ![e] = RemoveAt(up[e], i)]
           /\ IF Other(e) \in peers THEN Told(Other(e), <<up[e][i]>>) ELSE UNCHANGED down
           /\ UNCHANGED <<world, relay, half, calls, sent, blamed, peers, linked, asking>>
    BY <1>3 DEF RelayForward
  <2>2. up[e][i].type = "forward" /\ Reads(up[e], up[e][i], RemoveAt(up[e], i))
    BY DEF NextForward, Reads
  <2>3. RelayReads(e, up[e][i])
    BY <2>1, <2>2 DEF RelayReads
  <2>. QED
    BY <1>3, <2>1, <2>2, <2>3 DEF ForwardGoes
<1>4. RelayForward(e) => e \in peers /\ (~world.permits => DropPeer(e))
  BY DEF RelayForward
<1>. QED
  BY <1>1, <1>2, <1>3, <1>4

-----------------------------------------------------------------------------
(* What each keeps alone                                                   *)

(* What an end keeps of its half: it is carried by the relay; where either *)
(* hop requires e2e it is never announced in clear; and an end that offers *)
(* e2e, or waits for an offer, is one that requires it.                    *)
HalfOf(e) ==
    Holds(e) =>
        /\ relay[e]
        /\ "stage" \in DOMAIN half[e]
        /\ half[e].stage = "clear" => ~half[e].required
        /\ half[e].stage \in {"offered", "waiting"} => half[e].required

HalfInv ==
    /\ relay = [e \in End |-> relay[e]]
    /\ half = [e \in End |-> half[e]]
    /\ \A e \in End : HalfOf(e)

(* What the relay keeps of the link. *)
LinkInv ==
    /\ peers \subseteq End
    /\ linked => peers = End

RelayInv == HalfInv /\ LinkInv

-----------------------------------------------------------------------------
(* The ends                                                                *)

(* A half that goes, with the relay or without it. *)
LEMMA GoneKeeps ==
    ASSUME HalfInv, NEW e \in End,
           \/ HalfGone(e) /\ UNCHANGED relay
           \/ RelayGone(e)
    PROVE  HalfInv'
<1>1. half' = [half EXCEPT ![e] = NoHalf]
  BY DEF HalfGone, RelayGone
<1>2. UNCHANGED relay \/ relay' = [relay EXCEPT ![e] = FALSE]
  BY DEF RelayGone
<1>3. ~Holds(e)'
  BY <1>1 DEF HalfInv, Holds
<1>4. ASSUME NEW x \in End, x # e
      PROVE  half'[x] = half[x] /\ relay'[x] = relay[x]
  BY <1>1, <1>2, <1>4 DEF HalfInv
<1>5. ASSUME NEW x \in End
      PROVE  HalfOf(x)'
  BY <1>3, <1>4 DEF HalfInv, HalfOf, Holds
<1>. QED
  BY <1>1, <1>2, <1>5 DEF HalfInv

(* A half that is set up, or goes on to another stage, at an end that has  *)
(* the relay.                                                              *)
LEMMA SetUpKeeps ==
    ASSUME HalfInv, NEW e \in End, NEW h,
           relay[e], UNCHANGED relay,
           half' = [half EXCEPT ![e] = h],
           "stage" \in DOMAIN h,
           h.stage = "clear" => ~h.required,
           h.stage \in {"offered", "waiting"} => h.required
    PROVE  HalfInv'
<1>1. half'[e] = h
  BY DEF HalfInv
<1>2. ASSUME NEW x \in End, x # e
      PROVE  half'[x] = half[x]
  BY <1>2 DEF HalfInv
<1>3. ASSUME NEW x \in End
      PROVE  HalfOf(x)'
  BY <1>1, <1>2 DEF HalfInv, HalfOf, Holds
<1>. QED
  BY <1>3 DEF HalfInv

(* Whatever an end reads from the relay keeps its half in order. *)
LEMMA ReceiveKeeps ==
    ASSUME HalfInv, NEW e \in End, Receive(e)
    PROVE  HalfInv'
<1>1. CASE ReceiveResult(e)
  <2> DEFINE m == Head(down[e])
             e2e == NeedsE2E(e, m.e2e)
             h == [link |-> m.link, outbound |-> TRUE, required |-> e2e,
                   stage |-> IF e2e THEN "offered" ELSE "clear"]
  <2>1. relay[e] /\ UNCHANGED relay
    BY <1>1 DEF ReceiveResult, Take
  <2>2. UNCHANGED half \/ half' = [half EXCEPT ![e] = h]
    BY <1>1 DEF ReceiveResult
  <2>3. CASE UNCHANGED half
    BY <2>1, <2>3 DEF HalfInv, HalfOf, Holds
  <2>4. CASE half' = [half EXCEPT ![e] = h]
    <3>1. /\ "stage" \in DOMAIN h /\ (h.stage = "clear" => ~h.required)
          /\ (h.stage \in {"offered", "waiting"} => h.required)
      OBVIOUS
    <3> HIDE DEF h
    <3>. QED
      BY <2>1, <2>4, <3>1, SetUpKeeps
  <2>. QED
    BY <2>2, <2>3, <2>4
<1>2. CASE ReceiveConnected(e)
  <2> DEFINE m == Head(down[e])
             e2e == NeedsE2E(e, m.e2e)
             h == [link |-> m.link, outbound |-> FALSE, required |-> e2e,
                   stage |-> IF e2e THEN "waiting" ELSE "clear"]
  <2>1. relay[e] /\ UNCHANGED relay
    BY <1>2 DEF ReceiveConnected, Take
  <2>2. half' = half \/ half' = [half EXCEPT ![e] = h]
    BY <1>2 DEF ReceiveConnected, HalfInv
  <2>3. CASE half' = half
    BY <2>1, <2>3 DEF HalfInv, HalfOf, Holds
  <2>4. CASE half' = [half EXCEPT ![e] = h]
    <3>1. /\ "stage" \in DOMAIN h /\ (h.stage = "clear" => ~h.required)
          /\ (h.stage \in {"offered", "waiting"} => h.required)
      OBVIOUS
    <3> HIDE DEF h
    <3>. QED
      BY <2>1, <2>4, <3>1, SetUpKeeps
  <2>. QED
    BY <2>2, <2>3, <2>4
<1>3. CASE ReceiveDisconnected(e)
  BY <1>3, GoneKeeps DEF ReceiveDisconnected, DropRelay
<1>4. CASE ReceiveForward(e)
  <2>1. CASE DropRelay(e)
    BY <2>1, GoneKeeps DEF DropRelay
  <2>2. ASSUME NEW m, ForwardComes(e, m)
        PROVE  HalfInv'
    <3>1. relay[e] /\ Holds(e) /\ UNCHANGED relay
      BY <2>2 DEF ForwardComes
    <3>2. CASE Unproxy(e)
      BY <3>1, <3>2, GoneKeeps DEF Unproxy
    <3>3. CASE OfferIn(e)
      <4> DEFINE h == [half[e] EXCEPT !.stage = "sealed"]
      <4>1. half' = [half EXCEPT ![e] = h]
        BY <3>3 DEF OfferIn
      <4>2. "stage" \in DOMAIN half[e]
        BY <3>1 DEF HalfInv, HalfOf
      <4>3. "stage" \in DOMAIN h /\ h.stage = "sealed"
        BY <4>2
      <4> HIDE DEF h
      <4>. QED
        BY <3>1, <4>1, <4>3, SetUpKeeps
    <3>4. CASE UNCHANGED half
      BY <3>1, <3>4 DEF HalfInv, HalfOf, Holds
    <3>. QED
      BY <2>2, <3>2, <3>3, <3>4 DEF ForwardComes
  <2>. QED
    BY <1>4, <2>1, <2>2, Forwards
<1>. QED
  BY <1>1, <1>2, <1>3, <1>4 DEF Receive

(* The application and the timers of an end do no more to its half.        *)
LEMMA EndKeeps ==
    ASSUME HalfInv, NEW e \in End,
           \/ Proxy(e) \/ Disconnect(e) \/ Send(e) \/ Receive(e)
           \/ E2ETimesOut(e) \/ ProxyTimesOut(e) \/ EndLoses(e)
    PROVE  HalfInv'
<1>1. CASE Proxy(e) \/ Send(e) \/ ProxyTimesOut(e)
  <2>1. UNCHANGED <<relay, half>>
    BY <1>1 DEF Proxy, Send, ProxyTimesOut
  <2>. QED
    BY <2>1 DEF HalfInv, HalfOf, Holds
<1>2. CASE Disconnect(e) \/ E2ETimesOut(e)
  BY <1>2, GoneKeeps DEF Disconnect, E2ETimesOut, Unproxy
<1>3. CASE EndLoses(e)
  BY <1>3, GoneKeeps DEF EndLoses
<1>4. CASE Receive(e)
  BY <1>4, ReceiveKeeps
<1>. QED
  BY <1>1, <1>2, <1>3, <1>4

(* The relay does nothing to a half itself. *)
LEMMA OthersKeep ==
    ASSUME HalfInv, UNCHANGED <<relay, half>>
    PROVE  HalfInv'
BY DEF HalfInv, HalfOf, Holds

-----------------------------------------------------------------------------
(* The relay                                                               *)

(* What an end does reaches it only as a message. *)
LEMMA EndsDoNotLink ==
    ASSUME NEW e \in End,
           \/ Proxy(e) \/ Disconnect(e) \/ Send(e) \/ Receive(e)
           \/ E2ETimesOut(e) \/ ProxyTimesOut(e) \/ EndLoses(e)
    PROVE  UNCHANGED <<peers, linked>>
<1>1. CASE Receive(e)
  BY <1>1 DEF Receive, ReceiveResult, ReceiveConnected, ReceiveDisconnected, ReceiveForward, DropRelay
<1>. QED
  BY <1>1 DEF Proxy, Disconnect, Send, E2ETimesOut, ProxyTimesOut, EndLoses

(* A peer that goes takes the link with it. *)
LEMMA PeerGoneKeeps ==
    ASSUME LinkInv, NEW e \in End, PeerGone(e)
    PROVE  LinkInv'
BY DEF LinkInv, PeerGone

(* Whatever it reads from an end, it links none but peers it holds.        *)
LEMMA RelayReceiveKeeps ==
    ASSUME LinkInv, NEW e \in End, RelayReceive(e)
    PROVE  LinkInv' /\ UNCHANGED <<relay, half>>
<1>1. CASE RelayProxy(e)
  <2>1. CASE ~world.permits \/ Other(e) \notin peers
    BY <1>1, <2>1, PeerGoneKeeps DEF RelayProxy, DropPeer
  <2>2. CASE ~(~world.permits \/ Other(e) \notin peers)
    <3>1. e \in peers /\ Other(e) \in peers /\ UNCHANGED <<peers, relay, half>>
      BY <1>1, <2>2 DEF RelayProxy, TakeUp
    <3>. QED
      BY <3>1, TwoEnds DEF LinkInv
  <2>. QED
    BY <2>1, <2>2
<1>2. CASE RelayAnswer(e)
  <2>1. UNCHANGED <<peers, relay, half>> /\ (linked' => linked)
    BY <1>2 DEF RelayAnswer
  <2>. QED
    BY <2>1 DEF LinkInv
<1>3. CASE RelayUnproxy(e)
  <2>1. CASE ~world.permits
    BY <1>3, <2>1, PeerGoneKeeps DEF RelayUnproxy, DropPeer
  <2>2. CASE world.permits
    <3>1. UNCHANGED <<peers, relay, half>> /\ (linked' => linked)
      BY <1>3, <2>2 DEF RelayUnproxy
    <3>. QED
      BY <3>1 DEF LinkInv
  <2>. QED
    BY <2>1, <2>2
<1>4. CASE RelayForward(e)
  <2>1. CASE ~world.permits
    BY <1>4, <2>1, PeerGoneKeeps DEF RelayForward, DropPeer
  <2>2. CASE world.permits
    BY <1>4, <2>2 DEF RelayForward, LinkInv
  <2>. QED
    BY <2>1, <2>2
<1>. QED
  BY <1>1, <1>2, <1>3, <1>4 DEF RelayReceive

-----------------------------------------------------------------------------
(* There is no half and no link at first. *)
LEMMA RelayInitially ==
    Init => RelayInv
BY DEF Init, RelayInv, HalfInv, HalfOf, Holds, LinkInv

(* Every step keeps both parts. *)
LEMMA RelayNext ==
    RelayInv /\ [Next]_vars => RelayInv'
<1> SUFFICES ASSUME RelayInv, [Next]_vars
             PROVE  RelayInv'
  OBVIOUS
<1>0. HalfInv /\ LinkInv
  BY DEF RelayInv
<1>1. ASSUME NEW e \in End,
             \/ Proxy(e) \/ Disconnect(e) \/ Send(e) \/ Receive(e)
             \/ E2ETimesOut(e) \/ ProxyTimesOut(e) \/ EndLoses(e)
      PROVE  RelayInv'
  <2>1. HalfInv'
    BY <1>0, <1>1, EndKeeps
  <2>2. UNCHANGED <<peers, linked>>
    BY <1>1, EndsDoNotLink
  <2>. QED
    BY <1>0, <2>1, <2>2 DEF RelayInv, LinkInv
<1>2. ASSUME NEW e \in End, RelayReceive(e)
      PROVE  RelayInv'
  BY <1>0, <1>2, RelayReceiveKeeps, OthersKeep DEF RelayInv
<1>3. ASSUME NEW e \in End, RelayLoses(e)
      PROVE  RelayInv'
  <2>1. PeerGone(e) /\ UNCHANGED <<relay, half>>
    BY <1>3 DEF RelayLoses
  <2>. QED
    BY <1>0, <2>1, PeerGoneKeeps, OthersKeep DEF RelayInv
<1>4. CASE AnswerTimesOut
  <2>1. UNCHANGED <<relay, half, peers>> /\ ~linked'
    BY <1>4 DEF AnswerTimesOut
  <2>. QED
    BY <1>0, <2>1, OthersKeep DEF RelayInv, LinkInv
<1>5. CASE UNCHANGED vars
  <2>1. UNCHANGED <<relay, half, peers, linked>>
    BY <1>5 DEF vars
  <2>. QED
    BY <1>0, <2>1, OthersKeep DEF RelayInv, LinkInv
<1>. QED
  BY <1>1, <1>2, <1>3, <1>4, <1>5 DEF Next

(* A link that requires e2e at either hop is never live in clear: an end   *)
(* announces its half sealed, or not at all (AnySocket.js: relayedOptions  *)
(* and proxy; AnyProtocol.js: _goLive).                                    *)
RequiredIsSealed ==
    \A e \in End : Holds(e) => ~(half[e].stage = "clear" /\ half[e].required)

(* The halves of a link and the relay's own note of it go with the         *)
(* connections that carry them (AnySocket.js: onPeerDisconnected), and no  *)
(* half that requires e2e is live in clear.                                *)
THEOREM CarriedByRelayHolds ==
    Spec => [](CarriedByRelay /\ RequiredIsSealed)
<1>1. RelayInv => CarriedByRelay /\ RequiredIsSealed
  BY DEF RelayInv, HalfInv, HalfOf, LinkInv, CarriedByRelay, RequiredIsSealed
<1>. QED
  BY <1>1, RelayInitially, RelayNext, PTL DEF Spec
-----------------------------------------------------------------------------
(* Types                                                                   *)

(* What is taken off a queue, and what it leaves. *)
LEMMA Taking ==
    ASSUME NEW T, NEW s \in Seq(T), s # <<>>
    PROVE  Head(s) \in T /\ Tail(s) \in Seq(T)
OBVIOUS

(* What a message carries, by its type. *)
LEMMA MessageParts ==
    /\ \A m \in ToRelay :
        /\ m.type \in {"proxy", "answer"} => m.link \in Link
        /\ m.type = "answer" => m.ok \in BOOLEAN /\ m.e2e \in BOOLEAN
        /\ m.type = "forward" => m.frame \in Frames /\ m \in FromRelay
    /\ \A m \in FromRelay :
        /\ m.type \in {"connected", "result"} => m.link \in Link /\ m.e2e \in BOOLEAN
        /\ m.type = "result" => m.ok \in BOOLEAN
        /\ m.type = "forward" => m.frame \in Frames
<1>1. ASSUME NEW m \in ToRelay
      PROVE  /\ m.type \in {"proxy", "answer"} => m.link \in Link
             /\ m.type = "answer" => m.ok \in BOOLEAN /\ m.e2e \in BOOLEAN
             /\ m.type = "forward" => m.frame \in Frames /\ m \in FromRelay
  BY DEF ToRelay, FromRelay
<1>2. ASSUME NEW m \in FromRelay
      PROVE  /\ m.type \in {"connected", "result"} => m.link \in Link /\ m.e2e \in BOOLEAN
             /\ m.type = "result" => m.ok \in BOOLEAN
             /\ m.type = "forward" => m.frame \in Frames
  BY DEF FromRelay
<1>. QED
  BY <1>1, <1>2

(* The messages there are. *)
LEMMA Messages ==
    /\ \A l \in Link : [type |-> "proxy", link |-> l] \in ToRelay
    /\ [type |-> "unproxy"] \in ToRelay
    /\ \A l \in Link, ok, e2e \in BOOLEAN :
            [type |-> "answer", link |-> l, ok |-> ok, e2e |-> e2e] \in ToRelay
    /\ \A f \in Frames : [type |-> "forward", frame |-> f] \in ToRelay
    /\ \A l \in Link, e2e \in BOOLEAN : [type |-> "connected", link |-> l, e2e |-> e2e] \in FromRelay
    /\ [type |-> "disconnected"] \in FromRelay
    /\ \A l \in Link, ok, e2e \in BOOLEAN : Result(l, ok, e2e) \in FromRelay
BY DEF ToRelay, FromRelay, Result

(* A half that is in some stage is one. *)
LEMMA IsHalf ==
    ASSUME TypeOK, NEW e \in End, Holds(e) \/ half[e].stage # "none"
    PROVE  half[e] \in Half
BY DEF TypeOK, Holds, NoHalf

(* Sending, and reading, at either side. *)
LEMMA TellTyped ==
    ASSUME TypeOK, NEW e \in End, NEW m \in ToRelay, Tell(e, m)
    PROVE  up' \in [End -> Seq(ToRelay)]
<1>1. Append(up[e], m) \in Seq(ToRelay)
  BY DEF TypeOK
<1>. QED
  BY <1>1 DEF TypeOK, Tell

(* The relay sends on to an end it may have lost. *)
LEMMA ToldTyped ==
    ASSUME TypeOK, NEW e \in End, NEW msgs \in Seq(FromRelay), Told(e, msgs)
    PROVE  down' \in [End -> Seq(FromRelay)]
<1>1. down[e] \o msgs \in Seq(FromRelay) /\ down[e] \in Seq(FromRelay)
  BY DEF TypeOK
<1>. QED
  BY <1>1 DEF TypeOK, Told

(* What is taken is a message. *)
LEMMA TakenTyped ==
    ASSUME TypeOK, NEW e \in End, down[e] # <<>>
    PROVE  /\ Head(down[e]) \in FromRelay
           /\ Taken(e) => down' \in [End -> Seq(FromRelay)]
<1>1. down[e] \in Seq(FromRelay)
  BY DEF TypeOK
<1>2. Head(down[e]) \in FromRelay /\ Tail(down[e]) \in Seq(FromRelay)
  BY <1>1, Taking
<1>. QED
  BY <1>2 DEF TypeOK, Taken

(* At the relay too. *)
LEMMA TakenUpTyped ==
    ASSUME TypeOK, NEW e \in End, up[e] # <<>>
    PROVE  /\ Head(up[e]) \in ToRelay
           /\ TakenUp(e) => up' \in [End -> Seq(ToRelay)]
<1>1. up[e] \in Seq(ToRelay)
  BY DEF TypeOK
<1>2. Head(up[e]) \in ToRelay /\ Tail(up[e]) \in Seq(ToRelay)
  BY <1>1, Taking
<1>. QED
  BY <1>2 DEF TypeOK, TakenUp

(* Calls of an end that move on. *)
LEMMA CallsTyped ==
    ASSUME TypeOK, NEW e \in End, NEW S \in SUBSET Calls, NEW how \in Calls,
           calls' = [calls EXCEPT ![e] = [n \in 1..MaxAsks |-> IF @[n] \in S THEN how ELSE @[n]]]
    PROVE  calls' \in [End -> [1..MaxAsks -> Calls]]
<1>1. [n \in 1..MaxAsks |-> IF calls[e][n] \in S THEN how ELSE calls[e][n]] \in [1..MaxAsks -> Calls]
  BY ZenonT(40) DEF TypeOK
<1>. QED
  BY <1>1 DEF TypeOK

(* A half that goes, and the relay with it. *)
LEMMA HalfGoneTyped ==
    ASSUME TypeOK, NEW e \in End, HalfGone(e)
    PROVE  half' \in [End -> Half \cup {NoHalf}] /\ calls' \in [End -> [1..MaxAsks -> Calls]]
<1>1. half' \in [End -> Half \cup {NoHalf}]
  BY DEF TypeOK, HalfGone
<1>2. calls' = [calls EXCEPT ![e] = [n \in 1..MaxAsks |->
                    IF @[n] \in {"linking"} THEN "rejected" ELSE @[n]]]
  BY DEF HalfGone
<1>3. {"linking"} \in SUBSET Calls /\ "rejected" \in Calls
  BY DEF Calls
<1>4. calls' \in [End -> [1..MaxAsks -> Calls]]
  BY <1>2, <1>3, CallsTyped
<1>. QED
  BY <1>1, <1>4

(* The connection goes, and the half with it. *)
LEMMA RelayGoneTyped ==
    ASSUME TypeOK, NEW e \in End, RelayGone(e)
    PROVE  /\ relay' \in [End -> BOOLEAN]
           /\ down' \in [End -> Seq(FromRelay)]
           /\ half' \in [End -> Half \cup {NoHalf}]
           /\ calls' \in [End -> [1..MaxAsks -> Calls]]
<1>1. relay' \in [End -> BOOLEAN] /\ half' \in [End -> Half \cup {NoHalf}]
  BY DEF TypeOK, RelayGone
<1>2. <<>> \in Seq(FromRelay)
  OBVIOUS
<1>3. down' \in [End -> Seq(FromRelay)]
  BY <1>2 DEF TypeOK, RelayGone
<1>4. calls' = [calls EXCEPT ![e] = [n \in 1..MaxAsks |->
                    IF @[n] \in {"sent", "linking"} THEN "rejected" ELSE @[n]]]
  BY DEF RelayGone
<1>5. {"sent", "linking"} \in SUBSET Calls /\ "rejected" \in Calls
  BY DEF Calls
<1>6. calls' \in [End -> [1..MaxAsks -> Calls]]
  BY <1>4, <1>5, CallsTyped
<1>. QED
  BY <1>1, <1>3, <1>6

(* What the relay tells the one that is left: that nothing of what it has  *)
(* asked will come.                                                        *)
Refusals(o) == {Result(l, FALSE, FALSE) : l \in {x \in asking : x.by = o}}

(* It tells nothing else. *)
LEMMA PeerGoneIs ==
    ASSUME NEW e \in End, PeerGone(e)
    PROVE  \E msgs \in Seq({[type |-> "disconnected"]} \cup Refusals(Other(e))) :
                IF Other(e) \in peers THEN Told(Other(e), msgs) ELSE UNCHANGED down
<1> DEFINE o == Other(e)
           T == {[type |-> "disconnected"]} \cup Refusals(o)
           refusal(n) == Result([by |-> o, n |-> n], FALSE, FALSE)
           refusals == [n \in 1..MaxAsks |-> refusal(n)]
           S == {n \in 1..MaxAsks : refusals[n].link \in asking}
           first == IF linked THEN << [type |-> "disconnected"] >> ELSE <<>>
           kept == Kept(refusals, S)
<1>1. \A n \in S : refusals[n] \in T
  <2>1. ASSUME NEW n \in S
        PROVE  refusals[n] \in Refusals(o)
    <3>1. refusals[n] = refusal(n) /\ refusal(n).link = [by |-> o, n |-> n]
      BY DEF Result
    <3>2. [by |-> o, n |-> n] \in asking
      BY <3>1
    <3>. QED
      BY <3>1, <3>2 DEF Refusals
  <2>. QED
    BY <2>1
<1>2. refusals \in Seq({refusal(n) : n \in 1..MaxAsks}) /\ S \in SUBSET (DOMAIN refusals)
  <2>1. refusals \in [1..MaxAsks -> {refusal(n) : n \in 1..MaxAsks}] /\ MaxAsks \in Nat
    BY RelayAssumption
  <2>. QED
    BY ZenonT(40), <2>1, SeqDef
<1>3. first \in Seq(T)
  <2>1. [type |-> "disconnected"] \in T
    OBVIOUS
  <2> HIDE DEF T
  <2>. QED
    BY <2>1
<1>4. IF o \in peers THEN Told(o, first \o kept) ELSE UNCHANGED down
  BY DEF PeerGone
<1> HIDE DEF T, refusal, refusals, S, first, kept
<1>5. /\ kept \in Seq({refusal(n) : n \in 1..MaxAsks})
      /\ \E at : PlacedBy(at, kept, refusals, S)
  BY <1>2, KeptIs DEF kept
<1>6. \A n \in DOMAIN kept : kept[n] \in T
  BY <1>1, <1>5 DEF PlacedBy
<1>7. kept \in Seq(T)
  <2>1. Len(kept) \in Nat /\ DOMAIN kept = 1..Len(kept) /\ kept = [n \in 1..Len(kept) |-> kept[n]]
    BY <1>5
  <2>2. kept \in [1..Len(kept) -> T]
    BY <1>6, <2>1
  <2>. QED
    BY <2>1, <2>2, SeqDef
<1>8. first \o kept \in Seq(T)
  BY <1>3, <1>7
<1>9. \E msgs \in Seq(T) : IF o \in peers THEN Told(o, msgs) ELSE UNCHANGED down
  BY <1>4, <1>8
<1>. QED
  BY <1>9 DEF T

(* A peer that goes leaves types as they are. *)
LEMMA PeerGoneTyped ==
    ASSUME TypeOK, NEW e \in End, PeerGone(e)
    PROVE  /\ peers' \subseteq End /\ linked' \in BOOLEAN /\ asking' \subseteq Link
           /\ up' \in [End -> Seq(ToRelay)] /\ down' \in [End -> Seq(FromRelay)]
<1> DEFINE T == {[type |-> "disconnected"]} \cup Refusals(Other(e))
<1>1. peers' \subseteq End /\ linked' \in BOOLEAN /\ asking' \subseteq Link
  BY DEF TypeOK, PeerGone
<1>2. <<>> \in Seq(ToRelay)
  OBVIOUS
<1>3. up' \in [End -> Seq(ToRelay)]
  BY <1>2 DEF TypeOK, PeerGone
<1>4. T \subseteq FromRelay
  BY Messages DEF Refusals, TypeOK
<1>5. PICK msgs \in Seq(T) : IF Other(e) \in peers THEN Told(Other(e), msgs) ELSE UNCHANGED down
  BY PeerGoneIs
<1> HIDE DEF T
<1>6. msgs \in Seq(FromRelay)
  BY <1>4, <1>5
<1>7. down' \in [End -> Seq(FromRelay)]
  BY <1>5, <1>6, TwoEnds, ToldTyped DEF TypeOK
<1>. QED
  BY <1>1, <1>3, <1>7

(* What the application and the timers of an end do. *)
LEMMA EndTyped ==
    ASSUME TypeOK, NEW e \in End,
           Proxy(e) \/ Disconnect(e) \/ Send(e) \/ E2ETimesOut(e) \/ ProxyTimesOut(e) \/ EndLoses(e)
    PROVE  TypeOK'
<1>1. CASE Proxy(e)
  <2>1. PICK n \in 1..MaxAsks :
            /\ calls' = [calls EXCEPT ![e][n] = "sent"]
            /\ Tell(e, [type |-> "proxy", link |-> [by |-> e, n |-> n]])
            /\ UNCHANGED <<world, relay, half, sent, blamed, peers, linked, asking, down>>
    BY <1>1 DEF Proxy
  <2>2. [by |-> e, n |-> n] \in Link
    BY DEF Link
  <2>3. up' \in [End -> Seq(ToRelay)]
    BY <2>1, <2>2, Messages, TellTyped
  <2>4. calls' \in [End -> [1..MaxAsks -> Calls]]
    BY <2>1 DEF TypeOK, Calls
  <2>. QED
    BY <2>1, <2>3, <2>4 DEF TypeOK
<1>2. CASE Disconnect(e) \/ E2ETimesOut(e)
  <2>1. HalfGone(e) /\ Tell(e, [type |-> "unproxy"])
        /\ UNCHANGED <<world, relay, sent, blamed, peers, linked, asking, down>>
    BY <1>2 DEF Disconnect, E2ETimesOut, Unproxy
  <2>2. up' \in [End -> Seq(ToRelay)]
    BY <2>1, Messages, TellTyped
  <2>. QED
    BY <2>1, <2>2, HalfGoneTyped DEF TypeOK
<1>3. CASE Send(e)
  <2>1. half[e] \in Half /\ half[e].stage \in {"clear", "sealed"}
    BY <1>3, IsHalf DEF Send, Announced
  <2>2. [kind |-> half[e].stage, link |-> half[e].link] \in Frames
    BY <2>1 DEF Half, Frames
  <2>3. up' \in [End -> Seq(ToRelay)]
    BY <1>3, <2>2, Messages, TellTyped DEF Send, Forward
  <2>4. sent' \in [End -> 0..MaxFrames]
    BY <1>3, RelayAssumption DEF Send, TypeOK
  <2>. QED
    BY <1>3, <2>3, <2>4 DEF Send, TypeOK
<1>4. CASE ProxyTimesOut(e)
  <2>1. calls' \in [End -> [1..MaxAsks -> Calls]]
    BY <1>4 DEF ProxyTimesOut, TypeOK, Calls
  <2>. QED
    BY <1>4, <2>1 DEF ProxyTimesOut, TypeOK
<1>5. CASE EndLoses(e)
  BY <1>5, RelayGoneTyped DEF EndLoses, TypeOK
<1>. QED
  BY <1>1, <1>2, <1>3, <1>4, <1>5

(* An end that drops the relay. *)
LEMMA DropRelayTyped ==
    ASSUME TypeOK, NEW e \in End, DropRelay(e)
    PROVE  TypeOK'
BY RelayGoneTyped DEF DropRelay, TypeOK

(* What an end makes of what it reads. *)
LEMMA ReceiveTyped ==
    ASSUME TypeOK, NEW e \in End, Receive(e)
    PROVE  TypeOK'
<1> DEFINE m == Head(down[e])
           f == m.frame
           e2e == NeedsE2E(e, m.e2e)
<1>1. CASE ReceiveResult(e)
  <2> DEFINE h == [link |-> m.link, outbound |-> TRUE, required |-> e2e,
                   stage |-> IF e2e THEN "offered" ELSE "clear"]
             n == m.link.n
  <2>1. m \in FromRelay /\ m.type = "result" /\ down' \in [End -> Seq(FromRelay)]
    BY <1>1, TakenTyped DEF ReceiveResult, Take
  <2>2. m.link \in Link /\ m.e2e \in BOOLEAN /\ n \in 1..MaxAsks
    BY <2>1, MessageParts DEF Link
  <2>3. e2e \in BOOLEAN
    BY <2>2 DEF NeedsE2E, Requires
  <2>4. h \in Half
    BY <2>2, <2>3 DEF Half
  <2>5. UNCHANGED <<world, relay, sent, blamed, peers, linked, asking>>
    BY <1>1 DEF ReceiveResult
  <2> HIDE DEF m
  <2>6. CASE calls[e][n] = "sent" /\ m.ok /\ ~Holds(e)
    <3>1. /\ half' = [half EXCEPT ![e] = h]
          /\ calls' = [calls EXCEPT ![e][n] = IF e2e THEN "linking" ELSE "resolved"]
          /\ IF e2e
             THEN Tell(e, [type |-> "forward", frame |-> [kind |-> "offer", link |-> m.link]])
             ELSE UNCHANGED up
      BY <1>1, <2>6 DEF ReceiveResult, m
    <3> HIDE DEF h, e2e
    <3>2. half' \in [End -> Half \cup {NoHalf}]
      BY <2>4, <3>1 DEF TypeOK
    <3>3. calls' \in [End -> [1..MaxAsks -> Calls]]
      BY <2>2, <3>1 DEF TypeOK, Calls
    <3>4. [kind |-> "offer", link |-> m.link] \in Frames
      BY <2>2 DEF Frames
    <3>5. up' \in [End -> Seq(ToRelay)]
      BY <3>1, <3>4, Messages, TellTyped DEF TypeOK
    <3>. QED
      BY <2>1, <2>5, <3>2, <3>3, <3>5 DEF TypeOK
  <2>7. CASE ~(calls[e][n] = "sent" /\ m.ok /\ ~Holds(e))
    <3>1. /\ calls' = [calls EXCEPT ![e][n] = IF @ = "sent" THEN "rejected" ELSE @]
          /\ UNCHANGED <<half, up>>
      BY <1>1, <2>7 DEF ReceiveResult, m
    <3>2. calls' \in [End -> [1..MaxAsks -> Calls]]
      BY <2>2, <3>1 DEF TypeOK, Calls
    <3>. QED
      BY <2>1, <2>5, <3>1, <3>2 DEF TypeOK
  <2>. QED
    BY <2>6, <2>7
<1>2. CASE ReceiveConnected(e)
  <2> DEFINE ok == ~Holds(e) /\ e \in world.accepts
             h == [link |-> m.link, outbound |-> FALSE, required |-> e2e,
                   stage |-> IF e2e THEN "waiting" ELSE "clear"]
  <2>1. m \in FromRelay /\ m.type = "connected" /\ down' \in [End -> Seq(FromRelay)]
    BY <1>2, TakenTyped DEF ReceiveConnected, Take
  <2>2. m.link \in Link /\ m.e2e \in BOOLEAN
    BY <2>1, MessageParts
  <2>3. e2e \in BOOLEAN /\ ok \in BOOLEAN /\ (ok /\ e2e) \in BOOLEAN
    BY <2>2 DEF NeedsE2E, Requires
  <2>4. h \in Half
    BY <2>2, <2>3 DEF Half
  <2>5. /\ half' = [half EXCEPT ![e] = IF ~ok THEN @ ELSE h]
        /\ Tell(e, [type |-> "answer", link |-> m.link, ok |-> ok, e2e |-> ok /\ e2e])
        /\ UNCHANGED <<world, relay, calls, sent, blamed, peers, linked, asking>>
    BY <1>2 DEF ReceiveConnected
  <2> HIDE DEF m, e2e, ok, h
  <2>6. half' \in [End -> Half \cup {NoHalf}]
    BY <2>4, <2>5 DEF TypeOK
  <2>7. [type |-> "answer", link |-> m.link, ok |-> ok, e2e |-> ok /\ e2e] \in ToRelay
    BY <2>2, <2>3, Messages
  <2>8. up' \in [End -> Seq(ToRelay)]
    BY <2>5, <2>7, TellTyped
  <2>. QED
    BY <2>1, <2>5, <2>6, <2>8 DEF TypeOK
<1>3. CASE ReceiveDisconnected(e)
  <2>1. CASE Holds(e)
    <3>1. down' \in [End -> Seq(FromRelay)]
      BY <1>3, <2>1, TakenTyped DEF ReceiveDisconnected, Take
    <3>. QED
      BY <1>3, <2>1, <3>1, HalfGoneTyped DEF ReceiveDisconnected, TypeOK
  <2>2. CASE ~Holds(e)
    BY <1>3, <2>2, DropRelayTyped DEF ReceiveDisconnected
  <2>. QED
    BY <2>1, <2>2
<1>4. CASE ReceiveForward(e)
  <2>1. CASE DropRelay(e)
    BY <2>1, DropRelayTyped
  <2>2. ASSUME NEW k, ForwardComes(e, k)
        PROVE  TypeOK'
    <3> DEFINE g == k.frame
    <3>1. down' \in [End -> Seq(FromRelay)] /\ half[e] \in Half
      BY <2>2, ReadTyped, IsHalf DEF ForwardComes
    <3>2. UNCHANGED <<world, relay, sent, blamed, peers, linked, asking>>
      BY <2>2 DEF ForwardComes
    <3>3. CASE Unreadable(e, g)
      <4>1. HalfGone(e) /\ Tell(e, [type |-> "unproxy"])
        BY <2>2, <3>3 DEF ForwardComes, Unproxy
      <4>2. up' \in [End -> Seq(ToRelay)]
        BY <4>1, Messages, TellTyped
      <4>. QED
        BY <3>1, <3>2, <4>1, <4>2, HalfGoneTyped DEF TypeOK
    <3>4. CASE ~Unreadable(e, g) /\ g.kind = "offer"
      <4>1. /\ half' = [half EXCEPT ![e].stage = "sealed"]
            /\ calls' = [calls EXCEPT ![e] = [n \in 1..MaxAsks |->
                            IF @[n] \in {"linking"} THEN "resolved" ELSE @[n]]]
            /\ UNCHANGED up \/ Tell(e, Forward(e, "offer"))
        BY <2>2, <3>4 DEF ForwardComes, OfferIn
      <4>2. [half[e] EXCEPT !.stage = "sealed"] \in Half
        BY <3>1 DEF Half
      <4>3. half' \in [End -> Half \cup {NoHalf}]
        BY <4>1, <4>2 DEF TypeOK
      <4>4. {"linking"} \in SUBSET Calls /\ "resolved" \in Calls
        BY DEF Calls
      <4>5. calls' \in [End -> [1..MaxAsks -> Calls]]
        BY <4>1, <4>4, CallsTyped
      <4>6. [kind |-> "offer", link |-> half[e].link] \in Frames
        BY <3>1 DEF Half, Frames
      <4>7. up' \in [End -> Seq(ToRelay)]
        BY <4>1, <4>6, Messages, TellTyped DEF TypeOK, Forward
      <4>. QED
        BY <3>1, <3>2, <4>3, <4>5, <4>7 DEF TypeOK
    <3>5. CASE ~Unreadable(e, g) /\ g.kind # "offer"
      <4>1. UNCHANGED <<half, calls, up>>
        BY <2>2, <3>5 DEF ForwardComes
      <4>. QED
        BY <3>1, <3>2, <4>1 DEF TypeOK
    <3>. QED
      BY <3>3, <3>4, <3>5
  <2>. QED
    BY <1>4, <2>1, <2>2, Forwards
<1>. QED
  BY <1>1, <1>2, <1>3, <1>4 DEF Receive

(* What the relay makes of what it reads, and of what it misses.           *)
LEMMA DropPeerTyped ==
    ASSUME TypeOK, NEW e \in End, DropPeer(e) \/ RelayLoses(e)
    PROVE  TypeOK'
BY PeerGoneTyped DEF DropPeer, RelayLoses, TypeOK

(* A message of the relay's is typed where its parts are. *)
LEMMA OneMessage ==
    ASSUME TypeOK, NEW e \in End, NEW m \in FromRelay, Told(e, <<m>>)
    PROVE  down' \in [End -> Seq(FromRelay)]
<1>1. <<m>> \in Seq(FromRelay)
  OBVIOUS
<1>. QED
  BY <1>1, ToldTyped

(* What the relay reads. *)
LEMMA RelayReceiveTyped ==
    ASSUME TypeOK, NEW e \in End, RelayReceive(e)
    PROVE  TypeOK'
<1> DEFINE m == Head(up[e])
<1>1. Other(e) \in End
  BY TwoEnds
<1>2. CASE RelayProxy(e)
  <2>1. CASE ~world.permits \/ Other(e) \notin peers
    BY <1>2, <2>1, DropPeerTyped DEF RelayProxy
  <2>2. CASE ~(~world.permits \/ Other(e) \notin peers)
    <3>1. m \in ToRelay /\ m.type = "proxy" /\ up' \in [End -> Seq(ToRelay)]
      BY <1>2, <2>2, TakenUpTyped DEF RelayProxy, TakeUp
    <3>2. /\ linked' = TRUE /\ asking' = asking \cup {m.link}
          /\ Told(Other(e), << [type |-> "connected", link |-> m.link, e2e |-> Requires(e)] >>)
          /\ UNCHANGED <<world, relay, half, calls, sent, blamed, peers>>
      BY <1>2, <2>2 DEF RelayProxy
    <3>3. m.link \in Link /\ Requires(e) \in BOOLEAN
      BY <3>1, MessageParts DEF Requires
    <3> HIDE DEF m
    <3>4. down' \in [End -> Seq(FromRelay)]
      BY <1>1, <3>2, <3>3, Messages, OneMessage
    <3>. QED
      BY <3>1, <3>2, <3>3, <3>4 DEF TypeOK
  <2>. QED
    BY <2>1, <2>2
<1>3. CASE RelayAnswer(e)
  <2>1. m \in ToRelay /\ m.type = "answer" /\ up' \in [End -> Seq(ToRelay)]
    BY <1>3, TakenUpTyped DEF RelayAnswer, TakeUp
  <2>2. m.link \in Link /\ m.ok \in BOOLEAN /\ m.e2e \in BOOLEAN /\ m.link.by \in End
    BY <2>1, MessageParts DEF Link
  <2>3. (m.ok /\ (m.e2e \/ Requires(e))) \in BOOLEAN
    BY <2>2 DEF Requires
  <2>4. /\ IF m.link \in asking
           THEN /\ linked' = (linked /\ m.ok)
                /\ Told(m.link.by, << Result(m.link, m.ok, m.ok /\ (m.e2e \/ Requires(e))) >>)
           ELSE UNCHANGED <<linked, down>>
        /\ asking' = asking \ {m.link}
        /\ UNCHANGED <<world, relay, half, calls, sent, blamed, peers>>
    BY <1>3 DEF RelayAnswer
  <2> HIDE DEF m
  <2>5. Result(m.link, m.ok, m.ok /\ (m.e2e \/ Requires(e))) \in FromRelay
    BY <2>2, <2>3, Messages
  <2>6. down' \in [End -> Seq(FromRelay)]
    BY <2>2, <2>4, <2>5, OneMessage DEF TypeOK
  <2>7. linked' \in BOOLEAN
    BY <2>2, <2>4 DEF TypeOK
  <2>. QED
    BY <2>1, <2>4, <2>6, <2>7 DEF TypeOK
<1>4. CASE RelayUnproxy(e)
  <2>1. CASE ~world.permits
    BY <1>4, <2>1, DropPeerTyped DEF RelayUnproxy
  <2>2. CASE world.permits
    <3>1. up' \in [End -> Seq(ToRelay)]
      BY <1>4, <2>2, TakenUpTyped DEF RelayUnproxy, TakeUp
    <3>2. /\ IF Other(e) \in peers
             THEN linked' = FALSE /\ Told(Other(e), << [type |-> "disconnected"] >>)
             ELSE UNCHANGED <<linked, down>>
          /\ UNCHANGED <<world, relay, half, calls, sent, blamed, peers, asking>>
      BY <1>4, <2>2 DEF RelayUnproxy
    <3>3. down' \in [End -> Seq(FromRelay)] /\ linked' \in BOOLEAN
      BY <1>1, <3>2, Messages, OneMessage DEF TypeOK
    <3>. QED
      BY <3>1, <3>2, <3>3 DEF TypeOK
  <2>. QED
    BY <2>1, <2>2
<1>5. CASE RelayForward(e)
  <2>1. CASE DropPeer(e)
    BY <2>1, DropPeerTyped
  <2>2. ASSUME NEW k, ForwardGoes(e, k)
        PROVE  TypeOK'
    <3>1. k \in ToRelay /\ k.type = "forward" /\ up' \in [End -> Seq(ToRelay)]
      BY <2>2, ReadTyped DEF ForwardGoes
    <3>2. k \in FromRelay
      BY <3>1, MessageParts
    <3>3. /\ Told(Other(e), <<k>>) \/ UNCHANGED down
          /\ UNCHANGED <<world, relay, half, calls, sent, blamed, peers, linked, asking>>
      BY <2>2 DEF ForwardGoes
    <3>4. down' \in [End -> Seq(FromRelay)]
      BY <1>1, <3>2, <3>3, OneMessage DEF TypeOK
    <3>. QED
      BY <3>1, <3>3, <3>4 DEF TypeOK
  <2>. QED
    BY <1>5, <2>1, <2>2, Forwards
<1>. QED
  BY <1>2, <1>3, <1>4, <1>5 DEF RelayReceive

(* The types hold at first, *)
LEMMA TypesInitially ==
    Init => TypeOK
<1> SUFFICES ASSUME Init
             PROVE  TypeOK
  OBVIOUS
<1>1. <<>> \in Seq(ToRelay) /\ <<>> \in Seq(FromRelay)
  OBVIOUS
<1>2. world \in World /\ 0 \in 0..MaxFrames
  BY RelayAssumption DEF Init
<1>. QED
  BY <1>1, <1>2 DEF Init, TypeOK, Calls

(* and after every step. *)
LEMMA TypesNext ==
    TypeOK /\ [Next]_vars => TypeOK'
<1> SUFFICES ASSUME TypeOK, [Next]_vars
             PROVE  TypeOK'
  OBVIOUS
<1>1. CASE AnswerTimesOut
  <2>1. PICK l \in asking :
            /\ asking' = asking \ {l}
            /\ linked' = FALSE
            /\ Told(l.by, << Result(l, FALSE, FALSE) >>)
            /\ UNCHANGED <<world, relay, half, calls, sent, blamed, peers, up>>
    BY <1>1 DEF AnswerTimesOut
  <2>2. l \in Link /\ l.by \in End
    BY DEF TypeOK, Link
  <2>3. down' \in [End -> Seq(FromRelay)]
    BY <2>1, <2>2, Messages, OneMessage
  <2>. QED
    BY <2>1, <2>3 DEF TypeOK
<1>2. CASE UNCHANGED vars
  BY <1>2 DEF vars, TypeOK
<1>. QED
  BY <1>1, <1>2, EndTyped, ReceiveTyped, RelayReceiveTyped, DropPeerTyped DEF Next

(* The type invariant of the relayed links. *)
THEOREM TypeCorrect == Spec => []TypeOK
  BY TypesInitially, TypesNext, PTL DEF Spec

-----------------------------------------------------------------------------
(* What is on its way                                                      *)

(* What a message says about the link, in the same words on both of its    *)
(* hops; the others, that a link is refused or gone, say nothing.          *)
Say(m) ==
    IF m.type \in {"proxy", "connected"} THEN [says |-> "ask", n |-> m.link.n]
    ELSE IF m.type = "forward" THEN [says |-> m.frame.kind, n |-> m.frame.link.n]
    ELSE IF m.type \in {"answer", "result"} /\ m.ok THEN [says |-> "yes", n |-> m.link.n]
    ELSE [says |-> "nothing", n |-> 0]

Saying == [says: {"ask", "yes", "offer", "clear", "sealed"}, n: 1..MaxAsks]
FrameKinds == {"offer", "clear", "sealed"}

(* All that is said in s. *)
Said(s) == {x \in Saying : \E i \in DOMAIN s : Say(s[i]) = x}

(* What may be said before what, whatever the forward frames overtake: no  *)
(* frame after a question, none of an earlier link after the answer that   *)
(* grants a later, and no offer after another frame of its link.           *)
Precedes(x, y) ==
    x \in Saying /\ y \in Saying =>
        /\ x.says = "ask" => y.says \notin FrameKinds /\ (y.says = "ask" => x.n < y.n)
        /\ x.says = "yes" /\ y.says \in FrameKinds => x.n <= y.n
        /\ x.says \in FrameKinds /\ y.says = "offer" => x.n # y.n
InOrder(s) == \A i, j \in DOMAIN s : i < j => Precedes(Say(s[i]), Say(s[j]))

(* No sealed frame without an offer before it. *)
Led(s) ==
    \A j \in DOMAIN s : Say(s[j]) \in Saying /\ Say(s[j]).says = "sealed" =>
        \E i \in DOMAIN s : i < j /\ Say(s[i]) \in Saying /\ Say(s[i]).says = "offer"
Offered(X) == \E x \in X : x.says = "offer"

(* Nothing is said in an empty queue, and in one of one message what that  *)
(* message says.                                                           *)
LEMMA OfNone ==
    Said(<<>>) = {} /\ InOrder(<<>>) /\ Led(<<>>)
BY DEF Said, InOrder, Led

(* The same for one message. *)
LEMMA OfOne ==
    ASSUME NEW m
    PROVE  /\ \A x : x \in Said(<<m>>) <=> x \in Saying /\ x = Say(m)
           /\ InOrder(<<m>>)
           /\ Led(<<m>>) <=> Say(m) \notin Saying \/ Say(m).says # "sealed"
BY DEF Said, InOrder, Led

(* Two queues in a row. *)
LEMMA OfTwo ==
    ASSUME NEW T, NEW s \in Seq(T), NEW t \in Seq(T)
    PROVE  /\ Said(s \o t) = Said(s) \cup Said(t)
           /\ InOrder(s \o t) <=>
                InOrder(s) /\ InOrder(t) /\ \A x \in Said(s), y \in Said(t) : Precedes(x, y)
           /\ Led(s \o t) <=> Led(s) /\ (Led(t) \/ Offered(Said(s)))
<1> DEFINE r == s \o t
           N == Len(s)
<1>1. /\ r \in Seq(T) /\ DOMAIN r = 1..(N + Len(t)) /\ DOMAIN s = 1..N /\ DOMAIN t = 1..Len(t)
      /\ N \in Nat /\ Len(t) \in Nat
  OBVIOUS
<1>2. /\ \A i \in DOMAIN s : i \in DOMAIN r /\ r[i] = s[i]
      /\ \A i \in DOMAIN t : N + i \in DOMAIN r /\ r[N + i] = t[i]
      /\ \A i \in DOMAIN r : i \in DOMAIN s \/ (i - N \in DOMAIN t /\ r[i] = t[i - N])
  OBVIOUS
<1> HIDE DEF r, N
<1>3. Said(r) = Said(s) \cup Said(t)
  <2>1. \A x \in Saying : (\E i \in DOMAIN r : Say(r[i]) = x)
            <=> (\E i \in DOMAIN s : Say(s[i]) = x) \/ (\E i \in DOMAIN t : Say(t[i]) = x)
    BY <1>2
  <2>. QED
    BY <2>1 DEF Said
<1>4. InOrder(r) <=>
        InOrder(s) /\ InOrder(t) /\ \A x \in Said(s), y \in Said(t) : Precedes(x, y)
  <2>1. ASSUME InOrder(r)
        PROVE  InOrder(s) /\ InOrder(t) /\ \A x \in Said(s), y \in Said(t) : Precedes(x, y)
    <3>1. InOrder(s)
      BY <1>2, <2>1 DEF InOrder
    <3>2. InOrder(t)
      <4>1. \A i, j \in DOMAIN t : i < j => N + i < N + j
        BY <1>1
      <4>. QED
        BY <1>2, <2>1, <4>1 DEF InOrder
    <3>3. ASSUME NEW x \in Said(s), NEW y \in Said(t)
          PROVE  Precedes(x, y)
      <4>1. PICK i \in DOMAIN s : Say(s[i]) = x
        BY DEF Said
      <4>2. PICK j \in DOMAIN t : Say(t[j]) = y
        BY DEF Said
      <4>3. i < N + j
        BY <1>1
      <4>. QED
        BY <1>2, <2>1, <4>1, <4>2, <4>3 DEF InOrder
    <3>. QED
      BY <3>1, <3>2, <3>3
  <2>2. ASSUME InOrder(s), InOrder(t), \A x \in Said(s), y \in Said(t) : Precedes(x, y),
               NEW i \in DOMAIN r, NEW j \in DOMAIN r, i < j
        PROVE  Precedes(Say(r[i]), Say(r[j]))
    <3>1. CASE j \in DOMAIN s
      <4>1. i \in DOMAIN s
        BY <1>1, <2>2, <3>1
      <4>. QED
        BY <1>2, <2>2, <3>1, <4>1 DEF InOrder
    <3>2. CASE i \in DOMAIN s /\ j \notin DOMAIN s
      <4>1. CASE Say(r[i]) \in Saying /\ Say(r[j]) \in Saying
        <5>1. Say(r[i]) \in Said(s) /\ Say(r[j]) \in Said(t)
          BY <1>2, <3>2, <4>1 DEF Said
        <5>. QED
          BY <2>2, <5>1
      <4>2. CASE ~(Say(r[i]) \in Saying /\ Say(r[j]) \in Saying)
        BY <4>2 DEF Precedes
      <4>. QED
        BY <4>1, <4>2
    <3>3. CASE i \notin DOMAIN s /\ j \notin DOMAIN s
      <4>1. i - N \in DOMAIN t /\ j - N \in DOMAIN t /\ r[i] = t[i - N] /\ r[j] = t[j - N]
        BY <1>2, <3>3
      <4>2. i - N < j - N
        BY <1>1, <2>2
      <4>. QED
        BY <2>2, <4>1, <4>2 DEF InOrder
    <3>. QED
      BY <3>1, <3>2, <3>3
  <2>. QED
    BY <2>1, <2>2 DEF InOrder
<1>5. Led(r) <=> Led(s) /\ (Led(t) \/ Offered(Said(s)))
  <2>1. ASSUME Led(r)
        PROVE  Led(s) /\ (Led(t) \/ Offered(Said(s)))
    <3>1. Led(s)
      <4> SUFFICES ASSUME NEW j \in DOMAIN s, Say(s[j]) \in Saying, Say(s[j]).says = "sealed"
                   PROVE  \E i \in DOMAIN s : i < j /\ Say(s[i]) \in Saying /\ Say(s[i]).says = "offer"
        BY DEF Led
      <4>1. PICK i \in DOMAIN r : i < j /\ Say(r[i]) \in Saying /\ Say(r[i]).says = "offer"
        BY <1>2, <2>1 DEF Led
      <4>2. i \in DOMAIN s
        BY <1>1, <4>1
      <4>. QED
        BY <1>2, <4>1, <4>2
    <3>2. ASSUME ~Offered(Said(s))
          PROVE  Led(t)
      <4> SUFFICES ASSUME NEW j \in DOMAIN t, Say(t[j]) \in Saying, Say(t[j]).says = "sealed"
                   PROVE  \E i \in DOMAIN t : i < j /\ Say(t[i]) \in Saying /\ Say(t[i]).says = "offer"
        BY DEF Led
      <4>1. PICK i \in DOMAIN r : i < N + j /\ Say(r[i]) \in Saying /\ Say(r[i]).says = "offer"
        BY <1>2, <2>1 DEF Led
      <4>2. i \notin DOMAIN s
        BY <1>2, <3>2, <4>1 DEF Offered, Said
      <4>3. i - N < j
        BY <1>1, <4>1
      <4>. QED
        BY <1>2, <4>1, <4>2, <4>3
    <3>. QED
      BY <3>1, <3>2
  <2>2. ASSUME Led(s), Led(t) \/ Offered(Said(s)), NEW j \in DOMAIN r,
               Say(r[j]) \in Saying, Say(r[j]).says = "sealed"
        PROVE  \E i \in DOMAIN r : i < j /\ Say(r[i]) \in Saying /\ Say(r[i]).says = "offer"
    <3>1. CASE j \in DOMAIN s
      BY <1>2, <2>2, <3>1 DEF Led
    <3>2. CASE j \notin DOMAIN s /\ Led(t)
      <4>1. j - N \in DOMAIN t /\ r[j] = t[j - N]
        BY <1>2, <3>2
      <4>2. PICK i \in DOMAIN t : i < j - N /\ Say(t[i]) \in Saying /\ Say(t[i]).says = "offer"
        BY <2>2, <3>2, <4>1 DEF Led
      <4>3. N + i < j
        BY <1>1, <4>2
      <4>. QED
        BY <1>2, <4>2, <4>3
    <3>3. CASE j \notin DOMAIN s /\ Offered(Said(s))
      <4>1. PICK i \in DOMAIN s : Say(s[i]) \in Saying /\ Say(s[i]).says = "offer"
        BY <3>3 DEF Offered, Said
      <4>2. i < j
        BY <1>1, <3>3
      <4>. QED
        BY <1>2, <4>1, <4>2
    <3>. QED
      BY <2>2, <3>1, <3>2, <3>3
  <2>. QED
    BY <2>1, <2>2 DEF Led
<1>. QED
  BY <1>3, <1>4, <1>5 DEF r

(* t says no more than s does, in the same order; and as much of it as     *)
(* matters to who waits for an offer.                                      *)
Narrower(t, s) == Said(t) \subseteq Said(s) /\ (InOrder(s) => InOrder(t))
StillLed(t, s) == (Led(s) => Led(t)) /\ (Offered(Said(s)) => Offered(Said(t)))

(* Any message. *)
Msg == ToRelay \cup FromRelay

(* Taking the first message of a queue. *)
LEMMA TakeOne ==
    ASSUME NEW T, NEW s \in Seq(T), s # <<>>
    PROVE  /\ Head(s) \in T /\ Tail(s) \in Seq(T) /\ s = <<Head(s)>> \o Tail(s)
           /\ <<Head(s)>> \in Seq(T)
<1> DEFINE t == <<Head(s)>> \o Tail(s)
<1>1. Head(s) \in T /\ Tail(s) \in Seq(T) /\ <<Head(s)>> \in Seq(T) /\ Len(Tail(s)) = Len(s) - 1
  OBVIOUS
<1>2. t \in Seq(T) /\ Len(t) = Len(s) /\ \A i \in 1..Len(s) : t[i] = s[i]
  OBVIOUS
<1>. QED
  BY <1>1, <1>2, SeqEqual

(* What a message overtakes says nothing that had to be said before it.    *)
LEMMA Overtaken ==
    ASSUME NEW p \in Seq(Msg), NEW m \in Msg,
           \A j \in DOMAIN p : p[j].type # "forward",
           m.type # "forward" => p = <<>>
    PROVE  /\ \A y \in Said(p) : Precedes(Say(m), y)
           /\ Led(p) /\ ~Offered(Said(p))
<1>1. \A j \in DOMAIN p : Say(p[j]).says \notin FrameKinds
  BY DEF Say, FrameKinds
<1>2. \A y \in Said(p) : y \in Saying /\ y.says \notin FrameKinds
  BY <1>1 DEF Said
<1>3. Led(p) /\ ~Offered(Said(p))
  BY <1>1, <1>2 DEF Led, Offered, FrameKinds
<1>4. CASE m.type # "forward"
  BY <1>3, <1>4 DEF Said
<1>5. CASE m.type = "forward"
  <2>1. m.frame \in Frames
    BY <1>5, MessageParts DEF Msg
  <2>2. Say(m).says \in FrameKinds
    BY <1>5, <2>1 DEF Say, Frames, FrameKinds
  <2>3. \A y \in Said(p) : Precedes(Say(m), y)
    BY <1>2, <2>2 DEF Precedes, FrameKinds
  <2>. QED
    BY <1>3, <2>3
<1>. QED
  BY <1>4, <1>5

(* What is read at the head of a way, before what is still to be sent: it  *)
(* was said, may be said before all that is left, and is not sealed before *)
(* anything was offered.  The rest is as it was.                           *)
LEMMA WhatIsRead ==
    ASSUME NEW d \in Seq(Msg), NEW u \in Seq(Msg), NEW m, NEW r, Reads(d, m, r)
    PROVE  LET x == Say(m) s == d \o u t == r \o u IN
           /\ Narrower(t, s)
           /\ x.says # "offer" => StillLed(t, s)
           /\ x \in Saying => x \in Said(s)
           /\ InOrder(s) => \A y \in Said(t) : x \in Saying => Precedes(x, y)
           /\ Led(s) => x \notin Saying \/ x.says # "sealed"
<1> DEFINE x == Say(m)
           s == d \o u
           t == r \o u
           h == <<m>>
<1>1. PICK p \in Seq(Msg), q \in Seq(Msg) :
         /\ m \in Msg /\ d = (p \o <<m>>) \o q /\ r = p \o q
         /\ \A j \in DOMAIN p : p[j].type # "forward"
         /\ m.type # "forward" => p = <<>>
  BY ReadsIs
<1>2. /\ \A y \in Said(p) : Precedes(x, y)
      /\ Led(p) /\ ~Offered(Said(p))
  BY <1>1, Overtaken
<1> DEFINE g == p \o h
           v == q \o u
<1>3. h \in Seq(Msg) /\ g \in Seq(Msg) /\ v \in Seq(Msg)
  BY <1>1
<1>4. s = g \o v /\ t = p \o v
  <2>1. d = g \o q /\ r = p \o q
    BY <1>1
  <2> HIDE DEF g
  <2>2. (g \o q) \o u = g \o v
    BY <1>1, <1>3, ConcatAssociative
  <2>3. (p \o q) \o u = p \o v
    BY <1>1, ConcatAssociative
  <2>. QED
    BY <2>1, <2>2, <2>3
<1>5. /\ \A y : y \in Said(h) <=> y \in Saying /\ y = x
      /\ Led(h) <=> x \notin Saying \/ x.says # "sealed"
  BY OfOne
<1> HIDE DEF x, s, t, h, v
<1>6. /\ Said(g) = Said(p) \cup Said(h)
      /\ InOrder(g) <=> InOrder(p) /\ InOrder(h) /\ \A y \in Said(p), z \in Said(h) : Precedes(y, z)
      /\ Led(g) <=> Led(p) /\ (Led(h) \/ Offered(Said(p)))
  BY <1>1, <1>3, OfTwo
<1> HIDE DEF g
<1>7. /\ Said(g \o v) = Said(g) \cup Said(v)
      /\ InOrder(g \o v) <=> InOrder(g) /\ InOrder(v) /\ \A y \in Said(g), z \in Said(v) : Precedes(y, z)
      /\ Led(g \o v) <=> Led(g) /\ (Led(v) \/ Offered(Said(g)))
  BY <1>3, OfTwo
<1>8. /\ Said(p \o v) = Said(p) \cup Said(v)
      /\ InOrder(p \o v) <=> InOrder(p) /\ InOrder(v) /\ \A y \in Said(p), z \in Said(v) : Precedes(y, z)
      /\ Led(p \o v) <=> Led(p) /\ (Led(v) \/ Offered(Said(p)))
  BY <1>1, <1>3, OfTwo
<1>9. Narrower(t, s)
  BY <1>4, <1>6, <1>7, <1>8 DEF Narrower
<1>10. x.says # "offer" => StillLed(t, s)
  <2>1. x.says # "offer" => ~Offered(Said(h))
    BY <1>5 DEF Offered
  <2>2. ~Offered(Said(h)) => (Offered(Said(s)) => Offered(Said(t))) /\ ~Offered(Said(g))
    BY <1>2, <1>4, <1>6, <1>7, <1>8 DEF Offered
  <2>. QED
    BY <1>2, <1>4, <1>7, <1>8, <2>1, <2>2 DEF StillLed
<1>11. x \in Saying => x \in Said(s)
  BY <1>4, <1>5, <1>6, <1>7
<1>12. InOrder(s) => \A y \in Said(t) : x \in Saying => Precedes(x, y)
  BY <1>2, <1>4, <1>5, <1>6, <1>7, <1>8
<1>13. Led(s) => x \notin Saying \/ x.says # "sealed"
  BY <1>2, <1>4, <1>5, <1>6, <1>7
<1>. QED
  BY <1>9, <1>10, <1>11, <1>12, <1>13 DEF x, s, t

(* What is added is last. *)
LEMMA Adding ==
    ASSUME NEW T, NEW s \in Seq(T), NEW m \in T
    PROVE  LET x == Say(m) t == Append(s, m) IN
           /\ x \in Saying => Said(t) = Said(s) \cup {x}
           /\ x \notin Saying => Said(t) = Said(s)
           /\ InOrder(s) /\ (\A y \in Said(s) : Precedes(y, x)) => InOrder(t)
           /\ Led(s) /\ (x.says = "sealed" => Offered(Said(s))) => Led(t)
<1> DEFINE x == Say(m)
           t == Append(s, m)
           l == <<m>>
<1>1. l \in Seq(T) /\ t = s \o l
  BY AppendIsConcat
<1>2. /\ \A y : y \in Said(l) <=> y \in Saying /\ y = x
      /\ InOrder(l)
      /\ Led(l) <=> x \notin Saying \/ x.says # "sealed"
  BY OfOne
<1> HIDE DEF x, t, l
<1>3. /\ Said(t) = Said(s) \cup Said(l)
      /\ InOrder(t) <=> InOrder(s) /\ InOrder(l) /\ \A y \in Said(s), z \in Said(l) : Precedes(y, z)
      /\ Led(t) <=> Led(s) /\ (Led(l) \/ Offered(Said(s)))
  BY <1>1, OfTwo
<1>4. x \in Saying => Said(t) = Said(s) \cup {x}
  BY <1>2, <1>3
<1>5. x \notin Saying => Said(t) = Said(s)
  BY <1>2, <1>3
<1>6. InOrder(s) /\ (\A y \in Said(s) : Precedes(y, x)) => InOrder(t)
  BY <1>2, <1>3
<1>7. Led(s) /\ (x.says = "sealed" => Offered(Said(s))) => Led(t)
  BY <1>2, <1>3
<1>. QED
  BY <1>4, <1>5, <1>6, <1>7 DEF x, t

(* Messages that say nothing. *)
Mute(s) == \A i \in DOMAIN s : Say(s[i]).says = "nothing"

(* They add nothing, wherever they come. *)
LEMMA OfMute ==
    ASSUME NEW T, NEW s \in Seq(T), Mute(s)
    PROVE  Said(s) = {} /\ InOrder(s) /\ Led(s) /\ ~Offered(Said(s))
<1>1. \A i \in DOMAIN s : Say(s[i]) \notin Saying /\ Say(s[i]).says # "sealed"
  BY DEF Mute, Saying
<1>2. Said(s) = {}
  BY <1>1 DEF Said
<1>. QED
  BY <1>1, <1>2 DEF InOrder, Led, Precedes, Offered

(* The relay cuts off what it has not read, and sends such instead. *)
LEMMA Cutting ==
    ASSUME NEW T, NEW d \in Seq(T), NEW u \in Seq(T), NEW s \in Seq(T), Mute(s)
    PROVE  Narrower(d \o s, d \o u) /\ (Led(d \o u) => Led(d \o s))
<1>1. Said(s) = {} /\ InOrder(s) /\ Led(s)
  BY OfMute
<1>2. /\ Said(d \o s) = Said(d) \cup Said(s) /\ Said(d \o u) = Said(d) \cup Said(u)
      /\ InOrder(d \o s) <=>
            InOrder(d) /\ InOrder(s) /\ \A x \in Said(d), y \in Said(s) : Precedes(x, y)
      /\ InOrder(d \o u) => InOrder(d)
      /\ Led(d \o s) <=> Led(d) /\ (Led(s) \/ Offered(Said(d)))
      /\ Led(d \o u) => Led(d)
  BY OfTwo
<1>. QED
  BY <1>1, <1>2 DEF Narrower

(* It sends them in between. *)
LEMMA Between ==
    ASSUME NEW T, NEW d \in Seq(T), NEW u \in Seq(T), NEW s \in Seq(T), Mute(s)
    PROVE  Narrower((d \o s) \o u, d \o u) /\ StillLed((d \o s) \o u, d \o u)
<1> DEFINE c == d \o s
<1>1. Said(s) = {} /\ InOrder(s) /\ Led(s) /\ c \in Seq(T)
  BY OfMute
<1>2. /\ Said(c) = Said(d) \cup Said(s)
      /\ InOrder(c) <=>
            InOrder(d) /\ InOrder(s) /\ \A x \in Said(d), y \in Said(s) : Precedes(x, y)
      /\ Led(c) <=> Led(d) /\ (Led(s) \/ Offered(Said(d)))
  BY OfTwo
<1> HIDE DEF c
<1>3. Said(c) = Said(d) /\ (InOrder(c) <=> InOrder(d)) /\ (Led(c) <=> Led(d))
  BY <1>1, <1>2
<1>4. /\ Said(c \o u) = Said(c) \cup Said(u) /\ Said(d \o u) = Said(d) \cup Said(u)
      /\ InOrder(c \o u) <=>
            InOrder(c) /\ InOrder(u) /\ \A x \in Said(c), y \in Said(u) : Precedes(x, y)
      /\ InOrder(d \o u) <=>
            InOrder(d) /\ InOrder(u) /\ \A x \in Said(d), y \in Said(u) : Precedes(x, y)
      /\ Led(c \o u) <=> Led(c) /\ (Led(u) \/ Offered(Said(c)))
      /\ Led(d \o u) <=> Led(d) /\ (Led(u) \/ Offered(Said(d)))
  BY <1>1, OfTwo
<1>5. Narrower(c \o u, d \o u) /\ StillLed(c \o u, d \o u)
  BY <1>3, <1>4 DEF Narrower, StillLed
<1>. QED
  BY <1>5 DEF c

(* It reads a message, and passes on what says the same. *)
LEMMA Passing ==
    ASSUME NEW d \in Seq(Msg), NEW u \in Seq(Msg), NEW k, NEW r, Reads(u, k, r),
           NEW m \in Msg, Say(m) = Say(k)
    PROVE  Narrower((d \o <<m>>) \o r, d \o u) /\ StillLed((d \o <<m>>) \o r, d \o u)
<1> DEFINE x == Say(m)
           h == <<k>>
           l == <<m>>
<1>1. PICK p \in Seq(Msg), q \in Seq(Msg) :
         /\ k \in Msg /\ u = (p \o <<k>>) \o q /\ r = p \o q
         /\ \A j \in DOMAIN p : p[j].type # "forward"
         /\ k.type # "forward" => p = <<>>
  BY ReadsIs
<1>2. /\ \A y \in Said(p) : Precedes(x, y)
      /\ Led(p) /\ ~Offered(Said(p))
  BY <1>1, Overtaken
<1> DEFINE a == p \o h
           b == l \o p
<1>3. h \in Seq(Msg) /\ l \in Seq(Msg) /\ a \in Seq(Msg) /\ b \in Seq(Msg)
  BY <1>1
<1>4. u = a \o q /\ (d \o l) \o r = d \o (b \o q)
  <2>1. (d \o l) \o r = d \o (l \o (p \o q))
    BY <1>1, <1>3, ConcatAssociative
  <2> HIDE DEF l
  <2>2. (l \o p) \o q = l \o (p \o q)
    BY <1>1, <1>3, ConcatAssociative
  <2>3. u = a \o q
    BY <1>1
  <2> HIDE DEF a
  <2>. QED
    BY Zenon, <2>1, <2>2, <2>3
<1>5. /\ \A y : y \in Said(h) <=> y \in Saying /\ y = x
      /\ \A y : y \in Said(l) <=> y \in Saying /\ y = x
      /\ InOrder(h) /\ InOrder(l)
      /\ Led(h) <=> x \notin Saying \/ x.says # "sealed"
      /\ Led(l) <=> x \notin Saying \/ x.says # "sealed"
  BY OfOne
<1> HIDE DEF h, l, x
<1>6. /\ Said(a) = Said(p) \cup Said(h) /\ Said(b) = Said(l) \cup Said(p)
      /\ InOrder(a) <=> InOrder(p) /\ InOrder(h) /\ \A y \in Said(p), z \in Said(h) : Precedes(y, z)
      /\ InOrder(b) <=> InOrder(l) /\ InOrder(p) /\ \A y \in Said(l), z \in Said(p) : Precedes(y, z)
      /\ Led(a) <=> Led(p) /\ (Led(h) \/ Offered(Said(p)))
      /\ Led(b) <=> Led(l) /\ (Led(p) \/ Offered(Said(l)))
  BY <1>1, <1>3, OfTwo
<1> HIDE DEF a, b
<1>7. Said(a) = Said(b) /\ (InOrder(a) => InOrder(b)) /\ (Led(a) => Led(b))
  <2>1. Said(h) = Said(l)
    BY <1>5
  <2>2. InOrder(a) => InOrder(b)
    BY <1>2, <1>5, <1>6
  <2>3. Led(a) => Led(b)
    BY <1>2, <1>5, <1>6
  <2>. QED
    BY <1>6, <2>1, <2>2, <2>3
<1>8. /\ a \o q \in Seq(Msg) /\ b \o q \in Seq(Msg)
      /\ Said(a \o q) = Said(a) \cup Said(q) /\ Said(b \o q) = Said(b) \cup Said(q)
      /\ InOrder(a \o q) <=> InOrder(a) /\ InOrder(q) /\ \A y \in Said(a), z \in Said(q) : Precedes(y, z)
      /\ InOrder(b \o q) <=> InOrder(b) /\ InOrder(q) /\ \A y \in Said(b), z \in Said(q) : Precedes(y, z)
      /\ Led(a \o q) <=> Led(a) /\ (Led(q) \/ Offered(Said(a)))
      /\ Led(b \o q) <=> Led(b) /\ (Led(q) \/ Offered(Said(b)))
  BY <1>1, <1>3, OfTwo
<1> DEFINE v == a \o q
           w == b \o q
<1>9. Said(v) = Said(w) /\ (InOrder(v) => InOrder(w)) /\ (Led(v) => Led(w)) /\ v \in Seq(Msg) /\ w \in Seq(Msg)
  BY <1>7, <1>8
<1> HIDE DEF v, w
<1>10. /\ Said(d \o v) = Said(d) \cup Said(v) /\ Said(d \o w) = Said(d) \cup Said(w)
       /\ InOrder(d \o v) <=> InOrder(d) /\ InOrder(v) /\ \A y \in Said(d), z \in Said(v) : Precedes(y, z)
       /\ InOrder(d \o w) <=> InOrder(d) /\ InOrder(w) /\ \A y \in Said(d), z \in Said(w) : Precedes(y, z)
       /\ Led(d \o v) <=> Led(d) /\ (Led(v) \/ Offered(Said(d)))
       /\ Led(d \o w) <=> Led(d) /\ (Led(w) \/ Offered(Said(d)))
  BY <1>9, OfTwo
<1>11. Narrower(d \o w, d \o v) /\ StillLed(d \o w, d \o v)
  BY <1>9, <1>10 DEF Narrower, StillLed
<1>. QED
  BY <1>4, <1>11 DEF l, v, w

(* It reads one, and passes on nothing. *)
LEMMA Dropping ==
    ASSUME NEW d \in Seq(Msg), NEW u \in Seq(Msg), NEW k, NEW r, Reads(u, k, r), Say(k).says # "offer"
    PROVE  Narrower(d \o r, d \o u) /\ StillLed(d \o r, d \o u)
<1>1. r \in Seq(Msg) /\ <<>> \in Seq(Msg) /\ u \o <<>> = u
  BY ReadFrom
<1>2. r \o <<>> = r
  BY <1>1
<1>3. Narrower(r, u) /\ StillLed(r, u)
  <2>1. LET x == Say(k) s == u \o <<>> t == r \o <<>> IN
           /\ Narrower(t, s)
           /\ x.says # "offer" => StillLed(t, s)
           /\ x \in Saying => x \in Said(s)
           /\ InOrder(s) => \A y \in Said(t) : x \in Saying => Precedes(x, y)
           /\ Led(s) => x \notin Saying \/ x.says # "sealed"
    BY <1>1, WhatIsRead
  <2>. QED
    BY <1>1, <1>2, <2>1
<1>4. /\ Said(d \o r) = Said(d) \cup Said(r) /\ Said(d \o u) = Said(d) \cup Said(u)
      /\ InOrder(d \o r) <=>
            InOrder(d) /\ InOrder(r) /\ \A x \in Said(d), y \in Said(r) : Precedes(x, y)
      /\ InOrder(d \o u) <=>
            InOrder(d) /\ InOrder(u) /\ \A x \in Said(d), y \in Said(u) : Precedes(x, y)
      /\ Led(d \o r) <=> Led(d) /\ (Led(r) \/ Offered(Said(d)))
      /\ Led(d \o u) <=> Led(d) /\ (Led(u) \/ Offered(Said(d)))
  BY <1>1, OfTwo
<1>5. Narrower(d \o r, d \o u)
  BY <1>3, <1>4 DEF Narrower
<1>6. StillLed(d \o r, d \o u)
  BY <1>3, <1>4 DEF StillLed, Offered
<1>. QED
  BY <1>5, <1>6

-----------------------------------------------------------------------------
(* What is said where one end asks                                         *)

(* a asks, and b is the other. *)
OnlyAsks(a, b) == a \in End /\ b \in End /\ a # b /\ End = {a, b} /\ world.asks[b] = 0

(* What it asks for, and whether e2e is needed for it. *)
Links(a) == [by: {a}, n: 1..MaxAsks]
EitherRequires(a, b) == Requires(a) \/ Requires(b)

(* The messages either end sends and gets, and its half. *)
FramesOf(a, b) == [kind: IF EitherRequires(a, b) THEN {"offer", "sealed"} ELSE {"clear"}, link: Links(a)]
FrameMessages(a, b) == [type: {"forward"}, frame: FramesOf(a, b)]
Replies(a, b, type) ==
    [type: {type}, link: Links(a), ok: {FALSE}, e2e: {FALSE}]
        \cup [type: {type}, link: Links(a), ok: {TRUE}, e2e: {EitherRequires(a, b)}]
Sends(a, b, e) ==
    (IF e = a THEN [type: {"proxy"}, link: Links(a)] ELSE Replies(a, b, "answer"))
        \cup [type: {"unproxy"}] \cup FrameMessages(a, b)
Gets(a, b, e) ==
    (IF e = a THEN Replies(a, b, "result")
              ELSE [type: {"connected"}, link: Links(a), e2e: {Requires(a)}])
        \cup [type: {"disconnected"}] \cup FrameMessages(a, b)
Halves(a, b, e) ==
    [link: Links(a), outbound: BOOLEAN, required: {EitherRequires(a, b)},
     stage: IF EitherRequires(a, b) THEN {IF e = a THEN "offered" ELSE "waiting", "sealed"}
                                    ELSE {"clear"}]

(* Only links of a are spoken of, with the requirements of both hops       *)
(* carried over, and only a waits for answers.                             *)
Talk(a, b) ==
    /\ \A e \in End : up[e] \in Seq(Sends(a, b, e))
    /\ \A e \in End : down[e] \in Seq(Gets(a, b, e))
    /\ \A e \in End : half[e] \in Halves(a, b, e) \cup {NoHalf}
    /\ \A n \in 1..MaxAsks : calls[b][n] = "none"
    /\ asking \subseteq Links(a)

(* What a message of theirs carries. *)
LEMMA TalkParts ==
    ASSUME NEW a, NEW b, OnlyAsks(a, b), NEW e \in End
    PROVE  /\ \A m \in Sends(a, b, e) :
                /\ m.type = "proxy" => e = a /\ m.link \in Links(a)
                /\ m.type = "answer" =>
                    /\ e = b /\ m.link \in Links(a) /\ m.ok \in BOOLEAN
                    /\ m.e2e = (m.ok /\ EitherRequires(a, b))
                /\ m.type = "forward" => m \in FrameMessages(a, b) /\ m.frame \in FramesOf(a, b)
           /\ \A m \in Gets(a, b, e) :
                /\ m.type = "connected" => e = b /\ m.link \in Links(a) /\ m.e2e = Requires(a)
                /\ m.type = "result" =>
                    /\ e = a /\ m.link \in Links(a) /\ m.ok \in BOOLEAN
                    /\ m.e2e = (m.ok /\ EitherRequires(a, b))
                /\ m.type = "forward" => m \in FrameMessages(a, b) /\ m.frame \in FramesOf(a, b)
<1>1. a # b /\ End = {a, b} /\ EitherRequires(a, b) \in BOOLEAN
  BY DEF OnlyAsks, EitherRequires, Requires
<1>2. ASSUME NEW m \in Sends(a, b, e)
      PROVE  /\ m.type = "proxy" => e = a /\ m.link \in Links(a)
             /\ m.type = "answer" =>
                    /\ e = b /\ m.link \in Links(a) /\ m.ok \in BOOLEAN
                    /\ m.e2e = (m.ok /\ EitherRequires(a, b))
             /\ m.type = "forward" => m \in FrameMessages(a, b) /\ m.frame \in FramesOf(a, b)
  <2>1. CASE m \in FrameMessages(a, b)
    BY <2>1 DEF FrameMessages
  <2>2. CASE m \in [type: {"unproxy"}]
    BY <2>2
  <2>3. CASE e = a /\ m \in [type: {"proxy"}, link: Links(a)]
    BY <2>3
  <2>4. CASE e = b /\ m \in Replies(a, b, "answer")
    BY <1>1, <2>4 DEF Replies
  <2>. QED
    BY <1>1, <1>2, <2>1, <2>2, <2>3, <2>4 DEF Sends
<1>3. ASSUME NEW m \in Gets(a, b, e)
      PROVE  /\ m.type = "connected" => e = b /\ m.link \in Links(a) /\ m.e2e = Requires(a)
             /\ m.type = "result" =>
                    /\ e = a /\ m.link \in Links(a) /\ m.ok \in BOOLEAN
                    /\ m.e2e = (m.ok /\ EitherRequires(a, b))
             /\ m.type = "forward" => m \in FrameMessages(a, b) /\ m.frame \in FramesOf(a, b)
  <2>1. CASE m \in FrameMessages(a, b)
    BY <2>1 DEF FrameMessages
  <2>2. CASE m \in [type: {"disconnected"}]
    BY <2>2
  <2>3. CASE e = b /\ m \in [type: {"connected"}, link: Links(a), e2e: {Requires(a)}]
    BY <2>3
  <2>4. CASE e = a /\ m \in Replies(a, b, "result")
    BY <1>1, <2>4 DEF Replies
  <2>. QED
    BY <1>1, <1>3, <2>1, <2>2, <2>3, <2>4 DEF Gets
<1>. QED
  BY <1>2, <1>3

(* The messages there are. *)
LEMMA TalkMessages ==
    ASSUME NEW a, NEW b, OnlyAsks(a, b)
    PROVE  /\ \A e \in End : /\ [type |-> "unproxy"] \in Sends(a, b, e)
                             /\ [type |-> "disconnected"] \in Gets(a, b, e)
                             /\ FrameMessages(a, b) \subseteq Sends(a, b, e) \cap Gets(a, b, e)
           /\ \A l \in Links(a) :
                /\ [type |-> "proxy", link |-> l] \in Sends(a, b, a)
                /\ [type |-> "connected", link |-> l, e2e |-> Requires(a)] \in Gets(a, b, b)
                /\ \A ok \in BOOLEAN :
                    /\ [type |-> "answer", link |-> l, ok |-> ok, e2e |-> ok /\ EitherRequires(a, b)]
                            \in Sends(a, b, b)
                    /\ Result(l, ok, ok /\ EitherRequires(a, b)) \in Gets(a, b, a)
<1>1. a # b /\ EitherRequires(a, b) \in BOOLEAN
  BY DEF OnlyAsks, EitherRequires, Requires
<1>2. ASSUME NEW l \in Links(a), NEW ok \in BOOLEAN
      PROVE  /\ [type |-> "answer", link |-> l, ok |-> ok, e2e |-> ok /\ EitherRequires(a, b)]
                    \in Replies(a, b, "answer")
             /\ Result(l, ok, ok /\ EitherRequires(a, b)) \in Replies(a, b, "result")
  BY <1>1 DEF Replies, Result
<1>. QED
  BY <1>1, <1>2 DEF Sends, Gets

(* The world stays, and with it what there is to say. *)
LEMMA WorldStays ==
    ASSUME [Next]_vars
    PROVE  UNCHANGED world
BY ZenonT(40) DEF Next, vars, Proxy, Disconnect, Send, Receive, ReceiveResult, ReceiveConnected,
       ReceiveDisconnected, ReceiveForward, E2ETimesOut, ProxyTimesOut, EndLoses, RelayReceive,
       RelayProxy, RelayAnswer, RelayUnproxy, RelayForward, RelayLoses, AnswerTimesOut, DropRelay, DropPeer

(* What has to be shown of a step. *)
LEMMA TalkGoesOn ==
    ASSUME NEW a, NEW b, UNCHANGED world,
           \A e \in End : up'[e] \in Seq(Sends(a, b, e)),
           \A e \in End : down'[e] \in Seq(Gets(a, b, e)),
           \A e \in End : half'[e] \in Halves(a, b, e) \cup {NoHalf},
           \A n \in 1..MaxAsks : calls'[b][n] = "none",
           asking' \subseteq Links(a)
    PROVE  Talk(a, b)'
<1>1. /\ \A e \in End : Sends(a, b, e)' = Sends(a, b, e) /\ Gets(a, b, e)' = Gets(a, b, e)
                        /\ Halves(a, b, e)' = Halves(a, b, e)
      /\ Links(a)' = Links(a)
  BY DEF Sends, Gets, Halves, FrameMessages, FramesOf, Replies, EitherRequires, Requires, Links
<1>. QED
  BY <1>1 DEF Talk

(* Sending and reading keep to it. *)
LEMMA TalkSent ==
    ASSUME TypeOK, NEW a, NEW b, Talk(a, b), NEW e \in End, NEW m \in Sends(a, b, e), Tell(e, m)
    PROVE  \A x \in End : up'[x] \in Seq(Sends(a, b, x))
<1>1. Append(up[e], m) \in Seq(Sends(a, b, e))
  BY DEF Talk
<1>2. up' = [x \in End |-> IF x = e THEN Append(up[e], m) ELSE up[x]]
  BY DEF Tell, TypeOK
<1>. QED
  BY <1>1, <1>2 DEF Talk

(* The relay sends. *)
LEMMA TalkTold ==
    ASSUME TypeOK, NEW a, NEW b, Talk(a, b), NEW e \in End, NEW s \in Seq(Gets(a, b, e)), Told(e, s)
    PROVE  \A x \in End : down'[x] \in Seq(Gets(a, b, x))
<1>1. down[e] \o s \in Seq(Gets(a, b, e))
  BY DEF Talk
<1>2. down' = [x \in End |-> IF x = e /\ relay[e] THEN down[e] \o s ELSE down[x]]
  BY DEF Told, TypeOK
<1>. QED
  BY <1>1, <1>2 DEF Talk

(* An end reads. *)
LEMMA TalkTaken ==
    ASSUME TypeOK, NEW a, NEW b, Talk(a, b), NEW e \in End, down[e] # <<>>
    PROVE  /\ Head(down[e]) \in Gets(a, b, e)
           /\ Taken(e) => \A x \in End : down'[x] \in Seq(Gets(a, b, x))
<1>1. Head(down[e]) \in Gets(a, b, e) /\ Tail(down[e]) \in Seq(Gets(a, b, e))
  BY TakeOne DEF Talk
<1>2. Taken(e) => down' = [x \in End |-> IF x = e THEN Tail(down[e]) ELSE down[x]]
  BY DEF Taken, TypeOK
<1>. QED
  BY <1>1, <1>2 DEF Talk

(* The relay reads. *)
LEMMA TalkTakenUp ==
    ASSUME TypeOK, NEW a, NEW b, Talk(a, b), NEW e \in End, up[e] # <<>>
    PROVE  /\ Head(up[e]) \in Sends(a, b, e)
           /\ TakenUp(e) => \A x \in End : up'[x] \in Seq(Sends(a, b, x))
<1>1. Head(up[e]) \in Sends(a, b, e) /\ Tail(up[e]) \in Seq(Sends(a, b, e))
  BY TakeOne DEF Talk
<1>2. TakenUp(e) => up' = [x \in End |-> IF x = e THEN Tail(up[e]) ELSE up[x]]
  BY DEF TakenUp, TypeOK
<1>. QED
  BY <1>1, <1>2 DEF Talk

(* Either reads in any order. *)
LEMMA TalkReads ==
    ASSUME TypeOK, NEW a, NEW b, Talk(a, b), NEW e \in End, NEW m
    PROVE  /\ \A r : Reads(down[e], m, r) => m \in Gets(a, b, e)
           /\ EndReads(e, m) => m \in Gets(a, b, e) /\ \A x \in End : down'[x] \in Seq(Gets(a, b, x))
           /\ RelayReads(e, m) => m \in Sends(a, b, e) /\ \A x \in End : up'[x] \in Seq(Sends(a, b, x))
<1>1. /\ \A x \in End : down[x] \in Seq(Gets(a, b, x)) /\ up[x] \in Seq(Sends(a, b, x))
      /\ DOMAIN down = End /\ DOMAIN up = End
  BY DEF Talk, TypeOK
<1>2. ASSUME NEW r, Reads(down[e], m, r)
      PROVE  m \in Gets(a, b, e) /\ r \in Seq(Gets(a, b, e))
  <2> DEFINE T == Gets(a, b, e)
  <2>1. down[e] \in Seq(T)
    BY <1>1
  <2> HIDE DEF T
  <2>2. m \in T /\ r \in Seq(T)
    BY <1>2, <2>1, ReadFrom
  <2>. QED
    BY <2>2 DEF T
<1>3. ASSUME NEW r, Reads(up[e], m, r)
      PROVE  m \in Sends(a, b, e) /\ r \in Seq(Sends(a, b, e))
  <2> DEFINE T == Sends(a, b, e)
  <2>1. up[e] \in Seq(T)
    BY <1>1
  <2> HIDE DEF T
  <2>2. m \in T /\ r \in Seq(T)
    BY <1>3, <2>1, ReadFrom
  <2>. QED
    BY <2>2 DEF T
<1>4. EndReads(e, m) => m \in Gets(a, b, e) /\ \A x \in End : down'[x] \in Seq(Gets(a, b, x))
  BY <1>1, <1>2 DEF EndReads
<1>5. RelayReads(e, m) => m \in Sends(a, b, e) /\ \A x \in End : up'[x] \in Seq(Sends(a, b, x))
  BY <1>1, <1>3 DEF RelayReads
<1>. QED
  BY <1>2, <1>4, <1>5

(* Calls move on, but none is made. *)
LEMMA TalkCalls ==
    ASSUME TypeOK, NEW a, NEW b, Talk(a, b), NEW e \in End, NEW S, NEW how, "none" \notin S,
           calls' = [calls EXCEPT ![e] = [n \in 1..MaxAsks |-> IF @[n] \in S THEN how ELSE @[n]]]
    PROVE  \A n \in 1..MaxAsks : calls'[b][n] = "none"
BY DEF Talk, TypeOK

(* A half goes, alone or with the relay. *)
LEMMA TalkGone ==
    ASSUME TypeOK, NEW a, NEW b, Talk(a, b), b \in End, NEW e \in End, HalfGone(e) \/ RelayGone(e)
    PROVE  /\ \A x \in End : half'[x] \in Halves(a, b, x) \cup {NoHalf}
           /\ \A n \in 1..MaxAsks : calls'[b][n] = "none"
           /\ RelayGone(e) => \A x \in End : down'[x] \in Seq(Gets(a, b, x))
<1>1. half' = [x \in End |-> IF x = e THEN NoHalf ELSE half[x]]
  BY DEF HalfGone, RelayGone, TypeOK
<1>2. \E S \in SUBSET {"sent", "linking"} : calls' = [calls EXCEPT ![e] =
            [n \in 1..MaxAsks |-> IF @[n] \in S THEN "rejected" ELSE @[n]]]
  <2>1. HalfGone(e) => calls' = [calls EXCEPT ![e] =
            [n \in 1..MaxAsks |-> IF @[n] \in {"linking"} THEN "rejected" ELSE @[n]]]
    BY DEF HalfGone
  <2>. QED
    BY <2>1 DEF RelayGone
<1>3. PICK S \in SUBSET {"sent", "linking"} : calls' = [calls EXCEPT ![e] =
            [n \in 1..MaxAsks |-> IF @[n] \in S THEN "rejected" ELSE @[n]]]
  BY <1>2
<1>4. \A n \in 1..MaxAsks : calls'[b][n] = "none"
  <2>1. "none" \notin S
    OBVIOUS
  <2>. QED
    BY <1>3, <2>1 DEF Talk, TypeOK
<1>5. RelayGone(e) => \A x \in End : down'[x] \in Seq(Gets(a, b, x))
  <2>1. ASSUME RelayGone(e)
        PROVE  \A x \in End : down'[x] \in Seq(Gets(a, b, x))
    <3>1. down' = [x \in End |-> IF x = e THEN <<>> ELSE down[x]]
      BY <2>1 DEF RelayGone, TypeOK
    <3>2. <<>> \in Seq(Gets(a, b, e))
      OBVIOUS
    <3>. QED
      BY <3>1, <3>2 DEF Talk
  <2>. QED
    BY <2>1
<1>. QED
  BY <1>1, <1>4, <1>5 DEF Talk

(* What it does itself. *)
LEMMA TalkOfEnd ==
    ASSUME TypeOK, NEW a, NEW b, OnlyAsks(a, b), Talk(a, b), NEW e \in End,
           Proxy(e) \/ Disconnect(e) \/ Send(e) \/ E2ETimesOut(e) \/ ProxyTimesOut(e) \/ EndLoses(e)
    PROVE  Talk(a, b)'
<1> USE DEF OnlyAsks
<1>0. UNCHANGED world
  BY DEF Proxy, Disconnect, Send, E2ETimesOut, ProxyTimesOut, EndLoses
<1>1. CASE Proxy(e)
  <2>1. PICK n \in 1..MaxAsks :
            /\ n <= world.asks[e]
            /\ calls' = [calls EXCEPT ![e][n] = "sent"]
            /\ Tell(e, [type |-> "proxy", link |-> [by |-> e, n |-> n]])
            /\ UNCHANGED <<half, asking, down>>
    BY <1>1 DEF Proxy
  <2>2. e = a
    <3>1. ~(n <= 0)
      BY RelayAssumption
    <3>. QED
      BY <2>1, <3>1
  <2>3. [by |-> e, n |-> n] \in Links(a)
    BY <2>2 DEF Links
  <2>4. \A x \in End : up'[x] \in Seq(Sends(a, b, x))
    BY <2>1, <2>2, <2>3, TalkMessages, TalkSent
  <2>5. \A k \in 1..MaxAsks : calls'[b][k] = "none"
    BY <2>1, <2>2 DEF Talk, TypeOK
  <2>. QED
    BY <1>0, <2>1, <2>4, <2>5, TalkGoesOn DEF Talk
<1>2. CASE Disconnect(e) \/ E2ETimesOut(e)
  <2>1. HalfGone(e) /\ Tell(e, [type |-> "unproxy"]) /\ UNCHANGED <<asking, down>>
    BY <1>2 DEF Disconnect, E2ETimesOut, Unproxy
  <2>2. \A x \in End : up'[x] \in Seq(Sends(a, b, x))
    BY <2>1, TalkMessages, TalkSent
  <2>3. /\ \A x \in End : half'[x] \in Halves(a, b, x) \cup {NoHalf}
        /\ \A n \in 1..MaxAsks : calls'[b][n] = "none"
    BY <2>1, TalkGone
  <2>. QED
    BY <1>0, <2>1, <2>2, <2>3, TalkGoesOn DEF Talk
<1>3. CASE Send(e)
  <2>1. half[e].stage \in {"clear", "sealed"} /\ half[e] \in Halves(a, b, e)
        /\ Tell(e, Forward(e, half[e].stage)) /\ UNCHANGED <<half, calls, asking, down>>
    BY <1>3 DEF Send, Announced, Talk, NoHalf
  <2>2. Forward(e, half[e].stage) \in FrameMessages(a, b)
    BY <2>1 DEF Halves, Forward, FrameMessages, FramesOf
  <2>3. \A x \in End : up'[x] \in Seq(Sends(a, b, x))
    BY <2>1, <2>2, TalkMessages, TalkSent
  <2>. QED
    BY <1>0, <2>1, <2>3, TalkGoesOn DEF Talk
<1>4. CASE ProxyTimesOut(e)
  <2>1. PICK n \in 1..MaxAsks :
            calls[e][n] = "sent" /\ calls' = [calls EXCEPT ![e][n] = "rejected"]
            /\ UNCHANGED <<half, asking, up, down>>
    BY <1>4 DEF ProxyTimesOut
  <2>2. e # b
    BY <2>1 DEF Talk
  <2>3. \A k \in 1..MaxAsks : calls'[b][k] = "none"
    BY <2>1, <2>2 DEF Talk, TypeOK
  <2>. QED
    BY <1>0, <2>1, <2>3, TalkGoesOn DEF Talk
<1>5. CASE EndLoses(e)
  <2>1. RelayGone(e) /\ UNCHANGED <<asking, up>>
    BY <1>5 DEF EndLoses
  <2>. QED
    BY <1>0, <2>1, TalkGone, TalkGoesOn DEF Talk
<1>. QED
  BY <1>1, <1>2, <1>3, <1>4, <1>5

(* What it reads. *)
LEMMA TalkRead ==
    ASSUME TypeOK, NEW a, NEW b, OnlyAsks(a, b), Talk(a, b), NEW e \in End, Receive(e)
    PROVE  Talk(a, b)'
<1> DEFINE m == Head(down[e])
           f == m.frame
<1>0. a \in End /\ b \in End /\ a # b /\ End = {a, b}
  BY DEF OnlyAsks
<1>1. CASE DropRelay(e)
  <2>1. RelayGone(e) /\ UNCHANGED <<world, asking, up>>
    BY <1>1 DEF DropRelay
  <2>. QED
    BY <1>0, <2>1, TalkGone, TalkGoesOn DEF Talk
<1>2. CASE ReceiveResult(e)
  <2> DEFINE e2e == NeedsE2E(e, m.e2e)
             h == [link |-> m.link, outbound |-> TRUE, required |-> e2e,
                   stage |-> IF e2e THEN "offered" ELSE "clear"]
             n == m.link.n
  <2>1. m \in Gets(a, b, e) /\ m.type = "result" /\ \A x \in End : down'[x] \in Seq(Gets(a, b, x))
    BY <1>2, TalkTaken DEF ReceiveResult, Take
  <2>2. /\ e = a /\ m.link \in Links(a) /\ m.ok \in BOOLEAN
        /\ m.e2e = (m.ok /\ EitherRequires(a, b))
    BY <2>1, TalkParts
  <2>3. UNCHANGED <<world, asking>>
    BY <1>2 DEF ReceiveResult
  <2>4. \A k \in 1..MaxAsks : calls'[b][k] = "none"
    <3>1. \E c : calls' = [calls EXCEPT ![e][n] = c]
      BY <1>2 DEF ReceiveResult
    <3>. QED
      BY <1>0, <2>2, <3>1 DEF Talk, TypeOK
  <2>5. CASE UNCHANGED <<half, up>>
    BY <2>1, <2>3, <2>4, <2>5, TalkGoesOn DEF Talk
  <2>6. CASE m.ok /\ half' = [half EXCEPT ![e] = h]
             /\ IF e2e
                THEN Tell(e, [type |-> "forward", frame |-> [kind |-> "offer", link |-> m.link]])
                ELSE UNCHANGED up
    <3>1. e2e = EitherRequires(a, b) /\ e2e \in BOOLEAN
      BY <2>2, <2>6 DEF NeedsE2E, EitherRequires, Requires
    <3> HIDE DEF m, e2e
    <3>2. h \in Halves(a, b, e)
      BY <2>2, <3>1 DEF Halves
    <3>3. \A x \in End : half'[x] \in Halves(a, b, x) \cup {NoHalf}
      <4> HIDE DEF h
      <4>. QED
        BY <2>6, <3>2 DEF Talk, TypeOK
    <3>4. e2e => [type |-> "forward", frame |-> [kind |-> "offer", link |-> m.link]] \in FrameMessages(a, b)
      BY <2>2, <3>1 DEF FrameMessages, FramesOf
    <3>5. \A x \in End : up'[x] \in Seq(Sends(a, b, x))
      BY <2>6, <3>4, TalkMessages, TalkSent DEF Talk
    <3>. QED
      BY <2>1, <2>3, <2>4, <3>3, <3>5, TalkGoesOn DEF Talk
  <2>. QED
    BY <1>2, <2>5, <2>6 DEF ReceiveResult
<1>3. CASE ReceiveConnected(e)
  <2> DEFINE e2e == NeedsE2E(e, m.e2e)
             ok == ~Holds(e) /\ e \in world.accepts
             h == [link |-> m.link, outbound |-> FALSE, required |-> e2e,
                   stage |-> IF e2e THEN "waiting" ELSE "clear"]
  <2>1. m \in Gets(a, b, e) /\ m.type = "connected" /\ \A x \in End : down'[x] \in Seq(Gets(a, b, x))
    BY <1>3, TalkTaken DEF ReceiveConnected, Take
  <2>2. e = b /\ m.link \in Links(a) /\ m.e2e = Requires(a)
    BY <2>1, TalkParts
  <2>3. e2e = EitherRequires(a, b) /\ e2e \in BOOLEAN /\ ok \in BOOLEAN
    BY <2>2 DEF NeedsE2E, EitherRequires, Requires
  <2>4. /\ half' = [half EXCEPT ![e] = IF ~ok THEN @ ELSE h]
        /\ Tell(e, [type |-> "answer", link |-> m.link, ok |-> ok, e2e |-> ok /\ e2e])
        /\ UNCHANGED <<world, calls, asking>>
    BY <1>3 DEF ReceiveConnected
  <2> HIDE DEF m, e2e, ok
  <2>5. h \in Halves(a, b, e)
    BY <1>0, <2>2, <2>3 DEF Halves
  <2>6. \A x \in End : half'[x] \in Halves(a, b, x) \cup {NoHalf}
    <3> HIDE DEF h
    <3>. QED
      BY <2>4, <2>5 DEF Talk, TypeOK
  <2>7. [type |-> "answer", link |-> m.link, ok |-> ok, e2e |-> ok /\ e2e] \in Sends(a, b, e)
    BY <2>2, <2>3, TalkMessages
  <2>8. \A x \in End : up'[x] \in Seq(Sends(a, b, x))
    BY <2>4, <2>7, TalkSent
  <2>. QED
    BY <2>1, <2>4, <2>6, <2>8, TalkGoesOn DEF Talk
<1>4. CASE ReceiveDisconnected(e) /\ ~DropRelay(e)
  <2>1. HalfGone(e) /\ Taken(e) /\ UNCHANGED <<world, asking, up>> /\ down[e] # <<>>
    BY <1>4 DEF ReceiveDisconnected, Take
  <2>2. \A x \in End : down'[x] \in Seq(Gets(a, b, x))
    BY <2>1, TalkTaken
  <2>. QED
    BY <1>0, <2>1, <2>2, TalkGone, TalkGoesOn DEF Talk
<1>5. CASE ReceiveForward(e) /\ ~DropRelay(e)
  <2>0. PICK k : ForwardComes(e, k)
    BY <1>5, Forwards
  <2> DEFINE g == k.frame
  <2>1. /\ Holds(e) /\ k.type = "forward" /\ EndReads(e, k)
        /\ UNCHANGED <<world, asking>>
        /\ IF Unreadable(e, g) THEN Unproxy(e)
           ELSE IF g.kind = "offer" THEN OfferIn(e)
           ELSE UNCHANGED <<half, calls, up>>
    BY <2>0 DEF ForwardComes
  <2>2. k \in Gets(a, b, e) /\ \A x \in End : down'[x] \in Seq(Gets(a, b, x))
    BY <2>1, TalkReads
  <2>3. CASE Unproxy(e)
    <3>1. HalfGone(e) /\ Tell(e, [type |-> "unproxy"])
      BY <2>3 DEF Unproxy
    <3>2. \A x \in End : up'[x] \in Seq(Sends(a, b, x))
      BY <3>1, TalkMessages, TalkSent
    <3>3. /\ \A x \in End : half'[x] \in Halves(a, b, x) \cup {NoHalf}
          /\ \A n \in 1..MaxAsks : calls'[b][n] = "none"
      BY <1>0, <3>1, TalkGone
    <3>4. asking' \subseteq Links(a) /\ UNCHANGED world
      BY <2>1 DEF Talk
    <3>. QED
      BY <2>2, <3>2, <3>3, <3>4, TalkGoesOn
  <2>4. CASE UNCHANGED <<half, calls, up>>
    BY <2>1, <2>2, <2>4, TalkGoesOn DEF Talk
  <2>5. CASE g.kind = "offer" /\ OfferIn(e)
    <3>1. g \in FramesOf(a, b)
      BY <2>1, <2>2, TalkParts
    <3>2. EitherRequires(a, b)
      BY <2>5, <3>1 DEF FramesOf
    <3>3. half[e] \in Halves(a, b, e)
      BY <2>1 DEF Talk, Holds
    <3>4. [half[e] EXCEPT !.stage = "sealed"] \in Halves(a, b, e)
      BY <3>2, <3>3 DEF Halves
    <3>5. /\ half' = [half EXCEPT ![e] = [half[e] EXCEPT !.stage = "sealed"]]
          /\ calls' = [calls EXCEPT ![e] = [n \in 1..MaxAsks |->
                            IF @[n] \in {"linking"} THEN "resolved" ELSE @[n]]]
          /\ UNCHANGED up \/ Tell(e, Forward(e, "offer"))
      BY <2>5 DEF OfferIn
    <3>6. \A x \in End : half'[x] \in Halves(a, b, x) \cup {NoHalf}
      BY <3>4, <3>5 DEF Talk, TypeOK
    <3>7. \A n \in 1..MaxAsks : calls'[b][n] = "none"
      <4>1. "none" \notin {"linking"}
        OBVIOUS
      <4>. QED
        BY ZenonT(40), <3>5, <4>1, TalkCalls
    <3>8. Forward(e, "offer") \in FrameMessages(a, b)
      BY <3>2, <3>3 DEF Halves, Forward, FrameMessages, FramesOf
    <3>9. \A x \in End : up'[x] \in Seq(Sends(a, b, x))
      BY <3>5, <3>8, TalkMessages, TalkSent DEF Talk
    <3>. QED
      BY <2>1, <2>2, <3>6, <3>7, <3>9, TalkGoesOn DEF Talk
  <2>. QED
    BY <2>1, <2>3, <2>4, <2>5
<1>. QED
  BY <1>1, <1>2, <1>3, <1>4, <1>5 DEF Receive

(* The relay loses a peer. *)
LEMMA TalkPeerGone ==
    ASSUME TypeOK, NEW a, NEW b, OnlyAsks(a, b), Talk(a, b), NEW e \in End, PeerGone(e),
           UNCHANGED <<world, half, calls>>
    PROVE  Talk(a, b)'
<1> DEFINE o == Other(e)
           T == {[type |-> "disconnected"]} \cup Refusals(o)
<1>1. o \in End
  BY TwoEnds
<1>2. PICK s \in Seq(T) : IF o \in peers THEN Told(o, s) ELSE UNCHANGED down
  BY PeerGoneIs
<1>3. T \subseteq Gets(a, b, o)
  <2>1. [type |-> "disconnected"] \in Gets(a, b, o)
    BY <1>1, TalkMessages
  <2>2. ASSUME NEW l \in asking, l.by = o
        PROVE  Result(l, FALSE, FALSE) \in Gets(a, b, o)
    <3>1. l \in Links(a) /\ o = a
      BY <2>2 DEF Talk, Links
    <3>2. Result(l, FALSE, FALSE /\ EitherRequires(a, b)) \in Gets(a, b, a)
      BY <3>1, TalkMessages
    <3>. QED
      BY <3>1, <3>2
  <2>. QED
    BY <2>1, <2>2 DEF Refusals
<1> HIDE DEF T
<1>4. s \in Seq(Gets(a, b, o))
  BY <1>2, <1>3
<1>5. \A x \in End : down'[x] \in Seq(Gets(a, b, x))
  BY <1>1, <1>2, <1>4, TalkTold DEF Talk
<1>6. \A x \in End : up'[x] \in Seq(Sends(a, b, x))
  <2>1. up' = [x \in End |-> IF x = e THEN <<>> ELSE up[x]]
    BY DEF PeerGone, TypeOK
  <2>2. <<>> \in Seq(Sends(a, b, e))
    OBVIOUS
  <2>. QED
    BY <2>1, <2>2 DEF Talk
<1>7. asking' \subseteq Links(a)
  BY DEF PeerGone
<1>. QED
  BY <1>5, <1>6, <1>7, TalkGoesOn DEF Talk

(* The relay tells one thing. *)
LEMMA TalkOne ==
    ASSUME TypeOK, NEW a, NEW b, Talk(a, b), NEW e \in End, NEW m \in Gets(a, b, e), Told(e, <<m>>)
    PROVE  \A x \in End : down'[x] \in Seq(Gets(a, b, x))
<1>1. <<m>> \in Seq(Gets(a, b, e))
  OBVIOUS
<1>. QED
  BY <1>1, TalkTold

(* What the relay reads. *)
LEMMA TalkRelayed ==
    ASSUME TypeOK, NEW a, NEW b, OnlyAsks(a, b), Talk(a, b), NEW e \in End, RelayReceive(e)
    PROVE  Talk(a, b)'
<1> DEFINE m == Head(up[e])
           o == Other(e)
<1>0. a \in End /\ b \in End /\ a # b /\ End = {a, b} /\ o \in End /\ Other(a) = b /\ Other(b) = a
  BY TwoEnds DEF OnlyAsks
<1>1. CASE DropPeer(e)
  BY <1>1, TalkPeerGone DEF DropPeer
<1>2. CASE ~DropPeer(e)
  <2>1. UNCHANGED <<world, half, calls>> /\ \A x \in End : up'[x] \in Seq(Sends(a, b, x))
    <3>1. CASE RelayForward(e)
      BY <1>2, <3>1, Forwards, TalkReads DEF ForwardGoes
    <3>2. CASE ~RelayForward(e)
      <4>1. up[e] # <<>> /\ TakenUp(e) /\ UNCHANGED <<world, half, calls>>
        BY <1>2, <3>2 DEF RelayReceive, RelayProxy, RelayAnswer, RelayUnproxy, TakeUp
      <4>. QED
        BY <4>1, TalkTakenUp
    <3>. QED
      BY <3>1, <3>2
  <2>2. up[e] # <<>> => m \in Sends(a, b, e)
    BY TalkTakenUp
  <2>3. (\A x \in End : down'[x] \in Seq(Gets(a, b, x))) /\ asking' \subseteq Links(a)
    <3>1. CASE RelayProxy(e)
      <4>1. /\ m.type = "proxy"
            /\ asking' = asking \cup {m.link}
            /\ Told(o, << [type |-> "connected", link |-> m.link, e2e |-> Requires(e)] >>)
            /\ up[e] # <<>>
        BY <1>2, <3>1 DEF RelayProxy, TakeUp
      <4>2. e = a /\ o = b /\ m.link \in Links(a)
        BY <1>0, <2>2, <4>1, TalkParts
      <4> HIDE DEF m, o
      <4>3. [type |-> "connected", link |-> m.link, e2e |-> Requires(e)] \in Gets(a, b, o)
        BY <4>2, TalkMessages
      <4>. QED
        BY ZenonT(40), <1>0, <4>1, <4>2, <4>3, TalkOne DEF Talk
    <3>2. CASE RelayAnswer(e)
      <4>1. /\ m.type = "answer" /\ up[e] # <<>>
            /\ asking' = asking \ {m.link}
            /\ \/ Told(m.link.by, << Result(m.link, m.ok, m.ok /\ (m.e2e \/ Requires(e))) >>)
               \/ UNCHANGED down
        BY <3>2 DEF RelayAnswer, TakeUp
      <4>2. /\ e = b /\ m.link \in Links(a) /\ m.link.by = a /\ m.ok \in BOOLEAN
            /\ (m.ok /\ (m.e2e \/ Requires(e))) = (m.ok /\ EitherRequires(a, b))
        <5>1. e = b /\ m.link \in Links(a) /\ m.ok \in BOOLEAN /\ m.e2e = (m.ok /\ EitherRequires(a, b))
          BY <2>2, <4>1, TalkParts
        <5>2. m.link.by = a
          BY <5>1 DEF Links
        <5>. QED
          BY <5>1, <5>2 DEF EitherRequires, Requires
      <4> HIDE DEF m
      <4>3. Result(m.link, m.ok, m.ok /\ (m.e2e \/ Requires(e))) \in Gets(a, b, a)
        BY <4>2, TalkMessages
      <4>. QED
        BY <1>0, <4>1, <4>2, <4>3, TalkOne DEF Talk
    <3>3. CASE RelayUnproxy(e)
      <4>1. /\ UNCHANGED asking
            /\ Told(o, << [type |-> "disconnected"] >>) \/ UNCHANGED down
        BY <1>2, <3>3 DEF RelayUnproxy
      <4>. QED
        BY ZenonT(40), <1>0, <4>1, TalkMessages, TalkOne DEF Talk
    <3>4. CASE RelayForward(e)
      <4>0. PICK k : ForwardGoes(e, k)
        BY <1>2, <3>4, Forwards
      <4>1. /\ k.type = "forward" /\ UNCHANGED asking /\ k \in Sends(a, b, e)
            /\ Told(o, <<k>>) \/ UNCHANGED down
        BY <4>0, TalkReads DEF ForwardGoes
      <4>2. k \in Gets(a, b, o)
        BY <1>0, <4>1, TalkParts, TalkMessages
      <4>. QED
        BY <1>0, <4>1, <4>2, TalkOne DEF Talk
    <3>. QED
      BY <3>1, <3>2, <3>3, <3>4 DEF RelayReceive
  <2>. QED
    BY <2>1, <2>2, <2>3, TalkGoesOn DEF Talk
<1>. QED
  BY <1>1, <1>2

(* It is so at first, *)
LEMMA TalkInitially ==
    ASSUME NEW a, NEW b, OnlyAsks(a, b), Init
    PROVE  Talk(a, b)
<1>1. \A e \in End : <<>> \in Seq(Sends(a, b, e)) /\ <<>> \in Seq(Gets(a, b, e))
  OBVIOUS
<1>. QED
  BY <1>1 DEF Init, Talk, OnlyAsks

(* and after every step. *)
LEMMA TalkNext ==
    ASSUME TypeOK, NEW a, NEW b, OnlyAsks(a, b), Talk(a, b), [Next]_vars
    PROVE  Talk(a, b)'
<1>1. CASE AnswerTimesOut
  <2>1. PICK l \in asking :
            /\ asking' = asking \ {l}
            /\ Told(l.by, << Result(l, FALSE, FALSE) >>)
            /\ UNCHANGED <<world, half, calls, up>>
    BY <1>1 DEF AnswerTimesOut
  <2>2. l \in Links(a) /\ l.by = a /\ a \in End
    BY DEF Talk, Links, OnlyAsks
  <2>3. Result(l, FALSE, FALSE /\ EitherRequires(a, b)) \in Gets(a, b, a)
    BY <2>2, TalkMessages
  <2>4. Result(l, FALSE, FALSE) \in Gets(a, b, a)
    BY <2>3
  <2>5. \A x \in End : down'[x] \in Seq(Gets(a, b, x))
    BY <2>1, <2>2, <2>4, TalkOne
  <2>. QED
    BY <2>1, <2>5, TalkGoesOn DEF Talk
<1>2. CASE UNCHANGED vars
  BY <1>2, TalkGoesOn DEF vars, Talk
<1>3. ASSUME NEW e \in End, DropPeer(e) \/ RelayLoses(e)
      PROVE  Talk(a, b)'
  BY <1>3, TalkPeerGone DEF DropPeer, RelayLoses
<1>. QED
  BY <1>1, <1>2, <1>3, TalkOfEnd, TalkRead, TalkRelayed DEF Next

-----------------------------------------------------------------------------
(* The order of what is said                                               *)

(* What an end may still read: what was sent to a relay that has lost      *)
(* either of its peers is not passed on.                                   *)
Ahead(e) == IF peers = End THEN up[Other(e)] ELSE <<>>
Way(e) == IF relay[e] THEN down[e] \o Ahead(e) ELSE <<>>
Heard(e) == Said(Way(e))

(* What a asked for, the last of it, and the link a half is of. *)
Asked(a, n) == calls[a][n] # "none"
Latest(a, n) == \A k \in 1..MaxAsks : k > n => ~Asked(a, k)
Of(e) == half[e].link.n
IsFrame(x) == x.says \in FrameKinds

(* Nothing is said of a link that was not asked for, and nothing is asked  *)
(* while the answer is out or the half is held.                            *)
Numbers(a, b) ==
    /\ \A x \in Heard(a) \cup Heard(b) : Asked(a, x.n)
    /\ \A e \in {a, b} : Holds(e) => Asked(a, Of(e))
    /\ \A n \in 1..MaxAsks : calls[a][n] = "sent" => Latest(a, n) /\ ~Holds(a)
    /\ Holds(a) => Latest(a, Of(a))

(* A question on its way is about a link later than all that is held or    *)
(* said back.                                                              *)
AskFirst(a, b) ==
    \A x \in Heard(b) : x.says = "ask" =>
        /\ ~Holds(a)
        /\ \A y \in Heard(a) : y.n < x.n
        /\ Holds(b) => Of(b) < x.n

(* The two halves are of one link, and the frames to either of that link.  *)
SameLink(a, b) ==
    /\ Holds(b) =>
        /\ \A y \in Heard(a) : y.n <= Of(b)
        /\ \A x \in Heard(b) : IsFrame(x) => x.n = Of(b)
        /\ Holds(a) => Of(a) = Of(b)
    /\ Holds(a) => \A y \in Heard(a) : IsFrame(y) => y.n = Of(a)

(* Before a reads that its call was granted, nobody has offered e2e on it. *)
Unopened(a, b) ==
    \A y \in Heard(a) : y.says = "yes" /\ calls[a][y.n] = "sent" =>
        /\ \A x \in Heard(b) : IsFrame(x) => x.n # y.n
        /\ Holds(b) /\ Of(b) = y.n => half[b].stage # "sealed"
        /\ EitherRequires(a, b) => \A x \in Heard(a) : IsFrame(x) => x.n # y.n

(* Where e2e is required: b waits for the offer of a, and answers it before *)
(* it sends anything sealed.                                               *)
Sealing(a, b) ==
    /\ half[b].stage = "waiting" =>
        /\ \A x \in Heard(b) : IsFrame(x) => x.says = "offer"
        /\ \A y \in Heard(a) : IsFrame(y) => y.n # Of(b)
        /\ Holds(a) => half[a].stage = "offered"
    /\ half[b].stage = "sealed" => \A x \in Heard(b) : IsFrame(x) => x.says = "sealed"
    /\ half[a].stage = "sealed" => \A y \in Heard(a) : IsFrame(y) => y.says = "sealed"
    /\ half[a].stage = "offered" =>
        /\ Led(Way(a))
        /\ peers = End /\ half[b].stage = "sealed" => Offered(Heard(a))

(* All of it. *)
Flow(a, b) ==
    /\ asking # {} => peers = End
    /\ InOrder(Way(a)) /\ InOrder(Way(b))
    /\ Numbers(a, b) /\ AskFirst(a, b) /\ SameLink(a, b) /\ Unopened(a, b) /\ Sealing(a, b)

-----------------------------------------------------------------------------
(* What a step does to what is heard                                       *)

(* An end hears nothing more than before; and an offer on its way comes,   *)
(* as long as both connections are up.                                     *)
NoMore(e) ==
    /\ Narrower(Way(e)', Way(e))
    /\ Led(Way(e)) => Led(Way(e)')
    /\ relay'[e] /\ peers' = End /\ Offered(Heard(e)) => Offered(Said(Way(e)'))

(* The queues a way is made of. *)
LEMMA WayIs ==
    ASSUME TypeOK, NEW e \in End
    PROVE  /\ Other(e) \in End /\ Other(e) # e
           /\ down[e] \in Seq(Msg) /\ up[e] \in Seq(Msg) /\ up[Other(e)] \in Seq(Msg)
           /\ Ahead(e) \in Seq(Msg) /\ Way(e) \in Seq(Msg)
<1>1. Other(e) \in End /\ Other(e) # e
  BY TwoEnds
<1>2. ASSUME NEW x \in End
      PROVE  down[x] \in Seq(Msg) /\ up[x] \in Seq(Msg)
  <2>1. down[x] \in Seq(FromRelay) /\ up[x] \in Seq(ToRelay)
    BY DEF TypeOK
  <2>2. Seq(FromRelay) \subseteq Seq(Msg) /\ Seq(ToRelay) \subseteq Seq(Msg)
    BY SeqMonotonic DEF Msg
  <2>. QED
    BY <2>1, <2>2
<1>3. <<>> \in Seq(Msg)
  OBVIOUS
<1>4. Ahead(e) \in Seq(Msg)
  BY <1>1, <1>2, <1>3 DEF Ahead
<1>5. Way(e) \in Seq(Msg)
  BY <1>2, <1>3, <1>4 DEF Way
<1>. QED
  BY <1>1, <1>2, <1>4, <1>5

(* Nothing happens to it. *)
LEMMA WayStays ==
    ASSUME NEW e, relay'[e] = relay[e], down'[e] = down[e], peers' = peers, up'[Other(e)] = up[Other(e)]
    PROVE  Way(e)' = Way(e) /\ NoMore(e)
<1>1. Way(e)' = Way(e)
  BY DEF Way, Ahead
<1>. QED
  BY <1>1 DEF NoMore, Narrower, Heard

(* The end loses its connection. *)
LEMMA WayCloses ==
    ASSUME NEW e, ~relay'[e]
    PROVE  NoMore(e)
<1>1. Way(e)' = <<>>
  BY DEF Way
<1>. QED
  BY <1>1, OfNone DEF NoMore, Narrower

(* The end reads. *)
LEMMA WayRead ==
    ASSUME TypeOK, NEW e \in End, relay[e], relay'[e] = relay[e], peers' = peers,
           NEW m, EndReads(e, m), up'[Other(e)] = up[Other(e)]
    PROVE  LET x == Say(m) IN
           /\ Narrower(Way(e)', Way(e))
           /\ x.says # "offer" => NoMore(e)
           /\ x \in Saying => x \in Heard(e)
           /\ InOrder(Way(e)) => \A y \in Said(Way(e)') : x \in Saying => Precedes(x, y)
           /\ Led(Way(e)) => x \notin Saying \/ x.says # "sealed"
<1> DEFINE x == Say(m)
           d == down[e]
           u == Ahead(e)
           s == d \o u
<1>1. d \in Seq(Msg) /\ u \in Seq(Msg)
  BY WayIs
<1>2. Way(e) = s
  BY DEF Way
<1>3. Reads(d, m, down'[e]) /\ Ahead(e)' = u
  BY DEF EndReads, TypeOK, Ahead
<1>4. Way(e)' = down'[e] \o u
  BY <1>3 DEF Way
<1> HIDE DEF d, u
<1>5. LET y == Say(m) v == d \o u t == down'[e] \o u IN
           /\ Narrower(t, v)
           /\ y.says # "offer" => StillLed(t, v)
           /\ y \in Saying => y \in Said(v)
           /\ InOrder(v) => \A z \in Said(t) : y \in Saying => Precedes(y, z)
           /\ Led(v) => y \notin Saying \/ y.says # "sealed"
  BY <1>1, <1>3, WhatIsRead
<1>. QED
  BY <1>2, <1>4, <1>5 DEF NoMore, StillLed, Heard

(* The far end sends. *)
LEMMA WayTold ==
    ASSUME TypeOK, NEW e \in End, NEW m \in Msg,
           relay'[e] = relay[e], peers' = peers, down'[e] = down[e],
           Tell(Other(e), m)
    PROVE  LET x == Say(m) IN
           /\ Heard(e) \subseteq Said(Way(e)') /\ Said(Way(e)') \subseteq Heard(e) \cup {x}
           /\ x.says = "nothing" => NoMore(e)
           /\ InOrder(Way(e)) /\ (\A y \in Heard(e) : Precedes(y, x)) => InOrder(Way(e)')
           /\ Led(Way(e)) /\ (x.says = "sealed" /\ peers = End => Offered(Heard(e))) => Led(Way(e)')
           /\ relay[e] /\ peers = End /\ x \in Saying => x \in Said(Way(e)')
<1> DEFINE x == Say(m)
           s == Way(e)
           t == Append(s, m)
<1>1. CASE relay[e] /\ peers = End
  <2>1. Way(e)' = t
    <3> DEFINE d == down[e]
               u == up[Other(e)]
    <3>1. d \in Seq(Msg) /\ u \in Seq(Msg) /\ s = d \o u
      BY <1>1, WayIs DEF Way, Ahead
    <3>2. Way(e)' = d \o Append(u, m)
      BY <1>1, WayIs DEF Way, Ahead, Tell, TypeOK
    <3> HIDE DEF d, u
    <3>3. d \o Append(u, m) = Append(d \o u, m)
      BY <3>1
    <3>. QED
      BY <3>1, <3>2, <3>3
  <2>2. s \in Seq(Msg)
    BY WayIs
  <2> HIDE DEF s
  <2>3. /\ x \in Saying => Said(t) = Said(s) \cup {x}
        /\ x \notin Saying => Said(t) = Said(s)
        /\ InOrder(s) /\ (\A y \in Said(s) : Precedes(y, x)) => InOrder(t)
        /\ Led(s) /\ (x.says = "sealed" => Offered(Said(s))) => Led(t)
    BY <2>2, Adding
  <2>4. x.says = "nothing" => NoMore(e)
    <3>1. x.says = "nothing" => x \notin Saying /\ \A y : Precedes(y, x)
      BY DEF Precedes, Saying
    <3>. QED
      BY <2>1, <2>3, <3>1 DEF NoMore, Narrower, Heard, s
  <2> HIDE DEF t, x
  <2>. QED
    BY <1>1, <2>1, <2>3, <2>4 DEF Heard, s, x
<1>2. CASE ~(relay[e] /\ peers = End)
  <2>1. Way(e)' = Way(e)
    BY <1>2 DEF Way, Ahead
  <2>. QED
    BY <1>2, <2>1 DEF NoMore, Narrower, Heard
<1>. QED
  BY <1>1, <1>2

(* The relay tells an end. *)
LEMMA ToldIs ==
    ASSUME TypeOK, NEW e \in End, NEW s, Told(e, s)
    PROVE  /\ relay[e] => down'[e] = down[e] \o s
           /\ ~relay[e] => down'[e] = down[e]
           /\ \A x \in End : x # e => down'[x] = down[x]
BY DEF Told, TypeOK

(* It tells it something that says nothing. *)
LEMMA WayNoise ==
    ASSUME TypeOK, NEW e \in End, NEW s \in Seq(Msg), Mute(s), Told(e, s),
           relay'[e] = relay[e], peers' = peers, up'[Other(e)] = up[Other(e)]
    PROVE  NoMore(e)
<1>1. CASE relay[e]
  <2> DEFINE d == down[e]
             u == Ahead(e)
  <2>1. d \in Seq(Msg) /\ u \in Seq(Msg) /\ Way(e) = d \o u
    BY <1>1, WayIs DEF Way
  <2>2. Way(e)' = (d \o s) \o u
    BY <1>1, ToldIs DEF Way, Ahead
  <2> HIDE DEF d, u
  <2>3. Narrower((d \o s) \o u, d \o u) /\ StillLed((d \o s) \o u, d \o u)
    BY <2>1, Between
  <2>. QED
    BY <2>1, <2>2, <2>3 DEF NoMore, StillLed, Heard
<1>2. CASE ~relay[e]
  BY <1>2, WayCloses
<1>. QED
  BY <1>1, <1>2

(* It passes on what the far end said, in other words. *)
LEMMA WayPassed ==
    ASSUME TypeOK, NEW e \in End, NEW m \in Msg, Told(e, <<m>>), peers = End,
           NEW k, RelayReads(Other(e), k), Say(m) = Say(k),
           relay'[e] = relay[e], peers' = peers
    PROVE  NoMore(e)
<1>1. CASE relay[e]
  <2> DEFINE d == down[e]
             u == up[Other(e)]
  <2>1. d \in Seq(Msg) /\ u \in Seq(Msg) /\ Way(e) = d \o u
    BY <1>1, WayIs DEF Way, Ahead
  <2>2. Reads(u, k, up'[Other(e)]) /\ Way(e)' = (d \o <<m>>) \o up'[Other(e)]
    BY <1>1, ToldIs, WayIs DEF Way, Ahead, RelayReads, TypeOK
  <2> HIDE DEF d, u
  <2>3. Narrower((d \o <<m>>) \o up'[Other(e)], d \o u) /\ StillLed((d \o <<m>>) \o up'[Other(e)], d \o u)
    BY <2>1, <2>2, Passing
  <2>. QED
    BY <2>1, <2>2, <2>3 DEF NoMore, StillLed, Heard
<1>2. CASE ~relay[e]
  BY <1>2, WayCloses
<1>. QED
  BY <1>1, <1>2

(* It drops what the far end said. *)
LEMMA WayDropped ==
    ASSUME TypeOK, NEW e \in End, down'[e] = down[e], NEW k, RelayReads(Other(e), k),
           peers = End => Say(k).says # "offer",
           relay'[e] = relay[e], peers' = peers
    PROVE  NoMore(e)
<1>1. CASE relay[e] /\ peers = End
  <2> DEFINE d == down[e]
             u == up[Other(e)]
  <2>1. d \in Seq(Msg) /\ u \in Seq(Msg) /\ Way(e) = d \o u
    BY <1>1, WayIs DEF Way, Ahead
  <2>2. Reads(u, k, up'[Other(e)]) /\ Way(e)' = d \o up'[Other(e)]
    BY <1>1, WayIs DEF Way, Ahead, RelayReads, TypeOK
  <2> HIDE DEF d, u
  <2>3. Narrower(d \o up'[Other(e)], d \o u) /\ StillLed(d \o up'[Other(e)], d \o u)
    BY <1>1, <2>1, <2>2, Dropping
  <2>. QED
    BY <2>1, <2>2, <2>3 DEF NoMore, StillLed, Heard
<1>2. CASE ~relay[e]
  BY <1>2, WayCloses
<1>3. CASE peers # End
  <2>1. Way(e)' = Way(e)
    BY <1>3 DEF Way, Ahead
  <2>. QED
    BY <2>1 DEF NoMore, Narrower, Heard
<1>. QED
  BY <1>1, <1>2, <1>3

(* What it tells an end whose far end has gone says nothing. *)
LEMMA RefusalsMute ==
    ASSUME TypeOK, NEW e \in End, NEW s \in Seq({[type |-> "disconnected"]} \cup Refusals(e))
    PROVE  s \in Seq(Msg) /\ Mute(s)
<1> DEFINE T == {[type |-> "disconnected"]} \cup Refusals(e)
<1>1. T \subseteq Msg
  BY Messages DEF Refusals, TypeOK, Msg
<1>2. \A m \in T : Say(m).says = "nothing"
  BY DEF Refusals, Result, Say
<1> HIDE DEF T
<1>3. s \in Seq(T)
  BY DEF T
<1>4. Mute(s)
  BY <1>2, <1>3 DEF Mute
<1>5. Seq(T) \subseteq Seq(Msg)
  BY <1>1, SeqMonotonic
<1>. QED
  BY <1>3, <1>4, <1>5

(* It loses a peer. *)
LEMMA WayCut ==
    ASSUME TypeOK, NEW p \in End, p \in peers, PeerGone(p), UNCHANGED relay, NEW e \in End
    PROVE  NoMore(e)
<1> DEFINE d == down[e]
           u == Ahead(e)
<1>1. peers' # End
  BY DEF PeerGone
<1>2. CASE relay[e]
  <2>1. d \in Seq(Msg) /\ u \in Seq(Msg) /\ Way(e) = d \o u
    BY <1>2, WayIs DEF Way
  <2>2. PICK s \in Seq(Msg) : Mute(s) /\ down'[e] = d \o s
    <3>1. PICK s \in Seq({[type |-> "disconnected"]} \cup Refusals(Other(p))) :
                IF Other(p) \in peers THEN Told(Other(p), s) ELSE UNCHANGED down
      BY PeerGoneIs
    <3>2. Other(p) \in End
      BY WayIs
    <3>3. s \in Seq(Msg) /\ Mute(s)
      BY <3>2, RefusalsMute
    <3>4. <<>> \in Seq(Msg) /\ Mute(<<>>) /\ d \o <<>> = d
      BY <2>1 DEF Mute
    <3>5. down'[e] = d \o s \/ down'[e] = d
      BY <1>2, <3>1, <3>2, ToldIs
    <3>. QED
      BY <3>3, <3>4, <3>5
  <2>3. Way(e)' = (d \o s) \o <<>>
    BY <1>1, <1>2, <2>2 DEF Way, Ahead
  <2>4. Way(e)' = d \o s
    BY <2>1, <2>2, <2>3
  <2> HIDE DEF d, u
  <2>5. Narrower(d \o s, d \o u) /\ (Led(d \o u) => Led(d \o s))
    BY <2>1, <2>2, Cutting
  <2>. QED
    BY <1>1, <2>1, <2>4, <2>5 DEF NoMore, Heard
<1>3. CASE ~relay[e]
  BY <1>3, WayCloses
<1>. QED
  BY <1>2, <1>3

-----------------------------------------------------------------------------
(* The order is kept                                                       *)

(* A step that asks nothing, answers nothing and sends no frame: halves    *)
(* stay or go, and calls settle.                                           *)
Settling(a, b) ==
    /\ NoMore(a) /\ NoMore(b)
    /\ \A e \in {a, b} : half'[e] = half[e] \/ half'[e] = NoHalf
    /\ \A n \in 1..MaxAsks :
            \/ calls'[a][n] = calls[a][n]
            \/ calls[a][n] # "none" /\ calls'[a][n] \notin {"none", "sent"}
    /\ half'[a] # NoHalf => relay'[a]
    /\ peers' = End => peers = End
    /\ asking' # {} => peers' = End
    /\ UNCHANGED world

(* No half is in a stage where there is none. *)
LEMMA HalfStage ==
    ASSUME NEW a, NEW b, Talk(a, b), NEW e \in End
    PROVE  /\ Holds(e) => half[e] \in Halves(a, b, e) /\ half[e].link \in Links(a)
           /\ Holds(e) => half[e].link.n \in 1..MaxAsks
           /\ half[e].stage \in {"clear", "waiting", "offered", "sealed"} => Holds(e)
<1>1. /\ Holds(e) => half[e] \in Halves(a, b, e) /\ half[e].link \in Links(a)
      /\ Holds(e) => half[e].link.n \in 1..MaxAsks
  BY DEF Talk, Holds, Halves, Links
<1>2. half[e].stage \in {"clear", "waiting", "offered", "sealed"} => Holds(e)
  BY DEF Holds, NoHalf
<1>. QED
  BY <1>1, <1>2

(* What is heard is a saying. *)
LEMMA HeardIs ==
    ASSUME NEW e
    PROVE  \A x \in Heard(e) : x \in Saying /\ x.n \in 1..MaxAsks
BY DEF Heard, Said, Saying

(* Such a step keeps the order. *)
LEMMA SettlingKeeps ==
    ASSUME NEW a \in End, NEW b \in End, Talk(a, b), Flow(a, b), Settling(a, b)
    PROVE  Flow(a, b)'
<1> DEFINE A == Said(Way(a)')
           B == Said(Way(b)')
           holds(e) == half'[e] # NoHalf
<1>1. /\ A \subseteq Heard(a) /\ B \subseteq Heard(b)
      /\ InOrder(Way(a)') /\ InOrder(Way(b)')
      /\ Led(Way(a)) => Led(Way(a)')
      /\ relay'[a] /\ peers' = End /\ Offered(Heard(a)) => Offered(A)
  BY DEF Settling, NoMore, Narrower, Flow, Heard
<1>2. \A e \in {a, b} : half'[e] = half[e] \/ (half'[e] = NoHalf /\ ~holds(e))
  BY DEF Settling
<1>3. \A n \in 1..MaxAsks : /\ calls'[a][n] = "sent" => calls[a][n] = "sent"
                            /\ calls'[a][n] # "none" <=> calls[a][n] # "none"
  BY DEF Settling
<1>4. \A x \in A \cup B : x \in Saying /\ x.n \in 1..MaxAsks
  BY <1>1, HeardIs
<1> HIDE DEF A, B, holds
<1>5. Numbers(a, b)'
  <2>1. \A n : calls[a][n] # "none" => n \notin 1..MaxAsks \/ calls'[a][n] # "none"
    BY <1>3
  <2>2. Numbers(a, b)
    BY DEF Flow
  <2>3. \A x \in A \cup B : calls'[a][x.n] # "none"
    BY <1>1, <1>3, <1>4, <2>2 DEF Numbers, Asked
  <2>4. \A e \in {a, b} : holds(e) => calls'[a][half'[e].link.n] # "none"
    BY <1>2, <1>3, <2>2, HalfStage DEF Numbers, Asked, Of, Holds, holds
  <2>5. \A n \in 1..MaxAsks : calls'[a][n] = "sent" => Latest(a, n)' /\ ~holds(a)
    BY <1>2, <1>3, <2>2 DEF Numbers, Latest, Asked, Holds, holds
  <2>6. holds(a) => Latest(a, Of(a))'
    BY <1>2, <1>3, <2>2 DEF Numbers, Latest, Asked, Of, Holds, holds
  <2>. QED
    BY <2>3, <2>4, <2>5, <2>6 DEF Numbers, Asked, Heard, Holds, holds, Of, A, B
<1>6. AskFirst(a, b)'
  BY <1>1, <1>2 DEF AskFirst, Flow, Heard, Holds, holds, Of, A, B
<1>7. SameLink(a, b)'
  BY <1>1, <1>2 DEF SameLink, Flow, Heard, Holds, holds, Of, IsFrame, A, B
<1>8. Unopened(a, b)'
  BY <1>1, <1>2, <1>3, <1>4 DEF Unopened, Settling, Flow, Heard, Holds, holds, Of, IsFrame, A, B,
        EitherRequires, Requires
<1>9. Sealing(a, b)'
  BY <1>1, <1>2 DEF Sealing, Settling, Flow, Heard, Holds, holds, Of, IsFrame, A, B, NoHalf
<1>. QED
  BY <1>1, <1>5, <1>6, <1>7, <1>8, <1>9 DEF Flow, Settling

(* What may be read is heard, and is not sealed where nothing has been     *)
(* offered.                                                                *)
LEMMA NextHeard ==
    ASSUME TypeOK, NEW e \in End, relay[e], NEW m, NEW r, Reads(down[e], m, r)
    PROVE  LET x == Say(m) IN
           /\ x \in Saying => x \in Heard(e)
           /\ Led(Way(e)) => x \notin Saying \/ x.says # "sealed"
<1> DEFINE d == down[e]
           u == Ahead(e)
<1>1. d \in Seq(Msg) /\ u \in Seq(Msg) /\ Way(e) = d \o u
  BY WayIs DEF Way
<1> HIDE DEF u
<1>2. LET y == Say(m) v == d \o u t == r \o u IN
           /\ Narrower(t, v)
           /\ y.says # "offer" => StillLed(t, v)
           /\ y \in Saying => y \in Said(v)
           /\ InOrder(v) => \A z \in Said(t) : y \in Saying => Precedes(y, z)
           /\ Led(v) => y \notin Saying \/ y.says # "sealed"
  BY <1>1, WhatIsRead
<1>. QED
  BY <1>1, <1>2 DEF Heard

(* What the messages of the two say. *)
LEMMA TalkSays ==
    ASSUME NEW a, NEW b
    PROVE  /\ \A f \in FramesOf(a, b) : LET x == Say([type |-> "forward", frame |-> f]) IN
                /\ x = [says |-> f.kind, n |-> f.link.n] /\ x \in Saying /\ IsFrame(x)
           /\ \A m \in FrameMessages(a, b) : LET x == Say(m) IN
                /\ x = [says |-> m.frame.kind, n |-> m.frame.link.n] /\ x \in Saying /\ IsFrame(x)
                /\ m.frame \in FramesOf(a, b)
           /\ Say([type |-> "unproxy"]).says = "nothing"
           /\ Say([type |-> "disconnected"]).says = "nothing"
           /\ \A l \in Links(a) :
                LET ask == [says |-> "ask", n |-> l.n] yes == [says |-> "yes", n |-> l.n] IN
                /\ ask \in Saying /\ yes \in Saying
                /\ Say([type |-> "proxy", link |-> l]) = ask
                /\ \A e2e : /\ Say([type |-> "connected", link |-> l, e2e |-> e2e]) = ask
                            /\ Say(Result(l, TRUE, e2e)) = yes
                            /\ Say([type |-> "answer", link |-> l, ok |-> TRUE, e2e |-> e2e]) = yes
                            /\ Say(Result(l, FALSE, e2e)).says = "nothing"
                            /\ Say([type |-> "answer", link |-> l, ok |-> FALSE, e2e |-> e2e]).says
                                    = "nothing"
<1>1. ASSUME NEW f \in FramesOf(a, b)
      PROVE  LET x == Say([type |-> "forward", frame |-> f]) IN
             x = [says |-> f.kind, n |-> f.link.n] /\ x \in Saying /\ IsFrame(x)
  BY DEF FramesOf, Say, Saying, IsFrame, FrameKinds, Links
<1>2. ASSUME NEW m \in FrameMessages(a, b)
      PROVE  LET x == Say(m) IN
             /\ x = [says |-> m.frame.kind, n |-> m.frame.link.n] /\ x \in Saying /\ IsFrame(x)
             /\ m.frame \in FramesOf(a, b)
  BY DEF FrameMessages, FramesOf, Say, Saying, IsFrame, FrameKinds, Links
<1>3. ASSUME NEW l \in Links(a)
      PROVE  LET ask == [says |-> "ask", n |-> l.n] yes == [says |-> "yes", n |-> l.n] IN
             /\ ask \in Saying /\ yes \in Saying
             /\ Say([type |-> "proxy", link |-> l]) = ask
             /\ \A e2e : /\ Say([type |-> "connected", link |-> l, e2e |-> e2e]) = ask
                         /\ Say(Result(l, TRUE, e2e)) = yes
                         /\ Say([type |-> "answer", link |-> l, ok |-> TRUE, e2e |-> e2e]) = yes
                         /\ Say(Result(l, FALSE, e2e)).says = "nothing"
                         /\ Say([type |-> "answer", link |-> l, ok |-> FALSE, e2e |-> e2e]).says
                                = "nothing"
  BY DEF Say, Result, Links, Saying
<1>4. Say([type |-> "unproxy"]).says = "nothing" /\ Say([type |-> "disconnected"]).says = "nothing"
  BY DEF Say
<1>. QED
  BY <1>1, <1>2, <1>3, <1>4

(* A frame that comes is of the link, and can be read. *)
LEMMA FrameFits ==
    ASSUME TypeOK, RelayInv, NEW a, NEW b, OnlyAsks(a, b), Talk(a, b), Flow(a, b), NEW e \in End,
           Holds(e), NEW m, NEW r, Reads(down[e], m, r), m.type = "forward"
    PROVE  LET f == m.frame IN
           /\ f \in FramesOf(a, b) /\ f.link = half[e].link /\ ~Unreadable(e, f)
           /\ [says |-> f.kind, n |-> Of(e)] \in Heard(e)
<1> DEFINE f == m.frame
           x == [says |-> f.kind, n |-> f.link.n]
<1>0. End = {a, b} /\ a # b
  BY DEF OnlyAsks
<1>1. m \in FrameMessages(a, b) /\ f \in FramesOf(a, b)
  BY TalkReads, TalkParts
<1>2. Say(m) = x /\ x \in Saying /\ IsFrame(x)
  BY ZenonT(40), <1>1, TalkSays
<1>3. relay[e]
  BY DEF RelayInv, HalfInv, HalfOf
<1>4. x \in Heard(e) /\ (Led(Way(e)) => f.kind # "sealed")
  BY <1>2, <1>3, NextHeard
<1>5. x.n = Of(e)
  BY <1>0, <1>2, <1>4 DEF Flow, SameLink
<1>6. half[e].link \in Links(a) /\ f.link \in Links(a) /\ half[e] \in Halves(a, b, e)
  BY <1>1, HalfStage DEF FramesOf
<1>7. f.link = half[e].link
  BY <1>5, <1>6 DEF Links, Of
<1>8. ~Unreadable(e, f)
  <2>1. CASE f.kind = "offer"
    <3>1. half[e].stage # "sealed"
      BY <1>0, <1>2, <1>4, <2>1 DEF Flow, Sealing
    <3>. QED
      BY <2>1, <3>1 DEF Unreadable
  <2>2. CASE f.kind = "clear"
    <3>1. ~EitherRequires(a, b)
      BY <1>1, <2>2 DEF FramesOf
    <3>2. ~half[e].required /\ half[e].stage = "clear"
      BY <1>6, <3>1 DEF Halves
    <3>. QED
      BY <2>2, <3>2 DEF Unreadable
  <2>3. CASE f.kind = "sealed"
    <3>1. EitherRequires(a, b)
      BY <1>1, <2>3 DEF FramesOf
    <3>2. half[e].stage \in {"offered", "waiting", "sealed"}
      BY <1>6, <3>1 DEF Halves
    <3>3. e = a => half[e].stage # "offered"
      BY <1>4, <2>3 DEF Flow, Sealing
    <3>4. e = b => half[e].stage # "waiting"
      BY <1>2, <1>4, <2>3 DEF Flow, Sealing
    <3>5. e = a => half[e].stage # "waiting"
      BY <1>6, <3>1 DEF Halves
    <3>6. e = b => half[e].stage # "offered"
      BY <1>0, <1>6, <3>1 DEF Halves
    <3>. QED
      BY <1>0, <1>7, <2>3, <3>2, <3>3, <3>4, <3>5, <3>6 DEF Unreadable
  <2>. QED
    BY <1>1, <2>1, <2>2, <2>3 DEF FramesOf
<1>. QED
  BY <1>1, <1>4, <1>5, <1>7, <1>8

-----------------------------------------------------------------------------
(* The steps that keep the order as they ask, answer and send nothing      *)

(* What holds before and after any of them. *)
FlowStep(a, b) ==
    /\ TypeOK /\ RelayInv /\ RelayInv' /\ UNCHANGED world /\ ~world.again
    /\ OnlyAsks(a, b) /\ Other(a) = b /\ Other(b) = a
    /\ Talk(a, b) /\ Flow(a, b)

(* What has to be shown of it. *)
LEMMA Settles ==
    ASSUME NEW a, NEW b, FlowStep(a, b), NoMore(a), NoMore(b),
           \A e \in {a, b} : half'[e] = half[e] \/ half'[e] = NoHalf,
           \A n \in 1..MaxAsks :
                \/ calls'[a][n] = calls[a][n]
                \/ calls[a][n] # "none" /\ calls'[a][n] \notin {"none", "sent"},
           peers' = End => peers = End,
           asking' # {} => peers' = End
    PROVE  Flow(a, b)'
<1>1. half'[a] # NoHalf => relay'[a]
  BY DEF FlowStep, RelayInv, HalfInv, HalfOf, Holds, OnlyAsks
<1>. QED
  BY <1>1, SettlingKeeps DEF Settling, FlowStep, OnlyAsks

(* A half goes: calls settle. *)
LEMMA GoneSettles ==
    ASSUME TypeOK, NEW e \in End, NEW a \in End, HalfGone(e) \/ RelayGone(e)
    PROVE  /\ \A x \in End : half'[x] = half[x] \/ half'[x] = NoHalf
           /\ \A n \in 1..MaxAsks :
                \/ calls'[a][n] = calls[a][n]
                \/ calls[a][n] # "none" /\ calls'[a][n] \notin {"none", "sent"}
<1>1. CASE HalfGone(e)
  BY <1>1 DEF HalfGone, TypeOK
<1>2. CASE RelayGone(e)
  BY <1>2 DEF RelayGone, TypeOK
<1>. QED
  BY <1>1, <1>2

(* What an end tells the relay does not change what it reads itself. *)
LEMMA TellIs ==
    ASSUME TypeOK, NEW e \in End, NEW m, Tell(e, m)
    PROVE  \A x \in End : x # e => up'[x] = up[x]
BY DEF Tell, TypeOK

(* Nor does what it takes. *)
LEMMA TakenIs ==
    ASSUME TypeOK, NEW e \in End
    PROVE  /\ Taken(e) => \A x \in End : x # e => down'[x] = down[x]
           /\ TakenUp(e) => \A x \in End : x # e => up'[x] = up[x]
           /\ \A m : EndReads(e, m) => \A x \in End : x # e => down'[x] = down[x]
           /\ \A m : RelayReads(e, m) => \A x \in End : x # e => up'[x] = up[x]
BY DEF Taken, TakenUp, EndReads, RelayReads, TypeOK

(* An end that is asked, or both, loses its connection. *)
LEMMA ClosingKeeps ==
    ASSUME NEW a, NEW b, FlowStep(a, b), NEW e \in End, RelayGone(e), UNCHANGED <<peers, asking, up>>
    PROVE  Flow(a, b)'
<1>0. End = {a, b} /\ a # b /\ Other(a) = b /\ Other(b) = a
  BY DEF FlowStep, OnlyAsks
<1>1. NoMore(e)
  <2>1. ~relay'[e]
    BY DEF RelayGone, FlowStep, TypeOK
  <2>. QED
    BY <2>1, WayCloses
<1>2. \A x \in End : x # e => NoMore(x)
  <2>1. \A x \in End : x # e => relay'[x] = relay[x] /\ down'[x] = down[x]
    BY DEF RelayGone, FlowStep, TypeOK
  <2>. QED
    BY <2>1, WayStays
<1>. QED
  BY <1>0, <1>1, <1>2, GoneSettles, Settles DEF FlowStep, Flow

(* An end takes its half down. *)
LEMMA UnproxyKeeps ==
    ASSUME NEW a, NEW b, FlowStep(a, b), NEW e \in End, Unproxy(e), UNCHANGED <<relay, peers, asking, down>>
    PROVE  Flow(a, b)'
<1>0. End = {a, b} /\ a # b /\ Other(a) = b /\ Other(b) = a /\ TypeOK
  BY DEF FlowStep, OnlyAsks
<1>1. HalfGone(e) /\ Tell(e, [type |-> "unproxy"])
  BY DEF Unproxy
<1>2. NoMore(e)
  BY <1>0, <1>1, TellIs, WayStays
<1>3. NoMore(Other(e))
  <2>1. [type |-> "unproxy"] \in Msg /\ Say([type |-> "unproxy"]).says = "nothing"
    BY Messages, TalkSays DEF Msg
  <2>2. Other(e) \in End /\ Other(Other(e)) = e
    BY <1>0
  <2>. QED
    BY <1>0, <1>1, <2>1, <2>2, WayTold
<1>. QED
  BY <1>0, <1>1, <1>2, <1>3, GoneSettles, Settles DEF FlowStep, Flow

(* A call comes to its end. *)
LEMMA TimeoutKeeps ==
    ASSUME NEW a, NEW b, FlowStep(a, b), NEW e \in End, ProxyTimesOut(e)
    PROVE  Flow(a, b)'
<1>0. End = {a, b} /\ a # b /\ Other(a) = b /\ Other(b) = a /\ TypeOK
  BY DEF FlowStep, OnlyAsks
<1>1. PICK n \in 1..MaxAsks :
            calls[e][n] = "sent" /\ calls' = [calls EXCEPT ![e][n] = "rejected"]
            /\ UNCHANGED <<relay, half, peers, asking, up, down>>
  BY DEF ProxyTimesOut
<1>2. NoMore(a) /\ NoMore(b)
  BY <1>1, WayStays
<1>3. \A k \in 1..MaxAsks :
            \/ calls'[a][k] = calls[a][k]
            \/ calls[a][k] # "none" /\ calls'[a][k] \notin {"none", "sent"}
  BY <1>0, <1>1 DEF TypeOK
<1>. QED
  BY <1>0, <1>1, <1>2, <1>3, Settles DEF FlowStep, Flow

(* The relay loses a peer. *)
LEMMA LosingKeeps ==
    ASSUME NEW a, NEW b, FlowStep(a, b), NEW e \in End, e \in peers, PeerGone(e),
           UNCHANGED <<relay, half, calls>>
    PROVE  Flow(a, b)'
<1>0. End = {a, b} /\ a \in End /\ b \in End /\ TypeOK
  BY DEF FlowStep, OnlyAsks
<1>1. NoMore(a) /\ NoMore(b)
  BY <1>0, WayCut
<1>2. peers' # End /\ asking' = {}
  BY DEF PeerGone
<1>3. \A x \in {a, b} : half'[x] = half[x] \/ half'[x] = NoHalf
  OBVIOUS
<1>4. \A n \in 1..MaxAsks :
            \/ calls'[a][n] = calls[a][n]
            \/ calls[a][n] # "none" /\ calls'[a][n] \notin {"none", "sent"}
  OBVIOUS
<1>5. (peers' = End => peers = End) /\ (asking' # {} => peers' = End)
  BY <1>2
<1>. QED
  BY <1>1, <1>3, <1>4, <1>5, Settles

(* No answer comes in time. *)
LEMMA LateKeeps ==
    ASSUME NEW a, NEW b, FlowStep(a, b), AnswerTimesOut
    PROVE  Flow(a, b)'
<1>0. End = {a, b} /\ a # b /\ a \in End /\ b \in End /\ Other(a) = b /\ Other(b) = a /\ TypeOK
      /\ Talk(a, b)
  BY DEF FlowStep, OnlyAsks
<1>1. PICK l \in asking :
            /\ asking' = asking \ {l}
            /\ Told(l.by, << Result(l, FALSE, FALSE) >>)
            /\ UNCHANGED <<relay, half, calls, peers, up>>
  BY DEF AnswerTimesOut
<1>2. l \in Links(a) /\ l.by = a
  BY <1>0 DEF Talk, Links
<1>3. << Result(l, FALSE, FALSE) >> \in Seq(Msg) /\ Mute(<< Result(l, FALSE, FALSE) >>)
  <2> DEFINE r == Result(l, FALSE, FALSE)
  <2>1. r \in Msg
    BY <1>0, Messages DEF TypeOK, Msg
  <2>2. Say(r).says = "nothing"
    BY ZenonT(40), <1>2, TalkSays
  <2> HIDE DEF r
  <2>3. <<r>> \in Seq(Msg) /\ Mute(<<r>>)
    BY <2>1, <2>2 DEF Mute
  <2>. QED
    BY <2>3 DEF r
<1>4. NoMore(a)
  BY <1>0, <1>1, <1>2, <1>3, WayNoise
<1>5. NoMore(b)
  <2>1. down'[b] = down[b]
    BY <1>0, <1>1, <1>2, ToldIs
  <2>. QED
    BY <1>1, <2>1, WayStays
<1>. QED
  BY <1>0, <1>1, <1>4, <1>5, Settles DEF FlowStep, Flow

(* An end reads what neither sets up its half nor seals it. *)
LEMMA ReadKeeps ==
    ASSUME NEW a, NEW b, FlowStep(a, b), NEW e \in End, relay[e], NEW k, EndReads(e, k),
           Say(k).says # "offer", UNCHANGED <<relay, peers, asking>>,
           \/ UNCHANGED up
           \/ \E m \in Msg : Tell(e, m) /\ Say(m).says = "nothing",
           \A x \in End : half'[x] = half[x] \/ half'[x] = NoHalf,
           \A n \in 1..MaxAsks :
                \/ calls'[a][n] = calls[a][n]
                \/ calls[a][n] # "none" /\ calls'[a][n] \notin {"none", "sent"}
    PROVE  Flow(a, b)'
<1>0. End = {a, b} /\ a # b /\ a \in End /\ b \in End /\ Other(a) = b /\ Other(b) = a /\ TypeOK
  BY DEF FlowStep, OnlyAsks
<1>1. Other(e) \in End /\ Other(e) # e /\ Other(Other(e)) = e
  BY <1>0
<1>2. up'[Other(e)] = up[Other(e)] /\ down'[Other(e)] = down[Other(e)]
  BY <1>0, <1>1, TellIs, TakenIs
<1>3. NoMore(e)
  BY <1>0, <1>2, WayRead
<1>4. NoMore(Other(e))
  <2>1. CASE UNCHANGED up
    BY <1>1, <1>2, <2>1, WayStays
  <2>2. ASSUME NEW m \in Msg, Tell(e, m), Say(m).says = "nothing"
        PROVE  NoMore(Other(e))
    BY <1>0, <1>1, <1>2, <2>2, WayTold
  <2>. QED
    BY <2>1, <2>2
<1>5. NoMore(a) /\ NoMore(b)
  BY <1>0, <1>3, <1>4
<1>. QED
  BY <1>0, <1>5, Settles DEF FlowStep, Flow

(* The relay reads: what it says in turn it has heard, if it is anything. *)
LEMMA RelayedKeeps ==
    ASSUME NEW a, NEW b, FlowStep(a, b), NEW e \in End, NEW k, RelayReads(e, k),
           UNCHANGED <<relay, half, calls, peers>>, asking' # {} => peers = End,
           \/ UNCHANGED down /\ (peers = End => Say(k).says # "offer")
           \/ \E m \in Msg : Told(Other(e), <<m>>) /\ peers = End /\ Say(m) = Say(k)
    PROVE  Flow(a, b)'
<1>0. End = {a, b} /\ a # b /\ a \in End /\ b \in End /\ Other(a) = b /\ Other(b) = a /\ TypeOK
  BY DEF FlowStep, OnlyAsks
<1>1. Other(e) \in End /\ Other(e) # e /\ Other(Other(e)) = e
  BY <1>0
<1>2. up'[Other(e)] = up[Other(e)]
  BY <1>0, <1>1, TakenIs
<1>3. NoMore(e)
  <2>1. down'[e] = down[e]
    BY <1>0, <1>1, ToldIs
  <2>. QED
    BY <1>2, <2>1, WayStays
<1>4. NoMore(Other(e))
  <2> DEFINE o == Other(e)
  <2>1. o \in End /\ Other(o) = e
    BY <1>1
  <2> HIDE DEF o
  <2>2. CASE UNCHANGED down /\ (peers = End => Say(k).says # "offer")
    BY <1>0, <2>1, <2>2, WayDropped
  <2>3. ASSUME NEW m \in Msg, Told(o, <<m>>), peers = End, Say(m) = Say(k)
        PROVE  NoMore(o)
    BY <1>0, <2>1, <2>3, WayPassed
  <2>. QED
    BY <2>2, <2>3 DEF o
<1>5. NoMore(a) /\ NoMore(b)
  BY <1>0, <1>3, <1>4
<1>6. calls' = calls /\ half' = half /\ peers' = peers
  OBVIOUS
<1>. QED
  BY <1>5, <1>6, Settles

(* What the relay reads, whoever it comes from. *)
LEMMA RelayKeeps ==
    ASSUME NEW a, NEW b, FlowStep(a, b), NEW e \in End, RelayReceive(e)
    PROVE  Flow(a, b)'
<1> DEFINE m == Head(up[e])
           o == Other(e)
<1>0. /\ End = {a, b} /\ a # b /\ a \in End /\ b \in End /\ Other(a) = b /\ Other(b) = a /\ TypeOK
      /\ Talk(a, b) /\ OnlyAsks(a, b) /\ peers \subseteq End /\ (asking # {} => peers = End)
  BY DEF FlowStep, OnlyAsks, TypeOK, Flow
<1>1. e \in peers
  BY Forwards DEF RelayReceive, RelayProxy, RelayAnswer, RelayUnproxy, TakeUp
<1>2. CASE DropPeer(e)
  <2>1. PeerGone(e) /\ UNCHANGED <<relay, half, calls>>
    BY <1>2 DEF DropPeer
  <2>. QED
    BY <1>1, <2>1, LosingKeeps
<1>3. CASE ~DropPeer(e) /\ ~RelayForward(e)
  <2>1. RelayReads(e, m) /\ UNCHANGED <<relay, half, calls, peers>> /\ up[e] # <<>>
    BY <1>0, <1>3, Reading DEF RelayReceive, RelayProxy, RelayAnswer, RelayUnproxy, TakeUp
  <2>2. m \in Sends(a, b, e) /\ m \in Msg
    BY <1>0, <2>1, TalkTakenUp, TakenUpTyped DEF Msg
  <2>3. o \in End /\ End = {e, o}
    BY <1>0
  <2>4. o \in peers <=> peers = End
    BY <1>0, <1>1, <2>3
  <2>5. CASE RelayProxy(e)
    <3>1. /\ m.type = "proxy" /\ o \in peers
          /\ Told(o, << [type |-> "connected", link |-> m.link, e2e |-> Requires(e)] >>)
      BY <1>3, <2>5 DEF RelayProxy, TakeUp
    <3> DEFINE c == [type |-> "connected", link |-> m.link, e2e |-> Requires(e)]
    <3>2. e = a /\ m.link \in Links(a)
      BY <1>0, <2>2, <3>1, TalkParts
    <3>3. Say(m) = [says |-> "ask", n |-> m.link.n]
      BY <3>1 DEF Say
    <3>4. Say(c) = Say(m)
      BY <3>3 DEF Say
    <3>5. c \in Msg
      <4>1. m.link \in Link /\ Requires(e) \in BOOLEAN
        BY <1>0, <3>2 DEF Links, Link, Requires
      <4>. QED
        BY <4>1, Messages DEF Msg
    <3> HIDE DEF c, m, o
    <3>6. peers = End /\ Told(o, <<c>>)
      BY <2>4, <3>1 DEF c
    <3>. QED
      BY <2>1, <3>4, <3>5, <3>6, RelayedKeeps DEF m, o
  <2>6. CASE RelayAnswer(e)
    <3>1. /\ m.type = "answer" /\ asking' = asking \ {m.link}
          /\ IF m.link \in asking
             THEN Told(m.link.by, << Result(m.link, m.ok, m.ok /\ (m.e2e \/ Requires(e))) >>)
             ELSE UNCHANGED down
      BY <2>6 DEF RelayAnswer, TakeUp
    <3> DEFINE r == Result(m.link, m.ok, m.ok /\ (m.e2e \/ Requires(e)))
    <3>2. e = b /\ m.link \in Links(a) /\ m.ok \in BOOLEAN /\ m.e2e \in BOOLEAN
      <4>1. e = b /\ m.link \in Links(a) /\ m.ok \in BOOLEAN /\ m.e2e = (m.ok /\ EitherRequires(a, b))
        BY <1>0, <2>2, <3>1, TalkParts
      <4>2. EitherRequires(a, b) \in BOOLEAN
        BY DEF EitherRequires, Requires
      <4> HIDE DEF m
      <4>. QED
        BY <4>1, <4>2
    <3>3. Say(r) = Say(m) /\ Say(m).says # "offer"
      BY <3>1 DEF Say, Result
    <3>4. r \in Msg
      <4>1. m.link \in Link /\ (m.ok /\ (m.e2e \/ Requires(e))) \in BOOLEAN
        BY <1>0, <3>2 DEF Links, Link, Requires
      <4>. QED
        BY <3>2, <4>1, Messages DEF Msg
    <3>5. m.link.by = o
      BY <1>0, <3>2 DEF Links
    <3> HIDE DEF r, m, o
    <3>6. CASE m.link \in asking
      <4>1. peers = End /\ Told(o, <<r>>)
        BY <1>0, <3>1, <3>5, <3>6 DEF r
      <4>. QED
        BY <1>1, <2>1, <3>3, <3>4, <4>1, RelayedKeeps DEF m, o
    <3>7. CASE m.link \notin asking
      <4>1. asking' # {} => peers = End
        BY <1>0, <3>1
      <4>. QED
        BY <1>1, <2>1, <3>1, <3>3, <3>7, <4>1, RelayedKeeps DEF m, o
    <3>. QED
      BY <3>6, <3>7
  <2>7. CASE RelayUnproxy(e)
    <3>1. /\ m.type = "unproxy" /\ asking' = asking
          /\ IF o \in peers THEN Told(o, << [type |-> "disconnected"] >>) ELSE UNCHANGED down
      BY <1>3, <2>7 DEF RelayUnproxy, TakeUp
    <3>2. Say(m) = [says |-> "nothing", n |-> 0] /\ Say([type |-> "disconnected"]) = Say(m)
      BY <3>1 DEF Say
    <3>3. [type |-> "disconnected"] \in Msg
      BY Messages DEF Msg
    <3> HIDE DEF m, o
    <3>. QED
      BY <1>0, <1>1, <2>1, <2>4, <3>1, <3>2, <3>3, RelayedKeeps DEF m, o
  <2>. QED
    BY <1>3, <2>5, <2>6, <2>7 DEF RelayReceive
<1>4. ASSUME NEW k, ForwardGoes(e, k)
      PROVE  Flow(a, b)'
  <2>1. /\ RelayReads(e, k) /\ UNCHANGED <<relay, half, calls, peers, asking>>
        /\ IF o \in peers THEN Told(o, <<k>>) ELSE UNCHANGED down
    BY <1>4 DEF ForwardGoes
  <2>2. k \in Msg
    BY <1>0, <2>1, ReadTyped DEF Msg
  <2>3. o \in peers <=> peers = End
    BY <1>0, <1>1
  <2> HIDE DEF o
  <2>. QED
    BY <1>0, <2>1, <2>2, <2>3, RelayedKeeps DEF o
<1>. QED
  BY <1>2, <1>3, <1>4, Forwards

-----------------------------------------------------------------------------
(* The steps that ask, answer or send                                      *)

(* What is heard holds no other sayings than these. *)
LEMMA HeardWords ==
    ASSUME TypeOK, NEW a, NEW b, OnlyAsks(a, b), Talk(a, b)
    PROVE  /\ \A y \in Heard(a) : y.says # "ask"
           /\ \A x \in Heard(b) : x.says # "yes"
           /\ EitherRequires(a, b) => \A x \in Heard(a) \cup Heard(b) : x.says # "clear"
           /\ ~EitherRequires(a, b) => \A x \in Heard(a) \cup Heard(b) : IsFrame(x) => x.says = "clear"
<1>0. End = {a, b} /\ a # b /\ Other(a) = b /\ Other(b) = a
  BY TwoEnds DEF OnlyAsks
<1>1. ASSUME NEW e \in End, NEW x \in Heard(e)
      PROVE  \E m \in Gets(a, b, e) \cup Sends(a, b, Other(e)) : Say(m) = x
  <2>1. PICK i \in DOMAIN Way(e) : Say(Way(e)[i]) = x
    BY <1>1 DEF Heard, Said
  <2>2. Way(e) \in Seq(Gets(a, b, e) \cup Sends(a, b, Other(e)))
    <3> DEFINE G == Gets(a, b, e)
               S == Sends(a, b, Other(e))
    <3>1. down[e] \in Seq(G) /\ up[Other(e)] \in Seq(S)
      BY <1>0 DEF Talk
    <3> HIDE DEF G, S
    <3>2. Seq(G) \subseteq Seq(G \cup S) /\ Seq(S) \subseteq Seq(G \cup S) /\ <<>> \in Seq(G \cup S)
      BY SeqMonotonic
    <3>3. down[e] \in Seq(G \cup S) /\ Ahead(e) \in Seq(G \cup S)
      BY <3>1, <3>2 DEF Ahead
    <3>4. Way(e) \in Seq(G \cup S)
      BY <3>2, <3>3 DEF Way
    <3>. QED
      BY <3>4 DEF G, S
  <2>3. Way(e)[i] \in Gets(a, b, e) \cup Sends(a, b, Other(e))
    BY <2>1, <2>2
  <2>. QED
    BY <2>1, <2>3
<1>2. ASSUME NEW m \in FrameMessages(a, b)
      PROVE  /\ Say(m).says \in FrameKinds
             /\ IF EitherRequires(a, b) THEN Say(m).says # "clear" ELSE Say(m).says = "clear"
  <2>1. Say(m) = [says |-> m.frame.kind, n |-> m.frame.link.n] /\ m.frame \in FramesOf(a, b)
    BY TalkSays
  <2>. QED
    BY <2>1 DEF FramesOf, FrameKinds
<1>3. ASSUME NEW m, m \in FrameMessages(a, b) \/ m.type # "forward"
      PROVE  /\ IF EitherRequires(a, b) THEN Say(m).says # "clear"
                                        ELSE Say(m).says \in FrameKinds => Say(m).says = "clear"
             /\ m.type \notin {"proxy", "connected"} => Say(m).says # "ask"
             /\ m.type \notin {"answer", "result"} => Say(m).says # "yes"
  <2>1. CASE m \in FrameMessages(a, b)
    BY <1>2, <2>1 DEF FrameKinds
  <2>2. CASE m.type # "forward"
    BY <2>2 DEF Say, FrameKinds
  <2>. QED
    BY <1>3, <2>1, <2>2
<1>4. \A e \in End : \A m \in Gets(a, b, e) \cup Sends(a, b, Other(e)) :
        /\ m \in FrameMessages(a, b) \/ m.type # "forward"
        /\ e = a => m.type \notin {"proxy", "connected"}
        /\ e = b => m.type \notin {"answer", "result"}
  <2>1. \A m \in FrameMessages(a, b) : m.type = "forward"
    BY DEF FrameMessages
  <2>2. \A t : \A m \in Replies(a, b, t) : m.type = t
    BY DEF Replies
  <2>3. ASSUME NEW e \in End, NEW m \in Gets(a, b, e)
        PROVE  /\ m \in FrameMessages(a, b) \/ m.type # "forward"
               /\ e = a => m.type \notin {"proxy", "connected"}
               /\ e = b => m.type \notin {"answer", "result"}
    BY <1>0, <2>1, <2>2, <2>3 DEF Gets
  <2>4. ASSUME NEW e \in End, NEW m \in Sends(a, b, Other(e))
        PROVE  /\ m \in FrameMessages(a, b) \/ m.type # "forward"
               /\ e = a => m.type \notin {"proxy", "connected"}
               /\ e = b => m.type \notin {"answer", "result"}
    BY <1>0, <2>1, <2>2, <2>4 DEF Sends
  <2>. QED
    BY <2>3, <2>4
<1>5. ASSUME NEW e \in End, NEW x \in Heard(e)
      PROVE  /\ IF EitherRequires(a, b) THEN x.says # "clear" ELSE x.says \in FrameKinds => x.says = "clear"
             /\ e = a => x.says # "ask"
             /\ e = b => x.says # "yes"
  BY <1>1, <1>3, <1>4, <1>5
<1>. QED
  BY <1>0, <1>5 DEF IsFrame

(* a asks. *)
LEMMA AskingKeeps ==
    ASSUME NEW a, NEW b, FlowStep(a, b), NEW e \in End, Proxy(e)
    PROVE  Flow(a, b)'
<1>0. /\ End = {a, b} /\ a # b /\ a \in End /\ b \in End /\ Other(a) = b /\ Other(b) = a /\ TypeOK
      /\ Talk(a, b) /\ Flow(a, b) /\ world.asks[b] = 0 /\ UNCHANGED world
  BY DEF FlowStep, OnlyAsks
<1>1. PICK n \in 1..MaxAsks :
            /\ n <= world.asks[e]
            /\ \A k \in 1..MaxAsks : calls[e][k] = "none" <=> k >= n
            /\ world.again \/ (~Holds(e) /\ \A k \in 1..MaxAsks : calls[e][k] # "sent")
            /\ calls' = [calls EXCEPT ![e][n] = "sent"]
            /\ Tell(e, [type |-> "proxy", link |-> [by |-> e, n |-> n]])
            /\ UNCHANGED <<world, relay, half, peers, asking, down>>
  BY DEF Proxy
<1>2. e = a
  <2>1. ~(n <= 0)
    BY RelayAssumption
  <2>. QED
    BY <1>0, <1>1, <2>1
<1>3. CASE ~world.again
  <2> DEFINE m == [type |-> "proxy", link |-> [by |-> a, n |-> n]]
             x == [says |-> "ask", n |-> n]
             A == Said(Way(a)')
             B == Said(Way(b)')
  <2>1. m \in Msg /\ Say(m) = x /\ x \in Saying
    BY <1>0, Messages DEF Link, Msg, Say, Saying
  <2>2. A = Heard(a) /\ Way(a)' = Way(a)
    BY <1>0, <1>1, <1>2, TellIs, WayStays DEF Heard
  <2>3. /\ B \subseteq Heard(b) \cup {x}
        /\ InOrder(Way(b)) /\ (\A y \in Heard(b) : Precedes(y, x)) => InOrder(Way(b)')
    BY <1>0, <1>1, <1>2, <2>1, WayTold
  <2>4. \A y \in Heard(a) \cup Heard(b) : y \in Saying /\ y.n \in 1..MaxAsks /\ calls[a][y.n] # "none"
    BY <1>0, HeardIs DEF Flow, Numbers, Asked
  <2>5. \A k \in 1..MaxAsks : calls[a][k] # "none" => k < n
    BY <1>1, <1>2, RelayAssumption
  <2>6. \A y \in Heard(a) \cup Heard(b) : y.n < n
    BY <2>4, <2>5
  <2>7. /\ ~Holds(a) /\ half' = half
        /\ \A k \in 1..MaxAsks : calls[a][k] # "sent"
        /\ \A k \in 1..MaxAsks : calls'[a][k] = IF k = n THEN "sent" ELSE calls[a][k]
    BY <1>0, <1>1, <1>2, <1>3 DEF TypeOK
  <2>8. Holds(b) => Of(b) \in 1..MaxAsks /\ calls[a][Of(b)] # "none" /\ Of(b) < n
    BY <1>0, <2>5, HalfStage DEF Flow, Numbers, Asked, Of
  <2>9. InOrder(Way(b)')
    <3>1. \A y \in Heard(b) : Precedes(y, x)
      BY <2>6, HeardWords, <1>0 DEF Precedes, FrameKinds, FlowStep
    <3>. QED
      BY <1>0, <2>3, <3>1 DEF Flow
  <2> HIDE DEF x, m, A, B
  <2>10. x.n = n /\ x.says = "ask" /\ ~IsFrame(x)
    BY DEF x, IsFrame, FrameKinds
  <2>11. Numbers(a, b)'
    <3>1. \A y \in A \cup B : calls'[a][y.n] # "none"
      BY <2>2, <2>3, <2>4, <2>7, <2>10
    <3>2. \A d \in {a, b} : Holds(d)' => calls'[a][Of(d)'] # "none"
      BY <1>0, <2>7, <2>8 DEF Holds, Of
    <3>3. \A k \in 1..MaxAsks : calls'[a][k] = "sent" => Latest(a, k)' /\ ~Holds(a)'
      <4>1. \A k \in 1..MaxAsks : k > n => calls'[a][k] = "none"
        BY <1>1, <1>2, <2>7, RelayAssumption
      <4>. QED
        BY <2>7, <4>1 DEF Latest, Asked, Holds
    <3>. QED
      BY <2>7, <3>1, <3>2, <3>3 DEF Numbers, Asked, Heard, Holds, A, B
  <2>12. AskFirst(a, b)'
    <3>1. AskFirst(a, b)
      BY <1>0 DEF Flow
    <3>. QED
      BY <2>2, <2>3, <2>6, <2>7, <2>8, <2>10, <3>1 DEF AskFirst, Heard, Holds, Of, A, B
  <2>13. SameLink(a, b)'
    BY <1>0, <2>2, <2>3, <2>7, <2>10 DEF Flow, SameLink, Heard, Holds, Of, IsFrame, A, B
  <2>14. Unopened(a, b)'
    <3>1. \A y \in A : calls'[a][y.n] # "sent"
      BY <2>2, <2>4, <2>6, <2>7
    <3>. QED
      BY <3>1 DEF Unopened, Heard, A
  <2>15. Sealing(a, b)'
    BY <1>0, <1>1, <2>2, <2>3, <2>7, <2>10 DEF Flow, Sealing, Heard, Holds, Of, IsFrame, A, B
  <2>. QED
    BY <1>0, <1>1, <2>2, <2>9, <2>11, <2>12, <2>13, <2>14, <2>15 DEF Flow
<1>. QED
  BY <1>3 DEF FlowStep

(* An end sends a frame. *)
LEMMA SendingKeeps ==
    ASSUME NEW a, NEW b, FlowStep(a, b), NEW e \in End, Send(e)
    PROVE  Flow(a, b)'
<1> DEFINE m == Forward(e, half[e].stage)
           x == [says |-> half[e].stage, n |-> Of(e)]
           A == Said(Way(a)')
           B == Said(Way(b)')
<1>0. /\ End = {a, b} /\ a # b /\ a \in End /\ b \in End /\ Other(a) = b /\ Other(b) = a /\ TypeOK
      /\ Talk(a, b) /\ Flow(a, b) /\ OnlyAsks(a, b) /\ UNCHANGED world
  BY DEF FlowStep, OnlyAsks
<1>1. /\ half[e].stage \in {"clear", "sealed"} /\ Tell(e, m)
      /\ UNCHANGED <<world, relay, half, calls, peers, asking, down>>
  BY DEF Send, Announced
<1>2. /\ Holds(e) /\ half[e] \in Halves(a, b, e) /\ Of(e) \in 1..MaxAsks
      /\ half[e].stage = (IF EitherRequires(a, b) THEN "sealed" ELSE "clear")
  <2>1. Holds(e) /\ half[e] \in Halves(a, b, e) /\ Of(e) \in 1..MaxAsks
    BY <1>0, <1>1, HalfStage DEF Of
  <2>2. half[e].stage = (IF EitherRequires(a, b) THEN "sealed" ELSE "clear")
    BY <1>1, <2>1 DEF Halves
  <2>. QED
    BY <2>1, <2>2
<1>3. m \in Msg /\ Say(m) = x /\ x \in Saying /\ IsFrame(x)
  <2>1. m \in FrameMessages(a, b) /\ m.frame.kind = half[e].stage /\ m.frame.link.n = Of(e)
    BY <1>1, <1>2 DEF Forward, FrameMessages, FramesOf, Halves, Of
  <2>2. m \in Msg
    BY <1>1, <1>2, <2>1, HalfStage, <1>0, IsHalf, Messages DEF Msg, Forward, Frames, Half
  <2> HIDE DEF m
  <2>3. LET y == Say(m) IN
        y = [says |-> m.frame.kind, n |-> m.frame.link.n] /\ y \in Saying /\ IsFrame(y)
    BY <2>1, TalkSays
  <2>. QED
    BY <2>1, <2>2, <2>3
<1> HIDE DEF m
<1>4. \A d \in {a, b} : (d # e => down'[d] = down[d] /\ relay'[d] = relay[d]) /\ Other(Other(d)) = d
  BY <1>0, <1>1
<1>5. \A y \in Heard(a) \cup Heard(b) : y \in Saying /\ y.n \in 1..MaxAsks
  BY HeardIs
<1>6. x.says = half[e].stage /\ x.n = Of(e) /\ x.says # "offer" /\ x.says # "ask" /\ x.says # "yes"
  BY <1>1
<1> HIDE DEF x, A, B
<1>7. CASE e = a
  <2>1. A = Heard(a) /\ Way(a)' = Way(a)
    BY <1>0, <1>1, <1>7, TellIs, WayStays DEF Heard, A
  <2>2. /\ B \subseteq Heard(b) \cup {x}
        /\ InOrder(Way(b)) /\ (\A y \in Heard(b) : Precedes(y, x)) => InOrder(Way(b)')
    BY <1>0, <1>1, <1>3, <1>7, WayTold DEF B
  <2>3. \A y \in Heard(b) : y.says # "ask" /\ y.says # "yes"
    BY <1>0, <1>2, <1>7, HeardWords DEF Flow, AskFirst
  <2>4. InOrder(Way(b)')
    <3>1. \A y \in Heard(b) : Precedes(y, x)
      BY <1>6, <2>3 DEF Precedes
    <3>. QED
      BY <1>0, <2>2, <3>1 DEF Flow
  <2>5. Numbers(a, b)'
    BY <1>0, <1>1, <1>2, <1>6, <1>7, <2>1, <2>2 DEF Flow, Numbers, Latest, Asked, Heard, Holds, Of, A, B
  <2>6. AskFirst(a, b)'
    BY <1>6, <2>2, <2>3 DEF AskFirst, Heard, B
  <2>7. SameLink(a, b)'
    BY <1>0, <1>1, <1>2, <1>6, <1>7, <2>1, <2>2 DEF Flow, SameLink, Heard, Holds, Of, IsFrame, A, B
  <2>8. Unopened(a, b)'
    <3>1. \A n \in 1..MaxAsks : calls'[a][n] # "sent"
      BY <1>0, <1>1, <1>2, <1>7 DEF Flow, Numbers
    <3>. QED
      BY <1>5, <2>1, <3>1 DEF Unopened, Heard, A
  <2>9. Sealing(a, b)'
    <3>1. half[b].stage = "waiting" \/ half[b].stage = "sealed" => EitherRequires(a, b)
      BY <1>0, HalfStage DEF Halves
    <3>2. half[b].stage # "waiting"
      BY <1>0, <1>1, <1>2, <1>7 DEF Flow, Sealing
    <3>. QED
      BY <1>0, <1>1, <1>2, <1>6, <1>7, <2>1, <2>2, <3>1, <3>2
         DEF Flow, Sealing, Heard, Holds, Of, IsFrame, A, B
  <2>. QED
    BY <1>0, <1>1, <2>1, <2>4, <2>5, <2>6, <2>7, <2>8, <2>9 DEF Flow
<1>8. CASE e = b
  <2>1. B = Heard(b) /\ Way(b)' = Way(b)
    BY <1>0, <1>1, <1>8, TellIs, WayStays DEF Heard, B
  <2>2. /\ A \subseteq Heard(a) \cup {x} /\ Heard(a) \subseteq A
        /\ InOrder(Way(a)) /\ (\A y \in Heard(a) : Precedes(y, x)) => InOrder(Way(a)')
        /\ Led(Way(a)) /\ (x.says = "sealed" /\ peers = End => Offered(Heard(a))) => Led(Way(a)')
    BY <1>0, <1>1, <1>3, <1>8, WayTold DEF A
  <2>3. \A y \in Heard(a) : y.says # "ask" /\ y.n <= Of(b)
    BY <1>0, <1>2, <1>8, HeardWords DEF Flow, SameLink
  <2>4. InOrder(Way(a)')
    <3>1. \A y \in Heard(a) : Precedes(y, x)
      BY <1>6, <1>8, <2>3 DEF Precedes
    <3>. QED
      BY <1>0, <2>2, <3>1 DEF Flow
  <2>5. Numbers(a, b)'
    BY <1>0, <1>1, <1>2, <1>6, <1>8, <2>1, <2>2 DEF Flow, Numbers, Latest, Asked, Heard, Holds, Of, A, B
  <2>6. AskFirst(a, b)'
    BY <1>0, <1>1, <1>2, <1>6, <1>8, <2>1, <2>2 DEF Flow, AskFirst, Heard, Holds, Of, A, B
  <2>7. SameLink(a, b)'
    <3>1. Of(b) <= Of(b)
      BY <1>2, <1>8
    <3>. QED
      BY <1>0, <1>1, <1>2, <1>6, <1>8, <2>1, <2>2, <3>1 DEF Flow, SameLink, Heard, Holds, Of, IsFrame, A, B
  <2>8. Unopened(a, b)'
    <3>1. \A y \in Heard(a) : y.says = "yes" /\ calls[a][y.n] = "sent" /\ EitherRequires(a, b) => Of(b) # y.n
      BY <1>0, <1>2, <1>8 DEF Flow, Unopened
    <3>2. EitherRequires(a, b)' = EitherRequires(a, b)
      BY <1>0 DEF EitherRequires, Requires
    <3>. QED
      BY <1>0, <1>1, <1>6, <1>8, <2>1, <2>2, <3>1, <3>2
         DEF Flow, Unopened, Heard, Holds, Of, IsFrame, A, B
  <2>9. Sealing(a, b)'
    <3>1. half[a].stage \in {"offered", "sealed"} => EitherRequires(a, b)
      BY <1>0, HalfStage DEF Halves
    <3>2. half[a].stage = "offered" => Led(Way(a)')
      BY <1>0, <1>2, <1>6, <1>8, <2>2, <3>1 DEF Flow, Sealing
    <3>3. Offered(Heard(a)) => Offered(A)
      BY <2>2 DEF Offered
    <3>. QED
      BY <1>0, <1>1, <1>2, <1>6, <1>8, <2>1, <2>2, <3>1, <3>2, <3>3
         DEF Flow, Sealing, Heard, Holds, Of, IsFrame, A, B
  <2>. QED
    BY <1>0, <1>1, <2>1, <2>4, <2>5, <2>6, <2>7, <2>8, <2>9 DEF Flow
<1>. QED
  BY <1>0, <1>7, <1>8

(* a reads that its call is granted, and sets up its half. *)
LEMMA GrantedKeeps ==
    ASSUME NEW a, NEW b, FlowStep(a, b), NEW e \in End, ReceiveResult(e)
    PROVE  Flow(a, b)'
<1> DEFINE m == Head(down[e])
           n == m.link.n
           e2e == NeedsE2E(e, m.e2e)
           offer == [type |-> "forward", frame |-> [kind |-> "offer", link |-> m.link]]
           yes == [says |-> "yes", n |-> n]
           x == [says |-> "offer", n |-> n]
           A == Said(Way(a)')
           B == Said(Way(b)')
<1>0. /\ End = {a, b} /\ a # b /\ a \in End /\ b \in End /\ Other(a) = b /\ Other(b) = a /\ TypeOK
      /\ Talk(a, b) /\ Flow(a, b) /\ OnlyAsks(a, b) /\ UNCHANGED world
  BY DEF FlowStep, OnlyAsks
<1>1. /\ relay[e] /\ down[e] # <<>> /\ m.type = "result" /\ Taken(e)
      /\ UNCHANGED <<world, relay, peers, asking>>
  BY DEF ReceiveResult, Take
<1>2. /\ e = a /\ m.link \in Links(a) /\ n \in 1..MaxAsks /\ m.ok \in BOOLEAN
      /\ m.e2e = (m.ok /\ EitherRequires(a, b)) /\ m \in FromRelay
  <2>1. m \in Gets(a, b, e) /\ m \in FromRelay
    BY <1>0, <1>1, TalkTaken, TakenTyped
  <2>2. e = a /\ m.link \in Links(a) /\ m.ok \in BOOLEAN /\ m.e2e = (m.ok /\ EitherRequires(a, b))
    BY <1>0, <1>1, <2>1, TalkParts
  <2>. QED
    BY <2>1, <2>2 DEF Links
<1>3. Say(m).says # "offer" /\ (m.ok => Say(m) = yes /\ yes \in Saying)
  BY <1>1, <1>2 DEF Say, Saying
<1>4. CASE ~(calls[e][n] = "sent" /\ m.ok /\ ~Holds(e))
  <2>1. /\ calls' = [calls EXCEPT ![e][n] = IF @ = "sent" THEN "rejected" ELSE @]
        /\ UNCHANGED <<half, up>>
    BY <1>4 DEF ReceiveResult
  <2>2. \A k \in 1..MaxAsks :
                \/ calls'[a][k] = calls[a][k]
                \/ calls[a][k] # "none" /\ calls'[a][k] \notin {"none", "sent"}
    BY <1>0, <1>2, <2>1 DEF TypeOK
  <2>3. \A y \in End : half'[y] = half[y]
    BY <2>1
  <2>4. EndReads(e, m)
    BY <1>0, <1>1, Reading
  <2>. QED
    BY <1>1, <1>3, <2>1, <2>2, <2>3, <2>4, ReadKeeps
<1>5. CASE calls[e][n] = "sent" /\ m.ok /\ ~Holds(e)
  <2>1. e2e = EitherRequires(a, b) /\ e2e \in BOOLEAN
    BY <1>2, <1>5 DEF NeedsE2E, EitherRequires, Requires
  <2> DEFINE h == [link |-> m.link, outbound |-> TRUE, required |-> e2e,
                   stage |-> IF e2e THEN "offered" ELSE "clear"]
  <2>2. /\ half' = [half EXCEPT ![a] = h]
        /\ calls' = [calls EXCEPT ![a][n] = IF e2e THEN "linking" ELSE "resolved"]
        /\ IF e2e THEN Tell(a, offer) ELSE UNCHANGED up
    BY <1>2, <1>5 DEF ReceiveResult
  <2>3. offer \in Msg /\ Say(offer) = x /\ x \in Saying /\ IsFrame(x)
    <3>1. m.link \in Link
      BY <1>1, <1>2, MessageParts
    <3>2. offer \in Msg
      BY <3>1, Messages DEF Frames, Msg
    <3>. QED
      BY <1>2, <3>2 DEF Say, Saying, IsFrame, FrameKinds
  <2>4. /\ Narrower(Way(a)', Way(a)) /\ yes \in Heard(a)
        /\ \A y \in A : Precedes(yes, y)
    <3>1. up'[b] = up[b]
      BY <1>0, <2>2, TellIs
    <3>2. LET y == Say(m) IN
           /\ Narrower(Way(a)', Way(a))
           /\ y.says # "offer" => NoMore(a)
           /\ y \in Saying => y \in Heard(a)
           /\ InOrder(Way(a)) => \A z \in Said(Way(a)') : y \in Saying => Precedes(y, z)
           /\ Led(Way(a)) => y \notin Saying \/ y.says # "sealed"
      BY <1>0, <1>1, <1>2, <3>1, Reading, WayRead
    <3>3. InOrder(Way(a)) /\ Say(m) = yes /\ yes \in Saying
      BY <1>0, <1>2, <1>3, <1>5 DEF Flow
    <3>. QED
      BY <3>2, <3>3
  <2>5. A \subseteq Heard(a) /\ InOrder(Way(a)')
    BY <1>0, <2>4 DEF Narrower, Flow, Heard
  <2>6. /\ B \subseteq Heard(b) \cup {x}
        /\ ~e2e => B = Heard(b)
        /\ (e2e => \A y \in Heard(b) : Precedes(y, x)) => InOrder(Way(b)')
    <3>1. down'[b] = down[b]
      BY <1>0, <1>1, <1>2, TakenIs
    <3>2. CASE e2e
      BY <1>0, <1>1, <2>2, <2>3, <3>1, <3>2, WayTold DEF Flow
    <3>3. CASE ~e2e
      <4>1. Way(b)' = Way(b)
        BY <1>0, <1>1, <2>2, <3>1, <3>3, WayStays
      <4>. QED
        BY <1>0, <4>1 DEF Flow, Heard
    <3>. QED
      BY <2>1, <3>2, <3>3
  <2>7. \A y \in Heard(a) \cup Heard(b) : y \in Saying /\ y.n \in 1..MaxAsks /\ calls[a][y.n] # "none"
    BY <1>0, HeardIs DEF Flow, Numbers, Asked
  <2>8. h.link.n = n /\ h # NoHalf /\ h.stage = (IF e2e THEN "offered" ELSE "clear")
    BY <2>1 DEF NoHalf
  <2>9. half'[a] = h /\ half'[b] = half[b]
    BY <1>0, <2>2 DEF TypeOK
  <2>10. \A k \in 1..MaxAsks :
            calls'[a][k] = IF k = n THEN (IF e2e THEN "linking" ELSE "resolved") ELSE calls[a][k]
    BY <1>0, <1>2, <2>2 DEF TypeOK
  <2>11. yes.says = "yes" /\ yes.n = n /\ x.says = "offer" /\ x.n = n /\ yes \in Saying
    BY <1>3, <1>5
  <2>12. calls[a][n] = "sent" /\ ~Holds(a)
    BY <1>2, <1>5
  <2> HIDE DEF x, yes, m, n, h, e2e, offer, A, B
  <2>13. /\ \A k \in 1..MaxAsks : k > n => calls[a][k] = "none"
         /\ \A k \in 1..MaxAsks : k # n => calls[a][k] # "sent"
         /\ \A k \in 1..MaxAsks : calls[a][k] # "none" => k <= n
    <3>1. \A k \in 1..MaxAsks : k > n => calls[a][k] = "none"
      BY <1>0, <1>2, <2>12 DEF Flow, Numbers, Latest, Asked
    <3>2. \A k \in 1..MaxAsks : calls[a][k] # "none" => k <= n
      BY <1>2, <3>1, RelayAssumption
    <3>3. \A k \in 1..MaxAsks : calls[a][k] = "sent" => Latest(a, k)
      BY <1>0 DEF Flow, Numbers
    <3>4. \A k \in 1..MaxAsks : k < n => calls[a][k] # "sent"
      BY <1>2, <2>12, <3>3 DEF Latest, Asked
    <3>. QED
      BY <1>2, <3>1, <3>2, <3>4, RelayAssumption
  <2>14. \A y \in Heard(b) : y.says # "ask" /\ y.says # "yes" /\ (IsFrame(y) => y.n # n)
    <3>1. \A y \in Heard(b) : y.n <= n
      BY <2>7, <2>13
    <3>2. \A y \in Heard(b) : y.says = "ask" => n < y.n
      BY <1>0, <2>4, <2>11 DEF Flow, AskFirst
    <3>3. \A y \in Heard(b) : IsFrame(y) => y.n # n
      BY <1>0, <2>4, <2>11, <2>12 DEF Flow, Unopened
    <3>4. \A y \in Heard(b) : y.says # "yes"
      BY <1>0, HeardWords
    <3>5. \A y \in Heard(b) : ~(y.n <= n /\ n < y.n)
      BY <1>2, <2>7
    <3>. QED
      BY <3>1, <3>2, <3>3, <3>4, <3>5
  <2>15. InOrder(Way(b)')
    <3>1. \A y \in Heard(b) : Precedes(y, x)
      BY <2>11, <2>14 DEF Precedes, IsFrame
    <3>. QED
      BY <2>6, <3>1
  <2>16. /\ Holds(b) => Of(b) = n /\ half[b].stage # "sealed"
         /\ \A y \in A : IsFrame(y) => y.n = n
    <3>1. Holds(b) => Of(b) \in 1..MaxAsks /\ n <= Of(b) /\ Of(b) <= n
      BY <1>0, <2>4, <2>11, <2>13, HalfStage DEF Flow, SameLink, Numbers, Asked, Of
    <3>2. Holds(b) => Of(b) = n
      BY <1>2, <3>1
    <3>3. Holds(b) => half[b].stage # "sealed"
      BY <1>0, <2>4, <2>11, <2>12, <3>2 DEF Flow, Unopened
    <3>4. \A y \in A : IsFrame(y) => n <= y.n /\ y.n <= n
      BY <2>4, <2>5, <2>7, <2>11, <2>13 DEF Precedes, IsFrame
    <3>5. \A y \in A : y.n \in 1..MaxAsks
      BY <2>5, <2>7
    <3>. QED
      BY <1>2, <3>2, <3>3, <3>4, <3>5
  <2>17. EitherRequires(a, b) => \A y \in A : ~IsFrame(y)
    BY <1>0, <2>4, <2>5, <2>11, <2>12, <2>16 DEF Flow, Unopened
  <2>18. Numbers(a, b)'
    <3>1. \A y \in A \cup B : calls'[a][y.n] # "none"
      BY <1>2, <2>5, <2>6, <2>7, <2>10, <2>11
    <3>2. \A d \in {a, b} : Holds(d)' => calls'[a][Of(d)'] # "none"
      BY <1>0, <1>2, <2>8, <2>9, <2>10, <2>16 DEF Holds, Of
    <3>3. \A k \in 1..MaxAsks : calls'[a][k] # "sent"
      BY <2>10, <2>13
    <3>4. Latest(a, Of(a))'
      BY <1>2, <2>8, <2>9, <2>10, <2>13, RelayAssumption DEF Latest, Of, Asked
    <3>. QED
      BY <3>1, <3>2, <3>3, <3>4 DEF Numbers, Asked, Heard, Holds, A, B
  <2>19. AskFirst(a, b)'
    BY <2>6, <2>11, <2>14 DEF AskFirst, Heard, B
  <2>20. SameLink(a, b)'
    <3>1. \A y \in B : IsFrame(y) /\ Holds(b) => y.n = Of(b)
      BY <1>0, <2>6, <2>11, <2>16 DEF Flow, SameLink
    <3>. QED
      BY <1>0, <2>5, <2>8, <2>9, <2>16, <3>1 DEF Flow, SameLink, Heard, Holds, Of, A, B, IsFrame
  <2>21. Unopened(a, b)'
    <3>1. \A k \in 1..MaxAsks : calls'[a][k] # "sent"
      BY <2>10, <2>13
    <3>2. \A y \in A : y.n \in 1..MaxAsks
      BY <2>5, <2>7
    <3>. QED
      BY <3>1, <3>2 DEF Unopened, Heard, A
  <2>22. Sealing(a, b)'
    <3>1. half[b].stage = "waiting" => e2e
      BY <1>0, <2>1, HalfStage DEF Halves
    <3>2. half[b].stage # "sealed"
      BY <1>0, <2>16, HalfStage
    <3>3. e2e => Led(Way(a)')
      BY <2>1, <2>17 DEF Led, A, Said, IsFrame, FrameKinds
    <3>. QED
      BY <1>0, <1>1, <2>1, <2>5, <2>6, <2>8, <2>9, <2>11, <2>16, <2>17, <3>1, <3>2, <3>3
         DEF Flow, Sealing, Heard, Holds, Of, IsFrame, A, B
  <2>. QED
    BY <1>0, <1>1, <2>5, <2>15, <2>18, <2>19, <2>20, <2>21, <2>22 DEF Flow
<1>. QED
  BY <1>4, <1>5

(* b reads that it is asked, and sets up its half. *)
LEMMA AskedKeeps ==
    ASSUME NEW a, NEW b, FlowStep(a, b), NEW e \in End, ReceiveConnected(e)
    PROVE  Flow(a, b)'
<1> DEFINE m == Head(down[e])
           n == m.link.n
           e2e == NeedsE2E(e, m.e2e)
           ok == ~Holds(e) /\ e \in world.accepts
           answer == [type |-> "answer", link |-> m.link, ok |-> ok, e2e |-> ok /\ e2e]
           ask == [says |-> "ask", n |-> n]
           x == [says |-> "yes", n |-> n]
           A == Said(Way(a)')
           B == Said(Way(b)')
           h == [link |-> m.link, outbound |-> FALSE, required |-> e2e,
                 stage |-> IF e2e THEN "waiting" ELSE "clear"]
<1>0. /\ End = {a, b} /\ a # b /\ a \in End /\ b \in End /\ Other(a) = b /\ Other(b) = a /\ TypeOK
      /\ Talk(a, b) /\ Flow(a, b) /\ OnlyAsks(a, b) /\ UNCHANGED world
  BY DEF FlowStep, OnlyAsks
<1>1. /\ relay[e] /\ down[e] # <<>> /\ m.type = "connected" /\ Taken(e) /\ Tell(e, answer)
      /\ half' = [half EXCEPT ![e] = IF ~ok THEN @ ELSE h]
      /\ UNCHANGED <<world, relay, calls, peers, asking>>
  BY DEF ReceiveConnected, Take
<1>2. e = b /\ m.link \in Links(a) /\ n \in 1..MaxAsks /\ m.e2e = Requires(a) /\ m \in FromRelay
  <2>1. m \in Gets(a, b, e) /\ m \in FromRelay
    BY <1>0, <1>1, TalkTaken, TakenTyped
  <2>2. e = b /\ m.link \in Links(a) /\ m.e2e = Requires(a)
    BY <1>0, <1>1, <2>1, TalkParts
  <2>. QED
    BY <2>1, <2>2 DEF Links
<1>3. Say(m) = ask /\ ask \in Saying /\ ask.says # "offer"
  BY <1>1, <1>2 DEF Say, Saying
<1>4. e2e = EitherRequires(a, b) /\ e2e \in BOOLEAN /\ ok \in BOOLEAN
  BY <1>2 DEF NeedsE2E, EitherRequires, Requires
<1>5. answer \in Msg
  <2>1. m.link \in Link
    BY <1>1, <1>2, MessageParts
  <2> HIDE DEF m, e2e, ok
  <2>. QED
    BY <1>4, <2>1, Messages DEF Msg
<1>6. CASE ~ok
  <2>1. Say(answer).says = "nothing"
    BY <1>2, <1>6 DEF Say
  <2>2. \A y \in End : half'[y] = half[y]
    BY <1>1, <1>2, <1>6 DEF FlowStep, TypeOK
  <2>3. \A k \in 1..MaxAsks : calls'[a][k] = calls[a][k]
    BY <1>1
  <2>4. EndReads(e, m)
    BY <1>0, <1>1, Reading
  <2> HIDE DEF answer, ask
  <2>. QED
    BY <1>1, <1>3, <1>5, <2>1, <2>2, <2>3, <2>4, ReadKeeps
<1>7. CASE ok
  <2>1. Say(answer) = x /\ x \in Saying
    BY <1>2, <1>7 DEF Say, Saying
  <2>2. Tell(b, answer) /\ half'[b] = h /\ half'[a] = half[a] /\ ~Holds(b)
    BY <1>0, <1>1, <1>2, <1>7 DEF TypeOK
  <2>3. h # NoHalf /\ h.link.n = n /\ h.stage = (IF e2e THEN "waiting" ELSE "clear")
    BY <1>4 DEF NoHalf
  <2>4. /\ Narrower(Way(b)', Way(b)) /\ ask \in Heard(b)
        /\ \A y \in B : Precedes(ask, y)
    <3>1. up'[a] = up[a]
      BY <1>0, <2>2, TellIs
    <3>2. LET y == Say(m) IN
           /\ Narrower(Way(b)', Way(b))
           /\ y.says # "offer" => NoMore(b)
           /\ y \in Saying => y \in Heard(b)
           /\ InOrder(Way(b)) => \A z \in Said(Way(b)') : y \in Saying => Precedes(y, z)
           /\ Led(Way(b)) => y \notin Saying \/ y.says # "sealed"
      BY <1>0, <1>1, <1>2, <3>1, Reading, WayRead
    <3>3. InOrder(Way(b)) /\ Say(m) = ask /\ ask \in Saying
      BY <1>0, <1>2, <1>3 DEF Flow
    <3>. QED
      BY <3>2, <3>3
  <2>5. B \subseteq Heard(b) /\ InOrder(Way(b)')
    BY <1>0, <2>4 DEF Narrower, Flow, Heard
  <2>6. /\ A \subseteq Heard(a) \cup {x}
        /\ (\A y \in Heard(a) : Precedes(y, x)) => InOrder(Way(a)')
    <3>1. down'[a] = down[a]
      BY <1>0, <1>1, <1>2, TakenIs
    <3>. QED
      BY <1>0, <1>1, <1>5, <2>1, <2>2, <3>1, WayTold DEF Flow
  <2>7. \A y \in Heard(a) \cup Heard(b) : y \in Saying /\ y.n \in 1..MaxAsks /\ calls[a][y.n] # "none"
    BY <1>0, HeardIs DEF Flow, Numbers, Asked
  <2>8. ask.says = "ask" /\ ask.n = n /\ x.says = "yes" /\ x.n = n /\ ~IsFrame(x)
    BY DEF IsFrame, FrameKinds
  <2> HIDE DEF ask, x, m, n, h, e2e, ok, answer, A, B
  <2>9. ~Holds(a) /\ \A y \in Heard(a) : y.n < n
    BY <1>0, <2>4, <2>8 DEF Flow, AskFirst
  <2>10. /\ \A y \in B : ~IsFrame(y) /\ (y.says = "ask" => n < y.n)
         /\ ask \in Saying
    BY <1>3, <2>4, <2>5, <2>7, <2>8 DEF Precedes, IsFrame
  <2>11. InOrder(Way(a)')
    <3>1. \A y \in Heard(a) : Precedes(y, x)
      <4>1. \A y \in Heard(a) : y.says # "ask"
        BY <1>0, HeardWords
      <4>. QED
        BY <2>8, <2>9, <4>1 DEF Precedes, FrameKinds
    <3>. QED
      BY <2>6, <3>1
  <2>12. calls[a][n] # "none" /\ calls' = calls /\ ~Holds(a)' /\ Holds(b)' /\ Of(b)' = n
    BY <1>1, <2>2, <2>3, <2>4, <2>7, <2>8, <2>9 DEF Holds, Of
  <2>13. Numbers(a, b)'
    <3>1. \A y \in A \cup B : calls'[a][y.n] # "none"
      BY <2>5, <2>6, <2>7, <2>8, <2>12
    <3>2. \A k \in 1..MaxAsks : calls'[a][k] = "sent" => Latest(a, k)'
      BY <1>0, <2>12 DEF Flow, Numbers, Latest, Asked
    <3>. QED
      BY <2>12, <3>1, <3>2 DEF Numbers, Asked, Heard, A, B
  <2>14. AskFirst(a, b)'
    <3>1. ASSUME NEW z \in B, z.says = "ask"
          PROVE  \A y \in A : y.n < z.n
      <4>1. n < z.n /\ z.n \in 1..MaxAsks
        BY <2>5, <2>7, <2>10, <3>1
      <4>2. \A y \in Heard(a) : y.n < n /\ y.n \in 1..MaxAsks
        BY <2>7, <2>9
      <4>3. \A y \in Heard(a) : y.n < z.n
        BY <1>2, <4>1, <4>2 DEF n, m
      <4>. QED
        BY <2>6, <2>8, <4>1, <4>3
    <3>. QED
      BY <2>10, <2>12, <3>1 DEF AskFirst, Heard, A, B
  <2>15. SameLink(a, b)'
    <3>1. \A y \in A : y.n <= n
      <4>1. n <= n
        BY <1>2 DEF n, m
      <4>2. \A y \in Heard(a) : y.n <= n
        BY <1>2, <2>7, <2>9 DEF n, m
      <4>. QED
        BY <2>6, <2>8, <4>1, <4>2
    <3>. QED
      BY <2>10, <2>12, <3>1 DEF SameLink, Heard, IsFrame, A, B
  <2>16. Unopened(a, b)'
    <3>1. \A y \in A : /\ \A z \in B : IsFrame(z) => z.n # y.n
                       /\ Of(b)' = y.n => half'[b].stage # "sealed"
      BY <2>2, <2>3, <2>10
    <3>2. \A y \in A, z \in A : y.says = "yes" /\ calls[a][y.n] = "sent" /\ IsFrame(z)
                /\ EitherRequires(a, b) => z.n # y.n
      <4>1. \A z \in A : IsFrame(z) => z \in Heard(a) /\ z.n # n
        BY <1>2, <2>6, <2>7, <2>8, <2>9 DEF n, m
      <4>2. \A y \in A : y \in Heard(a) \/ y.n = n
        BY <2>6, <2>8
      <4>3. \A y \in Heard(a), z \in Heard(a) : y.says = "yes" /\ calls[a][y.n] = "sent" /\ IsFrame(z)
                /\ EitherRequires(a, b) => z.n # y.n
        BY <1>0 DEF Flow, Unopened
      <4>. QED
        BY <4>1, <4>2, <4>3
    <3>3. EitherRequires(a, b)' = EitherRequires(a, b)
      BY <1>0 DEF EitherRequires, Requires
    <3>. QED
      BY <2>12, <3>1, <3>2, <3>3 DEF Unopened, Heard, IsFrame, A, B
  <2>17. Sealing(a, b)'
    <3>1. \A y \in A : IsFrame(y) => y.n # n
      BY <1>2, <2>6, <2>7, <2>8, <2>9 DEF n, m
    <3>2. half'[b].stage # "sealed" /\ half'[a].stage \notin {"offered", "sealed"}
      BY <1>0, <2>2, <2>3, <2>9, HalfStage
    <3>. QED
      BY <2>10, <2>12, <3>1, <3>2 DEF Sealing, Heard, IsFrame, A, B
  <2>. QED
    BY <1>0, <1>1, <2>5, <2>11, <2>13, <2>14, <2>15, <2>16, <2>17 DEF Flow
<1>. QED
  BY <1>4, <1>6, <1>7

(* An offer is taken, and answered by b. *)
LEMMA OfferKeeps ==
    ASSUME NEW a, NEW b, FlowStep(a, b), NEW e \in End, relay[e], Holds(e), NEW m, EndReads(e, m),
           m.type = "forward", m.frame.kind = "offer", OfferIn(e),
           UNCHANGED <<relay, peers, asking>>
    PROVE  Flow(a, b)'
<1> DEFINE f == m.frame
           n == Of(e)
           x == [says |-> "offer", n |-> n]
           A == Said(Way(a)')
           B == Said(Way(b)')
           h == [half[e] EXCEPT !.stage = "sealed"]
<1>0. /\ End = {a, b} /\ a # b /\ a \in End /\ b \in End /\ Other(a) = b /\ Other(b) = a /\ TypeOK
      /\ Talk(a, b) /\ Flow(a, b) /\ OnlyAsks(a, b) /\ UNCHANGED world /\ RelayInv
  BY DEF FlowStep, OnlyAsks
<1>1. /\ f \in FramesOf(a, b) /\ f.link = half[e].link /\ ~Unreadable(e, f) /\ x \in Heard(e)
      /\ m \in FrameMessages(a, b)
  <2>0. PICK r : Reads(down[e], m, r)
    BY DEF EndReads
  <2>1. LET g == m.frame IN
           /\ g \in FramesOf(a, b) /\ g.link = half[e].link /\ ~Unreadable(e, g)
           /\ [says |-> g.kind, n |-> Of(e)] \in Heard(e)
    BY <1>0, <2>0, FrameFits
  <2>2. m \in FrameMessages(a, b)
    BY <1>0, TalkReads, TalkParts
  <2>. QED
    BY <2>1, <2>2
<1>2. EitherRequires(a, b) /\ half[e] \in Halves(a, b, e) /\ n \in 1..MaxAsks
  BY <1>0, <1>1, HalfStage DEF FramesOf, Of
<1>3. half[e].stage = (IF e = a THEN "offered" ELSE "waiting")
  <2>1. half[e].stage # "sealed"
    BY <1>1 DEF Unreadable
  <2>. QED
    BY <1>2, <2>1 DEF Halves
<1>4. Say(m) = x /\ x \in Saying /\ IsFrame(x)
  <2>1. LET y == Say(m) IN
        y = [says |-> m.frame.kind, n |-> m.frame.link.n] /\ y \in Saying /\ IsFrame(y)
    BY ZenonT(40), <1>1, TalkSays
  <2>. QED
    BY <1>1, <2>1 DEF Of
<1>5. /\ half'[e] = h /\ \A y \in End : y # e => half'[y] = half[y]
      /\ h # NoHalf /\ h.link.n = n /\ h.stage = "sealed"
      /\ \A k \in 1..MaxAsks : /\ calls'[a][k] = "sent" <=> calls[a][k] = "sent"
                               /\ calls'[a][k] # "none" <=> calls[a][k] # "none"
  <2>1. half' = [half EXCEPT ![e] = h]
        /\ calls' = [calls EXCEPT ![e] = [k \in 1..MaxAsks |-> IF @[k] = "linking" THEN "resolved" ELSE @[k]]]
    BY DEF OfferIn
  <2>2. h # NoHalf /\ h.link.n = n /\ h.stage = "sealed"
    BY <1>2 DEF Halves, NoHalf, Of
  <2> HIDE DEF h
  <2>. QED
    BY <1>0, <2>1, <2>2 DEF TypeOK
<1>6. LET y == Say(m) IN
           /\ Narrower(Way(e)', Way(e))
           /\ y.says # "offer" => NoMore(e)
           /\ y \in Saying => y \in Heard(e)
           /\ InOrder(Way(e)) => \A z \in Said(Way(e)') : y \in Saying => Precedes(y, z)
           /\ Led(Way(e)) => y \notin Saying \/ y.says # "sealed"
  <2>1. up'[Other(e)] = up[Other(e)]
    BY <1>0, TellIs DEF OfferIn
  <2>. QED
    BY <1>0, <2>1, WayRead
<1>7. \A y \in Heard(a) \cup Heard(b) : y \in Saying /\ y.n \in 1..MaxAsks /\ calls[a][y.n] # "none"
  BY <1>0, HeardIs DEF Flow, Numbers, Asked
<1>8. /\ Said(Way(e)') \subseteq Heard(e) /\ InOrder(Way(e)')
      /\ \A y \in Said(Way(e)') : Precedes(x, y)
  BY <1>0, <1>4, <1>6 DEF Narrower, Heard, Flow
<1>9. x.says = "offer" /\ x.n = n
  OBVIOUS
<1> HIDE DEF x, A, B, h, n
<1>10. \A y \in Said(Way(e)') : IsFrame(y) => y.n = n /\ y.says = "sealed"
  <2>1. \A y \in Heard(e) : IsFrame(y) => y.n = n
    BY <1>0 DEF Flow, SameLink, n
  <2>2. \A y \in Said(Way(e)') : IsFrame(y) => y.says # "offer"
    BY <1>0, <1>4, <1>7, <1>8, <1>9, <2>1 DEF Precedes, IsFrame
  <2>3. \A y \in Heard(e) : IsFrame(y) => y.says # "clear"
    BY <1>0, <1>2, HeardWords
  <2>. QED
    BY <1>8, <2>1, <2>2, <2>3 DEF IsFrame, FrameKinds
<1>11. CASE e = a
  <2>1. B = Heard(b) /\ Way(b)' = Way(b)
    <3>1. down'[b] = down[b] /\ UNCHANGED up
      BY <1>0, <1>3, <1>11, TakenIs DEF OfferIn
    <3>. QED
      BY <1>0, <3>1, WayStays DEF Heard, B
  <2>2. A \subseteq Heard(a) /\ InOrder(Way(a)') /\ \A y \in A : IsFrame(y) => y.n = n /\ y.says = "sealed"
    BY <1>8, <1>10, <1>11 DEF A
  <2>3. half[b].stage # "waiting"
    <3>1. Holds(b) => Of(b) = n
      BY <1>0, <1>11 DEF Flow, SameLink, n
    <3>. QED
      BY <1>0, <1>1, <1>4, <1>9, <1>11, <3>1, HalfStage DEF Flow, Sealing
  <2>4. Numbers(a, b)'
    <3>1. \A y \in A \cup B : calls'[a][y.n] # "none"
      BY <1>5, <1>7, <2>1, <2>2
    <3>2. calls[a][n] # "none" /\ Latest(a, n) /\ \A k \in 1..MaxAsks : calls[a][k] # "sent"
      BY <1>0, <1>11 DEF Flow, Numbers, Asked, n
    <3>3. /\ calls'[a][n] # "none"
          /\ \A k \in 1..MaxAsks : calls'[a][k] # "sent" /\ (k > n => calls'[a][k] = "none")
      BY <1>2, <1>5, <3>2 DEF Latest, Asked
    <3>4. Of(a)' = n
      BY <1>5, <1>11 DEF Of
    <3>5. (half'[b] # NoHalf) => calls'[a][half'[b].link.n] # "none"
      BY <1>0, <1>5, <1>11, HalfStage DEF Flow, Numbers, Asked, Holds, Of
    <3>6. Latest(a, Of(a))'
      BY <3>3, <3>4 DEF Latest, Asked
    <3>. QED
      BY <3>1, <3>3, <3>4, <3>5, <3>6 DEF Numbers, Asked, Heard, Holds, Of, A, B
  <2>5. AskFirst(a, b)'
    BY <1>0, <1>5, <1>11, <2>1, <2>2 DEF Flow, AskFirst, Heard, Holds, Of, A, B
  <2>6. SameLink(a, b)'
    BY <1>0, <1>5, <1>11, <2>1, <2>2 DEF Flow, SameLink, Heard, Holds, Of, IsFrame, A, B, n
  <2>7. Unopened(a, b)'
    <3>1. \A k \in 1..MaxAsks : calls'[a][k] # "sent"
      BY <1>0, <1>5, <1>11 DEF Flow, Numbers
    <3>. QED
      BY <1>7, <2>2, <3>1 DEF Unopened, Heard, A
  <2>8. Sealing(a, b)'
    BY <1>0, <1>5, <1>11, <2>1, <2>2, <2>3 DEF Flow, Sealing, Heard, Holds, Of, IsFrame, A, B
  <2>. QED
    BY <1>0, <2>1, <2>2, <2>4, <2>5, <2>6, <2>7, <2>8 DEF Flow
<1>12. CASE e = b
  <2>1. B \subseteq Heard(b) /\ InOrder(Way(b)') /\ \A y \in B : IsFrame(y) => y.n = n /\ y.says = "sealed"
    BY <1>8, <1>10, <1>12 DEF B
  <2>2. /\ A \subseteq Heard(a) \cup {x} /\ Heard(a) \subseteq A
        /\ (\A y \in Heard(a) : Precedes(y, x)) => InOrder(Way(a)')
        /\ Led(Way(a)) => Led(Way(a)')
        /\ relay[a] /\ peers = End => x \in A
    <3> DEFINE o == Forward(b, "offer")
    <3>1. Tell(b, o) /\ down'[a] = down[a]
      BY <1>0, <1>3, <1>12, TakenIs DEF OfferIn
    <3>2. o \in Msg /\ Say(o) = x
      <4>1. half[b].link \in Link
        BY <1>0, <1>12, IsHalf DEF Half
      <4>2. o \in Msg
        BY <4>1, Messages DEF Forward, Frames, Msg
      <4>3. Say(o) = x
        BY <1>12 DEF Forward, Say, x, n, Of
      <4>. QED
        BY <4>2, <4>3
    <3> HIDE DEF o
    <3>3. LET y == Say(o) IN
           /\ Heard(a) \subseteq Said(Way(a)') /\ Said(Way(a)') \subseteq Heard(a) \cup {y}
           /\ y.says = "nothing" => NoMore(a)
           /\ InOrder(Way(a)) /\ (\A z \in Heard(a) : Precedes(z, y)) => InOrder(Way(a)')
           /\ Led(Way(a)) /\ (y.says = "sealed" /\ peers = End => Offered(Heard(a))) => Led(Way(a)')
           /\ relay[a] /\ peers = End /\ y \in Saying => y \in Said(Way(a)')
      BY <1>0, <3>1, <3>2, WayTold
    <3>4. InOrder(Way(a)) /\ x.says # "sealed" /\ x \in Saying
      BY <1>0, <1>4, <1>9 DEF Flow
    <3>. QED
      BY <3>2, <3>3, <3>4 DEF A
  <2>3. \A y \in Heard(a) : y.says # "ask" /\ y.n <= n /\ (IsFrame(y) => y.n # n)
    <3>1. \A y \in Heard(a) : y.says # "ask"
      BY <1>0, HeardWords
    <3>. QED
      BY <1>0, <1>3, <1>12, <3>1 DEF Flow, SameLink, Sealing, n
  <2>4. InOrder(Way(a)')
    <3>1. \A y \in Heard(a) : Precedes(y, x)
      BY <1>9, <2>3 DEF Precedes, IsFrame
    <3>. QED
      BY <2>2, <3>1
  <2>5. Holds(a) => half[a].stage = "offered" /\ Of(a) = n
    BY <1>0, <1>3, <1>12 DEF Flow, Sealing, SameLink, n
  <2>6. Numbers(a, b)'
    <3>1. calls'[a][n] # "none"
      BY <1>0, <1>2, <1>5, <1>12 DEF Flow, Numbers, Asked, n
    <3>2. \A y \in A \cup B : calls'[a][y.n] # "none"
      BY <1>5, <1>7, <1>9, <2>1, <2>2, <3>1
    <3>3. half'[a] = half[a] /\ Of(b)' = n
      BY <1>0, <1>5, <1>12 DEF Of
    <3>4. (half'[a] # NoHalf) => calls'[a][half'[a].link.n] # "none" /\ Latest(a, Of(a))'
      BY <1>0, <1>5, <3>3, HalfStage DEF Flow, Numbers, Latest, Asked, Holds, Of
    <3>5. \A k \in 1..MaxAsks : calls'[a][k] = "sent" => Latest(a, k)' /\ half'[a] = NoHalf
      BY <1>0, <1>5, <3>3 DEF Flow, Numbers, Latest, Asked, Holds
    <3>. QED
      BY <3>1, <3>2, <3>3, <3>4, <3>5 DEF Numbers, Asked, Heard, Holds, Of, A, B
  <2>7. AskFirst(a, b)'
    <3>1. \A z \in Heard(b) : z.says = "ask" => n < z.n
      BY <1>0, <1>12 DEF Flow, AskFirst, n
    <3>. QED
      BY <1>0, <1>5, <1>9, <1>12, <2>1, <2>2, <3>1 DEF Flow, AskFirst, Heard, Holds, Of, A, B, n
  <2>8. SameLink(a, b)'
    <3>1. n <= n
      BY <1>2
    <3>. QED
      BY <1>0, <1>5, <1>9, <1>12, <2>1, <2>2, <2>3, <2>5, <3>1
         DEF Flow, SameLink, Heard, Holds, Of, IsFrame, A, B, n
  <2>9. Unopened(a, b)'
    <3>1. \A y \in A : y.says = "yes" => y \in Heard(a)
      BY <1>9, <2>2
    <3>2. \A y \in Heard(a) : y.says = "yes" /\ calls[a][y.n] = "sent" => y.n # n
      BY <1>0, <1>1, <1>4, <1>9, <1>12 DEF Flow, Unopened
    <3>3. EitherRequires(a, b)' = EitherRequires(a, b)
      BY <1>0 DEF EitherRequires, Requires
    <3>4. \A y \in Heard(a) : y.says = "yes" /\ calls[a][y.n] = "sent" =>
            /\ \A z \in Heard(b) : IsFrame(z) => z.n # y.n
            /\ \A z \in Heard(a) : IsFrame(z) => z.n # y.n
      BY <1>0, <1>2 DEF Flow, Unopened
    <3>5. \A y \in A : y.says = "yes" /\ calls'[a][y.n] = "sent" =>
            y \in Heard(a) /\ calls[a][y.n] = "sent"
      BY <1>5, <1>7, <3>1
    <3>6. Of(b)' = n
      BY <1>5, <1>12 DEF Of
    <3>7. \A y \in A : y.says = "yes" /\ calls'[a][y.n] = "sent" =>
            /\ \A z \in B : IsFrame(z) => z.n # y.n
            /\ n # y.n
            /\ \A z \in A : IsFrame(z) => z.n # y.n
      BY <1>9, <2>1, <2>2, <3>2, <3>4, <3>5
    <3>. QED
      BY <3>6, <3>7 DEF Unopened, Heard, IsFrame, A, B
  <2>10. Sealing(a, b)'
    <3>1. Holds(a) => relay[a]
      BY <1>0 DEF RelayInv, HalfInv, HalfOf
    <3>2. half[a].stage = "offered" => Led(Way(a)') /\ (peers = End => Offered(A))
      BY <1>0, <1>9, <2>2, <3>1, HalfStage DEF Flow, Sealing, Offered
    <3>3. half[a].stage # "sealed"
      BY <1>0, <2>5, HalfStage
    <3>. QED
      BY <1>0, <1>5, <1>12, <2>1, <3>2, <3>3 DEF Sealing, Heard, Holds, Of, IsFrame, A, B
  <2>. QED
    BY <1>0, <2>1, <2>4, <2>6, <2>7, <2>8, <2>9, <2>10 DEF Flow
<1>. QED
  BY <1>0, <1>11, <1>12

(* An end reads that its far end has gone, or is taken aback by it. *)
LEMMA FarGoneKeeps ==
    ASSUME NEW a, NEW b, FlowStep(a, b), NEW e \in End, ReceiveDisconnected(e)
    PROVE  Flow(a, b)'
<1>0. TypeOK
  BY DEF FlowStep
<1>1. relay[e] /\ down[e] # <<>> /\ Head(down[e]).type = "disconnected"
  BY DEF ReceiveDisconnected, Take
<1>2. CASE Holds(e)
  <2>1. HalfGone(e) /\ EndReads(e, Head(down[e])) /\ UNCHANGED <<relay, peers, asking, up>>
    BY <1>0, <1>1, <1>2, Reading DEF ReceiveDisconnected
  <2>2. Say(Head(down[e])).says # "offer"
    BY <1>1 DEF Say
  <2>3. a \in End
    BY DEF FlowStep, OnlyAsks
  <2>. QED
    BY <1>0, <1>1, <2>1, <2>2, <2>3, GoneSettles, ReadKeeps
<1>3. CASE ~Holds(e)
  <2>1. RelayGone(e) /\ UNCHANGED <<peers, asking, up>>
    BY <1>3 DEF ReceiveDisconnected, DropRelay
  <2>. QED
    BY <2>1, ClosingKeeps
<1>. QED
  BY <1>2, <1>3

(* An end reads a frame: one that it can read, if it holds a half. *)
LEMMA FrameKeeps ==
    ASSUME NEW a, NEW b, FlowStep(a, b), NEW e \in End, ReceiveForward(e)
    PROVE  Flow(a, b)'
<1>0. TypeOK /\ RelayInv /\ OnlyAsks(a, b) /\ Talk(a, b) /\ Flow(a, b)
  BY DEF FlowStep
<1>1. CASE DropRelay(e)
  <2>1. RelayGone(e) /\ UNCHANGED <<peers, asking, up>>
    BY <1>1 DEF DropRelay
  <2>. QED
    BY <2>1, ClosingKeeps
<1>2. ASSUME NEW m, ForwardComes(e, m)
      PROVE  Flow(a, b)'
  <2>1. /\ relay[e] /\ Holds(e) /\ m.type = "forward" /\ EndReads(e, m)
        /\ UNCHANGED <<relay, peers, asking>>
    BY <1>2 DEF ForwardComes
  <2>2. ~Unreadable(e, m.frame)
    BY <1>0, <2>1, FrameFits DEF EndReads
  <2>3. CASE m.frame.kind = "offer"
    <3>1. OfferIn(e)
      BY <1>2, <2>2, <2>3 DEF ForwardComes
    <3>. QED
      BY <2>1, <2>3, <3>1, OfferKeeps
  <2>4. CASE m.frame.kind # "offer"
    <3>1. UNCHANGED <<half, calls, up>>
      BY <1>2, <2>2, <2>4 DEF ForwardComes
    <3>2. Say(m).says # "offer"
      BY <2>1, <2>4 DEF Say
    <3>3. \A x \in End : half'[x] = half[x] \/ half'[x] = NoHalf
      BY <3>1
    <3>4. \A n \in 1..MaxAsks :
                \/ calls'[a][n] = calls[a][n]
                \/ calls[a][n] # "none" /\ calls'[a][n] \notin {"none", "sent"}
      BY <3>1
    <3>. QED
      BY <2>1, <3>1, <3>2, <3>3, <3>4, ReadKeeps
  <2>. QED
    BY <2>3, <2>4
<1>. QED
  BY <1>1, <1>2, Forwards

(* Nothing is said at first, *)
LEMMA FlowInitially ==
    ASSUME NEW a, NEW b, OnlyAsks(a, b), Init
    PROVE  Flow(a, b)
<1>0. End = {a, b} /\ Other(a) = b /\ Other(b) = a
  BY TwoEnds DEF OnlyAsks
<1>1. \A e \in {a, b} : Way(e) = <<>>
  BY <1>0 DEF Init, Way, Ahead
<1>2. Heard(a) = {} /\ Heard(b) = {} /\ InOrder(Way(a)) /\ InOrder(Way(b))
  BY <1>1, OfNone DEF Heard
<1>3. half[a] = NoHalf /\ half[b] = NoHalf /\ \A n \in 1..MaxAsks : calls[a][n] = "none"
  BY <1>0 DEF Init
<1>4. NoHalf.stage = "none" /\ asking = {}
  BY DEF NoHalf, Init
<1>5. Numbers(a, b) /\ AskFirst(a, b) /\ SameLink(a, b)
  BY <1>2, <1>3 DEF Numbers, AskFirst, SameLink, Holds
<1>6. Unopened(a, b) /\ Sealing(a, b)
  BY <1>2, <1>3, <1>4 DEF Unopened, Sealing
<1>. QED
  BY <1>2, <1>4, <1>5, <1>6 DEF Flow

(* and the order is kept by every step. *)
LEMMA FlowNext ==
    ASSUME NEW a, NEW b, FlowStep(a, b), [Next]_vars
    PROVE  Flow(a, b)'
<1>1. CASE UNCHANGED vars
  <2>1. NoMore(a) /\ NoMore(b)
    BY <1>1, WayStays DEF vars
  <2>. QED
    BY <1>1, <2>1, Settles DEF vars, FlowStep, Flow
<1>2. CASE AnswerTimesOut
  BY <1>2, LateKeeps
<1>3. ASSUME NEW e \in End,
             \/ Proxy(e) \/ Disconnect(e) \/ Send(e)
             \/ Receive(e) \/ E2ETimesOut(e) \/ ProxyTimesOut(e) \/ EndLoses(e)
             \/ RelayReceive(e) \/ RelayLoses(e)
      PROVE  Flow(a, b)'
  <2>1. CASE Disconnect(e) \/ E2ETimesOut(e)
    BY <2>1, UnproxyKeeps DEF Disconnect, E2ETimesOut
  <2>2. CASE EndLoses(e)
    BY <2>2, ClosingKeeps DEF EndLoses
  <2>3. CASE RelayLoses(e)
    BY <2>3, LosingKeeps DEF RelayLoses
  <2>4. CASE Receive(e)
    BY <2>4, GrantedKeeps, AskedKeeps, FarGoneKeeps, FrameKeeps DEF Receive
  <2>. QED
    BY <1>3, <2>1, <2>2, <2>3, <2>4, AskingKeeps, SendingKeeps, TimeoutKeeps, RelayKeeps
<1>. QED
  BY <1>1, <1>2, <1>3 DEF Next

(* All of it, where an end asks again only once it has its answer and no   *)
(* half is left.                                                           *)
OrderInv ==
    ~world.again => \A a, b \in End : OnlyAsks(a, b) => Talk(a, b) /\ Flow(a, b)

(* It is inductive, with the types and what is known of the halves. *)
LEMMA OrderNext ==
    TypeOK /\ RelayInv /\ OrderInv /\ [Next]_vars => OrderInv'
<1> SUFFICES ASSUME TypeOK, RelayInv, OrderInv, [Next]_vars, ~world'.again,
                    NEW a \in End, NEW b \in End, OnlyAsks(a, b)'
             PROVE  Talk(a, b)' /\ Flow(a, b)'
  BY DEF OrderInv
<1>1. UNCHANGED world
  BY WorldStays
<1>2. OnlyAsks(a, b) /\ ~world.again
  BY <1>1 DEF OnlyAsks
<1>3. Talk(a, b) /\ Flow(a, b)
  BY <1>2 DEF OrderInv
<1>4. Other(a) = b /\ Other(b) = a
  BY <1>2, TwoEnds DEF OnlyAsks
<1>5. RelayInv'
  BY RelayNext
<1>. QED
  BY <1>1, <1>2, <1>3, <1>4, <1>5, TalkNext, FlowNext DEF FlowStep

(* And it is what the frames need. *)
LEMMA OrderFrames ==
    TypeOK /\ RelayInv /\ OrderInv => (~world.again => FramesOfThisLink)
<1> SUFFICES ASSUME TypeOK, RelayInv, OrderInv, ~world.again, OneAsks,
                    NEW e \in End, Holds(e), NEW i \in NextForward(down[e])
             PROVE  /\ down[e][i].frame.link = half[e].link
                    /\ ~Unreadable(e, down[e][i].frame)
  BY DEF FramesOfThisLink
<1>1. PICK b \in End : world.asks[b] = 0
  BY DEF OneAsks
<1>2. OnlyAsks(Other(b), b)
  BY <1>1, TwoEnds DEF OnlyAsks
<1>3. Talk(Other(b), b) /\ Flow(Other(b), b)
  BY <1>2, TwoEnds DEF OrderInv
<1>. QED
  BY <1>2, <1>3, Reading, FrameFits

(* Where one end asks, and not again before it has its answer and no half  *)
(* is left, a frame that reaches a half is one of its link, and in the     *)
(* form it reads.                                                          *)
THEOREM FramesOfThisLinkHolds ==
    Spec => [](~world.again => FramesOfThisLink)
<1>1. Init => OrderInv
  BY TalkInitially, FlowInitially DEF OrderInv
<1>. QED
  BY <1>1, TypesInitially, TypesNext, RelayInitially, RelayNext, OrderNext, OrderFrames, PTL DEF Spec

-----------------------------------------------------------------------------
(* Where nobody is to blame                                                *)

(* One end asks, once at a time; nothing is torn down, fails or is late,   *)
(* the relay allows the link, and either hop requires e2e.                 *)
Calm ==
    /\ InTurn /\ world.tears = {} /\ world.breaks = {} /\ world.permits
    /\ world.requires # {}

(* What is in a queue, and whether anything of a call is. *)
In(s) == {s[i] : i \in DOMAIN s}
IsCall(m) == m.type \in {"proxy", "connected", "answer", "result"}
Free(s) == \A m \in In(s) : ~IsCall(m)
OneCall(s) == \A i, j \in DOMAIN s : IsCall(s[i]) /\ IsCall(s[j]) => i = j

(* Everyone is there, and nobody has said that a half is gone. *)
Whole ==
    /\ peers = End /\ blamed = {} /\ \A e \in End : relay[e]
    /\ \A e \in End : \A m \in In(up[e]) \cup In(down[e]) : m.type \notin {"unproxy", "disconnected"}

(* At most one message of the call is on its way, round from a to a: its   *)
(* sender waits for it, and the relay for the answer of b.                 *)
Calling(a, b) ==
    /\ \A e \in End : OneCall(up[e]) /\ OneCall(down[e])
    /\ Free(up[a]) \/ (Free(down[b]) /\ Free(up[b]) /\ Free(down[a]))
    /\ Free(down[b]) \/ (Free(up[b]) /\ Free(down[a]))
    /\ Free(up[b]) \/ Free(down[a])
    /\ \A e \in End : \A m \in In(up[e]) \cup In(down[e]) : IsCall(m) => calls[a][m.link.n] = "sent"
    /\ \A m \in In(down[b]) \cup In(up[b]) : IsCall(m) => m.link \in asking

(* b holds its half before a does and before anything is said of it; and   *)
(* what a, then b, wait for is on its way.                                 *)
Together(a, b) ==
    /\ Holds(a) => Holds(b)
    /\ \A x \in Heard(a) : Holds(b) /\ x.n = Of(b)
    /\ \A x \in Heard(b) : IsFrame(x) => Holds(b)
    /\ Holds(b) /\ ~Holds(a) => \E x \in Heard(a) : x.says = "yes"
    /\ Holds(a) /\ half[b].stage = "waiting" => Offered(Heard(b))

Smooth(a, b) == Whole /\ Calling(a, b) /\ Together(a, b)

(* No more of a call in t than there was in s. *)
Fewer(t, s) == (\A m \in In(t) : IsCall(m) => m \in In(s)) /\ (OneCall(s) => OneCall(t))

(* A message is added to a queue, *)
LEMMA CallAdded ==
    ASSUME NEW T, NEW s \in Seq(T), NEW m \in T
    PROVE  LET t == Append(s, m) IN
           /\ In(t) = In(s) \cup {m}
           /\ Free(s) => OneCall(t)
           /\ ~IsCall(m) => Fewer(t, s)
<1> DEFINE t == Append(s, m)
           N == Len(s)
<1>1. /\ N \in Nat /\ DOMAIN s = 1..N /\ DOMAIN t = 1..(N + 1) /\ t[N + 1] = m
      /\ \A i \in 1..N : t[i] = s[i]
  OBVIOUS
<1>2. /\ N + 1 \in DOMAIN t /\ \A i \in DOMAIN t : i \in DOMAIN s \/ i = N + 1
      /\ \A i \in DOMAIN s : i \in DOMAIN t /\ t[i] = s[i]
  BY <1>1
<1> HIDE DEF t
<1>3. In(t) = In(s) \cup {m}
  BY <1>1, <1>2 DEF In
<1>4. Free(s) => OneCall(t)
  BY <1>1, <1>2 DEF Free, In, OneCall
<1>5. ~IsCall(m) => Fewer(t, s)
  <2>1. ~IsCall(m) /\ OneCall(s) => OneCall(t)
    BY <1>1, <1>2 DEF OneCall
  <2>. QED
    BY <1>3, <2>1 DEF Fewer
<1>. QED
  BY <1>3, <1>4, <1>5 DEF t

(* or read from it: the only one of a call leaves it free. *)
LEMMA CallTaken ==
    ASSUME NEW T, NEW s \in Seq(T), NEW m, NEW r, Reads(s, m, r)
    PROVE  /\ m \in In(s) /\ In(r) \subseteq In(s)
           /\ Fewer(r, s)
           /\ OneCall(s) /\ IsCall(m) => ~Free(s) /\ Free(r)
<1> DEFINE was(i, j) == IF j < i THEN j ELSE j + 1
<1>1. PICK i \in DOMAIN s : m = s[i] /\ r = RemoveAt(s, i)
  BY DEF Reads
<1>2. /\ \A j \in DOMAIN r : was(i, j) \in DOMAIN s /\ was(i, j) # i /\ r[j] = s[was(i, j)]
      /\ \A j, k \in DOMAIN r : was(i, j) = was(i, k) => j = k
  <2> DEFINE p == SubSeq(s, 1, i - 1)
             q == SubSeq(s, i + 1, Len(s))
  <2>1. i \in 1..Len(s) /\ Len(s) \in Nat /\ DOMAIN s = 1..Len(s)
    BY <1>1
  <2>2. p \in Seq(T) /\ Len(p) = i - 1 /\ \A j \in 1..i - 1 : p[j] = s[j]
    BY <2>1
  <2>3. q \in Seq(T) /\ Len(q) = Len(s) - i /\ \A j \in 1..Len(s) - i : q[j] = s[i + j]
    BY <2>1
  <2>4. r = p \o q
    BY <1>1 DEF RemoveAt
  <2> HIDE DEF p, q
  <2>5. /\ r \in Seq(T) /\ DOMAIN r = 1..Len(s) - 1
        /\ \A j \in 1..Len(s) - 1 : r[j] = IF j <= i - 1 THEN p[j] ELSE q[j - (i - 1)]
    <3>1. /\ r \in Seq(T) /\ Len(r) = Len(p) + Len(q)
          /\ \A j \in 1..Len(p) + Len(q) : r[j] = IF j <= Len(p) THEN p[j] ELSE q[j - Len(p)]
      BY <2>2, <2>3, <2>4, ConcatProperties
    <3>2. Len(p) + Len(q) = Len(s) - 1 /\ Len(p) = i - 1
      BY <2>1, <2>2, <2>3
    <3>3. DOMAIN r = 1..Len(r)
      BY <3>1
    <3>. QED
      BY <3>1, <3>2, <3>3
  <2>6. ASSUME NEW j \in DOMAIN r
        PROVE  was(i, j) \in DOMAIN s /\ was(i, j) # i /\ r[j] = s[was(i, j)]
    <3>1. CASE j < i
      <4>1. r[j] = p[j]
        BY <2>1, <2>5, <3>1
      <4>. QED
        BY <2>1, <2>2, <2>5, <3>1, <4>1
    <3>2. CASE ~(j < i)
      <4>1. j - (i - 1) \in 1..Len(s) - i /\ i + (j - (i - 1)) = j + 1
        BY <2>1, <2>5, <3>2
      <4>2. r[j] = q[j - (i - 1)]
        BY <2>1, <2>5, <3>2
      <4>3. q[j - (i - 1)] = s[i + (j - (i - 1))]
        BY <2>3, <4>1
      <4>4. was(i, j) = j + 1 /\ j + 1 \in DOMAIN s /\ j + 1 # i
        BY <2>1, <2>5, <3>2
      <4>. QED
        BY <4>1, <4>2, <4>3, <4>4
    <3>. QED
      BY <3>1, <3>2
  <2>7. \A j, k \in DOMAIN r : was(i, j) = was(i, k) => j = k
    BY <2>1, <2>5
  <2>. QED
    BY <2>6, <2>7
<1> HIDE DEF was
<1>3. m \in In(s) /\ In(r) \subseteq In(s)
  BY <1>1, <1>2 DEF In
<1>4. OneCall(s) => OneCall(r)
  BY <1>2 DEF OneCall
<1>5. OneCall(s) /\ IsCall(m) => ~Free(s) /\ Free(r)
  BY <1>1, <1>2 DEF OneCall, Free, In
<1>. QED
  BY <1>3, <1>4, <1>5 DEF Fewer

(* The same of the queues there are: an end tells the relay, *)
LEMMA CallTold ==
    ASSUME TypeOK, NEW e \in End, NEW m \in Msg, Tell(e, m)
    PROVE  /\ \A x \in End : x # e => up'[x] = up[x]
           /\ In(up'[e]) = In(up[e]) \cup {m}
           /\ Free(up[e]) => OneCall(up'[e])
           /\ ~IsCall(m) => Fewer(up'[e], up[e])
<1>1. up[e] \in Seq(Msg) /\ up'[e] = Append(up[e], m)
  BY WayIs DEF Tell, TypeOK
<1>2. LET t == Append(up[e], m) IN
           /\ In(t) = In(up[e]) \cup {m}
           /\ Free(up[e]) => OneCall(t)
           /\ ~IsCall(m) => Fewer(t, up[e])
  BY <1>1, CallAdded
<1>. QED
  BY <1>1, <1>2, TellIs

(* or reads; *)
LEMMA CallRead ==
    ASSUME TypeOK, NEW e \in End, NEW m, EndReads(e, m)
    PROVE  /\ \A x \in End : x # e => down'[x] = down[x]
           /\ m \in In(down[e]) /\ In(down'[e]) \subseteq In(down[e])
           /\ Fewer(down'[e], down[e])
           /\ OneCall(down[e]) /\ IsCall(m) => ~Free(down[e]) /\ Free(down'[e])
<1>1. PICK r : Reads(down[e], m, r) /\ down' = [down EXCEPT ![e] = r]
  BY DEF EndReads
<1>2. down[e] \in Seq(Msg) /\ down'[e] = r /\ \A x \in End : x # e => down'[x] = down[x]
  BY <1>1, WayIs DEF TypeOK
<1>3. /\ m \in In(down[e]) /\ In(r) \subseteq In(down[e])
      /\ Fewer(r, down[e])
      /\ OneCall(down[e]) /\ IsCall(m) => ~Free(down[e]) /\ Free(r)
  BY <1>1, <1>2, CallTaken
<1>. QED
  BY <1>2, <1>3

(* the relay reads and passes something on. *)
LEMMA CallPassed ==
    ASSUME TypeOK, NEW e \in End, NEW k, RelayReads(e, k),
           NEW o \in End, relay[o], NEW m \in Msg, Told(o, <<m>>)
    PROVE  /\ \A x \in End : x # e => up'[x] = up[x]
           /\ k \in In(up[e]) /\ In(up'[e]) \subseteq In(up[e])
           /\ Fewer(up'[e], up[e])
           /\ OneCall(up[e]) /\ IsCall(k) => ~Free(up[e]) /\ Free(up'[e])
           /\ \A x \in End : x # o => down'[x] = down[x]
           /\ In(down'[o]) = In(down[o]) \cup {m}
           /\ Free(down[o]) => OneCall(down'[o])
           /\ ~IsCall(m) => Fewer(down'[o], down[o])
<1>1. PICK r : Reads(up[e], k, r) /\ up' = [up EXCEPT ![e] = r]
  BY DEF RelayReads
<1>2. /\ up[e] \in Seq(Msg) /\ up'[e] = r /\ \A x \in End : x # e => up'[x] = up[x]
      /\ down[o] \in Seq(Msg)
  BY <1>1, WayIs DEF TypeOK
<1>3. down'[o] = Append(down[o], m)
  <2>1. down'[o] = down[o] \o <<m>>
    BY ToldIs
  <2>. QED
    BY <1>2, <2>1, AppendIsConcat
<1>4. /\ k \in In(up[e]) /\ In(r) \subseteq In(up[e])
      /\ Fewer(r, up[e])
      /\ OneCall(up[e]) /\ IsCall(k) => ~Free(up[e]) /\ Free(r)
  BY <1>1, <1>2, CallTaken
<1>5. LET t == Append(down[o], m) IN
           /\ In(t) = In(down[o]) \cup {m}
           /\ Free(down[o]) => OneCall(t)
           /\ ~IsCall(m) => Fewer(t, down[o])
  BY <1>2, CallAdded
<1>. QED
  BY <1>2, <1>3, <1>4, <1>5, ToldIs

(* A queue says what it did, but for what was read. *)
LEMMA SaidRead ==
    ASSUME NEW s \in Seq(Msg), NEW m, NEW r, Reads(s, m, r)
    PROVE  /\ r \in Seq(Msg) /\ Said(r) \subseteq Said(s)
           /\ \A y : y \in Said(s) <=> y \in Said(r) \/ (y \in Saying /\ y = Say(m))
<1>1. PICK p \in Seq(Msg), q \in Seq(Msg) :
        /\ m \in Msg /\ s = (p \o <<m>>) \o q /\ r = p \o q
        /\ \A j \in DOMAIN p : p[j].type # "forward"
        /\ m.type # "forward" => p = <<>>
  BY ReadsIs
<1> DEFINE h == <<m>>
           g == p \o h
<1>2. h \in Seq(Msg) /\ g \in Seq(Msg) /\ r \in Seq(Msg) /\ s = g \o q
  BY <1>1
<1>3. \A y : y \in Said(h) <=> y \in Saying /\ y = Say(m)
  BY OfOne
<1> HIDE DEF h
<1>4. Said(g) = Said(p) \cup Said(h)
  BY <1>1, <1>2, OfTwo
<1> HIDE DEF g
<1>5. Said(g \o q) = Said(g) \cup Said(q) /\ Said(p \o q) = Said(p) \cup Said(q)
  BY <1>1, <1>2, OfTwo
<1>. QED
  BY <1>1, <1>2, <1>3, <1>4, <1>5

(* All that was heard but what was read still is. *)
LEMMA HeardRead ==
    ASSUME TypeOK, NEW e \in End, relay[e], relay'[e] = relay[e], peers' = peers,
           NEW m, EndReads(e, m), up'[Other(e)] = up[Other(e)]
    PROVE  LET x == Say(m) IN
           /\ Said(Way(e)') \subseteq Heard(e) /\ Heard(e) \subseteq Said(Way(e)') \cup {x}
           /\ x \in Saying => x \in Heard(e)
<1> DEFINE d == down[e]
           u == Ahead(e)
<1>1. PICK t : Reads(d, m, t) /\ down' = [down EXCEPT ![e] = t]
  BY DEF EndReads
<1>2. d \in Seq(Msg) /\ u \in Seq(Msg) /\ Way(e) = d \o u
  BY WayIs DEF Way
<1>3. Way(e)' = t \o u
  BY <1>1 DEF Way, Ahead, TypeOK
<1> HIDE DEF u, d
<1>4. /\ t \in Seq(Msg)
      /\ \A y : y \in Said(d) <=> y \in Said(t) \/ (y \in Saying /\ y = Say(m))
  BY <1>1, <1>2, SaidRead
<1>5. Said(d \o u) = Said(d) \cup Said(u) /\ Said(t \o u) = Said(t) \cup Said(u)
  BY <1>2, <1>4, OfTwo
<1>. QED
  BY <1>2, <1>3, <1>4, <1>5 DEF Heard

(* And what the relay passes on is heard as before. *)
LEMMA HeardPassed ==
    ASSUME TypeOK, NEW e \in End, relay[e], NEW m \in Msg, Told(e, <<m>>), peers = End,
           Other(e) \in End, NEW k, RelayReads(Other(e), k), Say(m) = Say(k),
           relay'[e] = relay[e], peers' = peers
    PROVE  Said(Way(e)') = Heard(e)
<1> DEFINE d == down[e]
           u == up[Other(e)]
           l == <<m>>
<1>1. PICK t : Reads(u, k, t) /\ up' = [up EXCEPT ![Other(e)] = t]
  BY DEF RelayReads
<1>2. d \in Seq(Msg) /\ u \in Seq(Msg) /\ Way(e) = d \o u
  BY WayIs DEF Way, Ahead
<1>3. Way(e)' = (d \o l) \o t
  BY <1>1, ToldIs, WayIs DEF Way, Ahead, TypeOK
<1>4. l \in Seq(Msg) /\ d \o l \in Seq(Msg)
  BY <1>2
<1>5. \A y : y \in Said(l) <=> y \in Saying /\ y = Say(k)
  BY OfOne
<1> HIDE DEF d, u, l
<1>6. /\ t \in Seq(Msg)
      /\ \A y : y \in Said(u) <=> y \in Said(t) \/ (y \in Saying /\ y = Say(k))
  BY <1>1, <1>2, SaidRead
<1>7. /\ Said(d \o u) = Said(d) \cup Said(u) /\ Said((d \o l) \o t) = Said(d \o l) \cup Said(t)
      /\ Said(d \o l) = Said(d) \cup Said(l)
  BY <1>2, <1>4, <1>6, OfTwo
<1>. QED
  BY <1>2, <1>3, <1>5, <1>6, <1>7 DEF Heard

(* A call is typed. *)
LEMMA CallIs ==
    ASSUME TypeOK, NEW e \in End, NEW m \in In(up[e]) \cup In(down[e]), IsCall(m)
    PROVE  m.link \in Link /\ m.link.n \in 1..MaxAsks
<1>1. up[e] \in Seq(ToRelay) /\ down[e] \in Seq(FromRelay)
  BY DEF TypeOK
<1>2. m \in ToRelay \cup FromRelay
  BY <1>1 DEF In
<1>3. m.link \in Link
  <2>1. \A x \in ToRelay : x.type \in {"proxy", "unproxy", "answer", "forward"}
    BY DEF ToRelay
  <2>2. \A x \in FromRelay : x.type \in {"connected", "disconnected", "result", "forward"}
    BY DEF FromRelay
  <2>. QED
    BY <1>2, <2>1, <2>2, MessageParts DEF IsCall
<1>. QED
  BY <1>3 DEF Link

(* A step that moves no call on keeps them as they are. *)
LEMMA CallsStay ==
    ASSUME TypeOK, NEW a \in End, NEW b \in End, Calling(a, b),
           \A e \in End : Fewer(up'[e], up[e]) /\ Fewer(down'[e], down[e]),
           \A n \in 1..MaxAsks : calls[a][n] = "sent" => calls'[a][n] = "sent",
           UNCHANGED asking
    PROVE  Calling(a, b)'
<1>1. \A e \in End : /\ Free(up[e]) => Free(up'[e])
                     /\ Free(down[e]) => Free(down'[e])
                     /\ OneCall(up'[e]) /\ OneCall(down'[e])
  BY DEF Calling, Fewer, Free
<1>2. ASSUME NEW e \in End, NEW m \in In(up'[e]) \cup In(down'[e]), IsCall(m)
      PROVE  /\ calls'[a][m.link.n] = "sent"
             /\ m \in In(up[e]) \cup In(down[e])
  <2>1. m \in In(up[e]) \cup In(down[e])
    BY <1>2 DEF Fewer
  <2>. QED
    BY <1>2, <2>1, CallIs DEF Calling
<1>3. ASSUME NEW m \in In(down'[b]) \cup In(up'[b]), IsCall(m)
      PROVE  m.link \in asking'
  BY <1>3 DEF Fewer, Calling
<1>. QED
  BY <1>1, <1>2, <1>3 DEF Calling

(* What holds before the steps there are. *)
CalmStep(a, b) == FlowStep(a, b) /\ Calm /\ Smooth(a, b)

(* and what it comes to. *)
LEMMA CalmIs ==
    ASSUME NEW a, NEW b, CalmStep(a, b)
    PROVE  /\ End = {a, b} /\ a # b /\ a \in End /\ b \in End /\ Other(a) = b /\ Other(b) = a
           /\ TypeOK /\ RelayInv /\ OnlyAsks(a, b) /\ Talk(a, b) /\ Flow(a, b)
           /\ Whole /\ Calling(a, b) /\ Together(a, b) /\ UNCHANGED world
           /\ \A x \in Heard(a) : x.says # "ask"
           /\ \A x \in Heard(b) : x.says # "yes"
BY HeardWords DEF CalmStep, Smooth, FlowStep, OnlyAsks

(* Nobody waits for an offer that is not on its way, and nothing else      *)
(* brings a half down.                                                     *)
LEMMA NothingGoes ==
    ASSUME NEW a, NEW b, CalmStep(a, b), NEW e \in End
    PROVE  /\ ~Disconnect(e) /\ ~ProxyTimesOut(e) /\ ~EndLoses(e) /\ ~RelayLoses(e) /\ ~AnswerTimesOut
           /\ ~ReceiveDisconnected(e) /\ ~RelayUnproxy(e) /\ ~E2ETimesOut(e)
<1>0. /\ End = {a, b} /\ a # b /\ a \in End /\ b \in End /\ Other(a) = b /\ Other(b) = a
      /\ TypeOK /\ Talk(a, b) /\ Flow(a, b) /\ Whole /\ Calling(a, b) /\ Together(a, b)
  BY CalmIs
<1>1. ~world.slow /\ world.tears = {} /\ world.breaks = {}
  BY DEF CalmStep, Calm, InTurn
<1>2. ~Disconnect(e) /\ ~ProxyTimesOut(e) /\ ~AnswerTimesOut
  BY <1>1 DEF Disconnect, ProxyTimesOut, AnswerTimesOut
<1>3. ~EndLoses(e) /\ ~RelayLoses(e)
  BY <1>0, <1>1 DEF EndLoses, RelayLoses, Whole
<1>4. ~ReceiveDisconnected(e)
  <2> SUFFICES ASSUME down[e] # <<>>, Head(down[e]).type = "disconnected"
               PROVE  FALSE
    BY DEF ReceiveDisconnected, Take
  <2>1. down[e] \in Seq(Msg)
    BY <1>0, WayIs
  <2>2. Head(down[e]) \in In(down[e])
    BY <2>1, HeadReads, CallTaken
  <2>. QED
    BY <1>0, <2>2 DEF Whole
<1>5. ~RelayUnproxy(e)
  <2> SUFFICES ASSUME up[e] # <<>>, Head(up[e]).type = "unproxy"
               PROVE  FALSE
    BY DEF RelayUnproxy, TakeUp
  <2>1. up[e] \in Seq(Msg)
    BY <1>0, WayIs
  <2>2. Head(up[e]) \in In(up[e])
    BY <2>1, HeadReads, CallTaken
  <2>. QED
    BY <1>0, <2>2 DEF Whole
<1>6. ~E2ETimesOut(e)
  <2> SUFFICES ASSUME half[e].stage \in {"offered", "waiting"}, Quiet
               PROVE  FALSE
    BY <1>1 DEF E2ETimesOut
  <2>1. Heard(a) = {} /\ Heard(b) = {}
    <3>1. Way(a) = <<>> /\ Way(b) = <<>>
      BY <1>0 DEF Quiet, Way, Ahead
    <3>. QED
      BY <3>1, OfNone DEF Heard
  <2>2. Holds(e)
    BY <1>0, HalfStage
  <2>3. Holds(b) /\ Holds(a)
    BY <1>0, <2>1, <2>2 DEF Together
  <2>4. half[b].stage # "waiting"
    BY <1>0, <2>1, <2>3 DEF Together, Offered
  <2>5. half[a] \in Halves(a, b, a) /\ half[b] \in Halves(a, b, b)
    BY <1>0, <2>3, HalfStage
  <2>6. half[b].stage \notin {"offered", "waiting"}
    BY <1>0, <2>4, <2>5 DEF Halves
  <2>7. half[a].stage = "offered" /\ EitherRequires(a, b)
    BY <1>0, <2>5, <2>6 DEF Halves
  <2>8. half[b].stage = "sealed"
    BY <2>5, <2>6, <2>7 DEF Halves
  <2>. QED
    BY <1>0, <2>1, <2>7, <2>8 DEF Flow, Sealing, Whole, Offered
<1>. QED
  BY <1>2, <1>3, <1>4, <1>5, <1>6

(* A step that leaves the halves alone, and what they wait for. *)
LEMMA TogetherStays ==
    ASSUME NEW a, NEW b, Together(a, b), half'[a] = half[a], half'[b] = half[b],
           \A x \in Said(Way(a)') : x \in Heard(a) \/ (Holds(b) /\ x.n = Of(b)),
           \A x \in Said(Way(b)') : IsFrame(x) => x \in Heard(b) \/ Holds(b),
           \A x \in Heard(a) : x.says = "yes" /\ ~Holds(a) => x \in Said(Way(a)'),
           \A x \in Heard(b) : x.says = "offer" => x \in Said(Way(b)')
    PROVE  Together(a, b)'
<1> DEFINE A == Said(Way(a)')
           B == Said(Way(b)')
<1>1. /\ Holds(a)' = Holds(a) /\ Holds(b)' = Holds(b) /\ Of(b)' = Of(b)
      /\ Heard(a)' = A /\ Heard(b)' = B
  BY DEF Holds, Of, Heard
<1>2. /\ \A x \in A : x \in Heard(a) \/ (Holds(b) /\ x.n = Of(b))
      /\ \A x \in B : IsFrame(x) => x \in Heard(b) \/ Holds(b)
      /\ \A x \in Heard(a) : x.says = "yes" /\ ~Holds(a) => x \in A
      /\ \A x \in Heard(b) : x.says = "offer" => x \in B
  OBVIOUS
<1> HIDE DEF A, B
<1>3. \A x \in A : Holds(b) /\ x.n = Of(b)
  BY <1>2 DEF Together
<1>4. \A x \in B : IsFrame(x) => Holds(b)
  BY <1>2 DEF Together
<1>5. Holds(b) /\ ~Holds(a) => \E x \in A : x.says = "yes"
  BY <1>2 DEF Together
<1>6. Holds(a) /\ half[b].stage = "waiting" => Offered(B)
  BY <1>2 DEF Together, Offered
<1>. QED
  BY <1>1, <1>3, <1>4, <1>5, <1>6 DEF Together, IsFrame

(* Calls are on their way in one queue alone, at most. *)
LEMMA CallsMoved ==
    ASSUME NEW a, NEW b, End = {a, b},
           \A e \in End : OneCall(up'[e]) /\ OneCall(down'[e]),
           \/ Free(up'[b]) /\ Free(down'[a]) /\ Free(down'[b])
           \/ Free(up'[a]) /\ Free(down'[a]) /\ Free(up'[b])
           \/ Free(up'[a]) /\ Free(down'[a]) /\ Free(down'[b])
           \/ Free(up'[a]) /\ Free(up'[b]) /\ Free(down'[b]),
           \A e \in End : \A m \in In(up'[e]) \cup In(down'[e]) : IsCall(m) => calls'[a][m.link.n] = "sent",
           \A m \in In(down'[b]) \cup In(up'[b]) : IsCall(m) => m.link \in asking'
    PROVE  Calling(a, b)'
BY DEF Calling

(* Where none is there is at most one. *)
LEMMA NoneIsOne ==
    ASSUME NEW s, Free(s)
    PROVE  OneCall(s)
BY DEF Free, In, OneCall

(* a asks. *)
LEMMA AskingSmooth ==
    ASSUME NEW a, NEW b, CalmStep(a, b), NEW e \in End, Proxy(e)
    PROVE  Smooth(a, b)'
<1>0. /\ End = {a, b} /\ a # b /\ a \in End /\ b \in End /\ Other(a) = b /\ Other(b) = a
      /\ TypeOK /\ OnlyAsks(a, b) /\ Whole /\ Calling(a, b) /\ Together(a, b)
  BY CalmIs
<1>1. PICK n \in 1..MaxAsks :
            /\ n <= world.asks[e]
            /\ \A k \in 1..MaxAsks : calls[e][k] # "sent"
            /\ calls' = [calls EXCEPT ![e][n] = "sent"]
            /\ Tell(e, [type |-> "proxy", link |-> [by |-> e, n |-> n]])
            /\ UNCHANGED <<relay, half, blamed, peers, asking, down>>
  BY DEF Proxy, CalmStep, Calm, InTurn
<1>2. e = a
  <2>1. world.asks[b] = 0 /\ n > 0
    BY <1>0 DEF OnlyAsks
  <2>. QED
    BY <1>0, <1>1, <2>1
<1> DEFINE l == [by |-> a, n |-> n]
           m == [type |-> "proxy", link |-> l]
<1>3. m \in Msg /\ IsCall(m) /\ m.type = "proxy" /\ m.link.n = n /\ Say(m).says = "ask"
  <2>1. l \in Link
    BY <1>0 DEF Link
  <2>. QED
    BY <2>1, Messages DEF Msg, IsCall, Say
<1>4. Tell(a, m)
  BY <1>1, <1>2
<1> HIDE DEF m, l
<1>5. \A x \in End : Free(up[x]) /\ Free(down[x])
  BY <1>0, <1>1, <1>2, CallIs DEF Calling, Free
<1>6. up'[b] = up[b] /\ In(up'[a]) = In(up[a]) \cup {m} /\ OneCall(up'[a])
  BY <1>0, <1>3, <1>4, <1>5, CallTold
<1>7. calls'[a][n] = "sent"
  BY <1>0, <1>1, <1>2 DEF TypeOK
<1>8. Calling(a, b)'
  <2>1. Free(up'[b]) /\ Free(down'[a]) /\ Free(down'[b])
    BY <1>0, <1>1, <1>5, <1>6
  <2>2. \A x \in End : OneCall(up'[x]) /\ OneCall(down'[x])
    BY <1>0, <1>6, <2>1, NoneIsOne
  <2>3. \A x \in End : \A c \in In(up'[x]) \cup In(down'[x]) : IsCall(c) => c = m
    BY <1>0, <1>5, <1>6, <2>1 DEF Free
  <2>4. \A c \in In(down'[b]) \cup In(up'[b]) : ~IsCall(c)
    BY <2>1 DEF Free
  <2>. QED
    BY <1>0, <1>3, <1>7, <2>1, <2>2, <2>3, <2>4, CallsMoved
<1>9. Whole'
  BY <1>0, <1>1, <1>3, <1>6 DEF Whole
<1>10. Together(a, b)'
  <2>1. Way(a)' = Way(a)
    BY <1>0, <1>1, <1>6, WayStays
  <2>2. Heard(b) \subseteq Said(Way(b)') /\ Said(Way(b)') \subseteq Heard(b) \cup {Say(m)}
    BY <1>0, <1>1, <1>3, <1>4, WayTold
  <2>3. ~IsFrame(Say(m))
    BY <1>3 DEF IsFrame, FrameKinds
  <2>. QED
    BY <1>0, <1>1, <2>1, <2>2, <2>3, TogetherStays DEF Heard
<1>. QED
  BY <1>8, <1>9, <1>10 DEF Smooth

(* An end that holds its half says a frame of it. *)
LEMMA ForwardIs ==
    ASSUME NEW a, NEW b, CalmStep(a, b), NEW e \in End, Holds(e), NEW kind \in FrameKinds
    PROVE  LET m == Forward(e, kind) IN
           /\ m \in Msg /\ ~IsCall(m) /\ m.type = "forward"
           /\ Say(m) = [says |-> kind, n |-> Of(e)] /\ Say(m) \in Saying /\ IsFrame(Say(m))
<1>1. TypeOK
  BY CalmIs
<1>2. half[e].link \in Link
  BY <1>1, IsHalf DEF Half
<1>3. Forward(e, kind) \in Msg
  BY <1>2, Messages DEF Forward, Frames, FrameKinds, Msg
<1>4. Say(Forward(e, kind)) = [says |-> kind, n |-> Of(e)]
  BY DEF Say, Forward, Of
<1>5. [says |-> kind, n |-> Of(e)] \in Saying
  BY <1>2 DEF Saying, FrameKinds, Link, Of
<1>6. ~IsCall(Forward(e, kind)) /\ Forward(e, kind).type = "forward"
  BY DEF Forward, IsCall
<1>. QED
  BY <1>3, <1>4, <1>5, <1>6 DEF IsFrame

(* Nothing changes what is in a queue that stays. *)
LEMMA FewerStays ==
    ASSUME NEW s
    PROVE  Fewer(s, s)
BY DEF Fewer

(* An end sends. *)
LEMMA SendingSmooth ==
    ASSUME NEW a, NEW b, CalmStep(a, b), NEW e \in End, Send(e)
    PROVE  Smooth(a, b)'
<1> DEFINE m == Forward(e, half[e].stage)
<1>0. /\ End = {a, b} /\ a # b /\ a \in End /\ b \in End /\ Other(a) = b /\ Other(b) = a
      /\ TypeOK /\ Talk(a, b) /\ Whole /\ Calling(a, b) /\ Together(a, b)
  BY CalmIs
<1>1. /\ half[e].stage \in FrameKinds /\ Tell(e, m)
      /\ UNCHANGED <<relay, half, calls, blamed, peers, asking, down>>
  BY DEF Send, Announced, FrameKinds
<1>2. Holds(e)
  <2>1. half[e].stage \in {"clear", "sealed"}
    BY DEF Send, Announced
  <2>. QED
    BY <1>0, <2>1, HalfStage
<1>3. /\ m \in Msg /\ ~IsCall(m) /\ m.type = "forward"
      /\ Say(m) = [says |-> half[e].stage, n |-> Of(e)] /\ Say(m) \in Saying /\ IsFrame(Say(m))
  BY <1>1, <1>2, ForwardIs
<1> HIDE DEF m
<1>4. /\ \A x \in End : x # e => up'[x] = up[x]
      /\ In(up'[e]) = In(up[e]) \cup {m} /\ Fewer(up'[e], up[e])
  BY <1>0, <1>1, <1>3, CallTold
<1>5. Calling(a, b)'
  <2>1. \A x \in End : Fewer(up'[x], up[x]) /\ Fewer(down'[x], down[x])
    BY <1>1, <1>4, FewerStays
  <2>. QED
    BY <1>0, <1>1, <2>1, CallsStay
<1>6. Whole'
  BY <1>0, <1>1, <1>3, <1>4 DEF Whole
<1>7. Together(a, b)'
  <2> DEFINE o == Other(e)
  <2>1. o \in End /\ o # e /\ Other(o) = e
    BY <1>0
  <2> HIDE DEF o
  <2>2. Way(e)' = Way(e)
    BY <1>0, <1>1, <1>4, <2>1, WayStays DEF o
  <2>3. Heard(o) \subseteq Said(Way(o)') /\ Said(Way(o)') \subseteq Heard(o) \cup {Say(m)}
    BY <1>0, <1>1, <1>3, <2>1, WayTold
  <2>4. Holds(b) /\ Say(m).n = Of(e)
    BY <1>0, <1>2, <1>3 DEF Together
  <2>. QED
    BY <1>0, <1>1, <2>1, <2>2, <2>3, <2>4, TogetherStays DEF Heard, o
<1>. QED
  BY <1>5, <1>6, <1>7 DEF Smooth

(* The relay passes on what it reads. *)
LEMMA RelaySmooth ==
    ASSUME NEW a, NEW b, CalmStep(a, b), NEW e \in End, RelayReceive(e)
    PROVE  Smooth(a, b)'
<1> DEFINE m == Head(up[e])
           o == Other(e)
<1>0. /\ End = {a, b} /\ a # b /\ a \in End /\ b \in End /\ Other(a) = b /\ Other(b) = a
      /\ TypeOK /\ Talk(a, b) /\ OnlyAsks(a, b) /\ Whole /\ Calling(a, b) /\ Together(a, b)
  BY CalmIs
<1>1. /\ ~RelayUnproxy(e) /\ world.permits /\ peers = End /\ \A x \in End : relay[x]
  BY <1>0, NothingGoes DEF CalmStep, Calm, Whole
<1>2. o \in End /\ o # e /\ Other(o) = e
  BY <1>0
<1>3. ASSUME up[e] # <<>>, TakenUp(e)
      PROVE  RelayReads(e, m) /\ m \in Sends(a, b, e) /\ m \in Msg /\ m \in In(up[e])
  <2>1. m \in Sends(a, b, e) /\ m \in Msg
    BY <1>0, <1>3, TalkTakenUp, TakenUpTyped DEF Msg
  <2>2. up[e] \in Seq(Msg)
    BY <1>0, WayIs
  <2>3. m \in In(up[e])
    BY <1>3, <2>2, HeadReads, CallTaken
  <2>4. RelayReads(e, m)
    BY <1>0, <1>3, Reading
  <2>. QED
    BY <2>1, <2>3, <2>4
<1>4. ASSUME NEW k, RelayReads(e, k), NEW r \in Msg, Told(o, <<r>>), Say(r) = Say(k),
             r.type \notin {"unproxy", "disconnected"},
             UNCHANGED <<relay, half, calls, peers, blamed>>
      PROVE  Whole' /\ Together(a, b)'
  <2>1. /\ \A x \in End : x # e => up'[x] = up[x]
        /\ In(up'[e]) \subseteq In(up[e])
        /\ \A x \in End : x # o => down'[x] = down[x]
        /\ In(down'[o]) = In(down[o]) \cup {r}
    BY <1>0, <1>1, <1>2, <1>4, CallPassed
  <2>2. Whole'
    BY <1>0, <1>2, <1>4, <2>1 DEF Whole
  <2>3. Said(Way(o)') = Heard(o)
    BY <1>0, <1>1, <1>2, <1>4, HeardPassed
  <2>4. Way(e)' = Way(e)
    BY <1>0, <1>2, <1>4, <2>1, WayStays
  <2>5. Said(Way(a)') = Heard(a) /\ Said(Way(b)') = Heard(b)
    BY <1>0, <1>2, <2>3, <2>4 DEF Heard
  <2>6. Together(a, b)'
    BY <1>0, <1>4, <2>5, TogetherStays
  <2>. QED
    BY <2>2, <2>6
<1>5. CASE RelayProxy(e)
  <2> DEFINE c == [type |-> "connected", link |-> m.link, e2e |-> Requires(e)]
  <2>1. /\ m.type = "proxy" /\ up[e] # <<>> /\ TakenUp(e) /\ Told(o, <<c>>) /\ asking' = asking \cup {m.link}
        /\ UNCHANGED <<relay, half, calls, peers, blamed>>
    BY <1>1, <1>2, <1>5 DEF RelayProxy, TakeUp
  <2>2. e = a /\ o = b /\ m.link \in Links(a)
    BY <1>0, <1>3, <2>1, TalkParts
  <2>3. IsCall(m) /\ IsCall(c) /\ c.type = "connected" /\ c.link = m.link /\ Say(c) = Say(m)
    BY <2>1 DEF IsCall, Say
  <2>4. c \in Msg
    <3>1. m.link \in Link /\ Requires(e) \in BOOLEAN
      BY <1>0, <2>2 DEF Links, Link, Requires
    <3>. QED
      BY <3>1, Messages DEF Msg
  <2> HIDE DEF c
  <2>5. /\ up'[b] = up[b] /\ down'[a] = down[a]
        /\ ~Free(up[a]) /\ Free(up'[a])
        /\ In(down'[b]) = In(down[b]) \cup {c}
        /\ Free(down[b]) => OneCall(down'[b])
    <3>1. /\ \A x \in End : x # e => up'[x] = up[x]
          /\ OneCall(up[e]) /\ IsCall(Head(up[e])) => ~Free(up[e]) /\ Free(up'[e])
          /\ \A x \in End : x # o => down'[x] = down[x]
          /\ In(down'[o]) = In(down[o]) \cup {c}
          /\ Free(down[o]) => OneCall(down'[o])
      BY <1>0, <1>1, <1>2, <1>3, <2>1, <2>4, CallPassed
    <3>. QED
      BY <1>0, <2>2, <2>3, <3>1 DEF Calling
  <2>6. calls[a][m.link.n] = "sent" /\ Free(down[b]) /\ Free(up[b]) /\ Free(down[a])
    BY <1>0, <1>3, <2>1, <2>2, <2>3, <2>5 DEF Calling
  <2> HIDE DEF m, o
  <2>7. \A x \in End : \A k \in In(up'[x]) \cup In(down'[x]) : IsCall(k) => k = c
    BY <1>0, <2>5, <2>6 DEF Free
  <2>8. \A x \in End : OneCall(up'[x]) /\ OneCall(down'[x])
    BY <1>0, <2>5, <2>6, NoneIsOne
  <2>9. Calling(a, b)'
    <3>1. \A x \in End : \A k \in In(up'[x]) \cup In(down'[x]) :
                IsCall(k) => calls'[a][k.link.n] = "sent" /\ k.link \in asking'
      BY <2>1, <2>3, <2>6, <2>7
    <3>2. Free(up'[a]) /\ Free(down'[a]) /\ Free(up'[b])
      BY <2>5, <2>6
    <3>. QED
      BY <1>0, <2>8, <3>1, <3>2, CallsMoved
  <2>10. Whole' /\ Together(a, b)'
    BY <1>3, <1>4, <2>1, <2>3, <2>4
  <2>. QED
    BY <2>9, <2>10 DEF Smooth
<1>6. CASE RelayAnswer(e)
  <2> DEFINE r == Result(m.link, m.ok, m.ok /\ (m.e2e \/ Requires(e)))
  <2>1. /\ m.type = "answer" /\ up[e] # <<>> /\ TakenUp(e) /\ asking' = asking \ {m.link}
        /\ m.link \in asking => Told(m.link.by, <<r>>)
        /\ UNCHANGED <<relay, half, calls, peers, blamed>>
    BY <1>6 DEF RelayAnswer, TakeUp
  <2>2. e = b /\ o = a /\ m.link \in Links(a) /\ m.ok \in BOOLEAN /\ m.link.by = a
    BY <1>0, <1>3, <2>1, TalkParts DEF Links
  <2>3. IsCall(m) /\ IsCall(r) /\ r.type = "result" /\ r.link = m.link /\ Say(r) = Say(m)
    BY <2>1 DEF IsCall, Say, Result
  <2>4. r \in Msg
    <3>1. m.e2e \in BOOLEAN /\ m.link \in Link /\ Requires(e) \in BOOLEAN
      <4>1. m \in ToRelay /\ m.link \in Link
        BY <1>0, <2>1, <2>2, TakenUpTyped DEF Links, Link
      <4>. QED
        BY <2>1, <4>1, MessageParts DEF Requires
    <3> HIDE DEF m
    <3>2. (m.ok /\ (m.e2e \/ Requires(e))) \in BOOLEAN
      BY <2>2, <3>1
    <3>. QED
      BY <2>2, <3>1, <3>2, Messages DEF Msg
  <2>5. m.link \in asking
    BY <1>0, <1>3, <2>1, <2>2, <2>3 DEF Calling
  <2> HIDE DEF r
  <2>6. Told(a, <<r>>)
    BY <2>1, <2>2, <2>5
  <2>7. /\ up'[a] = up[a] /\ down'[b] = down[b]
        /\ ~Free(up[b]) /\ Free(up'[b])
        /\ In(down'[a]) = In(down[a]) \cup {r}
        /\ Free(down[a]) => OneCall(down'[a])
    <3>1. /\ \A x \in End : x # e => up'[x] = up[x]
          /\ OneCall(up[e]) /\ IsCall(Head(up[e])) => ~Free(up[e]) /\ Free(up'[e])
          /\ \A x \in End : x # a => down'[x] = down[x]
          /\ In(down'[a]) = In(down[a]) \cup {r}
          /\ Free(down[a]) => OneCall(down'[a])
      BY <1>0, <1>1, <1>2, <1>3, <2>1, <2>4, <2>6, CallPassed
    <3>. QED
      BY <1>0, <2>2, <2>3, <3>1 DEF Calling
  <2>8. calls[a][m.link.n] = "sent" /\ Free(down[b]) /\ Free(up[a]) /\ Free(down[a])
    BY <1>0, <1>3, <2>1, <2>2, <2>3, <2>7 DEF Calling
  <2>9. Whole' /\ Together(a, b)'
    BY <1>3, <1>4, <2>1, <2>2, <2>3, <2>4, <2>6
  <2> HIDE DEF m, o
  <2>10. \A x \in End : \A k \in In(up'[x]) \cup In(down'[x]) : IsCall(k) => k = r
    BY <1>0, <2>7, <2>8 DEF Free
  <2>11. \A x \in End : OneCall(up'[x]) /\ OneCall(down'[x])
    BY <1>0, <2>7, <2>8, NoneIsOne
  <2>12. Calling(a, b)'
    <3>1. \A x \in End : \A k \in In(up'[x]) \cup In(down'[x]) : IsCall(k) => calls'[a][k.link.n] = "sent"
      BY <2>1, <2>3, <2>8, <2>10
    <3>2. Free(up'[a]) /\ Free(up'[b]) /\ Free(down'[b])
      BY <2>7, <2>8
    <3>3. \A k \in In(down'[b]) \cup In(up'[b]) : IsCall(k) => k.link \in asking'
      BY <3>2 DEF Free
    <3>. QED
      BY <1>0, <2>11, <3>1, <3>2, <3>3, CallsMoved
  <2>. QED
    BY <2>9, <2>12 DEF Smooth
<1>7. CASE RelayForward(e)
  <2>1. PICK k : ForwardGoes(e, k)
    BY <1>1, <1>7, Forwards
  <2>2. /\ k.type = "forward" /\ RelayReads(e, k) /\ Told(o, <<k>>)
        /\ UNCHANGED <<relay, half, calls, peers, blamed, asking>>
    BY <1>1, <1>2, <2>1 DEF ForwardGoes
  <2>3. ~IsCall(k) /\ k \in Msg
    BY <1>0, <2>2, ReadTyped DEF IsCall, Msg
  <2>4. \A x \in End : Fewer(up'[x], up[x]) /\ Fewer(down'[x], down[x])
    <3>1. /\ \A x \in End : x # e => up'[x] = up[x]
          /\ Fewer(up'[e], up[e])
          /\ \A x \in End : x # o => down'[x] = down[x]
          /\ ~IsCall(k) => Fewer(down'[o], down[o])
      BY <1>0, <1>1, <1>2, <2>2, <2>3, CallPassed
    <3> HIDE DEF o
    <3>. QED
      BY <2>3, <3>1, FewerStays
  <2>5. Calling(a, b)'
    BY <1>0, <2>2, <2>4, CallsStay
  <2>6. Whole' /\ Together(a, b)'
    BY <1>4, <2>2, <2>3
  <2>. QED
    BY <2>5, <2>6 DEF Smooth
<1>. QED
  BY <1>1, <1>5, <1>6, <1>7 DEF RelayReceive

(* That its call was granted a hears from a message of the call.           *)
LEMMA GrantedCalls ==
    ASSUME NEW a, NEW b, CalmStep(a, b), NEW y \in Heard(a), y.says = "yes"
    PROVE  calls[a][y.n] = "sent"
<1>0. End = {a, b} /\ a \in End /\ b \in End /\ Other(a) = b /\ TypeOK /\ Whole /\ Calling(a, b)
  BY CalmIs
<1> DEFINE d == down[a]
           u == up[b]
<1>1. d \in Seq(Msg) /\ u \in Seq(Msg) /\ Way(a) = d \o u
  BY <1>0, WayIs DEF Way, Ahead, Whole
<1> HIDE DEF d, u
<1>2. Said(d \o u) = Said(d) \cup Said(u)
  BY <1>1, OfTwo
<1>3. PICK m \in In(d) \cup In(u) : y = Say(m)
  BY <1>1, <1>2 DEF Heard, Said, In
<1>4. m.type \in {"answer", "result"} /\ m.link.n = y.n
  <2>1. m \in Msg
    BY <1>1 DEF In
  <2>2. m.type = "forward" => Say(m).says \in {"offer", "clear", "sealed"}
    BY <2>1, MessageParts DEF Say, Frames, Msg
  <2>. QED
    BY <1>3, <2>2 DEF Say
<1>. QED
  BY <1>0, <1>3, <1>4 DEF Calling, IsCall, d, u

(* a reads its answer. *)
LEMMA GrantedSmooth ==
    ASSUME NEW a, NEW b, CalmStep(a, b), NEW e \in End, ReceiveResult(e)
    PROVE  Smooth(a, b)'
<1> DEFINE m == Head(down[e])
           n == m.link.n
           e2e == NeedsE2E(e, m.e2e)
           offer == [type |-> "forward", frame |-> [kind |-> "offer", link |-> m.link]]
           h == [link |-> m.link, outbound |-> TRUE, required |-> e2e,
                 stage |-> IF e2e THEN "offered" ELSE "clear"]
<1>0. /\ End = {a, b} /\ a # b /\ a \in End /\ b \in End /\ Other(a) = b /\ Other(b) = a
      /\ TypeOK /\ Talk(a, b) /\ OnlyAsks(a, b) /\ Whole /\ Calling(a, b) /\ Together(a, b) /\ Flow(a, b)
  BY CalmIs
<1>1. /\ relay[e] /\ down[e] # <<>> /\ m.type = "result" /\ Taken(e)
      /\ UNCHANGED <<relay, blamed, peers, asking>>
  BY DEF ReceiveResult, Take
<1>2. /\ e = a /\ m.link \in Links(a) /\ n \in 1..MaxAsks /\ m.ok \in BOOLEAN
      /\ m.e2e = (m.ok /\ EitherRequires(a, b)) /\ m \in FromRelay /\ IsCall(m)
  <2>1. m \in Gets(a, b, e) /\ m \in FromRelay
    BY <1>0, <1>1, TalkTaken, TakenTyped
  <2>2. e = a /\ m.link \in Links(a) /\ m.ok \in BOOLEAN /\ m.e2e = (m.ok /\ EitherRequires(a, b))
    BY <1>0, <1>1, <2>1, TalkParts
  <2>. QED
    BY <1>1, <2>1, <2>2 DEF Links, IsCall
<1>3. /\ down'[b] = down[b] /\ m \in In(down[a]) /\ In(down'[a]) \subseteq In(down[a])
      /\ ~Free(down[a]) /\ Free(down'[a])
  <2>1. /\ \A x \in End : x # e => down'[x] = down[x]
        /\ Head(down[e]) \in In(down[e]) /\ In(down'[e]) \subseteq In(down[e])
        /\ OneCall(down[e]) /\ IsCall(Head(down[e])) => ~Free(down[e]) /\ Free(down'[e])
    BY <1>0, <1>1, Reading, CallRead
  <2>2. OneCall(down[e])
    BY <1>0 DEF Calling
  <2>. QED
    BY <1>0, <1>2, <2>1, <2>2
<1>4. Free(up[a]) /\ Free(up[b]) /\ Free(down[b]) /\ calls[a][n] = "sent"
  BY <1>0, <1>2, <1>3 DEF Calling
<1>5. ~Holds(a)
  BY <1>0, <1>2, <1>4 DEF Flow, Numbers
<1>6. CASE m.ok
  <2>1. /\ half'[a] = h /\ half'[b] = half[b]
        /\ IF e2e THEN Tell(a, offer) ELSE UNCHANGED up
    BY <1>0, <1>2, <1>4, <1>5, <1>6 DEF ReceiveResult, TypeOK
  <2>2. e2e = EitherRequires(a, b) /\ h # NoHalf /\ h.stage # "waiting"
    BY <1>2, <1>6 DEF NeedsE2E, EitherRequires, NoHalf
  <2>3. /\ offer \in Msg /\ ~IsCall(offer) /\ offer.type = "forward"
        /\ Say(offer) \in Saying /\ Say(offer).says = "offer"
    <3>1. [kind |-> "offer", link |-> m.link] \in Frames
      BY <1>0, <1>2 DEF Links, Link, Frames
    <3>2. offer \in Msg
      BY <3>1, Messages DEF Msg
    <3>3. Say(offer) = [says |-> "offer", n |-> n]
      BY DEF Say
    <3>. QED
      BY <1>2, <3>2, <3>3 DEF Saying, IsCall
  <2>4. Say(m) \in Saying /\ Say(m).says = "yes"
    BY <1>1, <1>2, <1>6 DEF Say, Saying
  <2> HIDE DEF offer, h, e2e
  <2>5. up'[b] = up[b] /\ In(up'[a]) \subseteq In(up[a]) \cup {offer}
    <3>1. CASE e2e
      BY <1>0, <2>1, <2>3, <3>1, CallTold
    <3>2. CASE ~e2e
      BY <2>1, <3>2
    <3>. QED
      BY <3>1, <3>2
  <2>6. Calling(a, b)'
    <3>1. \A x \in End : Free(up'[x]) /\ Free(down'[x])
      BY <1>0, <1>3, <1>4, <2>3, <2>5 DEF Free
    <3>2. \A x \in End : OneCall(up'[x]) /\ OneCall(down'[x])
      BY <3>1, NoneIsOne
    <3>3. \A x \in End : \A k \in In(up'[x]) \cup In(down'[x]) : ~IsCall(k)
      BY <3>1 DEF Free
    <3>. QED
      BY <1>0, <3>1, <3>2, <3>3, CallsMoved
  <2>7. Whole'
    BY <1>0, <1>1, <1>3, <2>3, <2>5 DEF Whole
  <2>8. Said(Way(a)') \subseteq Heard(a) /\ Say(m) \in Heard(a)
    BY <1>0, <1>1, <1>2, <2>4, <2>5, Reading, HeardRead
  <2>9. Holds(b)
    BY <1>0, <2>8 DEF Together
  <2>10. /\ Heard(b) \subseteq Said(Way(b)')
         /\ e2e => Say(offer) \in Said(Way(b)')
    <3>1. CASE e2e
      BY <1>0, <1>1, <1>3, <2>1, <2>3, <3>1, WayTold DEF Whole
    <3>2. CASE ~e2e
      <4>1. Way(b)' = Way(b)
        BY <1>0, <1>1, <1>3, <2>1, <3>2, WayStays
      <4>. QED
        BY <3>2, <4>1 DEF Heard
    <3>. QED
      BY <3>1, <3>2
  <2>11. half[b].stage = "waiting" => e2e
    BY <1>0, <2>2, <2>9, HalfStage DEF Halves
  <2>12. Together(a, b)'
    <3>1. Holds(a)' /\ Holds(b)' /\ Of(b)' = Of(b)
      BY <2>1, <2>2, <2>9 DEF Holds, Of
    <3>2. \A x \in Said(Way(a)') : x.n = Of(b)
      BY <1>0, <2>8 DEF Together
    <3>3. half'[b].stage = "waiting" => Offered(Said(Way(b)'))
      BY <2>1, <2>3, <2>10, <2>11 DEF Offered
    <3>. QED
      BY <3>1, <3>2, <3>3 DEF Together, Heard
  <2>. QED
    BY <2>6, <2>7, <2>12 DEF Smooth
<1>7. CASE ~m.ok
  <2>1. UNCHANGED <<half, up>>
    BY <1>7 DEF ReceiveResult
  <2>2. Say(m).says = "nothing"
    BY <1>1, <1>7 DEF Say
  <2>3. Calling(a, b)'
    <3>1. \A x \in End : Free(up'[x]) /\ Free(down'[x])
      BY <1>0, <1>3, <1>4, <2>1
    <3>2. \A x \in End : OneCall(up'[x]) /\ OneCall(down'[x])
      BY <3>1, NoneIsOne
    <3>3. \A x \in End : \A k \in In(up'[x]) \cup In(down'[x]) : ~IsCall(k)
      BY <3>1 DEF Free
    <3>. QED
      BY <1>0, <3>1, <3>2, <3>3, CallsMoved
  <2>4. Whole'
    BY <1>0, <1>1, <1>3, <2>1 DEF Whole
  <2>5. Said(Way(a)') \subseteq Heard(a) /\ Heard(a) \subseteq Said(Way(a)') \cup {Say(m)}
    BY <1>0, <1>1, <1>2, <2>1, Reading, HeardRead
  <2>6. Way(b)' = Way(b)
    BY <1>0, <1>1, <1>3, <2>1, WayStays
  <2>7. Together(a, b)'
    BY <1>0, <2>1, <2>2, <2>5, <2>6, TogetherStays DEF Heard
  <2>. QED
    BY <2>3, <2>4, <2>7 DEF Smooth
<1>. QED
  BY <1>2, <1>6, <1>7

(* b reads that it is asked. *)
LEMMA AskedSmooth ==
    ASSUME NEW a, NEW b, CalmStep(a, b), NEW e \in End, ReceiveConnected(e)
    PROVE  Smooth(a, b)'
<1> DEFINE m == Head(down[e])
           n == m.link.n
           e2e == NeedsE2E(e, m.e2e)
           ok == ~Holds(e) /\ e \in world.accepts
           answer == [type |-> "answer", link |-> m.link, ok |-> ok, e2e |-> ok /\ e2e]
           x == [says |-> "yes", n |-> n]
           h == [link |-> m.link, outbound |-> FALSE, required |-> e2e,
                 stage |-> IF e2e THEN "waiting" ELSE "clear"]
<1>0. /\ End = {a, b} /\ a # b /\ a \in End /\ b \in End /\ Other(a) = b /\ Other(b) = a
      /\ TypeOK /\ Talk(a, b) /\ OnlyAsks(a, b) /\ Whole /\ Calling(a, b) /\ Together(a, b)
  BY CalmIs
<1>1. /\ relay[e] /\ down[e] # <<>> /\ m.type = "connected" /\ Taken(e) /\ Tell(e, answer)
      /\ half' = [half EXCEPT ![e] = IF ~ok THEN @ ELSE h]
      /\ UNCHANGED <<relay, blamed, calls, peers, asking>>
  BY DEF ReceiveConnected, Take
<1>2. e = b /\ m.link \in Links(a) /\ n \in 1..MaxAsks /\ m \in FromRelay /\ IsCall(m)
  <2>1. m \in Gets(a, b, e) /\ m \in FromRelay
    BY <1>0, <1>1, TalkTaken, TakenTyped
  <2>2. e = b /\ m.link \in Links(a)
    BY <1>0, <1>1, <2>1, TalkParts
  <2>. QED
    BY <1>1, <2>1, <2>2 DEF Links, IsCall
<1>3. e2e \in BOOLEAN /\ ok \in BOOLEAN
  <2>1. m.e2e = Requires(a)
    BY <1>0, <1>1, TalkTaken, TalkParts
  <2>. QED
    BY <2>1 DEF NeedsE2E, Requires
<1>4. /\ answer \in Msg /\ IsCall(answer) /\ answer.link = m.link /\ answer.type = "answer"
      /\ (ok => Say(answer) = x /\ x \in Saying) /\ (~ok => Say(answer).says = "nothing")
  <2>1. m.link \in Link
    BY <1>1, <1>2, MessageParts
  <2>2. IsCall(answer) /\ answer.link = m.link /\ answer.type = "answer"
    BY DEF IsCall
  <2>3. (ok => Say(answer) = x /\ x \in Saying) /\ (~ok => Say(answer).says = "nothing")
    BY <1>2 DEF Say, Saying
  <2> HIDE DEF m, e2e, ok, x
  <2>4. answer \in Msg
    BY <1>3, <2>1, Messages DEF Msg
  <2>. QED
    BY <2>2, <2>3, <2>4
<1> HIDE DEF answer
<1>5. /\ down'[a] = down[a] /\ m \in In(down[b]) /\ In(down'[b]) \subseteq In(down[b])
      /\ ~Free(down[b]) /\ Free(down'[b])
  <2>1. /\ \A y \in End : y # e => down'[y] = down[y]
        /\ Head(down[e]) \in In(down[e]) /\ In(down'[e]) \subseteq In(down[e])
        /\ OneCall(down[e]) /\ IsCall(Head(down[e])) => ~Free(down[e]) /\ Free(down'[e])
    BY <1>0, <1>1, Reading, CallRead
  <2>2. OneCall(down[e])
    BY <1>0 DEF Calling
  <2>. QED
    BY <1>0, <1>2, <2>1, <2>2
<1>6. /\ Free(up[a]) /\ Free(up[b]) /\ Free(down[a])
      /\ calls[a][n] = "sent" /\ m.link \in asking
  BY <1>0, <1>2, <1>5 DEF Calling
<1>7. up'[a] = up[a] /\ In(up'[b]) = In(up[b]) \cup {answer} /\ OneCall(up'[b])
  <2>1. /\ \A y \in End : y # e => up'[y] = up[y]
        /\ In(up'[e]) = In(up[e]) \cup {answer}
        /\ Free(up[e]) => OneCall(up'[e])
    BY <1>0, <1>1, <1>4, CallTold
  <2>. QED
    BY <1>0, <1>2, <1>6, <2>1
<1> HIDE DEF x
<1>8. Calling(a, b)'
  <2> HIDE DEF m, h, ok, e2e
  <2>1. Free(up'[a]) /\ Free(down'[a]) /\ Free(down'[b])
    BY <1>5, <1>6, <1>7
  <2>2. \A y \in End : OneCall(up'[y]) /\ OneCall(down'[y])
    BY <1>0, <1>7, <2>1, NoneIsOne
  <2>3. \A y \in End : \A k \in In(up'[y]) \cup In(down'[y]) : IsCall(k) => k = answer
    BY <1>0, <1>6, <1>7, <2>1 DEF Free
  <2>4. calls'[a][answer.link.n] = "sent" /\ answer.link \in asking'
    BY <1>1, <1>4, <1>6 DEF n
  <2>5. /\ \A y \in End : \A k \in In(up'[y]) \cup In(down'[y]) : IsCall(k) => calls'[a][k.link.n] = "sent"
        /\ \A k \in In(down'[b]) \cup In(up'[b]) : IsCall(k) => k.link \in asking'
    BY <1>0, <2>3, <2>4
  <2>. QED
    BY <1>0, <2>1, <2>2, <2>5, CallsMoved
<1>9. Whole'
  BY <1>0, <1>1, <1>4, <1>5, <1>7 DEF Whole
<1>10. Said(Way(b)') \subseteq Heard(b) /\ Heard(b) \subseteq Said(Way(b)') \cup {Say(m)}
  BY <1>0, <1>1, <1>2, <1>7, Reading, HeardRead
<1>11. /\ Heard(a) \subseteq Said(Way(a)') /\ Said(Way(a)') \subseteq Heard(a) \cup {Say(answer)}
       /\ Say(answer) \in Saying => Say(answer) \in Said(Way(a)')
  <2>1. Tell(Other(a), answer) /\ relay[a] /\ peers = End
    BY <1>0, <1>1, <1>2 DEF Whole
  <2>. QED
    BY <1>0, <1>1, <1>4, <1>5, <2>1, WayTold
<1>12. Say(m).says = "ask"
  BY <1>1 DEF Say
<1>13. CASE ~ok
  <2>1. half'[a] = half[a] /\ half'[b] = half[b]
    BY <1>0, <1>1, <1>13 DEF TypeOK
  <2> HIDE DEF m, h, ok, e2e
  <2>2. Said(Way(a)') \subseteq Heard(a)
    <3>1. Say(answer) \notin Said(Way(a)')
      BY <1>4, <1>13 DEF Said, Saying
    <3>. QED
      BY <1>11, <3>1
  <2>3. Together(a, b)'
    BY <1>0, <1>10, <1>11, <1>12, <2>1, <2>2, TogetherStays
  <2>. QED
    BY <1>8, <1>9, <2>3 DEF Smooth
<1>14. CASE ok
  <2>1. half'[b] = h /\ half'[a] = half[a] /\ ~Holds(b)
    BY <1>0, <1>1, <1>2, <1>14 DEF TypeOK
  <2>2. h # NoHalf /\ h.link.n = n
    BY DEF NoHalf
  <2>3. x.says = "yes" /\ x.n = n
    BY DEF x
  <2> HIDE DEF m, h, ok, e2e, n
  <2>4. Heard(a) = {} /\ ~Holds(a)
    BY <1>0, <2>1 DEF Together
  <2>5. Said(Way(a)') = {x}
    BY <1>4, <1>11, <1>14, <2>4
  <2>6. ~Holds(a)' /\ Holds(b)' /\ Of(b)' = n
    BY <2>1, <2>2, <2>4 DEF Holds, Of
  <2>7. Together(a, b)'
    BY <2>3, <2>5, <2>6 DEF Together, Heard
  <2>. QED
    BY <1>8, <1>9, <2>7 DEF Smooth
<1>. QED
  BY <1>3, <1>13, <1>14

(* An end that reads a frame holds its half: where e2e is required nothing *)
(* is sent of a link before its answer is read, which a frame might        *)
(* overtake.                                                               *)
LEMMA FrameFound ==
    ASSUME NEW a, NEW b, CalmStep(a, b), NEW e \in End,
           relay[e], NEW m, NEW r, Reads(down[e], m, r), m.type = "forward"
    PROVE  Holds(e)
<1> DEFINE x == Say(m)
<1>0. /\ End = {a, b} /\ a # b /\ a \in End /\ b \in End
      /\ TypeOK /\ Talk(a, b) /\ OnlyAsks(a, b) /\ Together(a, b) /\ Flow(a, b)
  BY CalmIs
<1>1. m \in FrameMessages(a, b)
  BY <1>0, TalkReads, TalkParts
<1>2. x = [says |-> m.frame.kind, n |-> m.frame.link.n] /\ x \in Saying /\ IsFrame(x)
  BY ZenonT(40), <1>1, TalkSays
<1>3. x \in Heard(e)
  BY <1>0, <1>2, NextHeard
<1> HIDE DEF x
<1>4. CASE e = b
  BY <1>0, <1>2, <1>3, <1>4 DEF Together
<1>5. CASE e = a
  <2> SUFFICES ASSUME ~Holds(a)
               PROVE  FALSE
    BY <1>5
  <2>1. Holds(b) /\ x.n = Of(b)
    BY <1>0, <1>3, <1>5 DEF Together
  <2>2. PICK y \in Heard(a) : y.says = "yes"
    BY <1>0, <2>1 DEF Together
  <2>3. y.n = Of(b)
    BY <1>0 DEF Together
  <2>4. calls[a][y.n] = "sent"
    BY <2>2, GrantedCalls
  <2>5. EitherRequires(a, b)
    BY <1>0 DEF CalmStep, Calm, EitherRequires, Requires, TypeOK, World
  <2>. QED
    BY <1>0, <1>2, <1>3, <1>5, <2>1, <2>2, <2>3, <2>4, <2>5 DEF Flow, Unopened
<1>. QED
  BY <1>0, <1>4, <1>5

(* and can read it. *)
LEMMA FrameSmooth ==
    ASSUME NEW a, NEW b, CalmStep(a, b), NEW e \in End, ReceiveForward(e)
    PROVE  Smooth(a, b)'
<1>0. /\ End = {a, b} /\ a # b /\ a \in End /\ b \in End /\ Other(a) = b /\ Other(b) = a
      /\ TypeOK /\ RelayInv /\ Talk(a, b) /\ OnlyAsks(a, b) /\ Whole /\ Calling(a, b)
      /\ Together(a, b) /\ Flow(a, b)
  BY CalmIs
<1>1. Holds(e)
  <2>1. PICK i \in NextForward(down[e]) : relay[e]
    BY DEF ReceiveForward
  <2>2. Reads(down[e], down[e][i], RemoveAt(down[e], i)) /\ down[e][i].type = "forward"
    BY <1>0, Reading
  <2>. QED
    BY <2>1, <2>2, FrameFound
<1>2. PICK m : ForwardComes(e, m)
  BY <1>1, Forwards
<1> DEFINE f == m.frame
           x == Say(m)
           o == Forward(e, "offer")
           h == [half[e] EXCEPT !.stage = "sealed"]
<1>3. relay[e] /\ m.type = "forward" /\ EndReads(e, m) /\ ~Unreadable(e, f) /\ f \in FramesOf(a, b)
  <2>1. relay[e] /\ m.type = "forward" /\ EndReads(e, m)
    BY <1>2 DEF ForwardComes
  <2>. QED
    BY <1>0, <1>1, <2>1, FrameFits DEF EndReads
<1>4. /\ UNCHANGED <<relay, blamed, peers, asking>>
      /\ IF f.kind = "offer" THEN OfferIn(e) ELSE UNCHANGED <<half, calls, up>>
  BY <1>2, <1>3 DEF ForwardComes
<1>5. x.says = f.kind
  BY <1>3 DEF Say
<1>6. half[e] \in Halves(a, b, e)
  BY <1>0, <1>1, HalfStage
<1>7. /\ \A y \in End : y # e => down'[y] = down[y]
      /\ In(down'[e]) \subseteq In(down[e]) /\ Fewer(down'[e], down[e])
  BY <1>0, <1>3, CallRead
<1>8. CASE f.kind # "offer"
  <2>1. UNCHANGED <<half, calls, up>>
    BY <1>4, <1>8
  <2>2. Said(Way(e)') \subseteq Heard(e) /\ Heard(e) \subseteq Said(Way(e)') \cup {x}
    BY <1>0, <1>3, <1>4, <2>1, HeardRead
  <2>3. \A y \in End : y # e => Said(Way(y)') = Heard(y)
    BY <1>4, <1>7, <2>1, WayStays DEF Heard
  <2>4. x.says \notin {"yes", "offer"}
    BY <1>3, <1>5, <1>8 DEF FramesOf
  <2> HIDE DEF f, x
  <2>5. Calling(a, b)'
    <3>1. \A y \in End : Fewer(up'[y], up[y]) /\ Fewer(down'[y], down[y])
      BY <1>7, <2>1, FewerStays
    <3>. QED
      BY <1>0, <1>4, <2>1, <3>1, CallsStay
  <2>6. Whole'
    BY <1>0, <1>4, <1>7, <2>1 DEF Whole
  <2>7. /\ Said(Way(a)') \subseteq Heard(a) /\ Heard(a) \subseteq Said(Way(a)') \cup {x}
        /\ Said(Way(b)') \subseteq Heard(b) /\ Heard(b) \subseteq Said(Way(b)') \cup {x}
    BY <1>0, <2>2, <2>3
  <2>8. Together(a, b)'
    BY <1>0, <2>1, <2>4, <2>7, TogetherStays
  <2>. QED
    BY <2>5, <2>6, <2>8 DEF Smooth
<1>9. CASE f.kind = "offer"
  <2>1. /\ half' = [half EXCEPT ![e] = h]
        /\ calls' = [calls EXCEPT ![e] = [k \in 1..MaxAsks |-> IF @[k] = "linking" THEN "resolved" ELSE @[k]]]
        /\ IF half[e].stage = "offered" THEN UNCHANGED up ELSE Tell(e, o)
    BY <1>4, <1>9 DEF OfferIn
  <2>2. EitherRequires(a, b) /\ half[e].stage # "sealed"
    BY <1>3, <1>9 DEF FramesOf, Unreadable
  <2>3. half[e].stage = (IF e = a THEN "offered" ELSE "waiting")
    BY <1>6, <2>2 DEF Halves
  <2>4. h # NoHalf /\ h.link = half[e].link /\ h.stage = "sealed"
    BY <1>6 DEF Halves, NoHalf
  <2>5. /\ o \in Msg /\ ~IsCall(o) /\ o.type = "forward"
        /\ Say(o) = [says |-> "offer", n |-> Of(e)] /\ Say(o) \in Saying /\ IsFrame(Say(o))
    <3>1. "offer" \in FrameKinds
      BY DEF FrameKinds
    <3>. QED
      BY <1>1, <3>1, ForwardIs
  <2>6. Say(o).says = "offer" /\ Say(o).n = Of(e)
    BY <2>5
  <2> HIDE DEF f, x, o, h
  <2>7. /\ \A n \in 1..MaxAsks : calls[a][n] = "sent" => calls'[a][n] = "sent"
        /\ half'[e] = h /\ \A y \in End : y # e => half'[y] = half[y]
    BY <1>0, <2>1 DEF TypeOK
  <2>8. \A y \in End : In(up'[y]) \subseteq In(up[y]) \cup {o} /\ Fewer(up'[y], up[y])
    <3>1. CASE half[e].stage = "offered"
      BY <2>1, <3>1, FewerStays
    <3>2. CASE half[e].stage # "offered"
      <4>1. /\ \A y \in End : y # e => up'[y] = up[y]
            /\ In(up'[e]) = In(up[e]) \cup {o} /\ Fewer(up'[e], up[e])
        BY <1>0, <2>1, <2>5, <3>2, CallTold
      <4>. QED
        BY <4>1, FewerStays
    <3>. QED
      BY <3>1, <3>2
  <2>9. Calling(a, b)'
    <3>1. \A y \in End : Fewer(up'[y], up[y]) /\ Fewer(down'[y], down[y])
      BY <1>7, <2>8, FewerStays
    <3>. QED
      BY <1>0, <1>4, <2>7, <3>1, CallsStay
  <2>10. Whole'
    <3>1. \A y \in End : In(down'[y]) \subseteq In(down[y])
      BY <1>7
    <3>. QED
      BY <1>0, <1>4, <2>5, <2>8, <3>1 DEF Whole
  <2>11. up'[Other(e)] = up[Other(e)]
    BY <1>0, <2>1, <2>5, TellIs
  <2>12. Said(Way(e)') \subseteq Heard(e)
    BY <1>0, <1>3, <1>4, <2>11, HeardRead
  <2>13. Holds(b) /\ Holds(b)' /\ Of(b)' = Of(b)
    <3>1. Holds(b)
      BY <1>0, <1>1 DEF Together
    <3>. QED
      BY <1>0, <2>4, <2>7, <3>1 DEF Holds, Of
  <2>14. CASE e = a
    <3>1. Said(Way(b)') = Heard(b)
      <4>1. up'[a] = up[a]
        BY <2>1, <2>3, <2>14
      <4>2. Way(b)' = Way(b)
        BY <1>0, <1>4, <1>7, <2>14, <4>1, WayStays
      <4>. QED
        BY <4>2 DEF Heard
    <3>2. Holds(a) /\ Holds(a)' /\ half'[b] = half[b]
      BY <1>0, <1>1, <2>4, <2>7, <2>14 DEF Holds
    <3>. QED
      <4>1. Together(a, b)'
        BY <1>0, <2>12, <2>13, <2>14, <3>1, <3>2 DEF Together, Heard
      <4>. QED
        BY <2>9, <2>10, <4>1 DEF Smooth
  <2>15. CASE e = b
    <3>1. Heard(a) \subseteq Said(Way(a)') /\ Said(Way(a)') \subseteq Heard(a) \cup {Say(o)}
      <4>1. Tell(Other(a), o) /\ down'[a] = down[a]
        BY <1>0, <1>7, <2>1, <2>3, <2>15
      <4>. QED
        BY <1>0, <1>4, <2>5, <4>1, WayTold
    <3>2. half'[b].stage # "waiting" /\ Holds(a)' = Holds(a)
      BY <1>0, <2>4, <2>7, <2>15 DEF Holds
    <3>3. \A y \in Said(Way(a)') : y.n = Of(b)
      BY <1>0, <2>6, <2>15, <3>1 DEF Together
    <3>4. Holds(b) /\ ~Holds(a) => \E y \in Said(Way(a)') : y.says = "yes"
      BY <1>0, <3>1 DEF Together
    <3>. QED
      <4>1. Together(a, b)'
        BY <2>13, <3>2, <3>3, <3>4 DEF Together, Heard
      <4>. QED
        BY <2>9, <2>10, <4>1 DEF Smooth
  <2>. QED
    BY <1>0, <2>14, <2>15
<1>. QED
  BY <1>8, <1>9

(* Where they begin, nothing is on its way and no half is held; *)
LEMMA SmoothInitially ==
    ASSUME NEW a, NEW b, OnlyAsks(a, b), Init
    PROVE  Smooth(a, b)
<1>0. End = {a, b} /\ Other(a) = b /\ Other(b) = a
  BY TwoEnds DEF OnlyAsks
<1>1. \A e \in End : up[e] = <<>> /\ down[e] = <<>> /\ relay[e] /\ half[e] = NoHalf
  BY DEF Init
<1>2. peers = End /\ blamed = {}
  BY DEF Init
<1>3. In(<<>>) = {} /\ Free(<<>>) /\ OneCall(<<>>)
  BY DEF In, Free, OneCall
<1>4. \A e \in {a, b} : Way(e) = <<>>
  BY <1>0, <1>1 DEF Way, Ahead
<1>5. Heard(a) = {} /\ Heard(b) = {}
  BY <1>4, OfNone DEF Heard
<1>6. Whole
  BY <1>1, <1>2, <1>3 DEF Whole
<1>7. Calling(a, b)
  BY <1>0, <1>1, <1>3 DEF Calling
<1>8. Together(a, b)
  BY <1>0, <1>1, <1>5 DEF Together, Holds
<1>. QED
  BY <1>6, <1>7, <1>8 DEF Smooth

(* and so it goes on. *)
LEMMA SmoothNext ==
    ASSUME NEW a, NEW b, CalmStep(a, b), [Next]_vars
    PROVE  Smooth(a, b)'
<1>1. CASE UNCHANGED vars
  <2>1. Smooth(a, b)
    BY DEF CalmStep
  <2>2. /\ Way(a)' = Way(a) /\ Way(b)' = Way(b)
    BY <1>1, WayStays DEF vars
  <2>3. Heard(a)' = Heard(a) /\ Heard(b)' = Heard(b)
    BY <2>2 DEF Heard
  <2>4. Whole' /\ Calling(a, b)'
    BY <1>1, <2>1 DEF vars, Smooth, Whole, Calling
  <2>5. Together(a, b)'
    BY <1>1, <2>1, <2>3 DEF vars, Smooth, Together, Holds, Of
  <2>. QED
    BY <2>4, <2>5 DEF Smooth
<1>2. ~AnswerTimesOut
  BY NothingGoes DEF CalmStep, FlowStep, OnlyAsks
<1>3. ASSUME NEW e \in End,
             \/ Proxy(e) \/ Disconnect(e) \/ Send(e)
             \/ Receive(e) \/ E2ETimesOut(e) \/ ProxyTimesOut(e) \/ EndLoses(e)
             \/ RelayReceive(e) \/ RelayLoses(e)
      PROVE  Smooth(a, b)'
  <2>1. Proxy(e) \/ Send(e) \/ Receive(e) \/ RelayReceive(e)
    BY <1>3, NothingGoes
  <2>2. CASE Receive(e)
    <3>1. ReceiveResult(e) \/ ReceiveConnected(e) \/ ReceiveForward(e)
      BY <2>2, NothingGoes DEF Receive
    <3>. QED
      BY <3>1, GrantedSmooth, AskedSmooth, FrameSmooth
  <2>. QED
    BY <2>1, <2>2, AskingSmooth, SendingSmooth, RelaySmooth
<1>. QED
  BY <1>1, <1>2, <1>3 DEF Next

(* All of it, where it is calm. *)
SmoothInv == Calm => \A a, b \in End : OnlyAsks(a, b) => Smooth(a, b)

(* It is inductive, with the order. *)
LEMMA SmoothInvNext ==
    TypeOK /\ RelayInv /\ OrderInv /\ SmoothInv /\ [Next]_vars => SmoothInv'
<1> SUFFICES ASSUME TypeOK, RelayInv, OrderInv, SmoothInv, [Next]_vars, Calm',
                    NEW a \in End, NEW b \in End, OnlyAsks(a, b)'
             PROVE  Smooth(a, b)'
  BY DEF SmoothInv
<1>1. UNCHANGED world
  BY WorldStays
<1>2. OnlyAsks(a, b) /\ Calm
  BY <1>1 DEF OnlyAsks, Calm, InTurn, OneAsks
<1>3. Smooth(a, b) /\ ~world.again
  BY <1>2 DEF SmoothInv, Calm, InTurn
<1>4. Talk(a, b) /\ Flow(a, b)
  BY <1>2, <1>3 DEF OrderInv
<1>5. Other(a) = b /\ Other(b) = a
  BY <1>2, TwoEnds DEF OnlyAsks
<1>6. RelayInv'
  BY RelayNext
<1>7. CalmStep(a, b)
  BY <1>1, <1>2, <1>3, <1>4, <1>5, <1>6 DEF CalmStep, FlowStep
<1>. QED
  BY <1>7, SmoothNext

(* And where it is, nobody was blamed. *)
LEMMA SmoothBlames ==
    SmoothInv => NobodyBlamed
<1> SUFFICES ASSUME SmoothInv, Calm
             PROVE  blamed = {}
  BY DEF NobodyBlamed, Calm
<1>1. PICK b \in End : world.asks[b] = 0
  BY DEF Calm, InTurn, OneAsks
<1>2. OnlyAsks(Other(b), b)
  BY <1>1, TwoEnds DEF OnlyAsks
<1>. QED
  BY <1>2, TwoEnds DEF SmoothInv, Smooth, Whole

(* Where one end asks, once at a time, nothing is torn down, fails or is   *)
(* late, the relay allows the link, and either hop requires e2e, nobody is *)
(* dropped as if it had misbehaved: neither an end by the relay, nor the   *)
(* relay by an end.                                                        *)
THEOREM NobodyBlamedHolds ==
    Spec => []NobodyBlamed
<1>1. Init => OrderInv
  BY TalkInitially, FlowInitially DEF OrderInv
<1>2. Init => SmoothInv
  BY SmoothInitially DEF SmoothInv
<1>. QED
  BY <1>1, <1>2, TypesInitially, TypesNext, RelayInitially, RelayNext, OrderNext, SmoothInvNext, SmoothBlames,
     PTL DEF Spec
=============================================================================
