--------------------------------- MODULE Relay ---------------------------------
(***************************************************************************)
(* Links carried by a relay (libs/AnySocket.js: proxy, unproxy, onForward, *)
(* onPeerInternalMessage, onPeerDisconnected; ProxyPeer.js).               *)
(*                                                                         *)
(* Two ends are directly connected to one relay and not to each other.  An *)
(* end asks the relay for a link; the relay links the two, asks the other  *)
(* end, and answers the first.  Each end keeps its own half of the link, a *)
(* peer like any other, whose frames travel as forward frames over the two *)
(* connections.  Nothing tells a half that its far half is gone but the    *)
(* relay, which knows of the link by its `links`.                         *)
(*                                                                         *)
(* A connection is ordered, but what comes over it is handled in two ways: *)
(* a forward frame as it is read, all else through a queue and a promise,  *)
(* so that the forward frames behind it may be handled first.  One that    *)
(* closes loses what was not handled yet, and is not opened again.         *)
(***************************************************************************)
EXTENDS Naturals, Sequences, SequencesExt, Queues

CONSTANTS
    End,        \* the two ends
    MaxAsks,    \* how many times an end may call proxy()
    MaxFrames,  \* how many frames the application of an end may send
    Worlds      \* the conditions considered: a set of World

World ==
    [permits: BOOLEAN,      \* does canProxy() of the relay allow the link?
     asks: [End -> 0..MaxAsks],     \* how often each calls proxy()
     again: BOOLEAN,        \* also while it holds the other, or awaits an answer?
     tears: SUBSET End,     \* who disconnects its half
     breaks: SUBSET End,    \* whose connection to the relay may fail
     accepts: SUBSET End,   \* whose canAcceptProxy() allows the link
     requires: SUBSET End,  \* whose connection to the relay requires e2e
     slow: BOOLEAN]         \* may replies come too late?

ASSUME RelayAssumption ==
    /\ \E e, o \in End : e # o /\ End = {e, o}
    /\ MaxAsks \in Nat /\ MaxFrames \in Nat
    /\ Worlds \subseteq World

Other(e) == CHOOSE x \in End : x # e

(* A link is named after the call that asked for it: a name the code does  *)
(* not have, by which frames of one link are told from another's.          *)
Link == [by: End, n: 1..MaxAsks]

(* A half of a link.  In clear and sealed it is announced; otherwise e2e   *)
(* is required and not up: its offer is out, or it waits for one.          *)
Half == [link: Link, outbound: BOOLEAN, required: BOOLEAN,
         stage: {"clear", "sealed", "offered", "waiting"}]
NoHalf == [stage |-> "none"]

Calls == {"none", "sent", "linking", "resolved", "rejected"}
Frames == [kind: {"offer", "clear", "sealed"}, link: Link]
ToRelay == [type: {"proxy"}, link: Link]
    \cup [type: {"unproxy"}]
    \cup [type: {"answer"}, link: Link, ok: BOOLEAN, e2e: BOOLEAN]
    \cup [type: {"forward"}, frame: Frames]
FromRelay == [type: {"connected"}, link: Link, e2e: BOOLEAN]
    \cup [type: {"disconnected"}]
    \cup [type: {"result"}, link: Link, ok: BOOLEAN, e2e: BOOLEAN]
    \cup [type: {"forward"}, frame: Frames]

VARIABLES
    world,      \* the conditions of this behaviour; never changes
    relay,      \* relay[e]: does e hold its peer for the relay?
    half,       \* half[e]: its half of the link
    calls,      \* calls[e][n]: the promise of its n-th proxy()
    sent,       \* frames its application has sent
    blamed,     \* ends whose connection was dropped as if they had misbehaved
    peers,      \* of the relay: the ends it holds a peer for
    linked,     \* of the relay: are the peers of the two ends linked?
    asking,     \* of the relay: the questions to an end that await an answer
    up, down    \* what is on its way to the relay, and from it

vars == <<world, relay, half, calls, sent, blamed, peers, linked, asking, up, down>>

(* Type invariant. *)
TypeOK ==
    /\ world \in World
    /\ relay \in [End -> BOOLEAN]
    /\ half \in [End -> Half \cup {NoHalf}]
    /\ calls \in [End -> [1..MaxAsks -> Calls]]
    /\ sent \in [End -> 0..MaxFrames]
    /\ blamed \subseteq End
    /\ peers \subseteq End
    /\ linked \in BOOLEAN
    /\ asking \subseteq Link
    /\ up \in [End -> Seq(ToRelay)] /\ down \in [End -> Seq(FromRelay)]

Init ==
    /\ world \in Worlds
    /\ relay = [e \in End |-> TRUE]
    /\ half = [e \in End |-> NoHalf]
    /\ calls = [e \in End |-> [n \in 1..MaxAsks |-> "none"]]
    /\ sent = [e \in End |-> 0]
    /\ blamed = {}
    /\ peers = End /\ linked = FALSE /\ asking = {}
    /\ up = [e \in End |-> <<>>] /\ down = [e \in End |-> <<>>]

-----------------------------------------------------------------------------
(* What an end does to its half of the link                                *)

Holds(e) == half[e] # NoHalf
Announced(e) == half[e].stage \in {"clear", "sealed"}

(* What e sends the relay, over a connection that is up at its end. *)
Tell(e, msg) == up' = [up EXCEPT ![e] = Append(@, msg)]
Forward(e, kind) == [type |-> "forward", frame |-> [kind |-> kind, link |-> half[e].link]]

(* Mutant: a proxy() that waits for the half to be announced is forgotten. *)
HalfGoneSilently(e) ==
    /\ half' = [half EXCEPT ![e] = NoHalf]
    /\ UNCHANGED calls

(* The half goes, and a proxy() still waiting for it to be announced.      *)
HalfGone(e) ==
    /\ half' = [half EXCEPT ![e] = NoHalf]
    /\ calls' = [calls EXCEPT ![e] = [n \in 1..MaxAsks |-> IF @[n] = "linking" THEN "rejected" ELSE @[n]]]

(* It is disconnected from here: the relay hears of it. *)
Unproxy(e) == HalfGone(e) /\ Tell(e, [type |-> "unproxy"])

(* Mutant: the link a connection relayed stays when that closes. *)
RelayGoneAlone(e) ==
    /\ relay' = [relay EXCEPT ![e] = FALSE]
    /\ down' = [down EXCEPT ![e] = <<>>]
    /\ calls' = [calls EXCEPT ![e] = [n \in 1..MaxAsks |-> IF @[n] = "sent" THEN "rejected" ELSE @[n]]]
    /\ UNCHANGED half

(* The connection to the relay is gone at this end, and with it the half   *)
(* it carried and the calls that await an answer on it.                    *)
RelayGone(e) ==
    /\ relay' = [relay EXCEPT ![e] = FALSE]
    /\ down' = [down EXCEPT ![e] = <<>>]
    /\ half' = [half EXCEPT ![e] = NoHalf]
    /\ calls' = [calls EXCEPT ![e] = [n \in 1..MaxAsks |->
                    IF @[n] \in {"sent", "linking"} THEN "rejected" ELSE @[n]]]

(* An end drops the connection over which something came that it takes for *)
(* an offence.                                                             *)
DropRelay(e) ==
    /\ RelayGone(e)
    /\ blamed' = blamed \cup {e}
    /\ UNCHANGED <<world, sent, peers, linked, asking, up>>

-----------------------------------------------------------------------------
(* The application of an end                                               *)

Proxy(e) ==
    \E n \in 1..MaxAsks :
        /\ relay[e]
        /\ n <= world.asks[e]
        /\ \A k \in 1..MaxAsks : calls[e][k] = "none" <=> k >= n
        /\ world.again \/ (~Holds(e) /\ \A k \in 1..MaxAsks : calls[e][k] # "sent")
        /\ calls' = [calls EXCEPT ![e][n] = "sent"]
        /\ Tell(e, [type |-> "proxy", link |-> [by |-> e, n |-> n]])
        /\ UNCHANGED <<world, relay, half, sent, blamed, peers, linked, asking, down>>

Disconnect(e) ==
    /\ e \in world.tears
    /\ Announced(e)
    /\ Unproxy(e)
    /\ UNCHANGED <<world, relay, sent, blamed, peers, linked, asking, down>>

Send(e) ==
    /\ sent[e] < MaxFrames
    /\ Announced(e)
    /\ sent' = [sent EXCEPT ![e] = @ + 1]
    /\ Tell(e, Forward(e, half[e].stage))
    /\ UNCHANGED <<world, relay, half, calls, blamed, peers, linked, asking, down>>

-----------------------------------------------------------------------------
(* What an end receives                                                    *)

(* The forward frame of s that may be handled next: they do not overtake   *)
(* each other, and nothing overtakes them.                                 *)
NextForward(s) ==
    {i \in DOMAIN s : s[i].type = "forward" /\ \A j \in 1..i - 1 : s[j].type # "forward"}

(* All else is handled in turn, with nothing before it left unhandled.     *)
Take(e, type) ==
    /\ relay[e]
    /\ down[e] # <<>>
    /\ Head(down[e]).type = type
Taken(e) == down' = [down EXCEPT ![e] = Tail(@)]

Requires(e) == e \in world.requires

(* Mutant: the requirement of the far hop is not carried over. *)
NeedsE2EOwn(e, farEnd) == Requires(e)
(* Either hop asking for e2e is enough (relayedOptions). *)
NeedsE2E(e, farEnd) == Requires(e) \/ farEnd

(* The relay's answer to proxy(): the half is set up, announced at once in *)
(* clear; where e2e is required this end starts it.                        *)
ReceiveResult(e) ==
    LET m == Head(down[e])
        n == m.link.n
        e2e == NeedsE2E(e, m.e2e)
    IN
    /\ Take(e, "result")
    /\ Taken(e)
    /\ IF calls[e][n] = "sent" /\ m.ok /\ ~Holds(e)
       THEN /\ half' = [half EXCEPT ![e] = [link |-> m.link, outbound |-> TRUE, required |-> e2e,
                                            stage |-> IF e2e THEN "offered" ELSE "clear"]]
            /\ calls' = [calls EXCEPT ![e][n] = IF e2e THEN "linking" ELSE "resolved"]
            /\ IF e2e
               THEN Tell(e, [type |-> "forward", frame |-> [kind |-> "offer", link |-> m.link]])
               ELSE UNCHANGED up
       ELSE /\ calls' = [calls EXCEPT ![e][n] = IF @ = "sent" THEN "rejected" ELSE @]
            /\ UNCHANGED <<half, up>>
    /\ UNCHANGED <<world, relay, sent, blamed, peers, linked, asking>>

(* Mutant: the end that was asked sends its own offer behind its answer. *)
ReceiveConnectedOffersToo(e) ==
    LET m == Head(down[e])
        e2e == NeedsE2E(e, m.e2e)
        ok == ~Holds(e) /\ e \in world.accepts
        answer == [type |-> "answer", link |-> m.link, ok |-> ok, e2e |-> ok /\ e2e]
        offer == [type |-> "forward", frame |-> [kind |-> "offer", link |-> m.link]]
    IN
    /\ Take(e, "connected")
    /\ Taken(e)
    /\ half' = [half EXCEPT ![e] = IF ~ok THEN @ ELSE
                    [link |-> m.link, outbound |-> FALSE, required |-> e2e,
                     stage |-> IF e2e THEN "offered" ELSE "clear"]]
    /\ up' = [up EXCEPT ![e] = @ \o (IF ok /\ e2e THEN <<answer, offer>> ELSE <<answer>>)]
    /\ UNCHANGED <<world, relay, calls, sent, blamed, peers, linked, asking>>

(* The relay hands us a link: refused when we hold the other end already   *)
(* or do not accept it.  This end waits for the offer of the other.        *)
ReceiveConnected(e) ==
    LET m == Head(down[e])
        e2e == NeedsE2E(e, m.e2e)
        ok == ~Holds(e) /\ e \in world.accepts
    IN
    /\ Take(e, "connected")
    /\ Taken(e)
    /\ half' = [half EXCEPT ![e] = IF ~ok THEN @ ELSE
                    [link |-> m.link, outbound |-> FALSE, required |-> e2e,
                     stage |-> IF e2e THEN "waiting" ELSE "clear"]]
    /\ Tell(e, [type |-> "answer", link |-> m.link, ok |-> ok, e2e |-> ok /\ e2e])
    /\ UNCHANGED <<world, relay, calls, sent, blamed, peers, linked, asking>>

(* The relay says the far end has gone: an offence when we hold no half.   *)
ReceiveDisconnected(e) ==
    /\ Take(e, "disconnected")
    /\ IF Holds(e)
       THEN /\ HalfGone(e)
            /\ Taken(e)
            /\ UNCHANGED <<world, relay, sent, blamed, peers, linked, asking, up>>
       ELSE DropRelay(e)

(* What is wrong with a frame of the link, seen from this half. *)
Unreadable(e, f) ==
    CASE f.kind = "offer" -> half[e].stage = "sealed"
      [] f.kind = "clear" -> half[e].required \/ half[e].stage = "sealed"
      [] f.kind = "sealed" -> half[e].stage # "sealed" \/ half[e].link # f.link

(* An offer is answered with our own, and the link is sealed. *)
OfferIn(e) ==
    /\ half' = [half EXCEPT ![e].stage = "sealed"]
    /\ calls' = [calls EXCEPT ![e] = [n \in 1..MaxAsks |-> IF @[n] = "linking" THEN "resolved" ELSE @[n]]]
    /\ IF half[e].stage = "offered" THEN UNCHANGED up ELSE Tell(e, Forward(e, "offer"))

(* Mutant: a frame of an origin that is not held is read all the same, and *)
(* an offer in it taken.                                                   *)
ReceiveForwardAnyOrigin(e) ==
    \E i \in NextForward(down[e]) : LET f == down[e][i].frame IN
    /\ relay[e]
    /\ down' = [down EXCEPT ![e] = RemoveAt(@, i)]
    /\ half' = [half EXCEPT ![e].stage = IF f.kind = "offer" THEN "sealed" ELSE @]
    /\ UNCHANGED <<world, relay, calls, sent, blamed, peers, linked, asking, up>>

(* A forward frame: its origin must be a half we hold through this relay.  *)
ReceiveForward(e) ==
    \E i \in NextForward(down[e]) : LET f == down[e][i].frame IN
    /\ relay[e]
    /\ IF ~Holds(e) THEN DropRelay(e)
       ELSE /\ down' = [down EXCEPT ![e] = RemoveAt(@, i)]
            /\ IF Unreadable(e, f) THEN Unproxy(e)
               ELSE IF f.kind = "offer" THEN OfferIn(e)
               ELSE UNCHANGED <<half, calls, up>>
            /\ UNCHANGED <<world, relay, sent, blamed, peers, linked, asking>>

(* e2eTimeout, at the half that offers and at the one that waits: much     *)
(* longer than what is on its way takes, unless the world is slow.         *)
Quiet == \A e \in End : up[e] = <<>> /\ down[e] = <<>>
E2ETimesOut(e) ==
    /\ half[e].stage \in {"offered", "waiting"}
    /\ world.slow \/ Quiet
    /\ Unproxy(e)
    /\ UNCHANGED <<world, relay, sent, blamed, peers, linked, asking, down>>

(* The relay's answer comes too late: the call has rejected. *)
ProxyTimesOut(e) ==
    \E n \in 1..MaxAsks :
        /\ world.slow
        /\ calls[e][n] = "sent"
        /\ calls' = [calls EXCEPT ![e][n] = "rejected"]
        /\ UNCHANGED <<world, relay, half, sent, blamed, peers, linked, asking, up, down>>

(* The connection closes at this end: it failed, or the relay dropped it.  *)
EndLoses(e) ==
    /\ relay[e]
    /\ e \in world.breaks \/ e \notin peers
    /\ RelayGone(e)
    /\ UNCHANGED <<world, sent, blamed, peers, linked, asking, up>>

-----------------------------------------------------------------------------
(* The relay                                                               *)

(* What it sends to an end, read as long as that end holds the relay. *)
Told(e, msgs) == down' = [down EXCEPT ![e] = IF relay[e] THEN @ \o msgs ELSE @]
Result(l, ok, e2e) == [type |-> "result", link |-> l, ok |-> ok, e2e |-> e2e]

TakeUp(e, type) ==
    /\ e \in peers
    /\ up[e] # <<>>
    /\ Head(up[e]).type = type
TakenUp(e) == up' = [up EXCEPT ![e] = Tail(@)]

(* A peer has gone.  The one it is linked to hears it first, and then, if  *)
(* it asked for a link to that peer, that there is no answer.              *)
PeerGone(e) ==
    LET o == Other(e)
        refusals == [n \in 1..MaxAsks |-> Result([by |-> o, n |-> n], FALSE, FALSE)]
        unanswered == Kept(refusals, {n \in 1..MaxAsks : refusals[n].link \in asking})
    IN
    /\ peers' = peers \ {e}
    /\ linked' = FALSE
    /\ asking' = {}
    /\ up' = [up EXCEPT ![e] = <<>>]
    /\ IF o \in peers
       THEN Told(o, (IF linked THEN << [type |-> "disconnected"] >> ELSE <<>>) \o unanswered)
       ELSE UNCHANGED down

(* It drops a peer whose request it takes for an offence. *)
DropPeer(e) ==
    /\ PeerGone(e)
    /\ blamed' = blamed \cup {e}
    /\ UNCHANGED <<world, relay, half, calls, sent>>

RelayLoses(e) ==
    /\ e \in peers
    /\ e \in world.breaks \/ ~relay[e]
    /\ PeerGone(e)
    /\ UNCHANGED <<world, relay, half, calls, sent, blamed>>

(* Asked for a link: the two are linked, and the other end is asked.  A    *)
(* peer it does not hold cannot have been asked for by an honest one.      *)
RelayProxy(e) ==
    LET m == Head(up[e]) IN
    /\ TakeUp(e, "proxy")
    /\ IF ~world.permits \/ Other(e) \notin peers THEN DropPeer(e)
       ELSE /\ TakenUp(e)
            /\ linked' = TRUE
            /\ asking' = asking \cup {m.link}
            /\ Told(Other(e), << [type |-> "connected", link |-> m.link, e2e |-> Requires(e)] >>)
            /\ UNCHANGED <<world, relay, half, calls, sent, blamed, peers>>

(* The answer of the end that was asked, unless it is no longer awaited. *)
RelayAnswer(e) ==
    LET m == Head(up[e]) IN
    /\ TakeUp(e, "answer")
    /\ TakenUp(e)
    /\ IF m.link \in asking
       THEN /\ linked' = (linked /\ m.ok)
            /\ Told(m.link.by, << Result(m.link, m.ok, m.ok /\ (m.e2e \/ Requires(e))) >>)
       ELSE UNCHANGED <<linked, down>>
    /\ asking' = asking \ {m.link}
    /\ UNCHANGED <<world, relay, half, calls, sent, blamed, peers>>

(* No answer came in time. *)
AnswerTimesOut ==
    \E l \in asking :
        /\ world.slow
        /\ asking' = asking \ {l}
        /\ linked' = FALSE
        /\ Told(l.by, << Result(l, FALSE, FALSE) >>)
        /\ UNCHANGED <<world, relay, half, calls, sent, blamed, peers, up>>

(* Mutant: the far end is not told. *)
RelayUnproxySilently(e) ==
    /\ TakeUp(e, "unproxy")
    /\ TakenUp(e)
    /\ linked' = FALSE
    /\ UNCHANGED <<world, relay, half, calls, sent, blamed, peers, asking, down>>

(* A half was disconnected: the far end is told, linked or not. *)
RelayUnproxy(e) ==
    /\ TakeUp(e, "unproxy")
    /\ IF ~world.permits THEN DropPeer(e)
       ELSE /\ TakenUp(e)
            /\ IF Other(e) \in peers
               THEN linked' = FALSE /\ Told(Other(e), << [type |-> "disconnected"] >>)
               ELSE UNCHANGED <<linked, down>>
            /\ UNCHANGED <<world, relay, half, calls, sent, blamed, peers, asking>>

(* A frame is passed on, or dropped when the far end has just gone. *)
RelayForward(e) ==
    \E i \in NextForward(up[e]) :
    /\ e \in peers
    /\ IF ~world.permits THEN DropPeer(e)
       ELSE /\ up' = [up EXCEPT ![e] = RemoveAt(@, i)]
            /\ IF Other(e) \in peers THEN Told(Other(e), <<up[e][i]>>) ELSE UNCHANGED down
            /\ UNCHANGED <<world, relay, half, calls, sent, blamed, peers, linked, asking>>

-----------------------------------------------------------------------------
Receive(e) == ReceiveResult(e) \/ ReceiveConnected(e) \/ ReceiveDisconnected(e) \/ ReceiveForward(e)
RelayReceive(e) == RelayProxy(e) \/ RelayAnswer(e) \/ RelayUnproxy(e) \/ RelayForward(e)

Next ==
    \/ \E e \in End :
        \/ Proxy(e) \/ Disconnect(e) \/ Send(e)
        \/ Receive(e) \/ E2ETimesOut(e) \/ ProxyTimesOut(e) \/ EndLoses(e)
        \/ RelayReceive(e) \/ RelayLoses(e)
    \/ AnswerTimesOut

Spec == Init /\ [][Next]_vars

(* Everyone reads what has come, a closing reaches the other side, and a   *)
(* timer that stays armed fires.                                           *)
EndRuns(e) == Receive(e) \/ E2ETimesOut(e) \/ (e \notin peers /\ EndLoses(e))
RelayRuns(e) == RelayReceive(e) \/ (~relay[e] /\ RelayLoses(e))
Fairness == \A e \in End : WF_vars(EndRuns(e)) /\ WF_vars(RelayRuns(e))

FairSpec == Spec /\ Fairness

-----------------------------------------------------------------------------
(* A half goes down with the connection it is carried by: none is left     *)
(* that swallows what is sent on it.  And the relay links only peers it    *)
(* holds.                                                                  *)
CarriedByRelay ==
    /\ \A e \in End : Holds(e) => relay[e]
    /\ linked => peers = End

OneAsks == \E e \in End : world.asks[e] = 0

(* Where one end asks, a frame that reaches a half comes from the other    *)
(* half of that link, never from an earlier link of the same two, and in   *)
(* the form that half reads: no clear frame where either hop requires e2e. *)
(* It need not where that end asks for a second link before it has lost    *)
(* the first, and a half is disconnected or a reply late meanwhile.        *)
FramesOfThisLink ==
    OneAsks /\ (world.again => world.tears = {} /\ ~world.slow) =>
    \A e \in End : Holds(e) => \A i \in NextForward(down[e]) :
        /\ down[e][i].frame.link = half[e].link
        /\ ~Unreadable(e, down[e][i].frame)

(* A proxy() settles. *)
ProxySettles ==
    \A e \in End, n \in 1..MaxAsks :
        calls[e][n] \in {"sent", "linking"} ~> calls[e][n] \notin {"sent", "linking"}

(* Where one end asks, once at a time, and no reply is late, a half whose  *)
(* far half is gone is taken down too.                                     *)
InTurn == OneAsks /\ ~world.again /\ ~world.slow
HalvesGoTogether ==
    \A e \in End : InTurn /\ Holds(e) /\ ~Holds(Other(e)) ~> ~Holds(e) \/ Holds(Other(e))

(* Where, besides, no half is disconnected and no connection fails, and    *)
(* either hop requires e2e, nobody is dropped as if it had misbehaved: the *)
(* end that was asked waits for the offer, so that no frame of its reaches *)
(* an end that has yet to handle the answer.  In clear nothing waits, and  *)
(* such a frame has its reader drop the relay.                             *)
NobodyBlamed ==
    InTurn /\ world.tears = {} /\ world.breaks = {} /\ world.permits /\ world.requires # {} =>
        blamed = {}

(* A half is taken down once its far half is gone: "proxies are notified   *)
(* by peers if they disconnect" (AnyProtocol._heartbeat), and have no      *)
(* heartbeat for that reason.                                              *)
ProxiesAreNotified ==
    \A e \in End : Holds(e) /\ ~Holds(Other(e)) ~> ~Holds(e) \/ Holds(Other(e))
=============================================================================
