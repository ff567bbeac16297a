------------------------------- MODULE E2ESwitch -------------------------------
(***************************************************************************)
(* Switching encryption on between the two ends of a live connection       *)
(* (libs/AnyProtocol.js: e2e, _offerE2E, _acceptE2E, the receive queues,   *)
(* _sealFrame and _openFrame), composed with the way out of each end       *)
(* (SendPath).                                                             *)
(*                                                                         *)
(* Either end may start, or both.  An end makes its keys, goes to          *)
(* SWITCHING_PROTOCOL, sends its offer; when the peer's offer arrives it   *)
(* derives the session from the two and goes back to CONNECTED, sealed.    *)
(* Handling the peer's offer keeps the receive queue busy until then, and  *)
(* link frames that arrive meanwhile are parked.                           *)
(*                                                                         *)
(* The wire of an end (out[e].wire) is read by the other one in order; a   *)
(* link that closes loses what was not read.                               *)
(***************************************************************************)
EXTENDS SendPath, Suites

CONSTANTS
    Requirements,   \* what the handshake may have settled of e2eRequired
    Worlds,         \* what a run is given: a set of World
    CallsWhenGone   \* may the application call e2e() on a closed connection?

World ==
    [sends: SUBSET {m \in Msg : Kind[m] # "switch"},     \* the messages that are sent
     faults: BOOLEAN,       \* may anything fail?  Otherwise there is a suite in common
     kex: [End -> Seq(Nat)],        \* the exchanges each end lists in its offer
     ciphers: [End -> Seq(Nat)]]    \* and the ciphers, in its own order

ASSUME E2ESwitchAssumption ==
    /\ \E e, o \in End : e # o /\ End = {e, o}
    /\ Requirements \subseteq BOOLEAN
    /\ Worlds \subseteq World
    /\ CallsWhenGone \in BOOLEAN

VARIABLES
    world,          \* one of Worlds
    e2eRequired,    \* does the connection require e2e?
    making,     \* createOffer() calls under way
    keys,       \* E2E_OFFER: which of our key pairs it holds, 0 for none
    offered,    \* which key pair the offer on our wire carries
    pending,    \* E2E_PENDING, the promise e2e() returned
    accepting,  \* where _acceptE2E is suspended
    session,    \* the key pairs and the suite the session was derived from
    taken,      \* frames of the peer's wire taken in
    opened,     \* session.recvCounter
    parked,     \* recvLinkPacketQueue, paused while switching
    got,        \* got[m]: frames of m handed to the application
    reason      \* why e refused a frame, if it did

recvVars == <<world, e2eRequired, making, keys, offered, pending, accepting, session, taken, opened,
              parked, got, reason>>
vars == <<sendVars, recvVars>>

Peer(e) == CHOOSE x \in End : x # e
Offer(e) == CHOOSE m \in Offers(e) : TRUE

(* Type invariant. *)
TypeOK ==
    /\ SendTypeOK
    /\ world \in Worlds
    /\ e2eRequired \in Requirements
    /\ making \in [End -> Nat]
    /\ keys \in [End -> Nat]
    /\ offered \in [End -> Nat]
    /\ pending \in [End -> {"none", "waiting", "resolved"}]
    /\ accepting \in [End -> {"none", "offer", "derive"}]
    /\ session \in [End -> [mine: Nat, theirs: Nat, suite: Suite]]
    /\ taken \in [End -> Nat]
    /\ opened \in [End -> Nat]
    /\ parked \in [End -> Seq(Frame)]
    /\ got \in [Msg -> Nat]
    /\ reason \in [End -> {"none", "Invalid Packet!", "Invalid encrypted frame",
                           "Plaintext message on a connection that requires e2e",
                           "e2e offer after e2e was established"}]

(* Where e2e is required both ends call e2e() as soon as they go live. *)
Init ==
    /\ SendInit
    /\ world \in Worlds
    /\ e2eRequired \in Requirements
    /\ making = [e \in End |-> IF e2eRequired THEN 1 ELSE 0]
    /\ keys = [e \in End |-> 0]
    /\ offered = [e \in End |-> 0]
    /\ pending = [e \in End |-> IF e2eRequired THEN "waiting" ELSE "none"]
    /\ accepting = [e \in End |-> "none"]
    /\ session = [e \in End |-> [mine |-> 0, theirs |-> 0, suite |-> NoSuite]]
    /\ taken = [e \in End |-> 0]
    /\ opened = [e \in End |-> 0]
    /\ parked = [e \in End |-> <<>>]
    /\ got = [m \in Msg |-> 0]
    /\ reason = [e \in End |-> "none"]

-----------------------------------------------------------------------------
(* Mutant: disconnect() leaves it waiting. *)
RejectPendingNever(e) == UNCHANGED pending

(* disconnect() also rejects an e2e() that is still waiting. *)
RejectPending(e) ==
    pending' = [pending EXCEPT ![e] = IF @ = "waiting" /\ ~ready[e] THEN "none" ELSE @]

Hangup(e) ==
    /\ RejectPending(e)
    /\ IF isConnected(e)
       THEN Drop(e, {}, out[e].hand)
       ELSE UNCHANGED <<state, linkQueue, out, stream, status>>
    /\ UNCHANGED ready

(* Mutant: an offer is made for every caller. *)
startOfferAlways(e) == making' = [making EXCEPT ![e] = IF keys[e] = 0 THEN @ + 1 ELSE @]

(* The offer is made once, however many callers ask (E2E_OFFERING). *)
startOffer(e) ==
    making' = [making EXCEPT ![e] = IF @ = 0 /\ keys[e] = 0 THEN 1 ELSE @]

(* The application calls e2e(); a call made before is answered the same. *)
CallE2E(e) ==
    /\ pending[e] = "none"
    /\ isConnected(e) \/ CallsWhenGone
    /\ IF ready[e]
       THEN pending' = [pending EXCEPT ![e] = "resolved"] /\ UNCHANGED making
       ELSE pending' = [pending EXCEPT ![e] = "waiting"] /\ startOffer(e)
    /\ UNCHANGED <<sendVars, world, e2eRequired, keys, offered, accepting, session, taken, opened, parked, got, reason>>

(* The keys are there: switch and send the offer, or find the link gone. *)
OfferMade(e) ==
    /\ making[e] > 0
    /\ making' = [making EXCEPT ![e] = @ - 1]
    /\ keys' = [keys EXCEPT ![e] = @ + 1]
    /\ IF isConnected(e) /\ status[Offer(e)] = "unsent"
       THEN /\ OfferOut(e, Offer(e))
            /\ offered' = [offered EXCEPT ![e] = keys'[e]]
            /\ UNCHANGED pending
       ELSE /\ status' = [status EXCEPT ![Offer(e)] = IF @ = "unsent" THEN "rejected" ELSE @]
            /\ IF isConnected(e) THEN UNCHANGED pending ELSE RejectPending(e)
            /\ UNCHANGED <<state, ready, linkQueue, out, stream, offered>>
    /\ UNCHANGED <<world, e2eRequired, accepting, session, taken, opened, parked, got, reason>>

(* The offer could not be sent: whoever waits for it hears. *)
OfferFailed(e) ==
    /\ status[Offer(e)] = "rejected"
    /\ pending[e] = "waiting" \/ accepting[e] = "offer"
    /\ Hangup(e)
    /\ accepting' = [accepting EXCEPT ![e] = "none"]
    /\ UNCHANGED <<world, e2eRequired, making, keys, offered, session, taken, opened, parked, got, reason>>

-----------------------------------------------------------------------------
(* Receiving                                                               *)

(* The next frame, when the receive queue is free to take it. *)
Incoming(e) == out[Peer(e)].wire[taken[e] + 1]
(* Mutant: the queue goes on while an offer is being accepted. *)
TakingEagerly(e) ==
    /\ isConnected(e)
    /\ taken[e] < Len(out[Peer(e)].wire)
    /\ taken' = [taken EXCEPT ![e] = @ + 1]
Taking(e) ==
    /\ isConnected(e)
    /\ accepting[e] = "none"
    /\ taken[e] < Len(out[Peer(e)].wire)
    /\ taken' = [taken EXCEPT ![e] = @ + 1]

SameKeys(e) ==
    /\ session[e].mine = session[Peer(e)].theirs
    /\ session[e].theirs = session[Peer(e)].mine
    /\ session[e].suite = session[Peer(e)].suite

(* What is wrong with a frame, before it is read: _openFrame expects every *)
(* frame sealed once the session is ready and none before, and opens it    *)
(* under the next counter.                                                 *)
Objection(e, f) ==
    IF e2eRequired /\ f.seal = 0 /\ Kind[f.msg] \in {"link", "forward"}
    THEN "Plaintext message on a connection that requires e2e"
    ELSE IF IF ready[e] THEN f.seal # opened[e] + 1 \/ ~SameKeys(e) ELSE f.seal # 0
    THEN "Invalid encrypted frame"
    ELSE IF Kind[f.msg] = "switch" /\ ready[e]
    THEN "e2e offer after e2e was established"
    ELSE "none"

Refuse(e) ==
    /\ reason' = [reason EXCEPT ![e] = Objection(e, Incoming(e))]
    /\ Hangup(e)
    /\ UNCHANGED <<making, accepting, opened, parked, got>>

Opened(e) == opened' = [opened EXCEPT ![e] = IF ready[e] THEN @ + 1 ELSE @]

(* A link frame is handed on when live and parked while switching; a frame *)
(* to relay and a heartbeat are taken in either state.                     *)
Receive(e) ==
    LET f == Incoming(e) IN
    /\ Taking(e)
    /\ Kind[f.msg] # "switch"
    /\ IF Objection(e, f) # "none" THEN Refuse(e)
       ELSE /\ Opened(e)
            /\ IF Kind[f.msg] = "link" /\ state[e] = "SWITCHING_PROTOCOL"
               THEN parked' = [parked EXCEPT ![e] = Append(@, f)] /\ UNCHANGED got
               ELSE got' = [got EXCEPT ![f.msg] = @ + 1] /\ UNCHANGED parked
            /\ UNCHANGED <<sendVars, making, pending, accepting, reason>>
    /\ UNCHANGED <<world, e2eRequired, keys, offered, session>>

(* The peer's offer, which asks for ours. *)
ReceiveOffer(e) ==
    LET f == Incoming(e) IN
    /\ Taking(e)
    /\ Kind[f.msg] = "switch"
    /\ IF Objection(e, f) # "none" THEN Refuse(e)
       ELSE /\ Opened(e)
            /\ startOffer(e)
            /\ accepting' = [accepting EXCEPT ![e] = "offer"]
            /\ UNCHANGED <<sendVars, pending, parked, got, reason>>
    /\ UNCHANGED <<world, e2eRequired, keys, offered, session>>

(* Mutant: accepting waits for e2e() itself to be over. *)
AcceptWaits(e) ==
    /\ accepting[e] = "offer"
    /\ status[Offer(e)] = "resolved"
    /\ pending[e] # "waiting"
    /\ accepting' = [accepting EXCEPT ![e] = IF isConnected(e) THEN "derive" ELSE "none"]
    /\ UNCHANGED <<sendVars, world, e2eRequired, making, keys, offered, pending, session, taken, opened, parked, got,
                   reason>>

(* Our offer is written. *)
AcceptGoesOn(e) ==
    /\ accepting[e] = "offer"
    /\ status[Offer(e)] = "resolved"
    /\ accepting' = [accepting EXCEPT ![e] = IF isConnected(e) THEN "derive" ELSE "none"]
    /\ UNCHANGED <<sendVars, world, e2eRequired, making, keys, offered, pending, session, taken, opened, parked, got,
                   reason>>

(* Mutant: what was parked is dropped. *)
UnparkNothing(e) == parked' = [parked EXCEPT ![e] = <<>>] /\ UNCHANGED got

(* The link receive queue resumes. *)
Unpark(e) ==
    /\ parked' = [parked EXCEPT ![e] = <<>>]
    /\ got' = [m \in Msg |-> got[m] + InQueue(parked[e], m)]

(* Each end chooses from its own offer and the other's. *)
suite(e) ==
    [kex |-> chooseKex(world.kex[e], world.kex[Peer(e)]),
     cipher |-> chooseCipher(world.ciphers[e], world.ciphers[Peer(e)])]
InCommon(s) == 0 \notin {s.kex, s.cipher}

(* The keys are derived: live again, the parked frames first. *)
Derived(e) ==
    /\ accepting[e] = "derive"
    /\ InCommon(suite(e))
    /\ accepting' = [accepting EXCEPT ![e] = "none"]
    /\ IF ~isConnected(e)
       THEN UNCHANGED <<sendVars, session, pending, parked, got>>
       ELSE /\ SessionUp(e)
            /\ session' = [session EXCEPT
                    ![e] = [mine |-> keys[e], theirs |-> offered[Peer(e)], suite |-> suite(e)]]
            /\ pending' = [pending EXCEPT ![e] = IF @ = "waiting" THEN "resolved" ELSE @]
            /\ Unpark(e)
    /\ UNCHANGED <<world, e2eRequired, making, keys, offered, taken, opened, reason>>

(* No suite in common, a malformed offer, a failing derivation. *)
DeriveFails(e) ==
    /\ world.faults
    /\ accepting[e] = "derive"
    /\ accepting' = [accepting EXCEPT ![e] = "none"]
    /\ Hangup(e)
    /\ UNCHANGED <<world, e2eRequired, making, keys, offered, session, taken, opened, parked, got, reason>>

-----------------------------------------------------------------------------
(* Everything else an end does                                             *)

(* Whatever drops the connection on the way rejects a waiting e2e() too. *)
WhileSending ==
    /\ pending' = [e \in End |-> IF /\ isConnected(e) /\ state'[e] = "DISCONNECTED"
                                    /\ pending[e] = "waiting" /\ ~ready[e]
                                 THEN "none" ELSE pending[e]]
    /\ UNCHANGED <<world, e2eRequired, making, keys, offered, accepting, session, taken, opened, parked, got, reason>>

(* Mutant: the peer is handed out as soon as the link is live. *)
AnnouncedEarly(e) == isConnected(e)

(* Where e2e is required, nobody is handed the peer before it is up; only  *)
(* the heartbeat runs.                                                     *)
Announced(e) == ~e2eRequired \/ pending[e] = "resolved"

Send(m) ==
    /\ m \in world.sends
    /\ Announced(Sender[m]) \/ Kind[m] = "heartbeat"
    /\ SendWhenGone(m) \/ QueueLink(m) \/ SendLink(m) \/ SendDirect(m)
    /\ WhileSending

StreamGoesOn(m) == (StreamPush(m) \/ StreamAborts(m) \/ StreamEnds(m)) /\ WhileSending

Written(e) == (WriteDone(e) \/ WriteFails(e)) /\ WhileSending

(* The e2eTimeout, armed on the way into SWITCHING_PROTOCOL. *)
E2ETimesOut(e) ==
    /\ world.faults
    /\ state[e] = "SWITCHING_PROTOCOL"
    /\ Hangup(e)
    /\ UNCHANGED <<world, e2eRequired, making, keys, offered, accepting, session, taken, opened, parked, got, reason>>

(* The link goes, of itself or because the other end dropped it. *)
LinkCloses(e) ==
    /\ isConnected(e)
    /\ world.faults \/ ~isConnected(Peer(e))
    /\ Hangup(e)
    /\ UNCHANGED <<world, e2eRequired, making, keys, offered, accepting, session, taken, opened, parked, got, reason>>

Handle(e) == Receive(e) \/ ReceiveOffer(e)
Accept(e) == OfferFailed(e) \/ AcceptGoesOn(e) \/ Derived(e) \/ DeriveFails(e)

Next ==
    \/ \E m \in Msg : Send(m) \/ StreamGoesOn(m)
    \/ \E e \in End :
        \/ CallE2E(e) \/ OfferMade(e) \/ Handle(e) \/ Accept(e)
        \/ Written(e) \/ E2ETimesOut(e) \/ LinkCloses(e)

Spec == Init /\ [][Next]_vars

(* Where anything may fail, only this is counted on: keys get made, whoever *)
(* waits for an offer hears of its failure, and a timer that is armed      *)
(* fires if nothing clears it.                                             *)
TimersRun(e) == world.faults /\ (OfferMade(e) \/ OfferFailed(e) \/ E2ETimesOut(e))

(* Where nothing fails the whole event loop of an end goes on: it takes    *)
(* what the link carries, its writes settle, keys are made and derived,    *)
(* streams go on; and an end learns that the other has closed.             *)
HandlersRun(e) ==
    /\ ~world.faults
    /\ \/ OfferMade(e) \/ Handle(e) \/ Accept(e) \/ Written(e)
       \/ \E m \in Msg : Sender[m] = e /\ StreamGoesOn(m)
       \/ ~isConnected(Peer(e)) /\ LinkCloses(e)

Fairness == \A e \in End : WF_vars(TimersRun(e) \/ HandlersRun(e))

FairSpec == Spec /\ Fairness

-----------------------------------------------------------------------------
(* However the two offers cross each other and the traffic in flight, no   *)
(* end refuses what an honest other end sent: no frame in clear meets a    *)
(* ready session, no sealed one a session not ready, no counter is out of  *)
(* step, and no offer comes twice.                                         *)
NothingRefused == \A e \in End : reason[e] = "none"

(* Ends that are both ready hold the same session, and what one opened is  *)
(* no more than the other sealed, short only of what is still on the wire. *)
SessionsAgree ==
    (\A e \in End : ready[e]) =>
        \A e \in End :
            LET wire == out[Peer(e)].wire
                unopened == {i \in DOMAIN wire : i > taken[e] /\ wire[i].seal # 0}
            IN  SameKeys(e) /\ opened[e] + Cardinality(unopened) = out[Peer(e)].seals

(* Where e2e is required, no message of the application is ever on the     *)
(* wire in clear.                                                          *)
RequiredMeansSealed ==
    e2eRequired => \A e \in End : \A i \in DOMAIN out[e].wire :
        Kind[out[e].wire[i].msg] \in {"link", "forward"} => out[e].wire[i].seal # 0

(* What an end has handed on of a message is what it took off the wire,    *)
(* less what it parked: parking and resuming around the switch neither     *)
(* drops nor doubles a frame of a connection that is still up.             *)
ParkedOnce ==
    \A e \in End : isConnected(e) =>
        \A m \in Msg : Kind[m] # "switch" /\ Sender[m] = Peer(e) =>
            got[m] + InQueue(parked[e], m) = InQueue(SubSeq(out[Peer(e)].wire, 1, taken[e]), m)

(* An e2e() settles: the link is encrypted, or it rejects, at the latest   *)
(* when the timeout drops the connection.                                  *)
E2ESettles == \A e \in End : pending[e] = "waiting" ~> pending[e] # "waiting"

(* Without failures the switch completes at both ends, whichever asked,    *)
(* and both are live again.                                                *)
SwitchCompletes ==
    \A e \in End : ~world.faults /\ pending[e] = "waiting"
        ~> \A x \in End : ready[x] /\ state[x] = "CONNECTED"

(* Without failures a message sent at any point around the switch arrives  *)
(* whole.                                                                  *)
AllArrive ==
    <>[](\A m \in Msg : ~world.faults /\ status[m] # "unsent" /\ Kind[m] # "switch" => got[m] = Chunks[m])
=============================================================================
