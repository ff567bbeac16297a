------------------------------- MODULE SendPath -------------------------------
(***************************************************************************)
(* The way out of a connection (libs/AnyProtocol.js: send, _send, forward, *)
(* processPacketQueue, processLinkPacketQueue, changeState; the queues are *)
(* libs/SerialQueue.js).                                                   *)
(*                                                                         *)
(*   send() -> link queue -> stream of chunks -> packet queue -> wire      *)
(*                 |                                  |                    *)
(*        paused while switching           held while switching            *)
(*                                                                         *)
(* A link message waits in the link queue while encryption is being        *)
(* switched on.  A message of one frame goes to the packet queue at once,  *)
(* a larger one as a stream that keeps at most Window chunks in the packet *)
(* queue.  The packet queue has one frame in hand at a time; the frames it *)
(* meets while switching, our offer excepted, go to `held`, and come back  *)
(* to the head of the queue when the session is up.                        *)
(*                                                                         *)
(* The module is the outgoing side only, of any number of ends: when an    *)
(* end switches, when its session comes up and when it disconnects is left *)
(* open here, and settled in E2ESwitch.                                    *)
(*                                                                         *)
(* Assumed: every message can be serialised, as docs/README.md asks ("a    *)
(* JSON stringifiable value").  For one that cannot, singleFrame() throws  *)
(* in the worker of the link queue, which never goes on: Calls has what    *)
(* becomes of the calls over such a connection.                            *)
(***************************************************************************)
EXTENDS Naturals, Sequences, SequencesExt, FiniteSets, Queues

CONSTANTS
    End,            \* the ends of the connection
    Msg,            \* the messages an end may send, its e2e offer included
    Sender,         \* Sender[m]: the end that sends m
    Kind,           \* Kind[m]: how m travels
    Chunks,         \* Chunks[m]: the frames m is cut into
    Window,         \* options.sendWindow
    WriteErrors     \* may a write fail on a connection that is still up?

ASSUME SendPathAssumption ==
    /\ Sender \in [Msg -> End]
    /\ Kind \in [Msg -> {"link", "forward", "heartbeat", "switch"}]
    /\ Chunks \in [Msg -> Nat \ {0}]
    /\ \A m \in Msg : Kind[m] # "link" => Chunks[m] = 1
    /\ \A e \in End : \E m \in Msg : Sender[m] = e /\ Kind[m] = "switch"
    /\ Window \in Nat \ {0}
    /\ WriteErrors \in BOOLEAN

VARIABLES
    state,      \* PROTOCOL_STATES, from CONNECTED on
    ready,      \* is the e2e session ready, so that frames are sealed?
    linkQueue,  \* link messages waiting for the switch
    out,        \* the packet queue of each end, and what left it
    stream,     \* how far the stream of each large message is
    status      \* what became of each send()

sendVars == <<state, ready, linkQueue, out, stream, status>>

Item == [msg: Msg, chunk: Nat \ {0}]
Frame == [msg: Msg, chunk: Nat \ {0}, seal: Nat]    \* seal: 0 in clear, n the n-th sealed
Path == [queue: Seq(Item), held: Seq(Item), hand: Seq(Item), wire: Seq(Frame), seals: Nat]
Stream == [on: BOOLEAN, next: Nat \ {0}, inFlight: Nat, failed: BOOLEAN]

(* Type invariant: at most one frame is in hand. *)
SendTypeOK ==
    /\ state \in [End -> {"CONNECTED", "SWITCHING_PROTOCOL", "DISCONNECTED"}]
    /\ ready \in [End -> BOOLEAN]
    /\ linkQueue \in [End -> Seq(Msg)]
    /\ out \in [End -> Path]
    /\ \A e \in End : Len(out[e].hand) <= 1
    /\ stream \in [Msg -> Stream]
    /\ status \in [Msg -> {"unsent", "pending", "resolved", "rejected"}]

isConnected(e) == state[e] # "DISCONNECTED"
Single(m) == Chunks[m] = 1
Offers(e) == {m \in Msg : Sender[m] = e /\ Kind[m] = "switch"}

SendInit ==
    /\ state = [e \in End |-> "CONNECTED"]
    /\ ready = [e \in End |-> FALSE]
    /\ linkQueue = [e \in End |-> <<>>]
    /\ out = [e \in End |->
                [queue |-> <<>>, held |-> <<>>, hand |-> <<>>, wire |-> <<>>, seals |-> 0]]
    /\ stream = [m \in Msg |-> [on |-> FALSE, next |-> 1, inFlight |-> 0, failed |-> FALSE]]
    /\ status = [m \in Msg |-> "unsent"]

-----------------------------------------------------------------------------
(* The packet queue                                                        *)

frameOf(m) == [msg |-> m, chunk |-> 1]
IsOffer(item) == Kind[item.msg] = "switch"

(* processPacketQueue takes the first frame: it is sealed when the session *)
(* is up and given to the transport.                                       *)
TakeFirst(p, sealing) ==
    LET item == Head(p.queue)
        n == IF sealing THEN p.seals + 1 ELSE p.seals
    IN  [p EXCEPT !.queue = Tail(@), !.hand = <<item>>, !.seals = n,
                  !.wire = Append(@, [msg |-> item.msg, chunk |-> item.chunk,
                                      seal |-> IF sealing THEN n ELSE 0])]

(* Mutant: what is held last comes back first. *)
HoldBackReversed(p) ==
    LET n == SelectInSeq(p.queue, IsOffer)
        k == IF n = 0 THEN Len(p.queue) ELSE n - 1
    IN  [p EXCEPT !.held = SubSeq(p.queue, 1, k) \o @, !.queue = SubSeq(@, k + 1, Len(@))]

(* While switching, what stands before our offer is held back. *)
HoldBack(p) ==
    LET n == SelectInSeq(p.queue, IsOffer)
        k == IF n = 0 THEN Len(p.queue) ELSE n - 1
    IN  [p EXCEPT !.held = @ \o SubSeq(p.queue, 1, k), !.queue = SubSeq(@, k + 1, Len(@))]

(* Mutant: nothing is held back. *)
RunThrough(p, switching, sealing) ==
    IF p.hand = <<>> /\ p.queue # <<>> THEN TakeFirst(p, sealing) ELSE p

(* SerialQueue._run: an idle queue hands out what it may. *)
Run(p, switching, sealing) ==
    LET q == IF switching /\ p.hand = <<>> THEN HoldBack(p) ELSE p
    IN  IF q.hand = <<>> /\ q.queue # <<>> THEN TakeFirst(q, sealing) ELSE q

Push(p, items, switching, sealing) ==
    Run([p EXCEPT !.queue = @ \o items], switching, sealing)

(* What was held goes back ahead of what is still queued. *)
UnshiftHeld(p, sealing) ==
    Run([p EXCEPT !.queue = p.held \o @, !.held = <<>>], FALSE, sealing)

PushHere(e, items) ==
    out' = [out EXCEPT ![e] = Push(@, items, state[e] = "SWITCHING_PROTOCOL", ready[e])]

-----------------------------------------------------------------------------
(* Disconnecting                                                           *)

Waiting(e) == out[e].held \o out[e].queue
InQueue(items, m) == Cardinality({i \in DOMAIN items : items[i].msg = m})

(* A message not sent yet, whose send() a rejection settles at once; the   *)
(* chunk of a larger one tells its stream.                                 *)
Unsent(e) == ToSet(linkQueue[e]) \cup {m \in Msg : Single(m) /\ InQueue(Waiting(e), m) > 0}

(* Mutant: the queues are killed and nobody is told. *)
DropSilently(e, also, hand) ==
    /\ state' = [state EXCEPT ![e] = "DISCONNECTED"]
    /\ linkQueue' = [linkQueue EXCEPT ![e] = <<>>]
    /\ out' = [out EXCEPT ![e].queue = <<>>, ![e].held = <<>>, ![e].hand = hand]
    /\ status' = [m \in Msg |-> IF m \in also THEN "rejected" ELSE status[m]]
    /\ UNCHANGED stream

(* changeState(DISCONNECTED): what is waiting anywhere is rejected and the *)
(* queues are killed; the frame in hand settles by itself.  `also` are the *)
(* sends the caller rejects, `hand` what is left in hand.                  *)
Drop(e, also, hand) ==
    /\ state' = [state EXCEPT ![e] = "DISCONNECTED"]
    /\ linkQueue' = [linkQueue EXCEPT ![e] = <<>>]
    /\ out' = [out EXCEPT ![e].queue = <<>>, ![e].held = <<>>, ![e].hand = hand]
    /\ status' = [m \in Msg |-> IF m \in Unsent(e) \cup also THEN "rejected" ELSE status[m]]
    /\ stream' = [m \in Msg |-> LET n == InQueue(Waiting(e), m) IN
                    IF Single(m) \/ n = 0 THEN stream[m]
                    ELSE [stream[m] EXCEPT !.inFlight = @ - n, !.failed = TRUE]]

(* A link that closes, a timeout, the application: any time. *)
Disconnect(e) ==
    /\ isConnected(e)
    /\ Drop(e, {}, out[e].hand)
    /\ UNCHANGED ready

-----------------------------------------------------------------------------
(* send() and forward()                                                    *)

SendWhenGone(m) ==
    /\ status[m] = "unsent"
    /\ ~isConnected(Sender[m])
    /\ status' = [status EXCEPT ![m] = "rejected"]
    /\ UNCHANGED <<state, ready, linkQueue, out, stream>>

(* The link queue is paused while switching. *)
QueueLink(m) ==
    /\ status[m] = "unsent"
    /\ Kind[m] = "link"
    /\ state[Sender[m]] = "SWITCHING_PROTOCOL"
    /\ linkQueue' = [linkQueue EXCEPT ![Sender[m]] = Append(@, m)]
    /\ status' = [status EXCEPT ![m] = "pending"]
    /\ UNCHANGED <<state, ready, out, stream>>

(* _send: a single frame is queued at once, a larger message streams.  The *)
(* message can be serialised, here and where SessionUp takes it off the    *)
(* link queue.                                                             *)
SendLink(m) ==
    /\ status[m] = "unsent"
    /\ Kind[m] = "link"
    /\ state[Sender[m]] = "CONNECTED"
    /\ status' = [status EXCEPT ![m] = "pending"]
    /\ IF Single(m)
       THEN PushHere(Sender[m], <<frameOf(m)>>) /\ UNCHANGED stream
       ELSE stream' = [stream EXCEPT ![m].on = TRUE] /\ UNCHANGED out
    /\ UNCHANGED <<state, ready, linkQueue>>

(* A heartbeat is sent in CONNECTED only; a frame to relay is forwarded in *)
(* any state.                                                              *)
SendDirect(m) ==
    /\ status[m] = "unsent"
    /\ \/ Kind[m] = "heartbeat" /\ state[Sender[m]] = "CONNECTED"
       \/ Kind[m] = "forward" /\ isConnected(Sender[m])
    /\ PushHere(Sender[m], <<frameOf(m)>>)
    /\ status' = [status EXCEPT ![m] = "pending"]
    /\ UNCHANGED <<state, ready, linkQueue, stream>>

-----------------------------------------------------------------------------
(* The stream of a large message                                           *)

Streaming(m) == stream[m].on /\ status[m] = "pending"

(* Mutant: one chunk too many. *)
HasRoomForMore(m) == stream[m].inFlight <= Window
HasRoom(m) == stream[m].inFlight < Window

StreamPush(m) ==
    LET s == stream[m]
        e == Sender[m]
    IN  /\ Streaming(m)
        /\ s.next <= Chunks[m]
        /\ ~s.failed
        /\ HasRoom(m)
        /\ isConnected(e)
        /\ PushHere(e, <<[msg |-> m, chunk |-> s.next]>>)
        /\ stream' = [stream EXCEPT ![m].next = @ + 1, ![m].inFlight = @ + 1]
        /\ UNCHANGED <<state, ready, linkQueue, status>>

(* send() rejects, and drops the connection if it is still up. *)
RejectSend(m) ==
    IF isConnected(Sender[m])
    THEN Drop(Sender[m], {m}, out[Sender[m]].hand)
    ELSE /\ status' = [status EXCEPT ![m] = "rejected"]
         /\ UNCHANGED <<state, linkQueue, out, stream>>

(* The next chunk finds that one has failed, or the connection gone. *)
StreamAborts(m) ==
    /\ Streaming(m)
    /\ stream[m].next <= Chunks[m]
    /\ stream[m].failed \/ (HasRoom(m) /\ ~isConnected(Sender[m]))
    /\ RejectSend(m)
    /\ UNCHANGED ready

(* Mutant: a failed chunk is forgotten. *)
StreamEndsAnyway(m) ==
    /\ Streaming(m)
    /\ stream[m].next > Chunks[m]
    /\ stream[m].inFlight = 0
    /\ status' = [status EXCEPT ![m] = "resolved"]
    /\ UNCHANGED <<state, ready, linkQueue, out, stream>>

(* Every chunk is out of the queue: written, or one of them failed. *)
StreamEnds(m) ==
    /\ Streaming(m)
    /\ stream[m].next > Chunks[m]
    /\ stream[m].inFlight = 0
    /\ IF stream[m].failed
       THEN RejectSend(m)
       ELSE /\ status' = [status EXCEPT ![m] = "resolved"]
            /\ UNCHANGED <<state, linkQueue, out, stream>>
    /\ UNCHANGED ready

-----------------------------------------------------------------------------
(* The transport                                                           *)

(* Mutant: a chunk that fails is settled twice. *)
SettleTwice(m, how) ==
    IF Single(m)
    THEN status' = [status EXCEPT ![m] = how] /\ UNCHANGED stream
    ELSE /\ stream' = [stream EXCEPT ![m].inFlight = @ - (IF how = "rejected" THEN 2 ELSE 1),
                                     ![m].failed = @ \/ how = "rejected"]
         /\ UNCHANGED status

Settle(m, how) ==
    IF Single(m)
    THEN status' = [status EXCEPT ![m] = how] /\ UNCHANGED stream
    ELSE /\ stream' = [stream EXCEPT ![m].inFlight = @ - 1,
                                     ![m].failed = @ \/ how = "rejected"]
         /\ UNCHANGED status

(* The transport has taken the frame in hand, and the queue goes on. *)
WriteDone(e) ==
    /\ out[e].hand # <<>>
    /\ Settle(out[e].hand[1].msg, "resolved")
    /\ out' = [out EXCEPT ![e] =
                Run([@ EXCEPT !.hand = <<>>], state[e] = "SWITCHING_PROTOCOL", ready[e])]
    /\ UNCHANGED <<state, ready, linkQueue>>

(* It has not.  A single frame of ours drops the connection first; after a *)
(* chunk or a relayed frame only the packet queue is killed, and what it   *)
(* held is told nothing.                                                   *)
WriteFails(e) ==
    /\ out[e].hand # <<>>
    /\ WriteErrors \/ ~isConnected(e)
    /\ LET m == out[e].hand[1].msg IN
       IF isConnected(e) /\ Single(m) /\ Kind[m] # "forward"
       THEN Drop(e, {m}, <<>>)
       ELSE /\ Settle(m, "rejected")
            /\ out' = [out EXCEPT ![e].hand = <<>>, ![e].queue = <<>>]
            /\ UNCHANGED <<state, linkQueue>>
    /\ UNCHANGED ready

-----------------------------------------------------------------------------
(* Switching encryption on                                                 *)

(* Our keys are made: from here on only our offer goes out. *)
OfferOut(e, m) ==
    /\ state[e] = "CONNECTED"
    /\ m \in Offers(e)
    /\ status[m] = "unsent"
    /\ state' = [state EXCEPT ![e] = "SWITCHING_PROTOCOL"]
    /\ out' = [out EXCEPT ![e] = Push(@, <<frameOf(m)>>, TRUE, FALSE)]
    /\ status' = [status EXCEPT ![m] = "pending"]
    /\ UNCHANGED <<ready, linkQueue, stream>>

(* Mutant: what was held stays held. *)
SessionPathForgets(p, singles) == Push(p, singles, FALSE, TRUE)

SessionPath(p, singles) == UnshiftHeld(Push(p, singles, FALSE, TRUE), TRUE)

(* The session is ready: the link queue resumes, then what was held goes   *)
(* back to the head of the packet queue.                                   *)
SessionUp(e) ==
    LET singles == Kept(linkQueue[e], {i \in DOMAIN linkQueue[e] : Single(linkQueue[e][i])})
        items == [i \in DOMAIN singles |-> frameOf(singles[i])]
    IN  /\ state[e] = "SWITCHING_PROTOCOL"
        /\ \A m \in Offers(e) : status[m] = "resolved"
        /\ state' = [state EXCEPT ![e] = "CONNECTED"]
        /\ ready' = [ready EXCEPT ![e] = TRUE]
        /\ linkQueue' = [linkQueue EXCEPT ![e] = <<>>]
        /\ out' = [out EXCEPT ![e] = SessionPath(@, items)]
        /\ stream' = [m \in Msg |-> IF m \in ToSet(linkQueue[e]) /\ ~Single(m)
                                    THEN [stream[m] EXCEPT !.on = TRUE] ELSE stream[m]]
        /\ UNCHANGED status

-----------------------------------------------------------------------------
SendStep(m) ==
    \/ SendWhenGone(m) \/ QueueLink(m) \/ SendLink(m) \/ SendDirect(m)
    \/ StreamPush(m) \/ StreamAborts(m) \/ StreamEnds(m)

SendNext ==
    \/ \E m \in Msg : SendStep(m)
    \/ \E e \in End :
        \/ WriteDone(e) \/ WriteFails(e) \/ SessionUp(e) \/ Disconnect(e)
        \/ \E m \in Offers(e) : OfferOut(e, m)

SendSpec == SendInit /\ [][SendNext]_sendVars

(* A stream goes on when it can, the transport settles the frame in hand   *)
(* one way or the other (the heartbeat ends a connection whose writes do   *)
(* not), and a switch ends, at the latest by e2eTimeout.                   *)
SendFairness ==
    /\ \A m \in Msg : WF_sendVars(StreamPush(m) \/ StreamAborts(m) \/ StreamEnds(m))
    /\ \A e \in End : /\ WF_sendVars(WriteDone(e) \/ WriteFails(e))
                      /\ WF_sendVars(state[e] = "SWITCHING_PROTOCOL" /\ (SessionUp(e) \/ Disconnect(e)))

FairSendSpec == SendSpec /\ SendFairness

-----------------------------------------------------------------------------
(* The frames of m that have not left the packet queue. *)
Outstanding(m) == InQueue(Waiting(Sender[m]) \o out[Sender[m]].hand, m)

(* A send() that has not settled is still somewhere: in the link queue, in *)
(* the packet queue, held, in hand, or in a stream that counts its chunks  *)
(* there right.  So nothing queued is dropped without its send() hearing.  *)
NoSendLost ==
    \A m \in Msg : status[m] = "pending" =>
        LET inLink == m \in ToSet(linkQueue[Sender[m]]) IN
        IF Single(m) THEN inLink \/ Outstanding(m) = 1
        ELSE inLink \/ (stream[m].on /\ stream[m].inFlight = Outstanding(m))

(* However the queue was interrupted, the chunks of a message reach the    *)
(* wire once each and in order: reassembly takes them in that order.       *)
ChunksInOrder ==
    \A e \in End : \A i \in DOMAIN out[e].wire :
        LET wire == out[e].wire
            before == {j \in 1..i - 1 : wire[j].msg = wire[i].msg}
        IN  {wire[j].chunk : j \in before} = 1..wire[i].chunk - 1

(* On the wire, the frames before our offer and the offer itself are in    *)
(* clear, every frame after it is sealed, and the counters count up by one *)
(* in the order of the wire: the peer opens every frame after our offer,   *)
(* under the counter it expects.                                           *)
ClearThenSealed ==
    \A e \in End :
        LET wire == out[e].wire
            offerAt == SelectInSeq(wire, IsOffer)
            last == IF offerAt = 0 THEN Len(wire) ELSE offerAt
        IN  \A i \in DOMAIN wire : wire[i].seal = IF i <= last THEN 0 ELSE i - last

(* A message holds at most Window frames in memory at a time, also when    *)
(* they wait for the switch.                                               *)
WindowKept == \A m \in Msg : Outstanding(m) <= Window

(* A send() that resolved has had every frame written. *)
ResolvedMeansWritten ==
    \A m \in Msg : status[m] = "resolved" =>
        \A k \in 1..Chunks[m] :
            \E i \in DOMAIN out[Sender[m]].wire :
                out[Sender[m]].wire[i].msg = m /\ out[Sender[m]].wire[i].chunk = k

(* Every send() settles. *)
SendsSettle == \A m \in Msg : status[m] = "pending" ~> status[m] \in {"resolved", "rejected"}

(* What was held while switching goes first, ahead of anything queued      *)
(* since: the first frame written when the session comes up was held.      *)
HeldGoesFirst ==
    [][\A e \in End :
        LET n == Len(out[e].wire) IN
        (/\ state[e] = "SWITCHING_PROTOCOL" /\ state'[e] = "CONNECTED"
         /\ out[e].held # <<>>
         /\ Len(out'[e].wire) > n)
        => out'[e].wire[n + 1].msg = Head(out[e].held).msg]_sendVars
=============================================================================
