------------------------------- MODULE Registry -------------------------------
(***************************************************************************)
(* Which connection a process keeps to a peer (libs/AnySocket.js:          *)
(* onPeerConnected, onProtocolReady, keepsExisting, probeExisting,         *)
(* onPeerDisconnected, connect, stop), of peers it talks to directly.      *)
(*                                                                         *)
(* Processes carry ids, of which there are two here: everything the        *)
(* registry keeps is kept per id of the peer.  A process that restarts     *)
(* comes back under its id as another process (another instanceID); two    *)
(* running processes may share an id by mistake (twins).  Each end of a    *)
(* connection becomes ready, once the handshake has been exchanged, in its *)
(* own time, and decides alone what to do when it already holds another.   *)
(*                                                                         *)
(* An action is one turn of a process' event loop.  The continuations of a *)
(* probe run before its next turn: while `answer` is set nothing else does.*)
(***************************************************************************)
EXTENDS Naturals, Sequences, FiniteSets

CONSTANTS
    Proc,       \* processes, one for each instance of an AnySocket
    Id,         \* Id[p]: the anysocket id it carries
    Conn,       \* connections that may be dialled
    Dialler,    \* Dialler[c]
    Listener,   \* Listener[c]
    Mortal,     \* the processes that may die
    NoConn,
    Worlds      \* the conditions considered: a set of World

World ==
    [faults: BOOLEAN,   \* may links fail, probes time out and handshakes drag on?
     twins: BOOLEAN,    \* may two running processes share an id?
     twice: BOOLEAN,    \* may a process dial again while its last dial is connected?
     stops: BOOLEAN]    \* may processes be stopped, and go on afterwards?

ASSUME RegistryAssumption ==
    /\ Id \in [Proc -> 1..2]
    /\ Dialler \in [Conn -> Proc] /\ Listener \in [Conn -> Proc]
    /\ \A c \in Conn : Id[Dialler[c]] # Id[Listener[c]]
    /\ Mortal \subseteq Proc
    /\ NoConn \notin Conn
    /\ Worlds \subseteq World

VARIABLES
    world,      \* the conditions of this behaviour; never changes
    running,    \* the processes that run
    dead,       \* those that ran and died
    dialled,    \* connections opened so far
    exchanged,  \* those whose two AUTH have been exchanged
    node        \* what each process keeps

vars == <<world, running, dead, dialled, exchanged, node>>

Events == {"nothing", "connected", "disconnected"}
Dials == {"none", "pending", "resolved", "rejected"}
Node == [up: SUBSET Conn,           \* its ends of connections, while connected
         ready: SUBSET Conn,        \* those that have been ready
         named: SUBSET Conn,        \* those whose protocol has a peerID
         registered: Conn \cup {NoConn},    \* the one the peer in `peers` uses
         announcing: SUBSET Conn,   \* peers whose "connected" is on a timer
         told: [Conn -> Events],    \* the last event emitted about each peer
         dial: [Conn -> Dials],     \* the promises connect() returned
         opening: SUBSET Conn,      \* dials whose socket is not open yet
         stale: SUBSET Conn,        \* dials begun before the last stop()
         stopping: {"no", "closing", "done"},
         probing: Seq(Conn),        \* connections that wait for a probe
         asked: Conn \cup {NoConn},         \* the connection that is probed
         answer: {"none", "alive", "silent"}]   \* set while those waiting are told

Fresh == [up |-> {}, ready |-> {}, named |-> {}, registered |-> NoConn, announcing |-> {},
          told |-> [c \in Conn |-> "nothing"], dial |-> [c \in Conn |-> "none"],
          opening |-> {}, stale |-> {}, stopping |-> "no",
          probing |-> <<>>, asked |-> NoConn, answer |-> "none"]

Ends(c) == {Dialler[c], Listener[c]}
Far(p, c) == IF p = Dialler[c] THEN Listener[c] ELSE Dialler[c]
FarUp(p, c) == c \in node[Far(p, c)].up
SameId(p, q) == Id[p] = Id[q]

(* Type invariant: a probe has someone waiting for it. *)
TypeOK ==
    /\ world \in World
    /\ running \subseteq Proc /\ dead \subseteq Proc \ running
    /\ dialled \subseteq Conn /\ exchanged \subseteq dialled
    /\ node \in [Proc -> Node]
    /\ \A p \in Proc : node[p].asked = NoConn <=> node[p].probing = <<>>

Init ==
    /\ world \in Worlds
    /\ running \in {R \in SUBSET Proc :
            /\ \A p \in Proc : \E q \in R : SameId(p, q)
            /\ \A p, q \in R : SameId(p, q) => p = q \/ world.twins}
    /\ dead = {}
    /\ dialled = {}
    /\ exchanged = {}
    /\ node = [p \in Proc |-> Fresh]

-----------------------------------------------------------------------------
(* Disconnecting                                                           *)

(* Only the connection a peer is using takes it down. *)
Victim(s, c) == IF c \in s.named /\ s.registered = c THEN {c} ELSE {}

(* onPeerDisconnected, with the dialler's own handler, and disconnect()    *)
(* which runs them: they are one synchronous step.  A probe of the         *)
(* connection that goes is answered: not alive.                            *)
Closed(s, c) ==
    LET victim == Victim(s, c)
        gone == {c} \cup victim
    IN  [s EXCEPT !.up = @ \ gone,
                  !.registered = IF victim = {} THEN @ ELSE NoConn,
                  !.told = [x \in Conn |-> IF x \in victim THEN "disconnected" ELSE @[x]],
                  !.dial = [x \in Conn |-> IF x \in gone /\ @[x] = "pending"
                                           THEN "rejected" ELSE @[x]],
                  !.answer = IF @ = "none" /\ s.asked \in gone THEN "silent" ELSE @]

-----------------------------------------------------------------------------
(* A connection is ready                                                   *)

SameInstance(p, c, d) == Far(p, c) = Far(p, d)
isOutbound(p, c) == Dialler[c] = p

(* Mutant: each end keeps what it has. *)
keepsFirst(p, existing, incoming) == SameInstance(p, existing, incoming)

(* Of two connections to one instance, the one the lower id dialled. *)
keepsExisting(p, existing, incoming) ==
    /\ SameInstance(p, existing, incoming)
    /\ \/ isOutbound(p, existing) = isOutbound(p, incoming)
       \/ isOutbound(p, existing) = (Id[p] < Id[Far(p, incoming)])

(* Mutant: registering forgets the dial. *)
ResolveNever(s, c) == s
Resolve(s, c) == [s EXCEPT !.dial[c] = IF @ = "pending" THEN "resolved" ELSE @]

Registered(s, c) ==
    [Resolve(s, c) EXCEPT !.registered = c, !.announcing = @ \cup {c}]

(* The duplicate goes; its dial succeeds with the peer that is kept. *)
Refused(s, c) == Closed([Resolve(s, c) EXCEPT !.named = @ \ {c}], c)

(* Mutant: the peer retired leaves without an event. *)
SupersededSilently(s) ==
    Closed([s EXCEPT !.registered = NoConn, !.named = @ \ {s.registered}], s.registered)

(* The peer held is retired; it is unhooked first. *)
Superseded(s) ==
    LET existing == s.registered
    IN  Closed([s EXCEPT !.registered = NoConn, !.named = @ \ {existing},
                         !.told[existing] = "disconnected"], existing)

(* onProtocolReady, past the question of another instance. *)
Admitted(p, s, c) ==
    IF s.registered = NoConn THEN Registered(s, c)
    ELSE IF keepsExisting(p, s.registered, c) THEN Refused(s, c)
    ELSE Registered(Superseded(s), c)

(* Mutant: a new instance is not probed for. *)
MustProbeNever(p, c) == FALSE

(* Another instance of the peer we hold: is that one still there? *)
MustProbe(p, c) ==
    node[p].registered # NoConn /\ ~SameInstance(p, node[p].registered, c)

Turn(p) == p \in running /\ node[p].answer = "none"

Ready(p, c) ==
    LET s == [node[p] EXCEPT !.ready = @ \cup {c}]
    IN  /\ Turn(p)
        /\ c \in exchanged
        /\ c \in node[p].up \ node[p].ready
        /\ Far(p, c) \in running \/ world.faults
        /\ node' = [node EXCEPT ![p] =
                IF MustProbe(p, c)
                THEN [s EXCEPT !.probing = Append(@, c), !.asked = s.registered]
                ELSE Admitted(p, s, c)]
        /\ UNCHANGED <<world, running, dead, dialled, exchanged>>

-----------------------------------------------------------------------------
(* The probe                                                               *)

(* Something arrives on the connection that is probed: its end is there,   *)
(* or it was sent before that process died.                                *)
ProbeAnswered(p) ==
    /\ Turn(p)
    /\ node[p].probing # <<>>
    /\ FarUp(p, node[p].asked) \/ world.faults
    /\ node' = [node EXCEPT ![p].answer = "alive"]
    /\ UNCHANGED <<world, running, dead, dialled, exchanged>>

(* Nothing has arrived within duplicateProbeTimeout.  One timer settles    *)
(* every probe of that connection.                                         *)
ProbeTimesOut(p) ==
    /\ Turn(p)
    /\ node[p].probing # <<>>
    /\ ~FarUp(p, node[p].asked) \/ world.faults
    /\ node' = [node EXCEPT ![p].answer = "silent"]
    /\ UNCHANGED <<world, running, dead, dialled, exchanged>>

(* Mutant: a probe that found the connection gone is forgotten. *)
ProbeOutcomeIgnored(p, s, c) ==
    IF s.answer = "silent" /\ s.registered = NoConn THEN s ELSE Admitted(p, s, c)

(* What the connection that waited does about the answer. *)
ProbeOutcome(p, s, c) ==
    IF c \notin s.up THEN s
    ELSE IF s.answer = "alive" /\ s.registered = s.asked THEN Refused(s, c)
    ELSE Admitted(p, s, c)

(* Mutant: the list of those waiting is not emptied. *)
ProbeSettlesAgain(p) ==
    /\ p \in running
    /\ node[p].answer # "none"
    /\ node' = [node EXCEPT ![p] =
            [ProbeOutcome(p, node[p], Head(node[p].probing))
                EXCEPT !.asked = NoConn, !.answer = "none"]]
    /\ UNCHANGED <<world, running, dead, dialled, exchanged>>

(* The connections that waited are told one after the other. *)
ProbeSettles(p) ==
    LET rest == Tail(node[p].probing)
        s == ProbeOutcome(p, [node[p] EXCEPT !.probing = rest], Head(node[p].probing))
    IN  /\ p \in running
        /\ node[p].answer # "none"
        /\ node' = [node EXCEPT ![p] =
                IF rest = <<>> THEN [s EXCEPT !.asked = NoConn, !.answer = "none"] ELSE s]
        /\ UNCHANGED <<world, running, dead, dialled, exchanged>>

-----------------------------------------------------------------------------
(* Events                                                                  *)

(* The timer of "connected": the peer may have gone by now. *)
Announce(p, c) ==
    /\ Turn(p)
    /\ c \in node[p].announcing
    /\ node' = [node EXCEPT ![p].announcing = @ \ {c},
                            ![p].told[c] = IF node[p].registered = c THEN "connected" ELSE @]
    /\ UNCHANGED <<world, running, dead, dialled, exchanged>>

-----------------------------------------------------------------------------
(* Connections and processes                                               *)

Listens(q) == q \in running /\ node[q].stopping = "no"

(* connect().  Bound: not before a stop() has resolved. *)
Dial(c) ==
    LET p == Dialler[c]
    IN  /\ Turn(p)
        /\ node[p].stopping # "closing"
        /\ c \notin dialled
        /\ world.twice \/ \A d \in node[p].up \cup node[p].opening : Dialler[d] # p
        /\ dialled' = dialled \cup {c}
        /\ node' = [node EXCEPT ![p].opening = @ \cup {c}, ![p].dial[c] = "pending"]
        /\ UNCHANGED <<world, running, dead, exchanged>>

(* Mutant: what a stop() came before is not looked at. *)
OpensAnyway(c) ==
    LET p == Dialler[c]
        q == Listener[c]
    IN  /\ Turn(p) /\ c \in node[p].opening
        /\ Turn(q) /\ Listens(q)
        /\ node' = [node EXCEPT ![p].opening = @ \ {c}, ![p].up = @ \cup {c},
                                ![q].up = @ \cup {c}]
        /\ UNCHANGED <<world, running, dead, dialled, exchanged>>

(* The socket is open.  One dialled before a stop() is closed again: the   *)
(* other end has seen it open.                                             *)
Opens(c) ==
    LET p == Dialler[c]
        q == Listener[c]
        s == [node[p] EXCEPT !.opening = @ \ {c}]
    IN  /\ Turn(p) /\ c \in node[p].opening
        /\ Turn(q) /\ Listens(q)
        /\ node' = [node EXCEPT ![q].up = @ \cup {c},
                                ![p] = IF c \in s.stale THEN [s EXCEPT !.dial[c] = "rejected"]
                                                        ELSE [s EXCEPT !.up = @ \cup {c}]]
        /\ UNCHANGED <<world, running, dead, dialled, exchanged>>

(* Nobody answers the dial. *)
DialFails(c) ==
    LET p == Dialler[c]
    IN  /\ Turn(p) /\ c \in node[p].opening
        /\ world.faults \/ ~Listens(Listener[c])
        /\ node' = [node EXCEPT ![p].opening = @ \ {c}, ![p].dial[c] = "rejected"]
        /\ UNCHANGED <<world, running, dead, dialled, exchanged>>

(* Each end has the other's AUTH: its id and its instance. *)
Exchange(c) ==
    /\ \A p \in Ends(c) : Turn(p) /\ c \in node[p].up
    /\ c \notin exchanged
    /\ exchanged' = exchanged \cup {c}
    /\ node' = [p \in Proc |-> IF p \in Ends(c) THEN [node[p] EXCEPT !.named = @ \cup {c}]
                                                ELSE node[p]]
    /\ UNCHANGED <<world, running, dead, dialled>>

(* The other end has closed it, or is gone and its silence is noticed; or  *)
(* the link fails, or the application disconnects.                         *)
LinkCloses(p, c) ==
    /\ Turn(p)
    /\ c \in node[p].up
    /\ world.faults \/ ~FarUp(p, c)
    /\ node' = [node EXCEPT ![p] = Closed(@, c)]
    /\ UNCHANGED <<world, running, dead, dialled, exchanged>>

(* stop(): every connection is closed, in one synchronous step, and the    *)
(* listeners stop.  Bounds: one process at a time is stopped, and it does  *)
(* not listen again.                                                       *)
Stop(p) ==
    LET s == node[p]
    IN  /\ Turn(p) /\ world.stops
        /\ \A q \in Proc : node[q].stopping = "no"
        /\ node' = [node EXCEPT ![p] =
                [s EXCEPT !.up = {},
                          !.registered = NoConn,
                          !.told = [c \in Conn |-> IF c = s.registered THEN "disconnected" ELSE @[c]],
                          !.dial = [c \in Conn |-> IF c \in s.up /\ @[c] = "pending"
                                                   THEN "rejected" ELSE @[c]],
                          !.answer = IF s.asked \in s.up THEN "silent" ELSE @,
                          !.stale = s.opening,
                          !.stopping = "closing"]]
        /\ UNCHANGED <<world, running, dead, dialled, exchanged>>

(* The transports have stopped, and what is still registered is forgotten. *)
StopEnds(p) ==
    /\ Turn(p)
    /\ node[p].stopping = "closing"
    /\ node' = [node EXCEPT ![p].registered = NoConn, ![p].named = {}, ![p].stopping = "done"]
    /\ UNCHANGED <<world, running, dead, dialled, exchanged>>

(* A process dies without closing anything. *)
Dies(p) ==
    /\ p \in running \cap Mortal
    /\ running' = running \ {p}
    /\ dead' = dead \cup {p}
    /\ node' = [node EXCEPT ![p] = Fresh]
    /\ UNCHANGED <<world, dialled, exchanged>>

(* Another starts, under the id of one that died. *)
Starts(p) ==
    /\ p \notin running \cup dead
    /\ world.twins \/ \A q \in running : ~SameId(p, q)
    /\ running' = running \cup {p}
    /\ UNCHANGED <<world, dead, dialled, exchanged, node>>

Next ==
    \/ \E c \in Conn : Dial(c) \/ Opens(c) \/ DialFails(c) \/ Exchange(c)
    \/ \E p \in Proc :
        \/ ProbeAnswered(p) \/ ProbeTimesOut(p) \/ ProbeSettles(p)
        \/ Stop(p) \/ StopEnds(p) \/ Dies(p) \/ Starts(p)
        \/ \E c \in Conn : Ready(p, c) \/ Announce(p, c) \/ LinkCloses(p, c)

Spec == Init /\ [][Next]_vars

(* A dial is answered or fails, handshakes end, a probe is answered or     *)
(* times out, and an end notices that the other has gone (it closed, or    *)
(* missed heartbeats).                                                     *)
Fairness ==
    /\ \A c \in Conn :
        /\ WF_vars(Opens(c) \/ DialFails(c) \/ Exchange(c))
        /\ \A p \in Ends(c) : WF_vars(Ready(p, c)) /\ WF_vars(~FarUp(p, c) /\ LinkCloses(p, c))
    /\ \A p \in Proc : WF_vars(ProbeAnswered(p) \/ ProbeTimesOut(p) \/ ProbeSettles(p))

FairSpec == Spec /\ Fairness

-----------------------------------------------------------------------------
(* No connection outlives its place in the registry: of the connections of *)
(* a process that are up and ready, one is the registered peer's, and any  *)
(* other still waits for its probe.  None is live with nobody holding it.  *)
NoOrphans ==
    \A p \in Proc :
        LET s == node[p]
            waiting == {s.probing[i] : i \in DOMAIN s.probing}
        IN  s.up \cap s.ready = ({s.registered} \ {NoConn}) \cup (waiting \cap s.up)

(* What the application has been told is what the registry holds: the      *)
(* peers it has seen "connected" and not "disconnected" are the registered *)
(* one, once its announcement is due, and nobody else.                     *)
EventsMatch ==
    \A p \in Proc :
        {c \in Conn : node[p].told[c] = "connected"} =
            ({node[p].registered} \ {NoConn}) \ node[p].announcing

(* stop() leaves nothing live behind, and nothing comes back: what was     *)
(* dialled before it never is up, however late its socket opens, and       *)
(* whatever was being probed or set up meanwhile is not kept.              *)
NothingComesBack ==
    \A p \in Proc :
        /\ node[p].stale \cap node[p].up = {}
        /\ node[p].stopping = "closing" => node[p].up = {} /\ node[p].registered = NoConn

(* Without failures a peer whose process is there is not given up for      *)
(* another instance of it: the connection held is asked first, and kept    *)
(* while it answers.                                                       *)
GivesUpLive(p) ==
    LET held == node[p].registered
        new == node'[p].registered
    IN  /\ p \in running'
        /\ NoConn \notin {held, new} /\ held # new
        /\ ~SameInstance(p, held, new)
        /\ FarUp(p, held)
LiveIsKept == [][~world.faults => \A p \in Proc : ~GivesUpLive(p)]_vars

(* The same, as far as the probe goes: the connection that was asked is    *)
(* kept while its end is there, and none is given up without a probe.      *)
AskedIsKept ==
    [][~world.faults => \A p \in Proc :
        node[p].answer = "none" \/ node[p].asked = node[p].registered => ~GivesUpLive(p)]_vars

Kept(c) == \A p \in Ends(c) : node[p].registered = c
Connected ==
    \A c \in exchanged : Ends(c) \subseteq running
        => \E d \in exchanged : Ends(d) = Ends(c) /\ Kept(d)
Calm == ~world.faults /\ ~world.twins /\ ~world.twice /\ ~world.stops

(* The two ends end up with the same connection; and without failures,     *)
(* shared ids and second dials, two processes of which one has dialled the *)
(* other, or both have, do end up connected.                               *)
Agree ==
    <>[](/\ \A p \in Proc : node[p].registered # NoConn => Kept(node[p].registered)
         /\ Calm => Connected)

(* Of several connections between two processes one is kept, also when     *)
(* they were all dialled from the same side.                               *)
OneIsKept == <>[]Connected

(* connect() settles, whichever way the duplicate rule and the probe went. *)
DialSettles ==
    \A c \in Conn : node[Dialler[c]].dial[c] = "pending" ~> node[Dialler[c]].dial[c] # "pending"
=============================================================================
