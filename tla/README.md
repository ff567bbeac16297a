# A verification of anysocket

anysocket connects processes over tcp, websockets or http: peers authenticate
each other, may switch end-to-end encryption on, send messages and calls, relay
for each other, and keep one connection per peer. This directory holds TLA+
models of its protocol core (`src/libs`), the TLC runs that check them, and
TLAPS proofs about them. Paths below are relative to the repository root.

- [The system](#the-system)
- [Modules](#modules)
- [Runs](#runs)
- [Fairness](#fairness)
- [Disagreements found](#disagreements-found)
- [Proofs](#proofs)
- [Not modelled](#not-modelled)
- [Plan](#plan)
- [Running it](#running-it)

## The system

| part | state | operations | talks to |
|---|---|---|---|
| **Handshake** (`AnyProtocol.js`, `Auth.js`) | protocol state, auth timer, both challenges, what the peer's AUTH said, receive limit | constructor, `_handleAuth`, `_handleAuthConfirm`, `_goLive`, timeout | peer's handshake by AUTH / AUTH_CONFIRM frames; `onAuth` of the application; emits `ready` to the registry |
| **Outgoing queues** (`AnyProtocol.js`, `SerialQueue.js`) | link queue, packet queue, held frames, stream of a large message and its window, seal counter | `send`, `_send`, `forward`, `processPacketQueue`, `changeState` | transport's `send`; the switch, which pauses and resumes them |
| **Receive queues** (`AnyProtocol.js`, `SerialQueue.js`) | receive queue, parked link frames, partial messages, open counter | `processRecvPacketQueue`, `_routeRecvPacket`, `_deliver` | handshake, switch, AnyPeer |
| **E2E switch** (`AnyProtocol.js`, `E2E.js`) | our offer and its promise, the promise of `e2e()`, session, e2e timer | `e2e`, `_offerE2E`, `_acceptE2E`, timeout | the peer's switch by SWITCH frames; both queues |
| **Registry** (`AnySocket.js`) | `peersConnected`, `peers`, transports, dial promises, deferred announcements | `connect`, `onProtocolReady`, `keepsExisting`, `probeExisting`, `onPeerDisconnected`, `stop` | every connection of the process; the application by `connected` and `disconnected` |
| **Calls** (`AnyPeer.js`, rpc in `AnySocket.js`) | pending calls by sequence number, their timers and abort signals | `_sendInner` with a reply awaited, `_resolveReply`, `_supersede`, `_rejectPending` | the queues; the application; the rpc guard and methods of the other end |
| **Heartbeat and probes** (`AnyProtocol.js`) | timer, misses, last receipt, waiting probes | `_heartbeat`, `_heartbeatPong`, `probe`, `_settleProbes` | the queues, the registry |
| **Maintained connections** (`Maintainer.js`) | the peer adopted, retry and stable timers, attempt, give-up clock | `_dial`, `_adopt`, `_onConnected`, `_onDisconnected`, `_schedule`, `fail`, `stop` | registry's `connect()` and events |
| **Relayed links** (`AnySocket.js`, `ProxyPeer.js`) | links at the relay, the questions it awaits answers to, a half of the link at both ends | `proxy`, `unproxy`, `onPeerInternalMessage`, `onForward`, `onPeerDisconnected` | registry; three processes |
| **Packets, frames, streams** (`Packet.js`, `Frame.js`, `tcp/peer.js`) | partial message, bytes of the stream | `chunks`, `deserialize`, `_receive` | queues, transports |
| **Transports** (`modules/transports`) | sockets, servers | listen, connect, stop | registry, protocol |
| HTTP router, browser shims, ciphers | — | — | — |

Everything runs on one event loop per process. What makes it hard is:

- *suspended handlers*: the handshake and the switch `await` signatures, keys,
  writes and the application, and anything may happen to the connection before
  they go on;
- *two ends that decide alone*: which end is live first, which e2e offer
  crossed which, which of two connections became ready first, are different at
  the two ends, and both must arrive at the same outcome;
- *queues that are interrupted*: a message may be cut in two by the switch, by a
  failing write or by a disconnection, and its promise must still settle;
- *failures and timers*: links close at any point, processes die without
  closing anything, timers race the answer they wait for.

What makes each part correct is stated with its module below; the hazards it is
exposed to are listed, with their lines, under `hazards` in `PROJECT.json`.

## Modules

### Handshake

Two ends, `"dialler"` and `"listener"`, and the frames on their way to each.
`conf`, chosen once, is the configuration of both: the secret each holds, if
any, whether it is optional, `requireE2E`, ids (they may be equal: a process
that dials itself), whether `onAuth` accepts, and whether there are failures.
The variables are the fields of `AnyProtocol`; `step[e]` is the `await` at which
the receive handler of `e` is suspended, so that one handler is several actions
with everything else in between:

| step | suspended in | left by |
|---|---|---|
| `onAuth` | the application's `onAuth` | `OnAuthRefuses`, `OnAuthTooLate`, `AuthDeclined`, `AuthAgreed`, `AuthSkipped` |
| `verify`, `verifyConfirm` | checking the peer's proof | `VerifySettles`, `VerifyConfirmSettles` |
| `prove` | signing ours | `ProveSettles` |
| `sendConfirm`, `sendProof`, `sendAnswer` | writing it | `SendSettles`, `SendFails` |

`net[e]` is what was sent to `e` and not yet handled, of which the first `arrived[e]`
wait in its receive queue. A frame arrives whatever handler is suspended (`Arrives`), and
that is where the transport checks its size (`tcp/peer.js:56`, and `maxPayload` for
websockets): an ordinary frame counts as a large one while a listener has not lifted the
limit (`refusesLarge`). It is handed over when no handler is waiting (`Take`).

A challenge is the name of the end that made it, a proof is the record of what
it signs (key, the two parties, whose proof it is): two proofs are equal when
the code's HMACs are. A live end sends one frame (`Speak`), so that frames reach
an end that is late with its half.

### SendPath

The way out, for any number of ends (one in its own runs, both in E2ESwitch).
`out[e]` is the packet queue: what waits (`queue`), what was held back while
switching (`held`), the frame in hand, the frames written (`wire`) with the seal
counter each was sealed under, 0 for none. `stream[m]` is the generator of a
message of several frames: next chunk, chunks in flight, and whether one failed.
`status[m]` is the promise of `send()`. `Run` is the run loop of `SerialQueue`
with the item handler `processPacketQueue`; every action that changes the queue
or its conditions ends in it, as the code's does. What is left of a queue once some
of its items are taken out is `Kept` (module Queues), written so that it can be
proved about: the prover knows nothing of `SelectSeq`.

### E2ESwitch

Composes both ends' SendPath with the offers, `_acceptE2E`, and what an end does
with the frames it takes from the other's wire. `keys` and `offered` name the
key pairs that were made, so that two sessions agree when they were derived from
the same two. `accepting[e]` is where `_acceptE2E` is suspended; while it is, the
receive queue takes nothing (`Taking`). `Objection` is what `_openFrame` and the
router refuse a frame for. `world` has what each end lists in its offer.

**Suites** is `chooseKex` and `chooseCipher`: functions of the two lists, with a name
standing for its place in the canonical order. Each end of E2ESwitch computes them
from its own side (`suite`), and a session is the keys and the suite it was derived with.

### Registry

Processes, each one instance of an `AnySocket`, under two ids; a process that
restarts comes back as another with the same id. `node[p]` is what process `p`
keeps: its connections that are up, ready and named (`protocol.peerID`), the one
in `peers`, the announcements on a timer, the last event about each peer, the
promises of `connect()`, the dials whose socket is not open yet, the connections
that wait for a probe and the one that is asked. An action is one turn of an
event loop. `Closed` is the synchronous chain `disconnect` → transport
`disconnected` → `onPeerDisconnected`, whichever end of the chain starts it. The
continuations of a settled probe are microtasks: while `answer` is set,
`ProbeSettles` is the only action of that process.

`Stop` closes every connection in one synchronous step and marks what is being
dialled as `stale` (the code compares how many `stop()` there were); a stale dial whose socket opens
later is closed at once (`Opens`). `StopEnds` is the continuation after the
transports: it forgets what is registered. The process may dial again after it.

The handshake is here one step, `Exchange` (both have the other's AUTH), after
which each end becomes ready in its own time: the Handshake module shows both
orders happen.

### Heartbeat, Calls, Maintainer

Three modules, each extending the one before, about one connection of a process
and what comes after it when it goes. `MCMaintainer` runs the last.

- **Heartbeat** is `_heartbeat`, `_heartbeatPong`, `_received` and what `changeState`
  does to the timers. Time is a number of ticks; `Tick` passes one, when no timer is
  due. What is received resets the count but leaves the timer as it was: it goes off
  early and waits for the rest (`BeatEarly`). Switching encryption on stops the
  timer, and `e2eTimer` bounds that. `GoesSilent`: the other end is gone without
  closing. `quiet` is what an observer's clock shows, where the code keeps the time of the last
  receipt (`lastReceived`). It starts at 0 when the connection goes live: what was last received
  of the handshake may be older by the steps that ended it, which are not counted.
- **Calls** is `_sendInner` with a reply awaited and all that settles it. `packets` is the
  table of pending calls, by number; `far[c]` how far the call is at the other end
  (dispatched, guarded, run, answered). A call whose message cannot be serialised
  (`SendFails`) fails at once and stays entered; the connection stays up, but its link queue
  is `Stuck`, and what is called over it afterwards waits for its timer (`"queued"`). Numbers go round at `MaxSeq`, shared with all
  else that is sent (`OtherSends`); a reply carries its call's number negated.
- **Maintainer** is a `maintain()` handle, with as much of the registry as it sees:
  which connection is registered (`peer`), `"connected"` from a timer (`announcing`),
  `"disconnected"` in the step that takes it out. Connections are dialled by the handle
  or by the other end; one may supersede another (`Superseded`: pending calls fail, as
  `_supersede` does), and all heartbeats, timers and calls run over the current one.

**CallContract** is what a call promises, with no connection in sight: it is answered by
its own reply if that comes while it waits, or it fails; once; and always in the end.
`Contract` in Calls maps the state of the code's calls to it, and `CallsKeepContract`
(every behaviour of Maintainer is one of CallContract, liveness included) is checked.

### Relay

Two ends, each connected to one relay, and not to each other. An end asks for a link
(`Proxy`); the relay links the two, asks the other end, and answers the first
(`RelayProxy`, `ReceiveConnected`, `RelayAnswer`, `ReceiveResult`). Each end has its
`half`: announced at once, or after e2e where either hop requires it (`required`,
`stage`). Frames go as forward frames over both connections. `Unproxy` is
`disconnect()` of a half, which the relay passes on (`RelayUnproxy`,
`ReceiveDisconnected`); `RelayGone` and `PeerGone` are `onPeerDisconnected` at an end
and at the relay. A frame or message the code takes for an offence drops the
connection it came by: `DropRelay`, `DropPeer`, noted in `blamed`.

`link` names a link after the call it was made by. The code has no such name, and no
guard looks at one, except where the crypto does: a frame sealed for one link cannot be
opened on another (`Unreadable`).

A hop keeps its messages in order, but they are not handled in order: a forward frame is
passed on or handed to its half as it is read (`_routeRecvPacket`, `AnyProtocol.js:1128`),
everything else goes through a second queue, an asynchronous `deserialize` and a promise
(`AnyProtocol.js:1143`, `AnySocket.js:205`). So `ReceiveForward` and `RelayForward` take the
first forward frame, whatever stands before it (`NextForward`), and all other actions what stands
first (`Take`, `TakeUp`): forward frames overtake the rest, and nothing else overtakes.

### Abstractions that all modules share

Messages serialise: `docs/README.md:612` and `:708` ask for "a JSON stringifiable value"
(or bytes). SendPath, and with it E2ESwitch, assumes it; Calls has the calls that break it.
The wire between two ends is ordered and lossless while the connection is up, as
tcp and websockets are, and what is left on it when the connection closes is
lost. A frame is what it carries, never its bytes. `debug` output and wording of
reasons are left out, the reasons a property tells apart excepted.

## Runs

| run | configuration | properties |
|---|---|---|
| `handshake` | 2 secrets, 2 ids, every configuration, with and without failures | `TypeOK`, `MutualAuth`, `LiveAgreement`, `NoFrameRefused`, `GoneForGood`, `TimeoutOnlyInHandshake`, `Settles`, `Outcome` |
| `send_path` | a message of 3 frames, a small one, a relayed frame, a heartbeat; window 2 | `NoSendLost`, `ChunksInOrder`, `ClearThenSealed`, `WindowKept`, `ResolvedMeansWritten`, `SendsSettle` |
| `e2e_switch` | a message of 2 frames one way, one of 1 the other; window 1; with failures, or without and a relayed frame besides; ciphers liked in opposite orders, one exchange in common, or no suite; e2e required or not | `TypeOK`, `NothingRefused`, `SessionsAgree`, `ParkedOnce`, `RequiredMeansSealed`, `E2ESettles`, `SwitchCompletes`, `AllArrive` |
| `registry` | 3 processes under 2 ids, 3 connections; calm, with twins, with failures, with `stop()` | `TypeOK`, `NoOrphans`, `EventsMatch`, `NothingComesBack`, `AskedIsKept`, `Agree`, `DialSettles` |
| `maintained` | a connection that is only called over, with both meanings of a reply timeout; one that is maintained, with and without heartbeats, `stop()`, calls, dials of the other end | `TypeOK`, `FoundOut`, `KeepsTrying`, `CallsKeepContract`, `Recovers` |
| `relay` | up to 2 calls of `proxy()`, 2 frames; every combination of halves torn down, a connection that fails, a hop that requires e2e; refusals; both ends asking; asking again; late replies | `TypeOK`, `CarriedByRelay`, `FramesOfThisLink`, `NobodyBlamed`, `ProxySettles`, `HalvesGoTogether` |
| `send_path_write_errors`, `send_path_held_first`, `e2e_when_gone`, `registry_twins`, `registry_twice`, `relay_again` | see [below](#disagreements-found) | one each, violated |

What they show:

- **handshake**: an end with a secret is live only with a peer that proved the
  same one and was proved to (or holds none, where optional); live ends agree on
  authentication and on the e2e requirement, which the e2e keys depend on; an
  honest peer's frame is never refused for coming early; a closed connection is
  not revived by a step that finishes late; the timeout fires only in the
  handshake, and always settles it; without failures the configurations alone
  decide the outcome.
- **send_path**: every pending `send()` is accounted for in a queue or a stream,
  chunks leave in order and once, the wire is clear up to our offer and sealed
  with consecutive counters after it, a large message keeps at most a window of
  frames in memory even while held back, `send()` resolves only when every
  frame was written, and always settles as long as messages serialise and writes fail only on a
  connection that has gone.
- **e2e_switch**: however the offers and the traffic cross,
  neither end refuses the other's frames; two ready ends hold one session, of one suite, and
  their counters differ by what is on the wire; parking loses and doubles
  nothing; where e2e is required no message leaves in clear; every `e2e()` made
  while connected settles, and without failures the switch completes and all
  messages arrive.
- **registry**: two processes that dial each other end up with the same
  connection, also when one of them restarts meanwhile; no live connection is
  left that nobody holds; `connected` and `disconnected` tell the application
  exactly what the registry holds; the connection that is asked is kept while it
  answers; nothing that was under way when `stop()` was called comes back, and
  every `connect()` settles, stopped or not.
- **maintained**: heartbeats drop a connection only after `MaxMissed + 1` intervals
  without a word, however what is received falls between the timers, and a silent one
  always by then (and a switch) at the latest; a call keeps its contract whatever reply, timer,
  signal, failing send, supersession or disconnection comes first, and whatever number
  it was given; a handle that has not stopped always has its peer, a dial or a timer, and
  once nothing more fails it has a peer that answers.
- **relay**: no half of a link outlives the connection that carries it, and the relay links
  only peers it has; where one end asks (and, if it asks again before it is answered, no
  half is disconnected and no reply late), a half never reads a frame of an earlier link of
  the same two, nor one in the form (clear, sealed, an offer) it does not expect, whatever the
  frame has overtaken; where either hop requires e2e an honest end is not dropped for the order in
  which the relay's answer, the first frames and the offers come (in clear it may be: see
  [below](#disagreements-found));
  `proxy()` settles; where one end asks, in turn and in time, both halves go together.

Bounds. *handshake*: two secrets are enough to differ, two ids to be equal or
not; each end takes at most one AUTH and one AUTH_CONFIRM, so nothing else needs
a bound. *send_path*: three chunks over a window of two make the stream wait for
room with chunks left; one message of each kind meets every branch of
`processPacketQueue`. *e2e_switch*: with a window of 1 and two chunks the switch can cut
the message in two; two exchanges and two ciphers are the least for the ends to differ
and to have one, both or none in common; heartbeats are covered by `send_path`. *registry*: three
connections are the least for a mutual dial beside another instance; `Mortal`
names the processes that may die (of one id: the case is symmetric up to which id
is lower, and both orders of direction occur). One process is stopped in a
behaviour, and it does not dial while `stop()` has not resolved.
*maintained*: `MaxSeq = 2` lets two calls and what else is sent go round the
numbers; a number is not given again while its last call is under way (`InUse`: it takes
2^31 packets within a reply timeout). `MaxLinks = 4` connections, `failures` of at most 2 things
going wrong: a disconnection and the failing dial after it. `Interval = 2` is the
least where what is received can fall within an interval, `MaxMissed = 2` the least where
a miss is not yet the end, `E2EWait = 3` differs from both. Back-off stops growing at `MaxAttempt`, as delays do
at `maxDelay`. *relay*: two calls make a second link between the same two, two
frames a first one early and one that follows; a connection to the relay is not
opened again. `world` in Registry, E2ESwitch, Relay and Maintainer, and `conf` in
Handshake, make one run cover the conditions a property is about. The runs end in
states where everything has been sent and settled, hence `CHECK_DEADLOCK FALSE`.

## Fairness

- *Handshake*, with failures: only that an armed timer fires (`TimerFairness`).
  Nothing is assumed of the peer, the network, `onAuth` or the crypto. Without
  failures: handlers go on and an end learns that the other closed.
- *SendPath*: a stream that can go on does, the transport settles the write in
  hand one way or the other (the heartbeat ends a connection that does not), a
  switch ends (by `e2eTimeout` at the latest).
- *E2ESwitch* (`FairSpec`), with failures: keys get made, a rejected offer's
  promise is heard, an armed timer fires. Without: the event loop
  of each end goes on, which includes its writes and derivations, and an end
  learns that the other has closed.
- *Registry*: handshakes under way end, a socket being dialled opens or fails, timers
  fire, a probe is answered or times out, the transports stop, and the end of a connection
  whose other end has gone notices, by the socket or by missed heartbeats.
- *Maintainer*: time passes and timers that are due go off; an end that is there is heard
  from, which its own heartbeats see to, and completes a switch; a dial settles (it has a
  timeout), a retry timer goes off. Nothing is assumed of calls but their timers.
- *Relay*: each of the three reads what has come, a closing reaches the other side, a
  timer that stays armed fires.

Application calls and failures are never fair.

## Disagreements found

Each is a run of its own that TLC finds violated.

1. **A failing write loses the sends behind it** (`send_path_write_errors`,
   `AnyProtocol.js:1034`). A chunk or a relayed frame whose write fails kills the
   packet queue without rejecting what it held; the disconnect that follows
   finds it empty. `AnyProtocol.js:980` says such sends are to be failed. All
   other properties of SendPath are checked with writes failing only once the
   connection has gone.
2. **What was held does not always go first** (`send_path_held_first`,
   `AnyProtocol.js:950`). The link queue is resumed before the held frames are put
   back, so its first message overtakes them, against the comment at line 953.
   Chunk order and counters survive it (`ChunksInOrder`, `ClearThenSealed`).
3. **`e2e()` after a close never settles** (`e2e_when_gone`,
   `AnyProtocol.js:395`), against `docs/README.md:699`.
4. **A live peer is evicted unasked** (`registry_twins`, `AnySocket.js:663`).
   A newcomer of another instance waits for a probe of the connection held; the
   other connection of a mutual dial replaces that one, the probe counts as
   unanswered, and the newcomer replaces the replacement.
5. **Two dials from one side may leave none** (`registry_twice`,
   `AnySocket.js:636`): each end keeps the one that was ready first there.
6. **A second `proxy()` unlinks the first** (`relay_again`, `AnySocket.js:905`). The far
   end refuses it, being linked already, and for that refusal the relay forgets the link
   that is up; when the asker's connection goes nobody tells the far end, whose half has no
   heartbeat because "proxies are notified by peers if they disconnect"
   (`AnyProtocol.js:1343`).

Seen while modelling, short of a finding:

- A message that cannot be serialised (against `docs/README.md:708`) does more harm than its
  rejection says. `packet.singleFrame` (`AnyProtocol.js:272`, `JSON.stringify` at
  `Packet.js:150`) throws inside the worker of the link queue: `send()` rejects, the
  connection stays up, and `running` (`SerialQueue.js:69`) is never reset, so every later
  `send()` waits until the connection goes. If it was queued during the switch the exception
  leaves `changeState(CONNECTED)` instead, the switch fails, the connection is dropped, and
  the `send()` of that message, taken out of the queue already, never settles. `SendsSettle`,
  `NoSendLost` and `AllArrive` are about messages that serialise; `CallsKeepContract` holds
  without that, because a call has a timer.
- A link in clear may cost its asker the relay. The end that was asked may send as soon as it
  has answered, which the relay provides for ("Linked before asking, so the target's first
  frames on the new link ... have a route the moment it accepts", `AnySocket.js:891`). A first
  frame that is read in the same data event as the answer before it is handled first, at the
  relay (`AnySocket.js:605` before `:914`) or at the asker (`AnyProtocol.js:1128` before
  `AnySocket.js:205`); the asker has no half yet and disconnects from the relay with "Invalid
  forward packet!" (`AnySocket.js:573`). With e2e required the end that was asked waits for an
  offer ("The other end's half of the link may not exist yet", `AnySocket.js:741`), so
  nothing of it can overtake its answer: `NobodyBlamed` is about those links, and
  is violated without that condition, in seven steps.
- A half that is taken down while a frame is on its way to it: the relay drops such
  frames (`AnySocket.js:585`), the end that receives one drops its connection to the relay
  (`AnySocket.js:572`). `NobodyBlamed` leaves out worlds where halves are taken down.
  Likewise a `proxy()` for a peer the relay has just lost gets its asker dropped.
- Nothing in a forwarded frame names its link. Where an end calls `proxy()` twice before the
  first is answered, and the far end's first half is disconnected or times out before it
  reads the second question, it accepts that one as well and its new half reads the frames
  of the first link. `FramesOfThisLink` leaves these worlds out.
- The asker's timeout leaves the half of the end that was asked: `HalvesGoTogether` is
  about worlds where replies come in time. Where both ends ask at once and both halves are
  inbound with e2e required, both wait for an offer until `e2eTimeout`.
- The comment on `heartbeatsMaxMissed` speaks of about two intervals; `FoundOut` has the
  exact bound, `MaxMissed + 1`.
- `_dial` of a handle may adopt any peer registered under its id, one that came by a
  relay or has not been announced included.

## Proofs

TLAPS checks these for every value of the constants, where the runs check an
instance.

| module | theorem | says |
|---|---|---|
| `HandshakeProofs` | `TypeCorrect` | `Spec => []TypeOK` |
| | `Inductive` | `Spec => []IInv` |
| | `MutualAuthHolds` | `Spec => []MutualAuth` |
| | `LiveAgreementHolds` | `Spec => []LiveAgreement` |
| | `GoneForGoodHolds` | `Spec => GoneForGood` |
| | `PhasesInStep` | `Spec => []PhaseInv` |
| | `NoFrameRefusedHolds` | `Spec => []NoFrameRefused` |
| | `TimeoutOnlyInHandshakeHolds` | `Spec => TimeoutOnlyInHandshake` |
| `RegistryProofs` | `TypeCorrect` | `Spec => []TypeOK` |
| | `NoOrphansHolds` | `Spec => []NoOrphans` |
| | `EventsMatchHolds` | `Spec => []EventsMatch` |
| | `NothingComesBackHolds` | `Spec => []NothingComesBack` |
| | `AskedIsKeptHolds` | `Spec => AskedIsKept` |
| `MaintainerProofs` | `TypeCorrect` | `Spec => []TypeOK` |
| | `FoundOutHolds` | `Spec => []FoundOut` |
| | `KeepsTryingHolds` | `Spec => []KeepsTrying` |
| | `CallsRefineContract` | `Spec` implements the safety part of CallContract |
| `SendPathProofs` | `SendTyped`, `SendInvariant` | `SendSpec => []SendTypeOK`, `SendSpec => []SendInv` |
| | `WindowIsKept` | `SendSpec => []WindowKept` |
| | `OfferDividesWire` | `SendSpec => []ClearThenSealed` |
| | `ChunksKeepOrder` | `~WriteErrors => (SendSpec => []ChunksInOrder)` |
| | `NoSendIsLost` | `~WriteErrors => (SendSpec => []NoSendLost)` |
| | `ResolvedIsWritten` | `~WriteErrors => (SendSpec => []ResolvedMeansWritten)` |
| `E2ESwitchProofs` | `ImplementsSendPath` | `Spec => SendSpec`: both ends' way out is SendPath's |
| | `SwitchTyped`, `SwitchInvariant` | `Spec => []TypeOK`, `Spec => []SwitchInv` |
| | `NothingIsRefused` | `Spec => []NothingRefused` |
| | `SessionsAlwaysAgree` | `Spec => []SessionsAgree` |
| | `RequiredIsSealed` | `Spec => []RequiredMeansSealed` |
| | `HandedOnOnce` | `Spec => []ParkedOnce` |
| `RelayProofs` | `TypeCorrect` | `Spec => []TypeOK` |
| | `CarriedByRelayHolds` | `Spec => [](CarriedByRelay /\ RequiredIsSealed)` |
| | `FramesOfThisLinkHolds` | `Spec => [](~world.again => FramesOfThisLink)` |
| | `NobodyBlamedHolds` | `Spec => []NobodyBlamed` |
| `SuitesProofs` | `ChoiceIsSymmetric` | both ends choose the same exchange and cipher |
| | `CipherIsLowest`, `KexIsFirst` | what is chosen is what the preferences say, and nothing only if nothing is shared |

Assumed are only the named assumptions on constants (`NoSecretAssumption`,
`NoIdAssumption`, `SendPathAssumption`: every message has a sender, a kind and at least one
frame, and every end an offer to send; `E2ESwitchAssumption`: two ends; `RegistryAssumption`, `HeartbeatAssumption`, `CallsAssumption`,
`MaintainerAssumption`, `RelayAssumption`: two ends, `SuitesAssumption`: some exchange and
some cipher exist), which TLC evaluates in the runs.

**Handshake**, for every set of secrets and ids and every configuration, with and
without failures. `MutualAuth` is not inductive: that an end is `authenticated` says
nothing of how it came to be. `IInv` adds

- `FramesGenuine`: what a frame on its way, or in a handler's hand, says of its
  sender is so, and a proof in it was made by an end that had taken the other's
  AUTH (so it has its id and its challenge);
- `Noted`: what an end has noted of its peer is right;
- `Stepping`: what a handler suspended in each step has already established — a
  dialler that signs has checked the listener's proof; a listener that answers
  without auth holds no secret, or an optional one and the peer none;
- `Settled`: a live end has its peer's id and is authenticated or need not be.

The argument is that a proof is checked against our own transcript: it equals the
one we would make only if the peer's secret, ids and challenges are ours. Every
conjunct is preserved because what an end has noted is never changed
(`KnownStep`) and frames stay genuine (`GenuineStays`).

`NoFrameRefused` is about timing, of which `IInv` says nothing: an end that is late with
its half may have frames of a live peer before it, and they must not arrive while it still
limits their size, nor be taken while it reads them as parts of the handshake. `PhaseInv` says for each end which part of the
other's it has yet to take (`InFront`: that part comes first on the wire, and what is
behind it was sent by a live end), that nothing comes from an end before its own part is
over (`Silent`), and what an end may wait for then (`Ready`). Only the listener's last
part makes the dialler live, and only the dialler's proof the listener (`AnswerFirst`,
`ConfirmFirst`), so that no two parts of one end are on the wire at once. No timer is
left armed on a live connection, which is `TimeoutOnlyInHandshake`.

**Registry**, for any processes and connections. What is up and ready is held, but
during a step (a connection is ready and it is not decided yet who goes; one that
waited is taken up again) it is not, so `HeldOf` says it *but for some others*, about
which the step is still to decide. `NodeInv(p, s, others)` is about one process and is
kept by each thing its registry does — `ClosedKeeps`, `RegisteredKeeps` and so on,
each also saying which fields it touches — and the actions are chains of those that
end with no others left. `InOrder` ties a process to what is dialled and exchanged:
only what is named is ready, so that a connection that goes takes its registration
with it. `ToldOf` is inductive beside `HeldOf`.

`AskedIsKept` is about a step, and about two processes: what one of them doubts must be
gone at the other. `AskInv` says that what is asked does not itself wait for a probe (one
that waited and is admitted is therefore never the one in doubt), and that, without
failures, the other end of what is registered and came back silent is down. It stays
down, because what is exchanged never comes up again (`Own`). Every action but two leaves
what is registered or clears it (`Quiet`); those two, `Ready` and `ProbeSettles`, replace it
by another instance only when it is doubted.

**Maintainer**. Three invariants, one for each module: what Maintainer does to a
connection and to its calls is one of a few kinds of step (`BeatStep`, `CallsStep`),
and each invariant is shown to be kept by those.

- `BeatInv`: a timer is armed where one must be (`Armed`), and the time since anything
  was received is at least what the misses account for (`QuietAtLeast`) and at most what
  the timers leave (`QuietAtMost`). The second counts `missed` intervals and the
  time the timer has run, which is why an early timer (`BeatEarly`) does no harm.
- `CallInv`: a number has the call it was given to last, what waits is entered and has
  its timer, and an answer under way finds its own call entered under its number, or none
  (`Entries`). So a reply answers its own call, which is the step mapping to CallContract.
- `KeepInv`: `KeepsTrying` is inductive with the types.

**Relay**, for any two ends. Each of the three processes keeps its part alone, whatever is on
its way to it: `HalfInv` says that an end with a half has its relay and that a half is
clear only where e2e is not required, `LinkInv` that the relay links only peers it has. An end
changes nothing of the relay's and the other way round, so each action is checked against
one of the two (`SetUpKeeps`, `ReceiveKeeps`, `EndKeeps`; `RelayReceiveKeeps`, `PeerGoneKeeps`).
That is `RelayInv`, and with the types it gives `CarriedByRelay`.

`FramesOfThisLink` is about the three together, and needs what is on its way: a frame can only
be told to belong to a half if nothing of an earlier link is still behind it. Where a asks and b
does not, the messages to an end in both hops are one sequence, `Way`, and of each only matters
what it `Say`s: it asks for link n, grants it, or is a frame of it. The invariant is in two parts.

- `Talk`: each queue holds only what can be in it when b never asks, and each half and answer
  requires e2e exactly if one of the two hops does. It is kept by each step alone.
- `Flow`: what is said is `InOrder` (no frame behind a question, none of an earlier link behind
  the yes to a later, no offer behind another frame of its link: an order that frames overtaking
  the rest leave alone); both halves
  and all frames that will still be read are of one link (`SameLink`), and the next is only asked
  for once a has no half and nothing of its own link to come (`Numbers`, `AskFirst`); nobody
  has sealed a link its asker has not heard to be granted, nor sent anything on it where e2e is
  required (`Unopened`); and what a half will
  read is in its form: offers while it waits for one, sealed frames once it is sealed, an offer
  before any sealed frame where its own is out (`Sealing`).

Order and content are stated of any sequence and carried over concatenation (`OfTwo`). What is
read of one is `Reads`: its head, or the first forward frame in it, which stands behind messages of
other kinds only (`ReadsIs`) and so may be said before all of them (`Overtaken`, `WhatIsRead`). The
steps then come down to a few kinds: an end tells (`WayTold`), an end reads (`WayRead`), the relay
passes on (`WayPassed`), a connection closes and takes what was not read with it. The hypothesis
`~world.again` is the one restriction: see `FramesOfThisLink` below.

`NobodyBlamed` needs three things more (`Smooth`), where nothing goes wrong (`Calm`): everyone is
still there (`Whole`); a call is in one message at a time, on its way round from a to a, and
what waits for it waits (`Calling`), so that the relay always knows the question an answer is to;
b has its half before a does and before anything is said of it, and a yes or an offer that an
end waits for is on its way (`Together`). So no frame finds no half (`FrameFound`): while a has none,
either nothing is said to it or the yes is still to come, and until a has read the yes no frame of
its link is on the way to it where e2e is required (`Unopened`), so there is none to overtake it. That
e2eTimeout does not fire is part of it: it fires only once nothing is on its way (`NothingGoes`).

**SendPath**, for any messages, cut into any number of frames, any window and any number
of ends. The invariant follows the frames through the queue. `Total` is how often a message
is in it, `Somewhere` says which of its chunks have been in it, `Rising` and `Above` in which
order: all are stated of any sequence and carried over concatenation (`CountConcat`,
`AtConcat`, `RisingConcat`), so that what the code does to the queue is a matter of cutting
it and putting the parts together. The run loop is such a cut (`RunIs`: what is held back,
what is in hand, what stays), and what `SessionUp` leaves of the queue keeps its order by
rank (`KeptIs`, over `LeastOf` and `RankGrows` of QueueProofs, both by well-foundedness).
`SendInv` is `MsgOK` for each message (its stream counts its frames in the queue right, a
direct message is there once or is settled), `EndOK` for each end (the order of the chunks,
what may be held) and `LinkOK` where both meet (a chunk that is not out yet comes after those
that are). A step of one end touches one message, or those of a queue that is given up;
each action has its lemma (`...Keeps`).

`SealInv` beside it is about what is written: frames in the clear up to our offer, then
sealed under 1, 2, 3 and on, `sendCounter` at the last. It is kept whatever fails. So is
`WindowKept`. The other three need `~WriteErrors`: with a socket that throws for one frame
and goes on, the code drops the frame and keeps its connection, which `send_path_write_errors`
shows (the first disagreement above). The hypothesis is that of the run.

**E2ESwitch**, for two ends, any messages and any worlds. `ImplementsSendPath` maps every step of
the switch to a step of SendPath or a stutter (variables of the same name), so everything proved of
the way out holds of both ends at once. `SwitchInv` says of each end

- `KeysOK`: it makes one key pair and sends one offer, with those keys, and has a session
  only of its own keys and the other's;
- `ReadOK`: it has read the other's wire up to before the other's offer, exactly to it, or
  beyond, as its session says (none, being derived, ready), and its receive counter is the number
  of sealed frames it has read;
- `Withheld`: where e2e is required nothing of the application leaves before the session is up;
- `FromPeer`: what is parked came from the other end.

`AroundOffer` and `BeforeOffer` take from `ClearThenSealed` that what stands before an offer on a
wire is clear and what stands after it sealed; `Unobjectionable` follows: the next frame has
the form, and the counter, its reader expects. `SessionsMatch` gives both ends the same keys,
and the same suite because the choice is a function of the two lists. `ParkedOnce` is inductive
beside them: what has been taken of the wire is a prefix of it (`FirstAndNext`), and a
frame taken goes to one place.

**Suites**, for all lists. What is shared is the same set from both sides, and so is the rank
of each member in the two lists together; the lowest by rank and then by place is unique, so
that it does not matter whose list is whose. `LowestIs` (there is one) rests on the
well-foundedness of the natural numbers.

**Only model-checked.** Liveness (`Settles` and `Outcome` of Handshake, `SendsSettle`,
`E2ESettles`, `SwitchCompletes`, `AllArrive`, `Agree`, `DialSettles`, `Recovers`, `ProxySettles`,
`HalvesGoTogether`, that a call settles in the end) rests on fairness, which these
provers do not reach; so does the liveness part of `CallsKeepContract`, whose safety part is
`CallsRefineContract`. Every safety invariant that a run checks is stated by a theorem. One of
them is proved of less than is checked: `FramesOfThisLink` where an end may ask `again` while it
has a half or awaits an answer. TLC finds it to hold there as long as no half is disconnected
and no reply is late, and not to hold otherwise, which is why the property says so: the frame
of a first link is then read by the half of a second, as nothing in it names its link. The proof
follows the links one after the other and does not cover two at once.

## Not modelled

- Registry: `stop()` while `listen()` is under way (`AnySocket.js:447`), and a connection
  that comes in between the two halves of `stop()` (`AnySocket.js:387`); the
  transports' port sharing. Both are listed under `hazards`.
- Relay: a connection to the relay that is opened again; a hop that switches to e2e with messages
  held, which leave in another order (`send_path_held_first`); more than two ends; the
  refusals of `proxy()` that depend on its arguments alone; limits on forward frames.
- Handshake: the version gate and the 1.0.x packet format (a parser); what
  follows is the same exchange.
- Maintainer: how long delays and jitter are; timers fire at any time.
- Receive side: framing, reassembly and their limits (planned as pure operators),
  and the re-entrant run loop of `SerialQueue.js`, modelled by what it does.
- How a runtime finds the suites it supports and measures its ciphers; which rpc
  function a path names.
- Cryptography: a proof is what it signs, a session what it is derived from; that
  HMAC, ECDH and AEAD do their work is assumed.
- HTTP routing, the browser shims, benchmarks, examples: no protocol state.

## Plan

What is left, in order:

1. *Relay* proofs: `FramesOfThisLink` where the end asks again: all frames a half may still
   read are of one link, the second question being refused as long as the far half stands;
   at most one offer is on each way, and a relay that has lost the far half has nothing left
   to pass on.
2. Pure operators with reference definitions: `chunks` against `deserialize`, stream
   framing.
3. Abstract *SerialQueue* (one item at a time, in order) and the re-entrant run
   loop of `SerialQueue.js` shown to implement it.

## Running it

    tlc -workers 2 -config Handshake.cfg MCHandshake
    tlc -workers 2 -config SendPath.cfg MCSendPath
    tlc -workers 2 -config E2ESwitch.cfg MCE2ESwitch
    tlc -workers 2 -config Registry.cfg MCRegistry
    tlc -workers 2 -config Maintainer.cfg MCMaintainer
    tlc -workers 2 -config Relay.cfg MCRelay
    tlapm HandshakeProofs.tla
    tlapm RegistryProofs.tla
    tlapm MaintainerProofs.tla
    tlapm RelayProofs.tla
    tlapm SuitesProofs.tla
    tlapm QueueProofs.tla
    tlapm SendPathProofs.tla
    tlapm E2ESwitchProofs.tla

Every property of a passing run has a mutant in `PROJECT.json`: a plausible bug, as
an operator next to the definition it would replace (marked *Mutant* in the
modules), under which TLC finds the property violated.
