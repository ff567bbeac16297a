------------------------------ MODULE Handshake ------------------------------
(***************************************************************************)
(* The handshake of one direct connection (libs/AnyProtocol.js): the AUTH  *)
(* exchange between the end that dialled and the end that listened, with   *)
(* the built-in challenge-response auth (libs/Auth.js) when both hold a    *)
(* secret.                                                                 *)
(*                                                                         *)
(*   dialler --- AUTH (challenge) ---------------------> listener          *)
(*   dialler <-- AUTH (challenge, proof) --------------- listener          *)
(*   dialler --- AUTH_CONFIRM (proof) -----------------> listener          *)
(*                                                                         *)
(* Without a secret in common the listener answers with a bare AUTH and    *)
(* there is no third message.  Every `await` of the handlers is a place    *)
(* where the link can close or a timer fire, so every await is a value of  *)
(* `step`: an action runs from one await to the next.                      *)
(*                                                                         *)
(* A frame arrives, and its size is checked, whatever handler is waiting;  *)
(* the receive queue then hands over one frame at a time, when none is.    *)
(* Once live, an end sends one ordinary frame, which the other end may be  *)
(* late for.                                                               *)
(***************************************************************************)
EXTENDS Naturals, Sequences

CONSTANTS
    Secrets,    \* the secrets an operator may configure
    NoSecret,   \* no built-in auth configured
    Ids,        \* anysocket ids
    NoId        \* no id known yet

ASSUME NoSecretAssumption == NoSecret \notin Secrets
ASSUME NoIdAssumption == NoId \notin Ids

End == {"dialler", "listener"}
Other(e) == IF e = "dialler" THEN "listener" ELSE "dialler"

(* A challenge is random, so each end's is a value of its own: the end.    *)
Challenge == End \cup {"none"}

Party == [id: Ids \cup {NoId}, challenge: Challenge]
Proof == [key: Secrets \cup {NoSecret}, parties: SUBSET Party, proofFor: Ids \cup {NoId}]
NoProof == [key |-> NoSecret, parties |-> {}, proofFor |-> NoId]

LiveTypes == {"LINK", "SWITCH", "HEARTBEAT"}
Message == [type: {"AUTH", "AUTH_CONFIRM"} \cup LiveTypes,
            id: Ids \cup {NoId}, ac: Challenge, ap: Proof, e2e: BOOLEAN]
NoMessage == [type |-> "LINK", id |-> NoId, ac |-> "none", ap |-> NoProof, e2e |-> FALSE]

Reasons == {"none", "Invalid Auth Packet!", "Unexpected Auth Confirm!", "Invalid Packet!",
            "Message too large", "Plaintext message on a connection that requires e2e", "Connected to self", "auth timed out", "send failed",
            "Remote Connection Closed"}

VARIABLES
    conf,           \* what each end was configured with; never changes
    state,          \* PROTOCOL_STATES
    timer,          \* is the auth timeout armed?
    limited,        \* is the transport still refusing large frames?
    authReceived,   \* AUTH_RECEIVED
    peerID,         \* the id taken from the peer's AUTH
    challenge,      \* AUTH_CHALLENGE, ours
    peerChallenge,  \* AUTH_PEER_CHALLENGE
    authenticated,  \* did the built-in auth complete?
    e2eRequired,    \* settled from both ends' requireE2E
    step,           \* the await the receive handler is suspended at
    hand,           \* the frame in the receive handler's hand
    net,            \* net[e]: frames sent to e and not yet handled
    arrived,        \* arrived[e]: how many of these wait in e's receive queue
    spoken,         \* has e sent its one frame after going live?
    reason          \* why e disconnected

vars == <<conf, state, timer, limited, authReceived, peerID, challenge, peerChallenge,
          authenticated, e2eRequired, step, hand, net, arrived, spoken, reason>>

Configuration ==
    [secret: [End -> Secrets \cup {NoSecret}], optional: [End -> BOOLEAN],
     requireE2E: [End -> BOOLEAN], id: [End -> Ids], accepts: [End -> BOOLEAN],
     faults: BOOLEAN]   \* may the link fail and the timers fire?

States == {"ESTABLISHED", "AUTHING", "CONNECTED", "DISCONNECTED"}
Steps == {"idle", "onAuth", "verify", "prove", "sendConfirm", "sendProof", "sendAnswer",
          "verifyConfirm"}

(* Type invariant. *)
TypeOK ==
    /\ conf \in Configuration
    /\ state \in [End -> States]
    /\ timer \in [End -> BOOLEAN]
    /\ limited \in [End -> BOOLEAN]
    /\ authReceived \in [End -> BOOLEAN]
    /\ peerID \in [End -> Ids \cup {NoId}]
    /\ challenge \in [End -> Challenge]
    /\ peerChallenge \in [End -> Challenge]
    /\ authenticated \in [End -> BOOLEAN]
    /\ e2eRequired \in [End -> BOOLEAN]
    /\ step \in [End -> Steps]
    /\ hand \in [End -> Message]
    /\ net \in [End -> Seq(Message)]
    /\ arrived \in [End -> Nat] /\ \A e \in End : arrived[e] <= Len(net[e])
    /\ spoken \in [End -> BOOLEAN]
    /\ reason \in [End -> Reasons]

-----------------------------------------------------------------------------
(* What is signed and what is sent                                         *)

isConnected(e) == state[e] # "DISCONNECTED"
HoldsSecret(e) == conf.secret[e] # NoSecret

(* Both ends build the same transcript: the two parties in an order that   *)
(* does not depend on who dialled (a set here), and whose proof it is.     *)
transcript(e) == {[id |-> conf.id[e], challenge |-> challenge[e]],
                  [id |-> peerID[e], challenge |-> peerChallenge[e]]}
prove(e, proofFor) == [key |-> conf.secret[e], parties |-> transcript(e), proofFor |-> proofFor]
(* Mutants: any proof will do; a proof checked as if it were ours. *)
verifyPresence(e, proof) == proof # NoProof
verifyOwn(e, proof) == proof = prove(e, conf.id[e])
verify(e, proof) == proof = prove(e, peerID[e])

(* Mutant: the requirement does not travel. *)
authPacketBare(e, proof) ==
    [type |-> "AUTH", id |-> conf.id[e], ac |-> IF HoldsSecret(e) THEN e ELSE "none",
     ap |-> proof, e2e |-> FALSE]
(* Mutant: the secret goes out in the place of the challenge. *)
authPacketLeaks(e, proof) ==
    [type |-> "AUTH", id |-> conf.id[e], ac |-> conf.secret[e], ap |-> proof,
     e2e |-> conf.requireE2E[e]]
(* Our AUTH: with our challenge whenever we hold a secret. *)
authPacket(e, proof) ==
    [type |-> "AUTH", id |-> conf.id[e], ac |-> IF HoldsSecret(e) THEN e ELSE "none",
     ap |-> proof, e2e |-> conf.requireE2E[e]]
confirmPacket(proof) ==
    [type |-> "AUTH_CONFIRM", id |-> NoId, ac |-> "none", ap |-> proof, e2e |-> FALSE]
livePacket(type) == [type |-> type, id |-> NoId, ac |-> "none", ap |-> NoProof, e2e |-> FALSE]

Transmit(e, m) == net' = [net EXCEPT ![Other(e)] = Append(@, m)]

(* DISCONNECTED is final, and clears the timer; a second disconnect finds  *)
(* everything done.                                                        *)
Disconnect(e, why) ==
    /\ state' = [state EXCEPT ![e] = "DISCONNECTED"]
    /\ timer' = [timer EXCEPT ![e] = FALSE]
    /\ reason' = [reason EXCEPT ![e] = IF isConnected(e) THEN why ELSE @]

(* Mutants: a handshake that finishes late revives the link; the timeout   *)
(* is left armed.                                                          *)
goLiveLate(e) ==
    /\ state' = [state EXCEPT ![e] = "CONNECTED"]
    /\ timer' = [timer EXCEPT ![e] = FALSE]
    /\ UNCHANGED reason
goLiveArmed(e) ==
    IF isConnected(e)
    THEN state' = [state EXCEPT ![e] = "CONNECTED"] /\ UNCHANGED <<timer, reason>>
    ELSE UNCHANGED <<state, timer, reason>>

(* Become usable, unless the link went while the handshake was waiting. *)
goLive(e) ==
    IF isConnected(e)
    THEN /\ state' = [state EXCEPT ![e] = "CONNECTED"]
         /\ timer' = [timer EXCEPT ![e] = FALSE]
         /\ UNCHANGED reason
    ELSE UNCHANGED <<state, timer, reason>>

Await(e, s) == step' = [step EXCEPT ![e] = s]

-----------------------------------------------------------------------------
(* The constructors of both ends have run: the dialler's AUTH is out.      *)
Init ==
    /\ conf \in Configuration
    /\ state = [e \in End |-> IF e = "dialler" THEN "AUTHING" ELSE "ESTABLISHED"]
    /\ timer = [e \in End |-> TRUE]
    /\ limited = [e \in End |-> e = "listener"]
    /\ authReceived = [e \in End |-> FALSE]
    /\ peerID = [e \in End |-> NoId]
    /\ challenge = [e \in End |->
            IF e = "dialler" /\ HoldsSecret("dialler") THEN "dialler" ELSE "none"]
    /\ peerChallenge = [e \in End |-> "none"]
    /\ authenticated = [e \in End |-> FALSE]
    /\ e2eRequired = [e \in End |-> FALSE]
    /\ step = [e \in End |-> "idle"]
    /\ hand = [e \in End |-> NoMessage]
    /\ net = [e \in End |-> IF e = "listener" THEN <<authPacket("dialler", NoProof)>> ELSE <<>>]
    /\ arrived = [e \in End |-> 0]
    /\ spoken = [e \in End |-> FALSE]
    /\ reason = [e \in End |-> "none"]

(* Mutant: the limit is lifted only when the listener's answer is written. *)
refusesLargeTillSent(e) == limited[e] \/ step[e] \in {"sendProof", "sendAnswer"}
refusesLarge(e) == limited[e]

(* The next frame arrives, whatever handler is waiting.  One the transport *)
(* finds too large, as an ordinary message may be while a listener has not *)
(* answered, ends the connection.                                          *)
Arrives(e) ==
    /\ isConnected(e)
    /\ arrived[e] < Len(net[e])
    /\ IF net[e][arrived[e] + 1].type = "LINK" /\ refusesLarge(e)
       THEN Disconnect(e, "Message too large") /\ UNCHANGED arrived
       ELSE arrived' = [arrived EXCEPT ![e] = @ + 1] /\ UNCHANGED <<state, timer, reason>>
    /\ UNCHANGED <<conf, limited, authReceived, peerID, challenge, peerChallenge, step,
                   authenticated, e2eRequired, hand, net, spoken>>

(* The receive queue hands over the next frame, of one of these types. *)
Take(e, types) ==
    /\ isConnected(e)
    /\ step[e] = "idle"
    /\ arrived[e] > 0
    /\ Head(net[e]).type \in types
    /\ hand' = [hand EXCEPT ![e] = Head(net[e])]
    /\ net' = [net EXCEPT ![e] = Tail(@)]
    /\ arrived' = [arrived EXCEPT ![e] = @ - 1]

(* An AUTH: the first one goes to onAuth, which may take its time. *)
ReceiveAuth(e) ==
    /\ Take(e, {"AUTH"})
    /\ IF state[e] \notin {"ESTABLISHED", "AUTHING"}
       THEN Disconnect(e, "Invalid Packet!") /\ UNCHANGED <<authReceived, step>>
       ELSE IF authReceived[e]
       THEN Disconnect(e, "Invalid Auth Packet!") /\ UNCHANGED <<authReceived, step>>
       ELSE /\ authReceived' = [authReceived EXCEPT ![e] = TRUE]
            /\ Await(e, "onAuth")
            /\ UNCHANGED <<state, timer, reason>>
    /\ UNCHANGED <<conf, limited, peerID, challenge, peerChallenge, authenticated, e2eRequired,
                   spoken>>

(* The dialler's proof, taken only by a listener that asked for one. *)
ReceiveConfirm(e) ==
    /\ Take(e, {"AUTH_CONFIRM"})
    /\ IF state[e] # "ESTABLISHED"
       THEN Disconnect(e, "Invalid Packet!") /\ UNCHANGED step
       ELSE IF ~HoldsSecret(e) \/ peerID[e] = NoId \/ peerChallenge[e] = "none"
       THEN Disconnect(e, "Unexpected Auth Confirm!") /\ UNCHANGED step
       ELSE Await(e, "verifyConfirm") /\ UNCHANGED <<state, timer, reason>>
    /\ UNCHANGED <<conf, limited, authReceived, peerID, challenge, peerChallenge,
                   authenticated, e2eRequired, spoken>>

(* Anything else belongs to a live connection.  Before that, a control     *)
(* frame is refused and a message is parked; a message in clear is refused *)
(* where e2e is required.                                                  *)
ReceiveLive(e) ==
    /\ Take(e, LiveTypes)
    /\ IF Head(net[e]).type = "LINK" /\ e2eRequired[e]
       THEN Disconnect(e, "Plaintext message on a connection that requires e2e")
       ELSE IF Head(net[e]).type # "LINK" /\ state[e] # "CONNECTED"
       THEN Disconnect(e, "Invalid Packet!")
       ELSE UNCHANGED <<state, timer, reason>>
    /\ UNCHANGED <<conf, limited, authReceived, peerID, challenge, peerChallenge, step,
                   authenticated, e2eRequired, spoken>>

-----------------------------------------------------------------------------
(* onAuth has answered                                                     *)

(* It refused the peer, or threw. *)
OnAuthRefuses(e) ==
    /\ step[e] = "onAuth"
    /\ ~conf.accepts[e]
    /\ Disconnect(e, "Invalid Auth Packet!")
    /\ Await(e, "idle")
    /\ UNCHANGED <<conf, limited, authReceived, peerID, challenge, peerChallenge,
                   authenticated, e2eRequired, hand, net, arrived, spoken>>

(* It accepted, but the link went while it ran; or we dialled ourselves. *)
OnAuthTooLate(e) ==
    /\ step[e] = "onAuth"
    /\ conf.accepts[e]
    /\ \/ ~isConnected(e) /\ UNCHANGED <<state, timer, reason>>
       \/ /\ isConnected(e)
          /\ hand[e].id = conf.id[e]
          /\ Disconnect(e, "Connected to self")
    /\ Await(e, "idle")
    /\ UNCHANGED <<conf, limited, authReceived, peerID, challenge, peerChallenge,
                   authenticated, e2eRequired, hand, net, arrived, spoken>>

(* It accepted another peer: note who it is and what it requires. *)
OnAuthAccepts(e) ==
    /\ step[e] = "onAuth"
    /\ conf.accepts[e]
    /\ isConnected(e)
    /\ hand[e].id # conf.id[e]
    /\ peerID' = [peerID EXCEPT ![e] = hand[e].id]
    /\ e2eRequired' = [e2eRequired EXCEPT ![e] = conf.requireE2E[e] \/ hand[e].e2e]

peerOffersAuth(e) == hand[e].ac # "none"

(* We hold a secret and the peer did not offer the auth: a refusal. *)
AuthDeclined(e) ==
    /\ OnAuthAccepts(e)
    /\ HoldsSecret(e) /\ ~peerOffersAuth(e) /\ ~conf.optional[e]
    /\ Disconnect(e, "Invalid Auth Packet!")
    /\ Await(e, "idle")
    /\ UNCHANGED <<conf, limited, authReceived, challenge, peerChallenge, authenticated,
                   hand, net, arrived, spoken>>

(* Both offer it: the dialler has the listener's proof to check, the       *)
(* listener its own to sign.                                               *)
AuthAgreed(e) ==
    /\ OnAuthAccepts(e)
    /\ HoldsSecret(e) /\ peerOffersAuth(e)
    /\ peerChallenge' = [peerChallenge EXCEPT ![e] = hand[e].ac]
    /\ challenge' = [challenge EXCEPT ![e] = e]
    /\ Await(e, IF e = "dialler" THEN "verify" ELSE "prove")
    /\ UNCHANGED <<conf, state, timer, limited, authReceived, authenticated, hand, net,
                   arrived, spoken, reason>>

(* No secret, or an optional one the peer does not hold: the dialler is    *)
(* done, the listener answers first.                                       *)
AuthSkipped(e) ==
    /\ OnAuthAccepts(e)
    /\ ~HoldsSecret(e) \/ (~peerOffersAuth(e) /\ conf.optional[e])
    /\ \/ /\ e = "dialler"
          /\ goLive(e)
          /\ Await(e, "idle")
          /\ UNCHANGED <<limited, challenge, net>>
       \/ /\ e = "listener"
          /\ limited' = [limited EXCEPT ![e] = FALSE]
          /\ challenge' = [challenge EXCEPT ![e] = IF HoldsSecret(e) THEN e ELSE @]
          /\ Transmit(e, authPacket(e, NoProof))
          /\ Await(e, "sendAnswer")
          /\ UNCHANGED <<state, timer, reason>>
    /\ UNCHANGED <<conf, authReceived, peerChallenge, authenticated, hand, arrived,
                   spoken>>

-----------------------------------------------------------------------------
(* The proofs                                                              *)

(* The dialler has checked the listener's proof. *)
VerifySettles(e) ==
    /\ step[e] = "verify"
    /\ IF verify(e, hand[e].ap)
       THEN Await(e, "prove") /\ UNCHANGED <<state, timer, reason>>
       ELSE Await(e, "idle") /\ Disconnect(e, "Invalid Auth Packet!")
    /\ UNCHANGED <<conf, limited, authReceived, peerID, challenge, peerChallenge,
                   authenticated, e2eRequired, hand, net, arrived, spoken>>

(* Our proof is signed: the dialler confirms with it, the listener answers *)
(* with it, unless send() finds the link gone.                             *)
ProveSettles(e) ==
    /\ step[e] = "prove"
    /\ limited' = [limited EXCEPT ![e] = FALSE]
    /\ IF ~isConnected(e)
       THEN Await(e, "idle") /\ UNCHANGED net
       ELSE LET proof == prove(e, conf.id[e]) IN
            IF e = "dialler"
            THEN Transmit(e, confirmPacket(proof)) /\ Await(e, "sendConfirm")
            ELSE Transmit(e, authPacket(e, proof)) /\ Await(e, "sendProof")
    /\ UNCHANGED <<conf, state, timer, authReceived, peerID, challenge, peerChallenge,
                   authenticated, e2eRequired, hand, arrived, spoken, reason>>

(* The listener has checked the dialler's proof. *)
VerifyConfirmSettles(e) ==
    /\ step[e] = "verifyConfirm"
    /\ Await(e, "idle")
    /\ IF verify(e, hand[e].ap)
       THEN authenticated' = [authenticated EXCEPT ![e] = TRUE] /\ goLive(e)
       ELSE Disconnect(e, "Invalid Auth Packet!") /\ UNCHANGED authenticated
    /\ UNCHANGED <<conf, limited, authReceived, peerID, challenge, peerChallenge,
                   e2eRequired, hand, net, arrived, spoken>>

(* A write has finished.  The listener's proof leaves it waiting for the   *)
(* dialler's; the other two are the last step of their end.                *)
SendSettles(e) ==
    /\ step[e] \in {"sendConfirm", "sendProof", "sendAnswer"}
    /\ Await(e, "idle")
    /\ authenticated' = [authenticated EXCEPT ![e] = @ \/ step[e] = "sendConfirm"]
    /\ IF step[e] = "sendProof" THEN UNCHANGED <<state, timer, reason>> ELSE goLive(e)
    /\ UNCHANGED <<conf, limited, authReceived, peerID, challenge, peerChallenge,
                   e2eRequired, hand, net, arrived, spoken>>

(* A write has failed: send() drops the connection before it rejects. *)
SendFails(e) ==
    /\ conf.faults \/ ~isConnected(e)
    /\ step[e] \in {"sendConfirm", "sendProof", "sendAnswer"}
    /\ Await(e, "idle")
    /\ Disconnect(e, "send failed")
    /\ UNCHANGED <<conf, limited, authReceived, peerID, challenge, peerChallenge,
                   authenticated, e2eRequired, hand, net, arrived, spoken>>

-----------------------------------------------------------------------------
(* The connection around the handshake                                     *)

(* Mutant: only the listener has a timeout. *)
AuthTimesOutListener(e) ==
    /\ conf.faults
    /\ timer[e]
    /\ e = "listener"
    /\ Disconnect(e, "auth timed out")
    /\ UNCHANGED <<conf, limited, authReceived, peerID, challenge, peerChallenge, step,
                   authenticated, e2eRequired, hand, net, arrived, spoken>>

(* The timer fires, whatever the handler is waiting for. *)
AuthTimesOut(e) ==
    /\ conf.faults
    /\ timer[e]
    /\ Disconnect(e, "auth timed out")
    /\ UNCHANGED <<conf, limited, authReceived, peerID, challenge, peerChallenge, step,
                   authenticated, e2eRequired, hand, net, arrived, spoken>>

(* The socket closed: the other end closed it, or the network failed. *)
LinkCloses(e) ==
    /\ isConnected(e)
    /\ conf.faults \/ ~isConnected(Other(e))
    /\ Disconnect(e, "Remote Connection Closed")
    /\ UNCHANGED <<conf, limited, authReceived, peerID, challenge, peerChallenge, step,
                   authenticated, e2eRequired, hand, net, arrived, spoken>>

(* A live end speaks: its e2e offer, a heartbeat, or, where e2e is not     *)
(* required, a message in clear.                                           *)
Speak(e) ==
    /\ state[e] = "CONNECTED"
    /\ ~spoken[e]
    /\ \E type \in LiveTypes :
        /\ type = "LINK" => ~e2eRequired[e]
        /\ Transmit(e, livePacket(type))
    /\ spoken' = [spoken EXCEPT ![e] = TRUE]
    /\ UNCHANGED <<conf, state, timer, limited, authReceived, peerID, challenge,
                   peerChallenge, step, authenticated, e2eRequired, hand, arrived,
                   reason>>

Handle(e) ==
    \/ Arrives(e) \/ ReceiveAuth(e) \/ ReceiveConfirm(e) \/ ReceiveLive(e)
    \/ OnAuthRefuses(e) \/ OnAuthTooLate(e)
    \/ AuthDeclined(e) \/ AuthAgreed(e) \/ AuthSkipped(e)
    \/ VerifySettles(e) \/ ProveSettles(e) \/ VerifyConfirmSettles(e)
    \/ SendSettles(e)

Next == \E e \in End :
    Handle(e) \/ SendFails(e) \/ AuthTimesOut(e) \/ LinkCloses(e) \/ Speak(e)

Spec == Init /\ [][Next]_vars

(* A timer that stays armed fires: where there are failures nothing else is *)
(* assumed of the peer, of the network, or of onAuth and the crypto ever    *)
(* answering.                                                               *)
TimerFairness == \A e \in End : WF_vars(AuthTimesOut(e))

(* Where there are none, every await of the handlers ends, and an end       *)
(* learns that the other has closed the socket.                             *)
HandlerFairness ==
    \A e \in End : /\ WF_vars(~conf.faults /\ Handle(e))
                   /\ WF_vars(~conf.faults /\ LinkCloses(e))

FairSpec == Spec /\ TimerFairness /\ HandlerFairness

-----------------------------------------------------------------------------
(* An end that holds a secret is live only with a peer that holds the same *)
(* one and, in both directions, has proved it; the exception is a peer     *)
(* that holds none where the auth is optional.  The listener in            *)
(* particular is not live before the dialler's AUTH_CONFIRM.               *)
MutualAuth ==
    \A e \in End :
        /\ authenticated[e] => /\ HoldsSecret(e)
                               /\ conf.secret[Other(e)] = conf.secret[e]
                               /\ peerID[Other(e)] = conf.id[e]
                               /\ peerChallenge[Other(e)] = e
        /\ state[e] = "CONNECTED" /\ HoldsSecret(e) =>
              authenticated[e] \/ (conf.optional[e] /\ ~HoldsSecret(Other(e)))

(* Two live ends agree on whether the connection is authenticated (the     *)
(* secret goes into the e2e keys only then), on whether e2e is required,   *)
(* and each has the other's id.                                            *)
LiveAgreement ==
    (\A e \in End : state[e] = "CONNECTED") =>
        /\ authenticated["dialler"] = authenticated["listener"]
        /\ e2eRequired["dialler"] = e2eRequired["listener"]
        /\ \A e \in End : peerID[e] = conf.id[Other(e)]

(* However late an end is with its half of the handshake, nothing the      *)
(* other end sends meanwhile is taken for an invalid, an oversized or a    *)
(* plaintext frame: only a failed auth, a timer or the link ends it.       *)
NoFrameRefused ==
    \A e \in End : reason[e] \notin
        {"Unexpected Auth Confirm!", "Invalid Packet!", "Message too large",
         "Plaintext message on a connection that requires e2e"}

(* What is left of a handshake that finishes after the link closed does    *)
(* not bring the connection back, and sends nothing.                       *)
GoneForGood ==
    [][\A e \in End : ~isConnected(e) =>
        /\ ~isConnected(e)'
        /\ Len(net'[Other(e)]) <= Len(net[Other(e)])]_vars

(* The auth timeout never fires on a live connection. *)
TimeoutOnlyInHandshake ==
    [][\A e \in End : state[e] = "CONNECTED" => reason'[e] # "auth timed out"]_vars

(* Against a peer, an onAuth or a network that never answers, the timeout  *)
(* alone settles the handshake, at the dialler and at the listener.        *)
Settles == conf.faults => \A e \in End : <>(state[e] \in {"CONNECTED", "DISCONNECTED"})

(* Without failures the configuration decides the outcome: both ends go    *)
(* live and stay live, or both end up disconnected.                        *)
Compatible ==
    /\ conf.id["dialler"] # conf.id["listener"]
    /\ \A e \in End :
        /\ conf.accepts[e]
        /\ HoldsSecret(e) => \/ conf.secret[Other(e)] = conf.secret[e]
                             \/ conf.optional[e] /\ ~HoldsSecret(Other(e))
Outcome ==
    ~conf.faults =>
        <>[](\A e \in End : state[e] = IF Compatible THEN "CONNECTED" ELSE "DISCONNECTED")
=============================================================================
