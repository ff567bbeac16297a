--------------------------- MODULE HandshakeProofs ---------------------------
(***************************************************************************)
(* Proofs about Handshake, for any set of secrets and of ids, any          *)
(* configuration of the two ends, and with or without failures.            *)
(*                                                                         *)
(* MutualAuth is not inductive: that an end is authenticated says nothing  *)
(* of how it came to be.  The strengthening IInv adds what is true of the  *)
(* frames under way (Genuine), of what an end has noted of its peer        *)
(* (Noted), and of an end suspended in each step (Stepping).  PhaseInv is  *)
(* inductive beside it: the order in which the two ends go through the     *)
(* handshake, for NoFrameRefused and TimeoutOnlyInHandshake.               *)
(***************************************************************************)
EXTENDS Handshake, SequenceTheorems, TLAPS

(* A frame on its way to e says of its sender what is so; a proof in it    *)
(* was made by an end that had already taken e's AUTH.                     *)
Genuine(e, m) ==
    /\ m.type = "AUTH" =>
          /\ m.id = conf.id[Other(e)]
          /\ m.e2e = conf.requireE2E[Other(e)]
          /\ m.ac = IF HoldsSecret(Other(e)) THEN Other(e) ELSE "none"
    /\ m.ap # NoProof =>
          /\ m.ap.key = conf.secret[Other(e)]
          /\ peerID[Other(e)] = conf.id[e]
          /\ peerChallenge[Other(e)] = e

(* What is on its way and in a handler's hand is genuine. *)
FramesGenuine ==
    \A e \in End :
        /\ Genuine(e, hand[e])
        /\ \A i \in 1..Len(net[e]) : Genuine(e, net[e][i])
        /\ step[e] = "onAuth" => hand[e].type = "AUTH"

(* What e has noted of its peer is so. *)
Noted(e) ==
    /\ peerID[e] # NoId =>
          /\ peerID[e] = conf.id[Other(e)]
          /\ e2eRequired[e] = (conf.requireE2E[e] \/ conf.requireE2E[Other(e)])
    /\ peerChallenge[e] # "none" => peerChallenge[e] = Other(e)

(* The peer's secret is ours, and it has our id and our challenge. *)
PeerProved(e) ==
    /\ HoldsSecret(e)
    /\ conf.secret[Other(e)] = conf.secret[e]
    /\ peerID[Other(e)] = conf.id[e]
    /\ peerChallenge[Other(e)] = e

(* The auth may be left out: e has no secret, or need not insist. *)
AuthWaived(e) == HoldsSecret(e) => conf.optional[e] /\ ~HoldsSecret(Other(e))

(* What a handler suspended in each step has established. *)
Stepping(e) ==
    /\ step[e] \in {"verify", "prove", "sendConfirm", "sendProof", "verifyConfirm"} =>
          HoldsSecret(e) /\ peerID[e] # NoId /\ peerChallenge[e] # "none"
    /\ step[e] \in {"verify", "sendConfirm"} => e = "dialler"
    /\ step[e] \in {"sendProof", "sendAnswer", "verifyConfirm"} => e = "listener"
    /\ step[e] \in {"prove", "sendConfirm"} /\ e = "dialler" => PeerProved(e)
    /\ step[e] = "sendAnswer" => AuthWaived(e) /\ peerID[e] # NoId

(* What an end has settled with. *)
Settled(e) ==
    /\ state[e] = "ESTABLISHED" => e = "listener"
    /\ authenticated[e] => PeerProved(e)
    /\ state[e] = "CONNECTED" => peerID[e] # NoId /\ (authenticated[e] \/ AuthWaived(e))

(* The inductive invariant. *)
IInv ==
    /\ TypeOK
    /\ FramesGenuine
    /\ \A e \in End : Noted(e) /\ Stepping(e) /\ Settled(e)

-----------------------------------------------------------------------------
(* Types                                                                   *)

(* There are two ends. *)
LEMMA OtherEnd ==
    ASSUME NEW e \in End
    PROVE  Other(e) \in End /\ Other(e) # e /\ Other(Other(e)) = e
BY DEF End, Other

(* Proofs, packets and frames have their types. *)
LEMMA NoProofType == NoProof \in Proof
BY DEF NoProof, Proof

(* A proof, *)
LEMMA ProveType ==
    ASSUME TypeOK, NEW e \in End, NEW id \in Ids
    PROVE  prove(e, id) \in Proof
<1>1. conf.secret[e] \in Secrets \cup {NoSecret} /\ conf.id[e] \in Ids
    BY DEF TypeOK, Configuration
<1>2. peerID[e] \in Ids \cup {NoId} /\ challenge[e] \in Challenge /\ peerChallenge[e] \in Challenge
    BY DEF TypeOK
<1>3. transcript(e) \subseteq Party
    BY <1>1, <1>2 DEF transcript, Party
<1> QED
    BY <1>1, <1>3 DEF prove, Proof

(* an AUTH, *)
LEMMA AuthPacketType ==
    ASSUME conf \in Configuration, NEW e \in End, NEW proof \in Proof
    PROVE  authPacket(e, proof) \in Message
<1>1. conf.id[e] \in Ids /\ conf.requireE2E[e] \in BOOLEAN
    BY DEF Configuration
<1>2. (IF HoldsSecret(e) THEN e ELSE "none") \in Challenge
    BY DEF Challenge
<1> QED
    BY <1>1, <1>2 DEF authPacket, Message

(* an AUTH_CONFIRM, *)
LEMMA ConfirmPacketType ==
    ASSUME NEW proof \in Proof
    PROVE  confirmPacket(proof) \in Message
BY DEF confirmPacket, Message, Challenge

(* and what a live end sends. *)
LEMMA LivePacketType ==
    ASSUME NEW type \in LiveTypes
    PROVE  livePacket(type) \in Message
BY NoProofType DEF livePacket, Message, Challenge

(* Sending, taking a frame, disconnecting and going live keep the types.   *)
LEMMA TransmitType ==
    ASSUME TypeOK, NEW e \in End, NEW m \in Message, Transmit(e, m)
    PROVE  /\ net' \in [End -> Seq(Message)]
           /\ \A o \in End : arrived[o] <= Len(net'[o])
<1>1. net \in [End -> Seq(Message)] /\ arrived \in [End -> Nat] /\ Other(e) \in End
    BY OtherEnd DEF TypeOK
<1>2. net' \in [End -> Seq(Message)]
    BY <1>1 DEF Transmit
<1>3. ASSUME NEW o \in End PROVE arrived[o] <= Len(net'[o])
    <2>1. net'[o] = net[o] \/ net'[o] = Append(net[o], m)
        BY <1>1 DEF Transmit
    <2>2. Len(net'[o]) >= Len(net[o]) /\ Len(net[o]) \in Nat /\ Len(net'[o]) \in Nat
        BY <1>1, <1>2, <2>1
    <2> QED
        BY <1>1, <2>2 DEF TypeOK
<1> QED
    BY <1>2, <1>3

(* Taking one, *)
LEMMA TakeType ==
    ASSUME TypeOK, NEW e \in End, NEW types, Take(e, types)
    PROVE  /\ net[e] # <<>>
           /\ net' \in [End -> Seq(Message)] /\ hand' \in [End -> Message]
           /\ arrived' \in [End -> Nat] /\ \A o \in End : arrived'[o] <= Len(net'[o])
<1>0. /\ net \in [End -> Seq(Message)] /\ arrived \in [End -> Nat]
      /\ \A o \in End : arrived[o] <= Len(net[o])
    BY DEF TypeOK
<1>1. net[e] \in Seq(Message) /\ net[e] # <<>>
    BY <1>0 DEF Take
<1>2. Head(net[e]) \in Message /\ Tail(net[e]) \in Seq(Message) /\ Len(Tail(net[e])) = Len(net[e]) - 1
    BY <1>1, HeadTailProperties
<1>3. net' \in [End -> Seq(Message)] /\ hand' \in [End -> Message]
    BY <1>2 DEF Take, TypeOK
<1>4. arrived' = [arrived EXCEPT ![e] = arrived[e] - 1] /\ arrived[e] > 0 /\ net' = [net EXCEPT ![e] = Tail(net[e])]
    BY DEF Take
<1>5. arrived' \in [End -> Nat]
    BY <1>0, <1>4
<1>6. ASSUME NEW o \in End PROVE arrived'[o] <= Len(net'[o])
    <2>1. CASE o = e
        BY <1>0, <1>1, <1>2, <1>4, <2>1
    <2>2. CASE o # e
        BY <1>0, <1>4, <2>2
    <2> QED
        BY <2>1, <2>2
<1> QED
    BY <1>1, <1>3, <1>5, <1>6

(* disconnecting, *)
LEMMA DisconnectType ==
    ASSUME TypeOK, NEW e \in End, NEW why \in Reasons, Disconnect(e, why)
    PROVE  state' \in [End -> States] /\ timer' \in [End -> BOOLEAN] /\ reason' \in [End -> Reasons]
BY DEF Disconnect, TypeOK, States

(* and going live. *)
LEMMA GoLiveType ==
    ASSUME TypeOK, NEW e \in End, goLive(e)
    PROVE  state' \in [End -> States] /\ timer' \in [End -> BOOLEAN] /\ reason' \in [End -> Reasons]
BY DEF goLive, TypeOK, States

-----------------------------------------------------------------------------
(* Every variable keeps the type TypeOK gives it.                          *)
LEMMA InitType == Init => TypeOK
<1> SUFFICES ASSUME Init PROVE TypeOK
    OBVIOUS
<1>1. conf \in Configuration
    BY DEF Init
<1>2. authPacket("dialler", NoProof) \in Message
    BY <1>1, AuthPacketType, NoProofType DEF End
<1>3. NoMessage \in Message
    BY NoProofType DEF NoMessage, Message, LiveTypes, Challenge
<1>4. net \in [End -> Seq(Message)]
    BY <1>2 DEF Init
<1> QED
    BY <1>1, <1>3, <1>4 DEF Init, TypeOK, End, States, Steps, Challenge, Reasons

(* Every step keeps them. *)
LEMMA NextType == TypeOK /\ [Next]_vars => TypeOK'
<1> SUFFICES ASSUME TypeOK, [Next]_vars PROVE TypeOK'
    OBVIOUS
<1>0. CASE UNCHANGED vars
    BY <1>0 DEF vars, TypeOK
<1>a. /\ state \in [End -> States] /\ timer \in [End -> BOOLEAN]
      /\ reason \in [End -> Reasons] /\ authReceived \in [End -> BOOLEAN]
      /\ step \in [End -> Steps]
    BY DEF TypeOK
<1>1. ASSUME NEW e \in End, ReceiveAuth(e) PROVE TypeOK'
    <2>1. /\ net' \in [End -> Seq(Message)] /\ hand' \in [End -> Message]
          /\ arrived' \in [End -> Nat] /\ \A o \in End : arrived'[o] <= Len(net'[o])
        BY <1>1, TakeType DEF ReceiveAuth
    <2>2. authReceived' \in [End -> BOOLEAN] /\ step' \in [End -> Steps]
        BY <1>a, <1>1 DEF ReceiveAuth, Await, Steps
    <2>3. UNCHANGED <<state, timer, reason>> \/ \E why \in Reasons : Disconnect(e, why)
        BY <1>1 DEF ReceiveAuth, Reasons
    <2>4. state' \in [End -> States] /\ timer' \in [End -> BOOLEAN] /\ reason' \in [End -> Reasons]
        BY <1>a, <2>3, DisconnectType
    <2> QED
        BY <1>1, <2>1, <2>2, <2>4 DEF ReceiveAuth, TypeOK
<1>2. ASSUME NEW e \in End, ReceiveConfirm(e) PROVE TypeOK'
    <2>1. /\ net' \in [End -> Seq(Message)] /\ hand' \in [End -> Message]
          /\ arrived' \in [End -> Nat] /\ \A o \in End : arrived'[o] <= Len(net'[o])
        BY <1>2, TakeType DEF ReceiveConfirm
    <2>2. authReceived' \in [End -> BOOLEAN] /\ step' \in [End -> Steps]
        BY <1>a, <1>2 DEF ReceiveConfirm, Await, Steps
    <2>3. UNCHANGED <<state, timer, reason>> \/ \E why \in Reasons : Disconnect(e, why)
        BY <1>2 DEF ReceiveConfirm, Reasons
    <2>4. state' \in [End -> States] /\ timer' \in [End -> BOOLEAN] /\ reason' \in [End -> Reasons]
        BY <1>a, <2>3, DisconnectType
    <2> QED
        BY <1>2, <2>1, <2>2, <2>4 DEF ReceiveConfirm, TypeOK
<1>3. ASSUME NEW e \in End, ReceiveLive(e) PROVE TypeOK'
    <2>1. /\ net' \in [End -> Seq(Message)] /\ hand' \in [End -> Message]
          /\ arrived' \in [End -> Nat] /\ \A o \in End : arrived'[o] <= Len(net'[o])
        BY <1>3, TakeType DEF ReceiveLive
    <2>2. authReceived' \in [End -> BOOLEAN] /\ step' \in [End -> Steps]
        BY <1>a, <1>3 DEF ReceiveLive, Await, Steps
    <2>3. UNCHANGED <<state, timer, reason>> \/ \E why \in Reasons : Disconnect(e, why)
        BY <1>3 DEF ReceiveLive, Reasons
    <2>4. state' \in [End -> States] /\ timer' \in [End -> BOOLEAN] /\ reason' \in [End -> Reasons]
        BY <1>a, <2>3, DisconnectType
    <2> QED
        BY <1>3, <2>1, <2>2, <2>4 DEF ReceiveLive, TypeOK
<1>4. ASSUME NEW e \in End, OnAuthRefuses(e) PROVE TypeOK'
    BY <1>4 DEF OnAuthRefuses, TypeOK, Await, Disconnect, goLive, States, Steps, Reasons
<1>5. ASSUME NEW e \in End, OnAuthTooLate(e) PROVE TypeOK'
    BY <1>5 DEF OnAuthTooLate, TypeOK, Await, Disconnect, goLive, States, Steps, Reasons
<1>6. ASSUME NEW e \in End, AuthDeclined(e) PROVE TypeOK'
    <2>1. hand[e].id \in Ids \cup {NoId} /\ hand[e].e2e \in BOOLEAN /\ hand[e].ac \in Challenge
        BY DEF TypeOK, Message
    <2>2. conf.requireE2E[e] \in BOOLEAN
        BY DEF TypeOK, Configuration
    <2>3. peerID' \in [End -> Ids \cup {NoId}] /\ e2eRequired' \in [End -> BOOLEAN]
        BY <1>6, <2>1, <2>2 DEF AuthDeclined, OnAuthAccepts, TypeOK
    <2> QED
        BY <1>6, <2>3 DEF AuthDeclined, TypeOK, Await, Disconnect, goLive, States, Steps, Reasons
<1>7. ASSUME NEW e \in End, AuthAgreed(e) PROVE TypeOK'
    <2>1. hand[e].id \in Ids \cup {NoId} /\ hand[e].e2e \in BOOLEAN /\ hand[e].ac \in Challenge
        BY DEF TypeOK, Message
    <2>2. conf.requireE2E[e] \in BOOLEAN
        BY DEF TypeOK, Configuration
    <2>3. peerID' \in [End -> Ids \cup {NoId}] /\ e2eRequired' \in [End -> BOOLEAN]
        BY <1>7, <2>1, <2>2 DEF AuthAgreed, OnAuthAccepts, TypeOK
    <2> QED
        BY <1>7, <2>1, <2>3 DEF AuthAgreed, TypeOK, Await, Disconnect, goLive, States, Steps, Reasons, Challenge
<1>8. ASSUME NEW e \in End, AuthSkipped(e) PROVE TypeOK'
    <2>1. hand[e].id \in Ids \cup {NoId} /\ hand[e].e2e \in BOOLEAN /\ hand[e].ac \in Challenge
        BY DEF TypeOK, Message
    <2>2. conf.requireE2E[e] \in BOOLEAN
        BY DEF TypeOK, Configuration
    <2>3. peerID' \in [End -> Ids \cup {NoId}] /\ e2eRequired' \in [End -> BOOLEAN]
        BY <1>8, <2>1, <2>2 DEF AuthSkipped, OnAuthAccepts, TypeOK
    <2>4. authPacket(e, NoProof) \in Message
        BY AuthPacketType, NoProofType DEF TypeOK
    <2>5. /\ net' \in [End -> Seq(Message)]
          /\ \A o \in End : arrived[o] <= Len(net'[o])
        BY <1>8, <2>4, TransmitType DEF AuthSkipped, TypeOK
    <2> QED
        <3>1. /\ state' \in [End -> States] /\ timer' \in [End -> BOOLEAN]
              /\ reason' \in [End -> Reasons] /\ step' \in [End -> Steps]
            BY <1>a, <1>8 DEF AuthSkipped, Await, goLive, States, Steps
        <3>2. challenge \in [End -> Challenge] /\ limited \in [End -> BOOLEAN] /\ e \in Challenge
            BY DEF TypeOK, Challenge
        <3>3. challenge' \in [End -> Challenge] /\ limited' \in [End -> BOOLEAN]
            BY <1>8, <3>2 DEF AuthSkipped
        <3> QED
            BY <1>8, <2>3, <2>5, <3>1, <3>3 DEF AuthSkipped, TypeOK
<1>9. ASSUME NEW e \in End, VerifySettles(e) PROVE TypeOK'
    BY ZenonT(40), <1>9 DEF VerifySettles, TypeOK, Await, Disconnect, goLive, States, Steps, Reasons
<1>10. ASSUME NEW e \in End, ProveSettles(e) PROVE TypeOK'
    <2>1. prove(e, conf.id[e]) \in Proof
        BY ProveType DEF TypeOK, Configuration
    <2>2. /\ authPacket(e, prove(e, conf.id[e])) \in Message
          /\ confirmPacket(prove(e, conf.id[e])) \in Message
        BY <2>1, AuthPacketType, ConfirmPacketType DEF TypeOK
    <2>3. /\ net' \in [End -> Seq(Message)]
          /\ \A o \in End : arrived[o] <= Len(net'[o])
        BY <1>10, <2>2, TransmitType DEF ProveSettles, TypeOK
    <2> QED
        BY <1>10, <2>3 DEF ProveSettles, TypeOK, Await, Disconnect, goLive, States, Steps, Reasons
<1>11. ASSUME NEW e \in End, VerifyConfirmSettles(e) PROVE TypeOK'
    BY <1>11 DEF VerifyConfirmSettles, TypeOK, Await, Disconnect, goLive, States, Steps, Reasons
<1>12. ASSUME NEW e \in End, SendSettles(e) PROVE TypeOK'
    BY <1>12 DEF SendSettles, TypeOK, Await, Disconnect, goLive, States, Steps, Reasons
<1>13. ASSUME NEW e \in End, SendFails(e) PROVE TypeOK'
    BY <1>13 DEF SendFails, TypeOK, Await, Disconnect, goLive, States, Steps, Reasons
<1>14. ASSUME NEW e \in End, AuthTimesOut(e) PROVE TypeOK'
    BY <1>14 DEF AuthTimesOut, TypeOK, Await, Disconnect, goLive, States, Steps, Reasons
<1>15. ASSUME NEW e \in End, LinkCloses(e) PROVE TypeOK'
    BY <1>15 DEF LinkCloses, TypeOK, Await, Disconnect, goLive, States, Steps, Reasons
<1>16. ASSUME NEW e \in End, Speak(e) PROVE TypeOK'
    <2>1. /\ net' \in [End -> Seq(Message)]
          /\ \A o \in End : arrived[o] <= Len(net'[o])
        BY <1>16, LivePacketType, TransmitType DEF Speak
    <2> QED
        BY <1>16, <2>1 DEF Speak, TypeOK, Await, Disconnect, goLive, States, Steps, Reasons
<1>17. ASSUME NEW e \in End, Arrives(e) PROVE TypeOK'
    <2>1. arrived \in [End -> Nat] /\ net \in [End -> Seq(Message)] /\ arrived[e] < Len(net[e])
        BY <1>17 DEF Arrives, TypeOK
    <2>b. Len(net[e]) \in Nat /\ \A o \in End : arrived[o] <= Len(net[o])
        BY <2>1 DEF TypeOK
    <2>c. arrived' = arrived \/ arrived' = [arrived EXCEPT ![e] = arrived[e] + 1]
        BY <1>17 DEF Arrives
    <2>d. ASSUME NEW o \in End PROVE arrived'[o] \in Nat /\ arrived'[o] <= Len(net[o])
        <3>1. arrived'[o] = arrived[o] \/ (o = e /\ arrived'[o] = arrived[e] + 1)
            BY <2>1, <2>c
        <3>2. arrived[o] \in Nat /\ arrived[e] + 1 <= Len(net[e])
            BY <2>1, <2>b
        <3> QED
            BY <2>b, <3>1, <3>2
    <2>2. arrived' \in [End -> Nat] /\ \A o \in End : arrived'[o] <= Len(net[o])
        BY <2>1, <2>c, <2>d
    <2>3. UNCHANGED <<state, timer, reason>> \/ Disconnect(e, "Message too large")
        BY <1>17 DEF Arrives
    <2>4. state' \in [End -> States] /\ timer' \in [End -> BOOLEAN] /\ reason' \in [End -> Reasons]
        BY <1>a, <2>3, DisconnectType DEF Reasons
    <2> QED
        BY <1>17, <2>2, <2>4 DEF Arrives, TypeOK
<1> QED
    BY <1>0, <1>1, <1>2, <1>3, <1>4, <1>5, <1>6, <1>7, <1>8, <1>9, <1>10, <1>11, <1>12, <1>13,
       <1>14, <1>15, <1>16, <1>17 DEF Next, Handle

(* The handshake keeps its types. *)
THEOREM TypeCorrect == Spec => []TypeOK
BY InitType, NextType, PTL DEF Spec

-----------------------------------------------------------------------------
(* What an end knows of its peer                                           *)

(* What an end knows. *)
known == <<conf, peerID, peerChallenge, e2eRequired>>

(* Only an accepted AUTH changes what an end knows.                        *)
LEMMA KnownChanges ==
    ASSUME [Next]_vars
    PROVE  \/ UNCHANGED known
           \/ \E e \in End : AuthDeclined(e) \/ AuthAgreed(e) \/ AuthSkipped(e)
<1>1. ASSUME NEW e \in End,
             \/ Arrives(e) \/ ReceiveAuth(e) \/ ReceiveConfirm(e) \/ ReceiveLive(e)
             \/ OnAuthRefuses(e) \/ OnAuthTooLate(e)
      PROVE  UNCHANGED known
    BY <1>1 DEF Arrives, ReceiveAuth, ReceiveConfirm, ReceiveLive, OnAuthRefuses, OnAuthTooLate, known
<1>2. ASSUME NEW e \in End,
             VerifySettles(e) \/ ProveSettles(e) \/ VerifyConfirmSettles(e) \/ SendSettles(e)
      PROVE  UNCHANGED known
    BY <1>2 DEF VerifySettles, ProveSettles, VerifyConfirmSettles, SendSettles, known
<1>3. ASSUME NEW e \in End, SendFails(e) \/ AuthTimesOut(e) \/ LinkCloses(e) \/ Speak(e)
      PROVE  UNCHANGED known
    BY <1>3 DEF SendFails, AuthTimesOut, LinkCloses, Speak, known
<1>4. CASE UNCHANGED vars
    BY <1>4 DEF vars, known
<1> QED
    BY <1>1, <1>2, <1>3, <1>4 DEF Next, Handle

(* The AUTH an end accepts is its peer's, and says what is so of it.       *)
LEMMA AcceptedAuth ==
    ASSUME IInv, NEW e \in End, OnAuthAccepts(e)
    PROVE  /\ peerID' = [peerID EXCEPT ![e] = conf.id[Other(e)]]
           /\ e2eRequired' = [e2eRequired EXCEPT
                    ![e] = conf.requireE2E[e] \/ conf.requireE2E[Other(e)]]
           /\ hand[e].ac = IF HoldsSecret(Other(e)) THEN Other(e) ELSE "none"
<1>1. hand[e].type = "AUTH" /\ Genuine(e, hand[e])
    BY DEF IInv, FramesGenuine, OnAuthAccepts
<1> QED
    BY <1>1 DEF Genuine, OnAuthAccepts

(* What is known is right, and what was known stays known.                 *)
LEMMA KnownStep ==
    ASSUME IInv, [Next]_vars
    PROVE  /\ conf' = conf
           /\ \A e \in End :
                /\ Noted(e)'
                /\ peerID[e] # NoId => peerID'[e] = peerID[e]
                /\ peerChallenge[e] # "none" => peerChallenge'[e] = peerChallenge[e]
<1>t. /\ peerID \in [End -> Ids \cup {NoId}] /\ e2eRequired \in [End -> BOOLEAN]
      /\ peerChallenge \in [End -> Challenge]
      /\ \A e \in End : Noted(e) /\ Other(e) \in End
    BY OtherEnd DEF IInv, TypeOK
<1>1. CASE UNCHANGED known
    BY <1>1, <1>t DEF known, Noted
<1>2. ASSUME NEW a \in End, AuthDeclined(a) \/ AuthAgreed(a) \/ AuthSkipped(a)
      PROVE  /\ conf' = conf
             /\ \A e \in End :
                  /\ Noted(e)'
                  /\ peerID[e] # NoId => peerID'[e] = peerID[e]
                  /\ peerChallenge[e] # "none" => peerChallenge'[e] = peerChallenge[e]
    <2>1. OnAuthAccepts(a) /\ conf' = conf
        BY <1>2 DEF AuthDeclined, AuthAgreed, AuthSkipped
    <2>2. /\ peerID' = [peerID EXCEPT ![a] = conf.id[Other(a)]]
          /\ e2eRequired' = [e2eRequired EXCEPT
                    ![a] = conf.requireE2E[a] \/ conf.requireE2E[Other(a)]]
        BY <2>1, AcceptedAuth
    <2>3. peerChallenge' = peerChallenge \/ peerChallenge' = [peerChallenge EXCEPT ![a] = Other(a)]
        BY <1>2, <2>1, AcceptedAuth DEF AuthDeclined, AuthAgreed, AuthSkipped, peerOffersAuth
    <2> QED
        BY <2>1, <2>2, <2>3, <1>t DEF Noted
<1> QED
    BY <1>1, <1>2, KnownChanges

-----------------------------------------------------------------------------
(* Frames                                                                  *)

(* A genuine frame stays so, since what an end knows does not change.      *)
LEMMA GenuineStays ==
    ASSUME IInv, [Next]_vars, NEW e \in End, NEW m, Genuine(e, m)
    PROVE  Genuine(e, m)'
<1>1. conf' = conf /\ Other(e) \in End
    BY KnownStep, OtherEnd
<1>2. conf.id[e] # NoId
    BY NoIdAssumption DEF IInv, TypeOK, Configuration
<1>3. peerID[Other(e)] = conf.id[e] => peerID'[Other(e)] = conf.id[e]
    BY <1>1, <1>2, KnownStep
<1>4. peerChallenge[Other(e)] = e => peerChallenge'[Other(e)] = e
    BY <1>1, KnownStep DEF End
<1> QED
    BY <1>1, <1>3, <1>4 DEF Genuine, HoldsSecret

(* The frames an end writes are genuine to the other end.                  *)
LEMMA ProofGenuine ==
    ASSUME IInv, NEW e \in End, step[e] = "prove"
    PROVE  LET proof == prove(e, conf.id[e]) IN
           Genuine(Other(e), authPacket(e, proof)) /\ Genuine(Other(e), confirmPacket(proof))
<1>1. Other(e) \in End /\ Other(Other(e)) = e
    BY OtherEnd
<1>2. peerID[e] = conf.id[Other(e)] /\ peerChallenge[e] = Other(e)
    BY DEF IInv, Stepping, Noted
<1> QED
    BY <1>1, <1>2 DEF Genuine, authPacket, confirmPacket, prove

(* So is an AUTH without one, *)
LEMMA BareAuthGenuine ==
    ASSUME NEW e \in End
    PROVE  Genuine(Other(e), authPacket(e, NoProof))
BY OtherEnd DEF Genuine, authPacket

(* and what a live end sends. *)
LEMMA LiveGenuine ==
    ASSUME NEW e \in End, NEW type \in LiveTypes
    PROVE  Genuine(Other(e), livePacket(type))
BY DEF Genuine, livePacket, LiveTypes

(* Appending a genuine frame, and taking the first one.                    *)
LEMMA TransmitGenuine ==
    ASSUME IInv, [Next]_vars, NEW a \in End, NEW m, Transmit(a, m), Genuine(Other(a), m),
           m \in Message
    PROVE  \A e \in End : \A i \in 1..Len(net'[e]) : Genuine(e, net'[e][i])
<1> SUFFICES ASSUME NEW e \in End, NEW i \in 1..Len(net'[e]) PROVE Genuine(e, net'[e][i])
    OBVIOUS
<1>1. net \in [End -> Seq(Message)] /\ Other(a) \in End
    BY OtherEnd DEF IInv, TypeOK
<1>2. \A j \in 1..Len(net[e]) : Genuine(e, net[e][j])
    BY DEF IInv, FramesGenuine
<1>3. CASE e = Other(a)
    <2>1. net'[e] = Append(net[e], m)
        BY <1>1, <1>3 DEF Transmit
    <2>2. net'[e][i] = m \/ (i \in 1..Len(net[e]) /\ net'[e][i] = net[e][i])
        BY <1>1, <2>1
    <2> QED
        BY <1>2, <1>3, <2>2
<1>4. CASE e # Other(a)
    BY <1>1, <1>2, <1>4 DEF Transmit
<1> QED
    BY <1>3, <1>4

(* Taking the first frame. *)
LEMMA TakeGenuine ==
    ASSUME IInv, [Next]_vars, NEW a \in End, NEW types, Take(a, types)
    PROVE  \A e \in End : /\ Genuine(e, hand'[e])
                          /\ \A i \in 1..Len(net'[e]) : Genuine(e, net'[e][i])
<1> SUFFICES ASSUME NEW e \in End
             PROVE  /\ Genuine(e, hand'[e])
                    /\ \A i \in 1..Len(net'[e]) : Genuine(e, net'[e][i])
    OBVIOUS
<1>1. net \in [End -> Seq(Message)] /\ hand \in [End -> Message]
    BY DEF IInv, TypeOK
<1>2. Genuine(e, hand[e]) /\ \A j \in 1..Len(net[e]) : Genuine(e, net[e][j])
    BY DEF IInv, FramesGenuine
<1>3. CASE e = a
    <2>1. net[e] # <<>> /\ net'[e] = Tail(net[e]) /\ hand'[e] = Head(net[e])
        BY <1>1, <1>3, TakeType DEF Take, IInv
    <2>2. hand'[e] = net[e][1] /\ 1 \in 1..Len(net[e])
        BY <1>1, <2>1
    <2>3. \A i \in 1..Len(net'[e]) : i + 1 \in 1..Len(net[e]) /\ net'[e][i] = net[e][i + 1]
        BY <1>1, <2>1
    <2> QED
        BY <1>2, <2>2, <2>3
<1>4. CASE e # a
    BY <1>1, <1>2, <1>4 DEF Take
<1> QED
    BY <1>3, <1>4

(* So every frame is genuine after any step.                               *)
LEMMA FramesStep ==
    ASSUME IInv, [Next]_vars
    PROVE  FramesGenuine'
<1> DEFINE Fresh == \A e \in End :
        /\ Genuine(e, hand'[e])
        /\ \A i \in 1..Len(net'[e]) : Genuine(e, net'[e][i])
        /\ step'[e] = "onAuth" => hand'[e].type = "AUTH"
<1>1. SUFFICES Fresh
    <2> SUFFICES ASSUME Fresh, NEW e \in End
                 PROVE  /\ Genuine(e, hand[e])'
                        /\ \A i \in 1..Len(net'[e]) : (Genuine(e, net[e][i]))'
                        /\ step'[e] = "onAuth" => hand'[e].type = "AUTH"
        BY DEF FramesGenuine
    <2> QED
        BY GenuineStays DEF Genuine
<1>t. step \in [End -> Steps] /\ hand \in [End -> Message]
    BY DEF IInv, TypeOK
<1>2. ASSUME hand' = hand, net' = net, \A e \in End : step'[e] = "onAuth" => step[e] = "onAuth"
      PROVE  Fresh
    BY <1>2 DEF IInv, FramesGenuine
<1>3. ASSUME NEW a \in End, NEW m \in Message, Transmit(a, m), Genuine(Other(a), m),
             hand' = hand, \A e \in End : step'[e] = "onAuth" => step[e] = "onAuth"
      PROVE  Fresh
    BY <1>3, TransmitGenuine DEF IInv, FramesGenuine
<1>4. ASSUME NEW a \in End, NEW types, Take(a, types),
             \A e \in End : step'[e] = "onAuth" =>
                \/ step[e] = "onAuth" /\ e # a
                \/ types = {"AUTH"} /\ e = a
      PROVE  Fresh
    <2>1. \A e \in End : e # a => hand'[e] = hand[e]
        BY <1>4, <1>t DEF Take
    <2>2. types = {"AUTH"} => hand'[a].type = "AUTH"
        BY <1>4, <1>t DEF Take
    <2> QED
        BY <1>4, <2>1, <2>2, TakeGenuine DEF IInv, FramesGenuine
<1>5. CASE UNCHANGED vars
    BY <1>2, <1>5 DEF vars
<1>6. ASSUME NEW a \in End, ReceiveAuth(a) PROVE Fresh
    BY <1>4, <1>6, <1>t DEF ReceiveAuth, Await, Take
<1>7. ASSUME NEW a \in End, ReceiveConfirm(a) PROVE Fresh
    <2>1. Take(a, {"AUTH_CONFIRM"}) /\ step[a] # "onAuth"
        BY <1>7 DEF ReceiveConfirm, Take
    <2>2. \A e \in End : step'[e] = "onAuth" => step[e] = "onAuth" /\ e # a
        BY <1>7, <1>t, <2>1 DEF ReceiveConfirm, Await
    <2> QED
        BY <1>4, <2>1, <2>2
<1>8. ASSUME NEW a \in End, ReceiveLive(a) PROVE Fresh
    <2>1. Take(a, LiveTypes) /\ step[a] # "onAuth" /\ step' = step
        BY <1>8 DEF ReceiveLive, Take
    <2> QED
        BY <1>4, <2>1
<1>9. ASSUME NEW a \in End,
             \/ OnAuthRefuses(a) \/ OnAuthTooLate(a) \/ AuthDeclined(a) \/ AuthAgreed(a)
             \/ VerifySettles(a) \/ VerifyConfirmSettles(a) \/ SendSettles(a) \/ SendFails(a)
             \/ AuthTimesOut(a) \/ LinkCloses(a) \/ Arrives(a)
      PROVE  Fresh
    <2>1. hand' = hand /\ net' = net
        BY <1>9 DEF OnAuthRefuses, OnAuthTooLate, AuthDeclined, AuthAgreed, VerifySettles,
                    VerifyConfirmSettles, SendSettles, SendFails, AuthTimesOut, LinkCloses, Arrives
    <2>2. step' = step \/ \E s \in Steps \ {"onAuth"} : step' = [step EXCEPT ![a] = s]
        BY <1>9 DEF OnAuthRefuses, OnAuthTooLate, AuthDeclined, AuthAgreed, VerifySettles,
                    VerifyConfirmSettles, SendSettles, SendFails, AuthTimesOut, LinkCloses,
                    Arrives, Await, Steps
    <2> QED
        BY <1>2, <2>1, <2>2, <1>t
<1>10. ASSUME NEW a \in End, AuthSkipped(a) PROVE Fresh
    <2>1. authPacket(a, NoProof) \in Message /\ Genuine(Other(a), authPacket(a, NoProof))
        BY BareAuthGenuine, AuthPacketType, NoProofType DEF IInv, TypeOK
    <2>2. hand' = hand /\ \A e \in End : step'[e] = "onAuth" => step[e] = "onAuth"
        BY <1>10, <1>t DEF AuthSkipped, Await
    <2>3. net' = net \/ Transmit(a, authPacket(a, NoProof))
        BY <1>10 DEF AuthSkipped
    <2> QED
        BY <1>2, <1>3, <2>1, <2>2, <2>3
<1>11. ASSUME NEW a \in End, ProveSettles(a) PROVE Fresh
    <2> DEFINE proof == prove(a, conf.id[a])
    <2>1. proof \in Proof
        BY ProveType DEF IInv, TypeOK, Configuration
    <2>2. authPacket(a, proof) \in Message /\ confirmPacket(proof) \in Message
        BY <2>1, AuthPacketType, ConfirmPacketType DEF IInv, TypeOK
    <2>3. Genuine(Other(a), authPacket(a, proof)) /\ Genuine(Other(a), confirmPacket(proof))
        BY <1>11, ProofGenuine DEF ProveSettles
    <2>4. hand' = hand /\ \A e \in End : step'[e] = "onAuth" => step[e] = "onAuth"
        BY <1>11, <1>t DEF ProveSettles, Await
    <2>5. net' = net \/ Transmit(a, authPacket(a, proof)) \/ Transmit(a, confirmPacket(proof))
        BY <1>11 DEF ProveSettles
    <2> QED
        BY <1>2, <1>3, <2>2, <2>3, <2>4, <2>5
<1>12. ASSUME NEW a \in End, Speak(a) PROVE Fresh
    <2>1. PICK type \in LiveTypes : Transmit(a, livePacket(type))
        BY <1>12 DEF Speak
    <2>2. hand' = hand /\ step' = step
        BY <1>12 DEF Speak
    <2> QED
        BY <1>3, <2>1, <2>2, LivePacketType, LiveGenuine
<1> HIDE DEF Fresh
<1> QED
    BY <1>5, <1>6, <1>7, <1>8, <1>9, <1>10, <1>11, <1>12 DEF Next, Handle

-----------------------------------------------------------------------------
(* Steps, and what is settled                                              *)

(* A proof that verifies was made with our secret, by a peer that has our  *)
(* id and our challenge.                                                   *)
LEMMA VerifiedIsProved ==
    ASSUME IInv, NEW e \in End, HoldsSecret(e), verify(e, hand[e].ap)
    PROVE  PeerProved(e)
<1>1. hand[e].ap.key = conf.secret[e]
    BY DEF verify, prove
<1>2. hand[e].ap # NoProof
    BY <1>1 DEF HoldsSecret, NoProof
<1> QED
    BY <1>1, <1>2 DEF IInv, FramesGenuine, Genuine, PeerProved

(* Who has proved what stays.                                              *)
LEMMA ProvedStays ==
    ASSUME IInv, [Next]_vars, NEW e \in End
    PROVE  /\ HoldsSecret(e)' = HoldsSecret(e)
           /\ AuthWaived(e)' = AuthWaived(e)
           /\ PeerProved(e) => PeerProved(e)'
<1>1. conf' = conf /\ Other(e) \in End
    BY KnownStep, OtherEnd
<1>2. conf.id[e] # NoId
    BY NoIdAssumption DEF IInv, TypeOK, Configuration
<1> QED
    BY <1>1, <1>2, KnownStep DEF PeerProved, AuthWaived, HoldsSecret, End

(* An end whose step, state and auth are as before stays as it was.        *)
LEMMA Unmoved ==
    ASSUME IInv, [Next]_vars, NEW e \in End
    PROVE  /\ step'[e] \in {step[e], "idle", "onAuth"} => Stepping(e)'
           /\ /\ state'[e] \in {state[e], "DISCONNECTED"}
              /\ authenticated'[e] = authenticated[e]
              => Settled(e)'
<1>1. Stepping(e) /\ Settled(e)
    BY DEF IInv
<1>2. /\ peerID[e] # NoId => peerID'[e] # NoId
      /\ peerChallenge[e] # "none" => peerChallenge'[e] # "none"
    BY KnownStep
<1>3. step'[e] \in {step[e], "idle", "onAuth"} => Stepping(e)'
    BY <1>1, <1>2, ProvedStays DEF Stepping
<1>4. ASSUME state'[e] \in {state[e], "DISCONNECTED"}, authenticated'[e] = authenticated[e]
      PROVE  Settled(e)'
    BY <1>1, <1>2, <1>4, ProvedStays DEF Settled
<1> QED
    BY <1>3, <1>4

(* Every step leaves its handler with what the next one needs.             *)
LEMMA StepsStep ==
    ASSUME IInv, [Next]_vars
    PROVE  \A e \in End : Stepping(e)' /\ Settled(e)'
<1> SUFFICES ASSUME NEW e \in End PROVE Stepping(e)' /\ Settled(e)'
    OBVIOUS
<1>t. /\ step \in [End -> Steps] /\ state \in [End -> States]
      /\ authenticated \in [End -> BOOLEAN] /\ peerID \in [End -> Ids \cup {NoId}]
      /\ peerChallenge \in [End -> Challenge]
    BY DEF IInv, TypeOK
<1>i. Stepping(e) /\ Settled(e) /\ Noted(e)
    BY DEF IInv
<1>o. conf.id[Other(e)] # NoId
    BY OtherEnd, NoIdAssumption DEF IInv, TypeOK, Configuration
<1>1. CASE UNCHANGED vars
    BY <1>1, Unmoved DEF vars
<1>2. ASSUME NEW a \in End,
             \/ ReceiveAuth(a) \/ ReceiveLive(a) \/ OnAuthRefuses(a) \/ OnAuthTooLate(a)
             \/ AuthDeclined(a) \/ SendFails(a) \/ AuthTimesOut(a) \/ LinkCloses(a) \/ Speak(a)
             \/ Arrives(a)
      PROVE  Stepping(e)' /\ Settled(e)'
    <2>1. step'[e] \in {step[e], "idle", "onAuth"}
        BY <1>2, <1>t DEF ReceiveAuth, ReceiveLive, OnAuthRefuses, OnAuthTooLate, AuthDeclined,
                          SendFails, AuthTimesOut, LinkCloses, Speak, Arrives, Await
    <2>2. authenticated' = authenticated /\ state'[e] \in {state[e], "DISCONNECTED"}
        BY <1>2, <1>t DEF ReceiveAuth, ReceiveLive, OnAuthRefuses, OnAuthTooLate, AuthDeclined,
                          SendFails, AuthTimesOut, LinkCloses, Speak, Arrives, Disconnect
    <2> QED
        BY <2>1, <2>2, Unmoved
<1>3. ASSUME NEW a \in End, ReceiveConfirm(a) PROVE Stepping(e)' /\ Settled(e)'
    <2>1. authenticated' = authenticated /\ state'[e] \in {state[e], "DISCONNECTED"}
        BY <1>3, <1>t DEF ReceiveConfirm, Disconnect
    <2>2. CASE step'[e] = step[e]
        BY <2>1, <2>2, Unmoved
    <2>3. CASE step'[e] # step[e]
        <3>1. e = a /\ step'[e] = "verifyConfirm" /\ state[e] = "ESTABLISHED"
            BY <1>3, <1>t, <2>3 DEF ReceiveConfirm, Await
        <3>2. HoldsSecret(e) /\ peerID[e] # NoId /\ peerChallenge[e] # "none"
            BY <1>3, <1>t, <2>3, <3>1 DEF ReceiveConfirm
        <3> QED
            BY <1>i, <2>1, <3>1, <3>2, Unmoved, ProvedStays, KnownStep DEF Stepping, Settled
    <2> QED
        BY <2>2, <2>3
<1>4. ASSUME NEW a \in End, AuthAgreed(a) PROVE Stepping(e)' /\ Settled(e)'
    <2>1. authenticated' = authenticated /\ state' = state
        BY <1>4 DEF AuthAgreed
    <2>2. CASE e # a
        BY <1>4, <1>t, <2>1, <2>2, Unmoved DEF AuthAgreed, Await
    <2>3. CASE e = a
        <3>1. step'[e] = IF e = "dialler" THEN "verify" ELSE "prove"
            BY <1>4, <1>t, <2>3 DEF AuthAgreed, Await
        <3>2. HoldsSecret(e) /\ peerID'[e] # NoId /\ peerChallenge'[e] # "none"
            BY <1>4, <1>t, <1>o, <2>3, AcceptedAuth DEF AuthAgreed, peerOffersAuth
        <3> QED
            BY <2>1, <3>1, <3>2, Unmoved, ProvedStays DEF Stepping, End
    <2> QED
        BY <2>2, <2>3
<1>5. ASSUME NEW a \in End, AuthSkipped(a) PROVE Stepping(e)' /\ Settled(e)'
    <2>1. authenticated' = authenticated
        BY <1>5 DEF AuthSkipped
    <2>2. CASE e # a
        BY <1>5, <1>t, <2>1, <2>2, Unmoved DEF AuthSkipped, Await, goLive
    <2>3. CASE e = a
        <3>1. AuthWaived(e) /\ peerID'[e] # NoId
            BY <1>5, <1>t, <1>o, <2>3, OtherEnd, AcceptedAuth
            DEF AuthSkipped, AuthWaived, peerOffersAuth, End
        <3>2. /\ e = "dialler" => step'[e] = "idle"
              /\ e = "listener" => step'[e] = "sendAnswer" /\ state'[e] = state[e]
            BY <1>5, <1>t, <2>3 DEF AuthSkipped, Await
        <3>3. state'[e] \in {state[e], "CONNECTED"}
            BY <1>5, <1>t, <2>3 DEF AuthSkipped, goLive
        <3>4. Stepping(e)'
            BY <3>1, <3>2, ProvedStays DEF Stepping, End
        <3> QED
            BY <1>i, <2>1, <3>1, <3>3, <3>4, ProvedStays DEF Settled
    <2> QED
        BY <2>2, <2>3
<1>6. ASSUME NEW a \in End, VerifySettles(a) PROVE Stepping(e)' /\ Settled(e)'
    <2>1. authenticated' = authenticated /\ state'[e] \in {state[e], "DISCONNECTED"}
        BY <1>6, <1>t DEF VerifySettles, Disconnect
    <2>2. CASE step'[e] \in {step[e], "idle"}
        BY <2>1, <2>2, Unmoved
    <2>3. CASE step'[e] \notin {step[e], "idle"}
        <3>1. e = a /\ step[e] = "verify" /\ step'[e] = "prove" /\ verify(e, hand[e].ap)
            BY <1>6, <1>t, <2>3 DEF VerifySettles, Await
        <3>2. HoldsSecret(e) /\ peerID[e] # NoId /\ peerChallenge[e] # "none"
            BY <1>i, <3>1 DEF Stepping
        <3>3. PeerProved(e)
            BY <3>1, <3>2, VerifiedIsProved
        <3>4. peerID'[e] # NoId /\ peerChallenge'[e] # "none"
            BY <3>2, KnownStep
        <3> QED
            BY <2>1, <3>1, <3>2, <3>3, <3>4, Unmoved, ProvedStays DEF Stepping
    <2> QED
        BY <2>2, <2>3
<1>7. ASSUME NEW a \in End, ProveSettles(a) PROVE Stepping(e)' /\ Settled(e)'
    <2>1. authenticated' = authenticated /\ state' = state
        BY <1>7 DEF ProveSettles
    <2>2. CASE step'[e] \in {step[e], "idle"}
        BY <2>1, <2>2, Unmoved
    <2>3. CASE step'[e] \notin {step[e], "idle"}
        <3>1. /\ e = a /\ step[e] = "prove"
              /\ step'[e] = IF e = "dialler" THEN "sendConfirm" ELSE "sendProof"
            BY <1>7, <1>t, <2>3 DEF ProveSettles, Await, Transmit
        <3>2. /\ HoldsSecret(e) /\ peerID[e] # NoId /\ peerChallenge[e] # "none"
              /\ e = "dialler" => PeerProved(e)
            BY <1>i, <3>1 DEF Stepping
        <3>3. peerID'[e] # NoId /\ peerChallenge'[e] # "none"
            BY <3>2, KnownStep
        <3> QED
            BY <2>1, <3>1, <3>2, <3>3, Unmoved, ProvedStays DEF Stepping, End
    <2> QED
        BY <2>2, <2>3
<1>8. ASSUME NEW a \in End, VerifyConfirmSettles(a) PROVE Stepping(e)' /\ Settled(e)'
    <2>1. step'[e] \in {step[e], "idle"}
        BY <1>8, <1>t DEF VerifyConfirmSettles, Await
    <2>2. CASE authenticated'[e] = authenticated[e] /\ state'[e] \in {state[e], "DISCONNECTED"}
        BY <2>1, <2>2, Unmoved
    <2>3. CASE ~(authenticated'[e] = authenticated[e] /\ state'[e] \in {state[e], "DISCONNECTED"})
        <3>1. e = a /\ step[e] = "verifyConfirm" /\ verify(e, hand[e].ap) /\ authenticated'[e]
            BY <1>8, <1>t, <2>3 DEF VerifyConfirmSettles, Disconnect, goLive
        <3>2. state'[e] \in {state[e], "CONNECTED"}
            BY <1>8, <1>t, <3>1 DEF VerifyConfirmSettles, goLive
        <3>3. HoldsSecret(e) /\ peerID[e] # NoId
            BY <1>i, <3>1 DEF Stepping
        <3>4. PeerProved(e) /\ peerID'[e] # NoId
            BY <3>1, <3>3, VerifiedIsProved, KnownStep
        <3> QED
            BY <1>i, <2>1, <3>1, <3>2, <3>4, Unmoved, ProvedStays DEF Settled
    <2> QED
        BY <2>2, <2>3
<1>9. ASSUME NEW a \in End, SendSettles(a) PROVE Stepping(e)' /\ Settled(e)'
    <2>1. step'[e] \in {step[e], "idle"}
        BY <1>9, <1>t DEF SendSettles, Await
    <2>2. CASE authenticated'[e] = authenticated[e] /\ state'[e] \in {state[e], "DISCONNECTED"}
        BY <2>1, <2>2, Unmoved
    <2>3. CASE ~(authenticated'[e] = authenticated[e] /\ state'[e] \in {state[e], "DISCONNECTED"})
        <3>1. /\ e = a /\ step[e] \in {"sendConfirm", "sendAnswer"}
              /\ authenticated'[e] = (authenticated[e] \/ step[e] = "sendConfirm")
            BY <1>9, <1>t, <2>3 DEF SendSettles, goLive
        <3>2. state'[e] \in {state[e], "CONNECTED"}
            BY <1>9, <1>t, <3>1 DEF SendSettles, goLive
        <3>3. /\ peerID[e] # NoId
              /\ step[e] = "sendConfirm" => PeerProved(e)
              /\ step[e] = "sendAnswer" => AuthWaived(e)
            BY <1>i, <3>1 DEF Stepping
        <3>4. peerID'[e] # NoId
            BY <3>3, KnownStep
        <3> QED
            BY <1>i, <2>1, <3>1, <3>2, <3>3, <3>4, Unmoved, ProvedStays DEF Settled
    <2> QED
        BY <2>2, <2>3
<1> QED
    BY <1>1, <1>2, <1>3, <1>4, <1>5, <1>6, <1>7, <1>8, <1>9 DEF Next, Handle

-----------------------------------------------------------------------------
(* The invariant and what follows from it                                  *)

(* It holds at first, *)
LEMMA InitInv == Init => IInv
<1> SUFFICES ASSUME Init PROVE IInv
    OBVIOUS
<1>1. TypeOK
    BY InitType
<1>2. FramesGenuine
    <2>1. Genuine("listener", authPacket("dialler", NoProof))
        BY BareAuthGenuine DEF End, Other
    <2>2. \A e \in End : Genuine(e, hand[e]) /\ step[e] = "idle"
        BY DEF Init, Genuine, NoMessage
    <2>3. /\ net["listener"] = <<authPacket("dialler", NoProof)>>
          /\ net["dialler"] = <<>>
        BY DEF Init, End
    <2> QED
        BY <2>1, <2>2, <2>3 DEF FramesGenuine, End
<1>3. ASSUME NEW e \in End PROVE Noted(e) /\ Stepping(e) /\ Settled(e)
    BY DEF Init, Noted, Stepping, Settled, End
<1> QED
    BY <1>1, <1>2, <1>3 DEF IInv

(* and every step keeps it. *)
LEMMA NextInv == IInv /\ [Next]_vars => IInv'
<1> SUFFICES ASSUME IInv, [Next]_vars PROVE IInv'
    OBVIOUS
<1>1. TypeOK'
    BY NextType DEF IInv
<1>2. FramesGenuine'
    BY FramesStep
<1>3. \A e \in End : Noted(e)'
    BY KnownStep
<1>4. \A e \in End : Stepping(e)' /\ Settled(e)'
    BY StepsStep
<1> QED
    BY <1>1, <1>2, <1>3, <1>4 DEF IInv

(* The inductive invariant holds. *)
THEOREM Inductive == Spec => []IInv
BY InitInv, NextInv, PTL DEF Spec

(* An end with a secret is live only with a peer that proved the same one, *)
(* whatever the secrets, the ids and the configuration.                    *)
THEOREM MutualAuthHolds == Spec => []MutualAuth
<1>1. IInv => MutualAuth
    BY DEF IInv, MutualAuth, Settled, PeerProved, AuthWaived
<1> QED
    BY <1>1, Inductive, PTL

(* Two live ends agree on the auth, on e2e, and on who the other is.       *)
THEOREM LiveAgreementHolds == Spec => []LiveAgreement
<1>1. IInv => LiveAgreement
    <2> SUFFICES ASSUME IInv, \A e \in End : state[e] = "CONNECTED"
                 PROVE  /\ authenticated["dialler"] = authenticated["listener"]
                        /\ e2eRequired["dialler"] = e2eRequired["listener"]
                        /\ \A e \in End : peerID[e] = conf.id[Other(e)]
        BY DEF LiveAgreement
    <2>1. \A e \in End : Settled(e) /\ Noted(e) /\ peerID[e] # NoId
        BY DEF IInv, Settled
    <2>2. \A e \in End : authenticated[e] <=> HoldsSecret(e) /\ HoldsSecret(Other(e))
        BY <2>1 DEF Settled, PeerProved, AuthWaived, HoldsSecret
    <2>3. \A e \in End : e2eRequired[e] = (conf.requireE2E[e] \/ conf.requireE2E[Other(e)])
        BY <2>1 DEF Noted
    <2>4. authenticated \in [End -> BOOLEAN] /\ conf.requireE2E \in [End -> BOOLEAN]
        BY DEF IInv, TypeOK, Configuration
    <2>5. authenticated["dialler"] = authenticated["listener"]
        BY <2>2, <2>4 DEF End, Other
    <2>6. e2eRequired["dialler"] = e2eRequired["listener"]
        BY <2>3, <2>4 DEF End, Other
    <2> QED
        BY <2>1, <2>5, <2>6 DEF Noted
<1> QED
    BY <1>1, Inductive, PTL

-----------------------------------------------------------------------------
(* DISCONNECTED is final                                                   *)

(* An end that is gone stays gone, and sends nothing in this step. *)
Gone(e) == ~isConnected(e) =>
    /\ ~isConnected(e)'
    /\ Len(net'[Other(e)]) <= Len(net[Other(e)])

(* Every step respects that. *)
LEMMA GoneStep ==
    ASSUME TypeOK, [Next]_vars, NEW e \in End
    PROVE  Gone(e)
<1>t. /\ state \in [End -> States] /\ step \in [End -> Steps] /\ net \in [End -> Seq(Message)]
      /\ Other(e) \in End
    BY OtherEnd DEF TypeOK
<1>n. Len(net[Other(e)]) \in Nat
    BY <1>t
<1>1. CASE UNCHANGED vars
    BY <1>1, <1>n DEF vars, Gone, isConnected
<1>2. ASSUME NEW a \in End, ReceiveAuth(a) \/ ReceiveConfirm(a) \/ ReceiveLive(a)
      PROVE  Gone(e)
    <2>1. PICK types : Take(a, types)
        BY <1>2 DEF ReceiveAuth, ReceiveConfirm, ReceiveLive
    <2>2. net'[Other(e)] = net[Other(e)] \/
            (net[Other(e)] # <<>> /\ net'[Other(e)] = Tail(net[Other(e)]))
        BY <1>t, <2>1 DEF Take
    <2>3. Len(net'[Other(e)]) <= Len(net[Other(e)])
        BY <1>t, <1>n, <2>2
    <2>4. isConnected(a) /\ (state'[e] = state[e] \/ (e = a /\ state'[e] = "DISCONNECTED"))
        BY <1>2, <1>t DEF ReceiveAuth, ReceiveConfirm, ReceiveLive, Take, Disconnect
    <2> QED
        BY <2>3, <2>4 DEF Gone, isConnected
<1>3. ASSUME NEW a \in End,
             \/ OnAuthRefuses(a) \/ OnAuthTooLate(a) \/ AuthDeclined(a) \/ AuthAgreed(a)
             \/ VerifySettles(a) \/ VerifyConfirmSettles(a) \/ SendSettles(a) \/ SendFails(a)
             \/ AuthTimesOut(a) \/ LinkCloses(a) \/ Arrives(a)
      PROVE  Gone(e)
    <2>1. net' = net
        BY <1>3 DEF OnAuthRefuses, OnAuthTooLate, AuthDeclined, AuthAgreed, VerifySettles,
                    VerifyConfirmSettles, SendSettles, SendFails, AuthTimesOut, LinkCloses, Arrives
    <2>2. ~isConnected(e) => ~isConnected(e)'
        BY <1>3, <1>t
        DEF OnAuthRefuses, OnAuthTooLate, AuthDeclined, AuthAgreed, VerifySettles,
            VerifyConfirmSettles, SendSettles, SendFails, AuthTimesOut, LinkCloses, Arrives,
            Disconnect, goLive, isConnected
    <2> QED
        BY <1>n, <2>1, <2>2 DEF Gone
<1>4. ASSUME NEW a \in End, AuthSkipped(a) \/ ProveSettles(a) \/ Speak(a)
      PROVE  Gone(e)
    <2>1. CASE a = e
        BY <1>4, <1>n, <2>1 DEF AuthSkipped, ProveSettles, Speak, OnAuthAccepts, Gone, isConnected
    <2>2. CASE a # e
        <3>1. Other(a) # Other(e)
            BY <2>2 DEF End, Other
        <3>2. net'[Other(e)] = net[Other(e)]
            BY <1>4, <1>t, <3>1, OtherEnd DEF AuthSkipped, ProveSettles, Speak, Transmit
        <3>3. state'[e] = state[e]
            BY <1>4, <1>t, <2>2 DEF AuthSkipped, ProveSettles, Speak, goLive
        <3> QED
            BY <1>n, <3>2, <3>3 DEF Gone, isConnected
    <2> QED
        BY <2>1, <2>2
<1> QED
    BY <1>1, <1>2, <1>3, <1>4 DEF Next, Handle

(* What is left of a handshake after the link closed neither brings the    *)
(* connection back nor sends anything.                                     *)
THEOREM GoneForGoodHolds == Spec => GoneForGood
<1>1. TypeOK /\ [Next]_vars => [\A e \in End : Gone(e)]_vars
    BY GoneStep
<1> QED
    BY <1>1, TypeCorrect, PTL DEF Spec, GoneForGood, Gone
-----------------------------------------------------------------------------
(* The phases of the handshake                                             *)

(* The types of the frames on their way to e. *)
Under(e) == {net[e][i].type : i \in DOMAIN net[e]}

(* e has what it needs to check the peer's proof. *)
Challenged(e) == HoldsSecret(e) /\ peerID[e] # NoId /\ peerChallenge[e] # "none"

(* The listener waits for the dialler's proof, or is about to. *)
AwaitsConfirm ==
    /\ Challenged("listener")
    /\ state["listener"] # "CONNECTED"
    /\ step["listener"] \in {"sendProof", "idle"}

(* The dialler's part is over, its last write excepted. *)
DiallerDone == authReceived["dialler"] /\ step["dialler"] \in {"sendConfirm", "idle"}

(* A frame of the handshake is the first on its way to e, *)
Front(e) == \A i \in DOMAIN net[e] : net[e][i].type \notin LiveTypes => i = 1

(* and e has yet to take it; what follows it was sent by a live end, *)
InFront(e) ==
    /\ Front(e)
    /\ "AUTH" \in Under(e) => ~authReceived[e]
    /\ Under(e) \cap LiveTypes # {} => spoken[Other(e)]
    /\ "LINK" \in Under(e) => ~conf.requireE2E[e] /\ ~conf.requireE2E[Other(e)]
    /\ "AUTH_CONFIRM" \in Under(e) => e = "listener" /\ AwaitsConfirm /\ DiallerDone

(* nothing comes from an end before its part is over, *)
Silent(e) ==
    /\ ~authReceived[e] => step[e] = "idle"
    /\ ~authReceived[e] \/ step[e] # "idle" => ~spoken[e] /\ state[e] # "CONNECTED"
    /\ spoken[e] => state[e] \in {"CONNECTED", "DISCONNECTED"}
    /\ limited[e] => \/ ~authReceived[e] \/ step[e] \in {"onAuth", "prove"} \/ ~isConnected(e)

(* and an end whose part is over is live, or awaits the dialler's proof. *)
Ready(e) ==
    /\ isConnected(e) => reason[e] = "none"
    /\ state[e] = "CONNECTED" => ~timer[e]
    /\ authReceived[e] /\ step[e] = "idle" /\ isConnected(e) =>
            state[e] = "CONNECTED" \/ (e = "listener" /\ Challenged(e))

(* The listener answers before the dialler goes on, *)
AnswerFirst ==
    /\ ~authReceived["listener"] \/ step["listener"] \in {"onAuth", "prove"} =>
            ~authReceived["dialler"] /\ Under("dialler") = {} /\ ~spoken["listener"]
    /\ ~authReceived["dialler"] => Under("listener") \subseteq {"AUTH"}
    /\ state["listener"] = "CONNECTED" \/ spoken["listener"] \/ step["listener"] = "sendAnswer" =>
            authReceived["dialler"] \/ "AUTH" \in Under("dialler")
    /\ state["listener"] # "AUTHING" /\ ~limited["dialler"]

(* and the dialler confirms before it speaks, to a listener that has asked. *)
ConfirmFirst ==
    /\ ~authReceived["listener"] \/ step["listener"] \in {"onAuth", "sendAnswer"} =>
            peerChallenge["listener"] = "none"
    /\ step["dialler"] = "prove" => AwaitsConfirm /\ Under("listener") = {}
    /\ Challenged("listener") /\ (state["listener"] = "CONNECTED" \/ step["listener"] = "verifyConfirm")
            => DiallerDone
    /\ Challenged("listener") /\ state["listener"] = "ESTABLISHED" /\ step["listener"] # "verifyConfirm" =>
            \/ "AUTH_CONFIRM" \in Under("listener")
            \/ ~spoken["dialler"] /\ state["dialler"] # "CONNECTED" /\ step["dialler"] # "sendConfirm"

(* The phases, and what they are for. *)
PhaseInv ==
    /\ \A e \in End : InFront(e) /\ Silent(e) /\ Ready(e)
    /\ AnswerFirst /\ ConfirmFirst
    /\ NoFrameRefused

-----------------------------------------------------------------------------
(* What is on its way                                                      *)

(* What is on its way changes with net alone. *)
LEMMA NetStays ==
    ASSUME net' = net
    PROVE  \A e \in End : Under(e)' = Under(e) /\ Front(e)' = Front(e)
BY DEF Under, Front

(* A frame is of the handshake or of a live connection. *)
LEMMA UnderTypes ==
    ASSUME TypeOK, NEW e \in End
    PROVE  Under(e) \subseteq {"AUTH", "AUTH_CONFIRM"} \cup LiveTypes
<1>1. net[e] \in Seq(Message)
    BY DEF TypeOK
<1>2. \A i \in DOMAIN net[e] : net[e][i] \in Message
    BY <1>1
<1> QED
    BY <1>2 DEF Under, Message

(* Taking the first frame leaves only frames of a live connection. *)
LEMMA TakeUnder ==
    ASSUME TypeOK, NEW a \in End, NEW types, Take(a, types), Front(a)
    PROVE  /\ \A e \in End \ {a} : Under(e)' = Under(e) /\ Front(e)' = Front(e)
           /\ Front(a)' /\ Under(a)' \subseteq Under(a) \cap LiveTypes
           /\ Head(net[a]).type \in types \cap Under(a)
           /\ Head(net[a]).type \in LiveTypes => Under(a) \subseteq LiveTypes
<1>1. net \in [End -> Seq(Message)] /\ net[a] # <<>>
    BY TakeType DEF TypeOK
<1>2. net' = [net EXCEPT ![a] = Tail(net[a])]
    BY DEF Take
<1>3. \A e \in End \ {a} : Under(e)' = Under(e) /\ Front(e)' = Front(e)
    BY <1>1, <1>2 DEF Under, Front
<1>4. /\ net'[a] = Tail(net[a]) /\ net[a] \in Seq(Message)
      /\ DOMAIN net[a] = 1..Len(net[a]) /\ Len(net[a]) \in Nat /\ Len(net[a]) >= 1
    BY <1>1, <1>2
<1>5. DOMAIN net'[a] = 1..(Len(net[a]) - 1)
    BY <1>4
<1>6. \A i \in DOMAIN net'[a] : i + 1 \in DOMAIN net[a] /\ i + 1 # 1 /\ net'[a][i] = net[a][i + 1]
    BY <1>1, <1>4, <1>5
<1>7. \A i \in DOMAIN net'[a] : net'[a][i].type \in LiveTypes \cap Under(a)
    BY <1>6 DEF Front, Under
<1>8. Head(net[a]) = net[a][1] /\ 1 \in DOMAIN net[a]
    BY <1>4
<1>9. Head(net[a]).type \in types \cap Under(a)
    BY <1>8 DEF Under, Take
<1>10. Head(net[a]).type \in LiveTypes => Under(a) \subseteq LiveTypes
    BY <1>8 DEF Under, Front
<1> QED
    BY <1>3, <1>7, <1>9, <1>10 DEF Front, Under

(* Sending adds a type; it keeps the order unless the frame comes too late. *)
LEMMA TransmitUnder ==
    ASSUME TypeOK, NEW a \in End, NEW m, Transmit(a, m), Front(Other(a)),
           Under(Other(a)) = {} \/ m.type \in LiveTypes
    PROVE  /\ Under(a)' = Under(a) /\ Front(a)' = Front(a)
           /\ Under(Other(a))' = Under(Other(a)) \cup {m.type} /\ Front(Other(a))'
<1> DEFINE o == Other(a)
<1>1. net \in [End -> Seq(Message)] /\ o \in End /\ o # a
    BY OtherEnd DEF TypeOK
<1>2. net' = [net EXCEPT ![o] = Append(net[o], m)]
    BY DEF Transmit
<1> HIDE DEF o
<1>3. net'[a] = net[a]
    BY <1>1, <1>2
<1>4. net'[o] = Append(net[o], m) /\ net[o] \in Seq(Message)
    BY <1>1, <1>2
<1>5. /\ DOMAIN net[o] = 1..Len(net[o]) /\ Len(net[o]) \in Nat
      /\ DOMAIN net'[o] = 1..(Len(net[o]) + 1)
      /\ net'[o][Len(net[o]) + 1] = m /\ \A i \in DOMAIN net[o] : net'[o][i] = net[o][i]
    BY <1>4
<1>6. DOMAIN net'[o] = DOMAIN net[o] \cup {Len(net[o]) + 1}
    BY <1>5
<1>7. Under(o)' = Under(o) \cup {m.type}
    BY <1>5, <1>6 DEF Under
<1>8. Under(o) = {} => DOMAIN net[o] = {}
    BY DEF Under
<1>9. Front(o)'
  <2> SUFFICES ASSUME NEW i \in DOMAIN net'[o], net'[o][i].type \notin LiveTypes
               PROVE  i = 1
      BY DEF Front
  <2>1. CASE i \in DOMAIN net[o]
      BY <1>5, <2>1 DEF Front, o
  <2>2. CASE i = Len(net[o]) + 1
    <3>1. net'[o][i] = m
        BY <1>5, <2>2
    <3>2. DOMAIN net[o] = {}
        BY <3>1, <1>8 DEF o
    <3>3. DOMAIN net[o] = 1..Len(net[o]) /\ Len(net[o]) \in Nat
        BY <1>5
    <3>4. \A n \in Nat : 1..n = {} => n = 0
      <4> SUFFICES ASSUME NEW n \in Nat, n # 0 PROVE 1 \in 1..n
          OBVIOUS
      <4> QED
          OBVIOUS
    <3>5. Len(net[o]) = 0
        BY <3>2, <3>3, <3>4, Zenon
    <3> QED
        BY <3>5, <2>2
  <2> QED
      BY <1>6, <2>1, <2>2
<1> QED
    BY <1>3, <1>7, <1>9 DEF Under, Front, o

-----------------------------------------------------------------------------
(* The kinds of step there are                                             *)

(* The reasons NoFrameRefused is about. *)
refusals == {"Unexpected Auth Confirm!", "Invalid Packet!", "Message too large",
             "Plaintext message on a connection that requires e2e"}

(* The types of what the phases are about. *)
LEMMA PhaseTypes ==
    ASSUME IInv
    PROVE  /\ state \in [End -> States] /\ step \in [End -> Steps] /\ timer \in [End -> BOOLEAN]
           /\ limited \in [End -> BOOLEAN] /\ authReceived \in [End -> BOOLEAN]
           /\ spoken \in [End -> BOOLEAN] /\ reason \in [End -> Reasons]
           /\ peerChallenge \in [End -> Challenge] /\ peerID \in [End -> Ids \cup {NoId}]
BY DEF IInv, TypeOK

(* An end that has what it needs keeps it. *)
LEMMA ChallengedStays ==
    ASSUME IInv, [Next]_vars, NEW e \in End
    PROVE  /\ Challenged(e) => Challenged(e)'
           /\ peerID'[e] = peerID[e] /\ peerChallenge'[e] = peerChallenge[e] =>
                (Challenged(e)' <=> Challenged(e))
BY KnownStep, ProvedStays DEF Challenged

(* An end stops: it disconnects, or what it waited for comes too late. *)
LEMMA StopKeeps ==
    ASSUME IInv, PhaseInv, [Next]_vars, NEW a \in End,
           net' = net, authReceived' = authReceived, spoken' = spoken,
           peerChallenge' = peerChallenge,
           state' = [state EXCEPT ![a] = "DISCONNECTED"],
           step' = step \/ step' = [step EXCEPT ![a] = "idle"],
           \A e \in End : limited'[e] => limited[e],
           \A e \in End : e # a => timer'[e] = timer[e] /\ reason'[e] = reason[e]
                                   /\ peerID'[e] = peerID[e],
           reason'[a] \notin refusals
    PROVE  PhaseInv'
<1>t. /\ state \in [End -> States] /\ step \in [End -> Steps] /\ End = {"dialler", "listener"}
      /\ \A e \in End : Other(e) \in End
    BY PhaseTypes, OtherEnd DEF End
<1>s. \A e \in End : /\ state'[e] \in {state[e], "DISCONNECTED"}
                     /\ e # a => state'[e] = state[e]
                     /\ step'[e] \in {step[e], "idle"}
                     /\ e # a => step'[e] = step[e]
    BY <1>t
<1>n. \A e \in End : Under(e)' = Under(e) /\ Front(e)' = Front(e)
    BY NetStays
<1>c. conf' = conf /\ \A e \in End : Challenged(e) => Challenged(e)'
    BY KnownStep, ChallengedStays
<1>w. AwaitsConfirm => AwaitsConfirm'
    BY <1>s, <1>t, <1>c DEF AwaitsConfirm
<1>d. DiallerDone => DiallerDone'
    BY <1>s, <1>t DEF DiallerDone
<1>1. ASSUME NEW e \in End PROVE InFront(e)'
    BY <1>t, <1>n, <1>c, <1>w, <1>d DEF PhaseInv, InFront
<1>2. ASSUME NEW e \in End PROVE Silent(e)'
    BY <1>s, <1>t DEF PhaseInv, Silent, isConnected
<1>3. ASSUME NEW e \in End PROVE Ready(e)'
    BY <1>s, <1>t, <1>c DEF PhaseInv, Ready, isConnected
<1>4. AnswerFirst'
    BY <1>s, <1>t, <1>n DEF PhaseInv, AnswerFirst, Silent
<1>k. Challenged("listener")' => Challenged("listener") \/ a = "listener"
    BY <1>t, ChallengedStays
<1>v. step["listener"] = "verifyConfirm" => Challenged("listener")
    BY <1>t DEF IInv, Stepping, Challenged
<1>5. ConfirmFirst'
    BY <1>s, <1>t, <1>n, <1>w, <1>d, <1>k, <1>v DEF PhaseInv, ConfirmFirst, Silent
<1>6. NoFrameRefused'
    BY <1>t DEF PhaseInv, NoFrameRefused, refusals
<1> QED
    BY <1>1, <1>2, <1>3, <1>4, <1>5, <1>6 DEF PhaseInv

(* An end goes live, its part of the handshake over. *)
LEMMA LiveKeeps ==
    ASSUME IInv, PhaseInv, [Next]_vars, NEW a \in End,
           authReceived[a], step[a] # "idle",
           a = "dialler" => step[a] = "sendConfirm" \/ ~Challenged("listener"),
           a = "listener" => step[a] = "sendAnswer" \/ step[a] = "verifyConfirm",
           net' = net, authReceived' = authReceived, spoken' = spoken, limited' = limited,
           peerChallenge' = peerChallenge, reason' = reason,
           state' = [state EXCEPT ![a] = "CONNECTED"], step' = [step EXCEPT ![a] = "idle"],
           timer' = [timer EXCEPT ![a] = FALSE],
           \A e \in End : e # a => peerID'[e] = peerID[e],
           isConnected(a)
    PROVE  PhaseInv'
<1>t. /\ state \in [End -> States] /\ step \in [End -> Steps] /\ timer \in [End -> BOOLEAN]
      /\ End = {"dialler", "listener"} /\ \A e \in End : Other(e) \in End
    BY PhaseTypes, OtherEnd DEF End
<1>s. \A e \in End : /\ e # a => state'[e] = state[e] /\ step'[e] = step[e] /\ timer'[e] = timer[e]
                     /\ step'[e] \in {step[e], "idle"}
    BY <1>t
<1>a. state'[a] = "CONNECTED" /\ step'[a] = "idle" /\ ~timer'[a]
    BY <1>t
<1>n. \A e \in End : Under(e)' = Under(e) /\ Front(e)' = Front(e)
    BY NetStays
<1>c. conf' = conf /\ \A e \in End : Challenged(e) => Challenged(e)'
    BY KnownStep, ChallengedStays
<1>p. InFront("listener") /\ Silent(a) /\ AnswerFirst /\ ConfirmFirst
    BY <1>t DEF PhaseInv
<1>u. a = "listener" => ~AwaitsConfirm
    BY DEF AwaitsConfirm
<1>w. AwaitsConfirm => AwaitsConfirm'
    BY <1>s, <1>t, <1>c, <1>u DEF AwaitsConfirm
<1>d. DiallerDone => DiallerDone'
    BY <1>s, <1>t DEF DiallerDone
<1>1. ASSUME NEW e \in End PROVE InFront(e)'
    BY <1>t, <1>n, <1>c, <1>w, <1>d DEF PhaseInv, InFront
<1>l. ~limited[a]
    BY <1>p, <1>t DEF Silent, AnswerFirst
<1>2. ASSUME NEW e \in End PROVE Silent(e)'
    BY <1>s, <1>a, <1>l, <1>t DEF PhaseInv, Silent, isConnected
<1>3. ASSUME NEW e \in End PROVE Ready(e)'
    BY <1>s, <1>a, <1>t, <1>c DEF PhaseInv, Ready, isConnected
<1>k. Challenged("listener")' => Challenged("listener") \/ a = "listener"
    BY <1>t, ChallengedStays
<1>v. /\ step["listener"] = "verifyConfirm" => Challenged("listener")
      /\ a = "listener" /\ step[a] = "sendAnswer" => ~Challenged("listener")'
    BY <1>t, <1>p DEF IInv, Stepping, Challenged, ConfirmFirst
<1>y. a = "listener" => authReceived["dialler"] \/ "AUTH" \in Under("dialler")
    BY <1>p, <1>t, <1>v DEF AnswerFirst, ConfirmFirst, DiallerDone
<1>4. AnswerFirst'
    BY <1>s, <1>a, <1>t, <1>n, <1>p, <1>y DEF AnswerFirst, Silent
<1>x. a = "dialler" /\ step[a] = "sendConfirm" /\ Challenged("listener") /\ state["listener"] = "ESTABLISHED"
        /\ step["listener"] # "verifyConfirm" => "AUTH_CONFIRM" \in Under("listener")
    BY <1>p DEF ConfirmFirst
<1>5. ConfirmFirst'
    BY <1>s, <1>a, <1>t, <1>n, <1>w, <1>d, <1>k, <1>v, <1>x DEF PhaseInv, ConfirmFirst, Silent
<1>6. NoFrameRefused'
    BY <1>t DEF PhaseInv, NoFrameRefused
<1> QED
    BY <1>1, <1>2, <1>3, <1>4, <1>5, <1>6 DEF PhaseInv

(* A handler goes on to its next step, and sends nothing. *)
LEMMA GoesOnKeeps ==
    ASSUME IInv, PhaseInv, [Next]_vars, NEW a \in End, NEW s \in Steps,
           net' = net, spoken' = spoken, state' = state, timer' = timer, reason' = reason,
           limited' = limited, authReceived' = authReceived,
           peerChallenge' = peerChallenge, peerID' = peerID,
           step' = [step EXCEPT ![a] = s],
           \/ a = "dialler" /\ step[a] = "verify" /\ s = "prove" /\ Challenged("listener")
           \/ a = "listener" /\ step[a] = "sendProof" /\ s = "idle"
    PROVE  PhaseInv'
<1>t. /\ step \in [End -> Steps] /\ End = {"dialler", "listener"} /\ \A e \in End : Other(e) \in End
    BY PhaseTypes, OtherEnd DEF End
<1>s. \A e \in End : e # a => step'[e] = step[e]
    BY <1>t
<1>a. step'[a] = s
    BY <1>t
<1>n. \A e \in End : Under(e)' = Under(e) /\ Front(e)' = Front(e)
    BY NetStays
<1>c. conf' = conf /\ \A e \in End : Challenged(e)' <=> Challenged(e)
    BY KnownStep, ChallengedStays
<1>p. AnswerFirst /\ ConfirmFirst /\ \A e \in End : InFront(e) /\ Silent(e) /\ Ready(e)
    BY DEF PhaseInv
<1>w. AwaitsConfirm => AwaitsConfirm'
    BY <1>s, <1>a, <1>t, <1>c DEF AwaitsConfirm
<1>d. DiallerDone => DiallerDone'
    BY <1>s, <1>a, <1>t DEF DiallerDone
<1>1. ASSUME NEW e \in End PROVE InFront(e)'
    BY <1>t, <1>n, <1>c, <1>w, <1>d, <1>p DEF InFront
<1>2. ASSUME NEW e \in End PROVE Silent(e)'
    BY <1>s, <1>a, <1>t, <1>p DEF Silent, isConnected
<1>v. a = "listener" => Challenged("listener")
    BY <1>t DEF IInv, Stepping, Challenged
<1>3. ASSUME NEW e \in End PROVE Ready(e)'
    BY <1>s, <1>a, <1>t, <1>c, <1>p, <1>v DEF Ready, isConnected
<1>4. AnswerFirst'
    BY <1>s, <1>a, <1>t, <1>n, <1>p DEF AnswerFirst, Silent
<1>q. a = "dialler" => AwaitsConfirm /\ Under("listener") = {}
  <2> SUFFICES ASSUME a = "dialler" PROVE AwaitsConfirm /\ Under("listener") = {}
      OBVIOUS
  <2>1. authReceived["dialler"] /\ ~spoken["dialler"] /\ ~DiallerDone
      BY <1>p, <1>t DEF Silent, DiallerDone
  <2>2. authReceived["listener"] /\ step["listener"] \notin {"onAuth", "prove"}
      BY <2>1, <1>p DEF AnswerFirst
  <2>3. state["listener"] # "CONNECTED" /\ step["listener"] # "verifyConfirm"
      BY <2>1, <1>p DEF ConfirmFirst
  <2>4. step["listener"] # "sendAnswer" /\ step["listener"] \notin {"verify", "sendConfirm"}
      BY <1>p, <1>t DEF ConfirmFirst, Challenged, IInv, Stepping
  <2>5. AwaitsConfirm
      BY <2>2, <2>3, <2>4, <1>t DEF AwaitsConfirm, Steps
  <2>6. Under("listener") \cap (LiveTypes \cup {"AUTH", "AUTH_CONFIRM"}) = {}
      BY <2>1, <2>2, <1>p, <1>t DEF InFront, Other
  <2>7. Under("listener") \subseteq LiveTypes \cup {"AUTH", "AUTH_CONFIRM"}
      BY <1>t, UnderTypes DEF IInv
  <2> QED
      BY <2>5, <2>6, <2>7
<1>5. ConfirmFirst'
    BY <1>s, <1>a, <1>t, <1>n, <1>w, <1>d, <1>c, <1>p, <1>q DEF ConfirmFirst, Silent, DiallerDone
<1>6. NoFrameRefused'
    BY DEF PhaseInv, NoFrameRefused
<1> QED
    BY <1>1, <1>2, <1>3, <1>4, <1>5, <1>6 DEF PhaseInv

-----------------------------------------------------------------------------
(* The frames an end takes are the ones it is ready for                    *)

(* An AUTH comes before anything else, and once. *)
LEMMA AuthInTime ==
    ASSUME IInv, PhaseInv, NEW a \in End, ReceiveAuth(a)
    PROVE  /\ ~authReceived[a] /\ authReceived' = [authReceived EXCEPT ![a] = TRUE]
           /\ step' = [step EXCEPT ![a] = "onAuth"] /\ UNCHANGED <<state, timer, reason>>
<1>1. Front(a) /\ TypeOK /\ Take(a, {"AUTH"})
    BY DEF PhaseInv, InFront, IInv, ReceiveAuth
<1>2. "AUTH" \in Under(a)
    BY <1>1, TakeUnder
<1>3. ~authReceived[a] /\ state[a] # "CONNECTED" /\ state[a] # "DISCONNECTED"
    BY <1>1, <1>2 DEF PhaseInv, InFront, Silent, Take, isConnected
<1>4. state[a] \in {"ESTABLISHED", "AUTHING"}
    BY <1>3, PhaseTypes DEF States
<1> QED
    BY <1>3, <1>4 DEF ReceiveAuth, Await

(* An AUTH_CONFIRM finds a listener that has asked for it. *)
LEMMA ConfirmInTime ==
    ASSUME IInv, PhaseInv, NEW a \in End, ReceiveConfirm(a)
    PROVE  /\ a = "listener" /\ AwaitsConfirm /\ DiallerDone /\ step[a] = "idle"
           /\ state[a] = "ESTABLISHED"
           /\ step' = [step EXCEPT ![a] = "verifyConfirm"] /\ UNCHANGED <<state, timer, reason>>
<1>1. Front(a) /\ TypeOK /\ Take(a, {"AUTH_CONFIRM"})
    BY DEF PhaseInv, InFront, IInv, ReceiveConfirm
<1>2. "AUTH_CONFIRM" \in Under(a)
    BY <1>1, TakeUnder
<1>3. a = "listener" /\ AwaitsConfirm /\ DiallerDone /\ step[a] = "idle" /\ isConnected(a)
    BY <1>1, <1>2 DEF PhaseInv, InFront, Take
<1>4. state[a] = "ESTABLISHED"
    BY <1>3, PhaseTypes DEF States, AwaitsConfirm, PhaseInv, AnswerFirst, isConnected
<1> QED
    BY <1>3, <1>4 DEF ReceiveConfirm, Await, AwaitsConfirm, Challenged

(* What a live end sends finds the other live: it was busy till it was. *)
LEMMA LiveInTime ==
    ASSUME IInv, PhaseInv, NEW a \in End, ReceiveLive(a)
    PROVE  UNCHANGED <<state, timer, reason>>
<1>1. Front(a) /\ TypeOK /\ Take(a, LiveTypes)
    BY DEF PhaseInv, InFront, IInv, ReceiveLive
<1> DEFINE type == Head(net[a]).type
<1>2. type \in LiveTypes \cap Under(a) /\ Under(a) \subseteq LiveTypes
    BY <1>1, TakeUnder
<1>t. End = {"dialler", "listener"} /\ Other(a) \in End /\ Other(Other(a)) = a
    BY OtherEnd DEF End
<1>p. AnswerFirst /\ ConfirmFirst /\ \A e \in End : InFront(e) /\ Silent(e) /\ Ready(e)
    BY DEF PhaseInv
<1>a. step[a] = "idle" /\ isConnected(a)
    BY <1>1 DEF Take
<1>3. spoken[Other(a)] /\ authReceived[Other(a)] /\ step[Other(a)] = "idle"
    BY <1>2, <1>p, <1>t DEF InFront, Silent
<1>4. authReceived[a]
  <2>1. CASE a = "dialler"
      BY <1>2, <1>3, <1>p, <2>1 DEF Other, AnswerFirst, LiveTypes
  <2>2. CASE a = "listener"
      BY <1>3, <1>p, <2>2 DEF Other, AnswerFirst
  <2> QED
      BY <1>t, <2>1, <2>2
<1>5. state[a] = "CONNECTED"
  <2> SUFFICES ASSUME state[a] # "CONNECTED" PROVE FALSE
      OBVIOUS
  <2>1. a = "listener" /\ Challenged(a)
      BY <1>4, <1>a, <1>p DEF Ready
  <2>2. state[a] = "ESTABLISHED"
      BY <2>1, <1>a, <1>p, PhaseTypes DEF States, AnswerFirst, isConnected
  <2>3. "AUTH_CONFIRM" \in Under(a)
      BY <2>1, <2>2, <1>a, <1>3, <1>p DEF ConfirmFirst, Other
  <2> QED
      BY <2>3, <1>2 DEF LiveTypes
<1>6. type = "LINK" => ~e2eRequired[a]
  <2>1. type = "LINK" => ~conf.requireE2E[a] /\ ~conf.requireE2E[Other(a)]
      BY <1>2, <1>p DEF InFront
  <2> QED
      BY <2>1, <1>5 DEF IInv, Noted, Settled
<1> QED
    BY <1>5, <1>6 DEF ReceiveLive

-----------------------------------------------------------------------------
(* Taking a frame                                                          *)

(* The AUTH goes to onAuth. *)
LEMMA ReceiveAuthKeeps ==
    ASSUME IInv, PhaseInv, [Next]_vars, NEW a \in End, ReceiveAuth(a)
    PROVE  PhaseInv'
<1>t. /\ step \in [End -> Steps] /\ authReceived \in [End -> BOOLEAN]
      /\ End = {"dialler", "listener"} /\ \A e \in End : Other(e) \in End
    BY PhaseTypes, OtherEnd DEF End
<1>p. AnswerFirst /\ ConfirmFirst /\ \A e \in End : InFront(e) /\ Silent(e) /\ Ready(e)
    BY DEF PhaseInv
<1>r. /\ ~authReceived[a] /\ authReceived' = [authReceived EXCEPT ![a] = TRUE]
      /\ step' = [step EXCEPT ![a] = "onAuth"] /\ UNCHANGED <<state, timer, reason>>
    BY AuthInTime
<1>u. /\ Take(a, {"AUTH"})
      /\ UNCHANGED <<conf, limited, peerID, challenge, peerChallenge, authenticated, e2eRequired, spoken>>
    BY DEF ReceiveAuth
<1>n. /\ \A e \in End \ {a} : Under(e)' = Under(e) /\ Front(e)' = Front(e)
      /\ Front(a)' /\ Under(a)' \subseteq Under(a) \cap LiveTypes
    BY <1>u, <1>p, TakeUnder DEF IInv, InFront
<1>s. \A e \in End : e # a => step'[e] = step[e] /\ authReceived'[e] = authReceived[e]
    BY <1>t, <1>r
<1>a. step'[a] = "onAuth" /\ authReceived'[a] /\ ~spoken[a] /\ state[a] # "CONNECTED" /\ step[a] = "idle"
    BY <1>t, <1>r, <1>p DEF Silent
<1>c. conf' = conf /\ \A e \in End : Challenged(e)' <=> Challenged(e)
    BY <1>u, ChallengedStays
<1>x. "AUTH" \notin LiveTypes /\ "AUTH_CONFIRM" \notin LiveTypes
    BY DEF LiveTypes
<1>h. "AUTH" \in Under(a)
    BY <1>u, <1>p, TakeUnder DEF IInv, InFront
<1>y. a = "listener" => /\ peerChallenge[a] = "none" /\ ~authReceived["dialler"]
                        /\ Under("dialler") = {} /\ ~spoken["listener"]
    BY <1>r, <1>p DEF ConfirmFirst, AnswerFirst
<1>w. AwaitsConfirm /\ "AUTH_CONFIRM" \in Under("listener") => AwaitsConfirm' /\ DiallerDone'
    BY <1>s, <1>a, <1>t, <1>c, <1>r, <1>y, <1>p DEF AwaitsConfirm, DiallerDone, Challenged, InFront
<1>1. ASSUME NEW e \in End PROVE InFront(e)'
  <2>1. CASE e = a
      BY <1>n, <1>u, <1>p, <1>x, <2>1 DEF InFront
  <2>2. CASE e # a
      BY <1>n, <1>s, <1>u, <1>p, <1>w, <2>2 DEF InFront
  <2> QED
      BY <2>1, <2>2
<1>2. ASSUME NEW e \in End PROVE Silent(e)'
    BY <1>s, <1>a, <1>t, <1>p, <1>u, <1>r DEF Silent, isConnected
<1>3. ASSUME NEW e \in End PROVE Ready(e)'
    BY <1>s, <1>a, <1>t, <1>c, <1>p, <1>u, <1>r DEF Ready, isConnected
<1>4. AnswerFirst'
    BY <1>s, <1>a, <1>t, <1>n, <1>p, <1>u, <1>r, <1>y, <1>h, <1>x DEF AnswerFirst, Silent
<1>5. ConfirmFirst'
    BY <1>s, <1>a, <1>t, <1>n, <1>c, <1>p, <1>u, <1>r, <1>y DEF ConfirmFirst, Silent, DiallerDone, Challenged
<1>6. NoFrameRefused'
    BY <1>r DEF PhaseInv, NoFrameRefused
<1> QED
    BY <1>1, <1>2, <1>3, <1>4, <1>5, <1>6 DEF PhaseInv

(* The proof goes to be verified. *)
LEMMA ReceiveConfirmKeeps ==
    ASSUME IInv, PhaseInv, [Next]_vars, NEW a \in End, ReceiveConfirm(a)
    PROVE  PhaseInv'
<1>t. /\ step \in [End -> Steps] /\ End = {"dialler", "listener"} /\ \A e \in End : Other(e) \in End
    BY PhaseTypes, OtherEnd DEF End
<1>p. AnswerFirst /\ ConfirmFirst /\ \A e \in End : InFront(e) /\ Silent(e) /\ Ready(e)
    BY DEF PhaseInv
<1>r. /\ a = "listener" /\ AwaitsConfirm /\ DiallerDone /\ step[a] = "idle" /\ state[a] = "ESTABLISHED"
      /\ step' = [step EXCEPT ![a] = "verifyConfirm"] /\ UNCHANGED <<state, timer, reason>>
    BY ConfirmInTime
<1>u. /\ Take(a, {"AUTH_CONFIRM"})
      /\ UNCHANGED <<conf, limited, authReceived, peerID, challenge, peerChallenge, authenticated,
                     e2eRequired, spoken>>
    BY DEF ReceiveConfirm
<1>n. /\ Under("dialler")' = Under("dialler") /\ Front("dialler")' = Front("dialler")
      /\ Front(a)' /\ Under(a)' \subseteq Under(a) \cap LiveTypes
    BY <1>u, <1>p, <1>r, <1>t, TakeUnder DEF IInv, InFront
<1>a. step'[a] = "verifyConfirm" /\ step'["dialler"] = step["dialler"]
    BY <1>t, <1>r
<1>c. conf' = conf /\ \A e \in End : Challenged(e)' <=> Challenged(e)
    BY <1>u, ChallengedStays
<1>x. "AUTH" \notin LiveTypes /\ "AUTH_CONFIRM" \notin LiveTypes
    BY DEF LiveTypes
<1>y. authReceived[a] /\ ~spoken[a]
    BY <1>r, <1>p, <1>t DEF ConfirmFirst, AnswerFirst, DiallerDone, Silent, AwaitsConfirm, Challenged
<1>1. ASSUME NEW e \in End PROVE InFront(e)'
  <2>1. CASE e = a
      BY <1>n, <1>u, <1>p, <1>x, <2>1 DEF InFront
  <2>2. CASE e = "dialler"
      BY <1>n, <1>u, <1>p, <2>2 DEF InFront
  <2> QED
      BY <1>r, <1>t, <2>1, <2>2
<1>2. ASSUME NEW e \in End PROVE Silent(e)'
    BY <1>a, <1>t, <1>p, <1>u, <1>r, <1>y DEF Silent, isConnected
<1>3. ASSUME NEW e \in End PROVE Ready(e)'
    BY <1>a, <1>t, <1>c, <1>p, <1>u, <1>r DEF Ready, isConnected
<1>4. AnswerFirst'
    BY <1>a, <1>t, <1>n, <1>p, <1>u, <1>r, <1>y DEF AnswerFirst, Silent, DiallerDone
<1>5. ConfirmFirst'
    BY <1>a, <1>t, <1>n, <1>c, <1>p, <1>u, <1>r, <1>y DEF ConfirmFirst, Silent, DiallerDone, Challenged
<1>6. NoFrameRefused'
    BY <1>r DEF PhaseInv, NoFrameRefused
<1> QED
    BY <1>1, <1>2, <1>3, <1>4, <1>5, <1>6 DEF PhaseInv

(* A frame of a live connection is handed on. *)
LEMMA ReceiveLiveKeeps ==
    ASSUME IInv, PhaseInv, [Next]_vars, NEW a \in End, ReceiveLive(a)
    PROVE  PhaseInv'
<1>t. End = {"dialler", "listener"} /\ \A e \in End : Other(e) \in End
    BY OtherEnd DEF End
<1>p. AnswerFirst /\ ConfirmFirst /\ \A e \in End : InFront(e) /\ Silent(e) /\ Ready(e)
    BY DEF PhaseInv
<1>u. /\ Take(a, LiveTypes) /\ UNCHANGED <<state, timer, reason>>
      /\ UNCHANGED <<conf, limited, authReceived, peerID, challenge, peerChallenge, step, authenticated,
                     e2eRequired, spoken>>
    BY LiveInTime DEF ReceiveLive
<1>n. /\ \A e \in End \ {a} : Under(e)' = Under(e) /\ Front(e)' = Front(e)
      /\ Front(a)' /\ Under(a)' \subseteq Under(a) \cap LiveTypes /\ Under(a) \subseteq LiveTypes
    BY <1>u, <1>p, TakeUnder DEF IInv, InFront
<1>c. conf' = conf /\ \A e \in End : Challenged(e)' <=> Challenged(e)
    BY <1>u, ChallengedStays
<1>x. "AUTH" \notin LiveTypes /\ "AUTH_CONFIRM" \notin LiveTypes
    BY DEF LiveTypes
<1>w. AwaitsConfirm /\ DiallerDone => AwaitsConfirm' /\ DiallerDone'
    BY <1>t, <1>u, <1>c DEF AwaitsConfirm, DiallerDone
<1>1. ASSUME NEW e \in End PROVE InFront(e)'
  <2>1. CASE e = a
      BY <1>n, <1>u, <1>p, <1>x, <2>1 DEF InFront
  <2>2. CASE e # a
      BY <1>n, <1>u, <1>p, <1>w, <2>2 DEF InFront
  <2> QED
      BY <2>1, <2>2
<1>2. ASSUME NEW e \in End PROVE Silent(e)'
    BY <1>p, <1>u DEF Silent, isConnected
<1>3. ASSUME NEW e \in End PROVE Ready(e)'
    BY <1>c, <1>p, <1>u DEF Ready, isConnected
<1>4. AnswerFirst'
    BY <1>t, <1>n, <1>p, <1>u, <1>x DEF AnswerFirst
<1>5. ConfirmFirst'
    BY <1>t, <1>n, <1>c, <1>p, <1>u, <1>x DEF ConfirmFirst, DiallerDone, AwaitsConfirm
<1>6. NoFrameRefused'
    BY <1>u DEF PhaseInv, NoFrameRefused
<1> QED
    BY <1>1, <1>2, <1>3, <1>4, <1>5, <1>6 DEF PhaseInv

-----------------------------------------------------------------------------
(* Sending a frame                                                         *)

(* Both offer the auth: the peer is asked for its proof. *)
LEMMA AuthAgreedKeeps ==
    ASSUME IInv, PhaseInv, [Next]_vars, NEW a \in End, AuthAgreed(a)
    PROVE  PhaseInv'
<1>t. /\ step \in [End -> Steps] /\ peerChallenge \in [End -> Challenge] /\ peerID \in [End -> Ids \cup {NoId}]
      /\ End = {"dialler", "listener"} /\ \A e \in End : Other(e) \in End
    BY PhaseTypes, OtherEnd DEF End
<1>p. AnswerFirst /\ ConfirmFirst /\ \A e \in End : InFront(e) /\ Silent(e) /\ Ready(e)
    BY DEF PhaseInv
<1>u. /\ step[a] = "onAuth" /\ step' = [step EXCEPT ![a] = IF a = "dialler" THEN "verify" ELSE "prove"]
      /\ \A e \in End : e # a => peerID'[e] = peerID[e] /\ peerChallenge'[e] = peerChallenge[e]
      /\ UNCHANGED <<conf, state, timer, limited, authReceived, net, spoken, reason>>
    BY <1>t DEF AuthAgreed, OnAuthAccepts, Await
<1>n. \A e \in End : Under(e)' = Under(e) /\ Front(e)' = Front(e)
    BY <1>u, NetStays
<1>a. /\ step'[a] = (IF a = "dialler" THEN "verify" ELSE "prove") /\ authReceived[a]
      /\ \A e \in End : e # a => step'[e] = step[e]
    BY <1>t, <1>u, <1>p DEF Silent
<1>c. \A e \in End : e # a => (Challenged(e)' <=> Challenged(e))
    BY <1>u, ChallengedStays
<1>y. a = "listener" => /\ ~authReceived["dialler"] /\ step["dialler"] = "idle"
                        /\ ~spoken["dialler"] /\ state["dialler"] # "CONNECTED"
                        /\ "AUTH_CONFIRM" \notin Under("listener")
    BY <1>u, <1>p, <1>t DEF AnswerFirst, Silent
<1>w. AwaitsConfirm /\ DiallerDone => AwaitsConfirm' /\ DiallerDone'
    BY <1>a, <1>c, <1>t, <1>u DEF AwaitsConfirm, DiallerDone
<1>1. ASSUME NEW e \in End PROVE InFront(e)'
    BY <1>n, <1>u, <1>p, <1>w DEF InFront
<1>2. ASSUME NEW e \in End PROVE Silent(e)'
    BY <1>a, <1>t, <1>p, <1>u DEF Silent, AnswerFirst, isConnected
<1>3. ASSUME NEW e \in End PROVE Ready(e)'
    BY <1>a, <1>t, <1>c, <1>p, <1>u DEF Ready, isConnected
<1>4. AnswerFirst'
    BY <1>a, <1>t, <1>n, <1>p, <1>u DEF AnswerFirst
<1>z. Silent(a)
    BY <1>p
<1>5. ConfirmFirst'
  <2>1. CASE a = "dialler"
      BY <1>a, <1>t, <1>n, <1>c, <1>p, <1>u, <2>1 DEF ConfirmFirst, DiallerDone
  <2>2. CASE a = "listener"
      BY <1>a, <1>t, <1>n, <1>y, <1>z, <1>u, <2>2 DEF ConfirmFirst, Silent
  <2> QED
      BY <1>t, <2>1, <2>2
<1>6. NoFrameRefused'
    BY <1>u DEF PhaseInv, NoFrameRefused
<1> QED
    BY <1>1, <1>2, <1>3, <1>4, <1>5, <1>6 DEF PhaseInv

(* The listener answers with its AUTH, bare or with its proof. *)
LEMMA AnswerKeeps ==
    ASSUME IInv, PhaseInv, [Next]_vars, NEW m, m.type = "AUTH", Transmit("listener", m),
           NEW s \in {"sendAnswer", "sendProof"},
           step' = [step EXCEPT !["listener"] = s],
           s = "sendAnswer" => step["listener"] = "onAuth",
           s = "sendProof" => step["listener"] = "prove",
           limited' = [limited EXCEPT !["listener"] = FALSE],
           state' = state, timer' = timer, reason' = reason, spoken' = spoken,
           authReceived' = authReceived, peerChallenge' = peerChallenge,
           peerID'["dialler"] = peerID["dialler"]
    PROVE  PhaseInv'
<1>t. /\ step \in [End -> Steps] /\ limited \in [End -> BOOLEAN] /\ peerChallenge \in [End -> Challenge]
      /\ End = {"dialler", "listener"} /\ Other("listener") = "dialler" /\ Other("dialler") = "listener"
    BY PhaseTypes DEF End, Other
<1>p. AnswerFirst /\ ConfirmFirst /\ \A e \in End : InFront(e) /\ Silent(e) /\ Ready(e)
    BY DEF PhaseInv
<1>a. /\ step'["listener"] = s /\ step'["dialler"] = step["dialler"]
      /\ ~limited'["listener"] /\ limited'["dialler"] = limited["dialler"]
    BY <1>t
<1>y. /\ authReceived["listener"] /\ ~authReceived["dialler"] /\ Under("dialler") = {}
      /\ ~spoken["listener"] /\ ~spoken["dialler"] /\ step["dialler"] = "idle"
      /\ state["dialler"] # "CONNECTED" /\ state["listener"] # "CONNECTED"
    BY <1>p, <1>t DEF AnswerFirst, Silent
<1>n. /\ Under("listener")' = Under("listener") /\ Front("listener")' = Front("listener")
      /\ Under("dialler")' = {"AUTH"} /\ Front("dialler")'
    BY <1>p, <1>t, <1>y, TransmitUnder DEF IInv, InFront
<1>c. conf' = conf
    BY KnownStep
<1>x. "AUTH" \notin LiveTypes /\ "AUTH" # "LINK" /\ "AUTH_CONFIRM" \notin Under("listener")
    BY <1>y, <1>p DEF LiveTypes, AnswerFirst
<1>v. s = "sendProof" => Challenged("listener")'
    BY <1>t, ChallengedStays DEF IInv, Stepping, Challenged
<1>1. ASSUME NEW e \in End PROVE InFront(e)'
  <2>1. CASE e = "dialler"
      BY <1>n, <1>t, <1>x, <1>y, <2>1 DEF InFront
  <2>2. CASE e = "listener"
      BY <1>n, <1>c, <1>t, <1>p, <1>x, <2>2 DEF InFront
  <2> QED
      BY <1>t, <2>1, <2>2
<1>2. ASSUME NEW e \in End PROVE Silent(e)'
    BY <1>a, <1>t, <1>p, <1>y DEF Silent, isConnected
<1>3. ASSUME NEW e \in End PROVE Ready(e)'
    BY <1>a, <1>t, <1>y, <1>p DEF Ready, isConnected
<1>4. AnswerFirst'
    BY <1>a, <1>t, <1>n, <1>p, <1>y DEF AnswerFirst
<1>5. ConfirmFirst'
    BY <1>a, <1>t, <1>n, <1>y, <1>p, <1>v DEF ConfirmFirst
<1>6. NoFrameRefused'
    BY DEF PhaseInv, NoFrameRefused
<1> QED
    BY <1>1, <1>2, <1>3, <1>4, <1>5, <1>6 DEF PhaseInv

(* The dialler confirms, to a listener that waits for it. *)
LEMMA ConfirmKeeps ==
    ASSUME IInv, PhaseInv, [Next]_vars, NEW m, m.type = "AUTH_CONFIRM", Transmit("dialler", m),
           step["dialler"] = "prove", step' = [step EXCEPT !["dialler"] = "sendConfirm"],
           limited' = [limited EXCEPT !["dialler"] = FALSE],
           state' = state, timer' = timer, reason' = reason, spoken' = spoken,
           authReceived' = authReceived, peerChallenge' = peerChallenge, peerID' = peerID
    PROVE  PhaseInv'
<1>t. /\ step \in [End -> Steps] /\ limited \in [End -> BOOLEAN]
      /\ End = {"dialler", "listener"} /\ Other("listener") = "dialler" /\ Other("dialler") = "listener"
    BY PhaseTypes DEF End, Other
<1>p. AnswerFirst /\ ConfirmFirst /\ \A e \in End : InFront(e) /\ Silent(e) /\ Ready(e)
    BY DEF PhaseInv
<1>a. /\ step'["dialler"] = "sendConfirm" /\ step'["listener"] = step["listener"]
      /\ ~limited'["dialler"] /\ limited'["listener"] = limited["listener"]
    BY <1>t
<1>y. /\ AwaitsConfirm /\ Under("listener") = {} /\ authReceived["dialler"]
      /\ ~spoken["dialler"] /\ state["dialler"] # "CONNECTED"
    BY <1>p, <1>t DEF ConfirmFirst, Silent
<1>n. /\ Under("dialler")' = Under("dialler") /\ Front("dialler")' = Front("dialler")
      /\ Under("listener")' = {"AUTH_CONFIRM"} /\ Front("listener")'
    BY <1>p, <1>t, <1>y, TransmitUnder DEF IInv, InFront
<1>c. conf' = conf /\ \A e \in End : Challenged(e)' <=> Challenged(e)
    BY KnownStep, ChallengedStays
<1>x. "AUTH_CONFIRM" \notin LiveTypes
    BY DEF LiveTypes
<1>w. AwaitsConfirm' /\ DiallerDone'
    BY <1>a, <1>c, <1>t, <1>y DEF AwaitsConfirm, DiallerDone
<1>1. ASSUME NEW e \in End PROVE InFront(e)'
  <2>1. CASE e = "dialler"
      BY <1>n, <1>c, <1>t, <1>p, <1>w, <2>1 DEF InFront
  <2>2. CASE e = "listener"
      BY <1>n, <1>c, <1>t, <1>p, <1>x, <1>w, <2>2 DEF InFront
  <2> QED
      BY <1>t, <2>1, <2>2
<1>2. ASSUME NEW e \in End PROVE Silent(e)'
    BY <1>a, <1>t, <1>p, <1>y DEF Silent, isConnected
<1>3. ASSUME NEW e \in End PROVE Ready(e)'
    BY <1>a, <1>c, <1>t, <1>y, <1>p DEF Ready, isConnected
<1>4. AnswerFirst'
    BY <1>a, <1>t, <1>n, <1>p, <1>y DEF AnswerFirst
<1>5. ConfirmFirst'
    BY <1>a, <1>t, <1>n, <1>y, <1>p, <1>w DEF ConfirmFirst
<1>6. NoFrameRefused'
    BY DEF PhaseInv, NoFrameRefused
<1> QED
    BY <1>1, <1>2, <1>3, <1>4, <1>5, <1>6 DEF PhaseInv

(* A live end speaks. *)
LEMMA SpeakKeeps ==
    ASSUME IInv, PhaseInv, [Next]_vars, NEW a \in End, Speak(a)
    PROVE  PhaseInv'
<1>t. /\ spoken \in [End -> BOOLEAN] /\ End = {"dialler", "listener"}
      /\ \A e \in End : Other(e) \in End /\ Other(e) # e /\ Other(Other(e)) = e
    BY PhaseTypes, OtherEnd DEF End
<1>p. AnswerFirst /\ ConfirmFirst /\ \A e \in End : InFront(e) /\ Silent(e) /\ Ready(e)
    BY DEF PhaseInv
<1>u. /\ state[a] = "CONNECTED" /\ spoken' = [spoken EXCEPT ![a] = TRUE]
      /\ UNCHANGED <<conf, state, timer, limited, authReceived, peerID, peerChallenge, step, reason>>
    BY DEF Speak
<1>1. PICK type \in LiveTypes : (type = "LINK" => ~e2eRequired[a]) /\ Transmit(a, livePacket(type))
    BY DEF Speak
<1>2. livePacket(type).type = type
    BY DEF livePacket
<1>n. /\ Under(a)' = Under(a) /\ Front(a)' = Front(a)
      /\ Under(Other(a))' = Under(Other(a)) \cup {type} /\ Front(Other(a))'
    BY <1>1, <1>2, <1>p, <1>t, TransmitUnder DEF IInv, InFront
<1>3. type = "LINK" => ~conf.requireE2E[a] /\ ~conf.requireE2E[Other(a)]
    BY <1>1, <1>u DEF IInv, Settled, Noted
<1>a. spoken'[a] /\ spoken'[Other(a)] = spoken[Other(a)] /\ authReceived[a] /\ step[a] = "idle"
    BY <1>t, <1>u, <1>p DEF Silent
<1>x. type # "AUTH" /\ type # "AUTH_CONFIRM"
    BY DEF LiveTypes
<1>c. \A e \in End : Challenged(e)' <=> Challenged(e)
    BY <1>u, ChallengedStays
<1>w. (AwaitsConfirm /\ DiallerDone => AwaitsConfirm' /\ DiallerDone') /\ (AwaitsConfirm' => AwaitsConfirm)
    BY <1>c, <1>t, <1>u DEF AwaitsConfirm, DiallerDone
<1>4. InFront(a)'
    BY <1>n, <1>a, <1>p, <1>t, <1>u, <1>w DEF InFront
<1>5. InFront(Other(a))'
    BY <1>n, <1>a, <1>p, <1>t, <1>u, <1>w, <1>3, <1>x DEF InFront
<1>6. \A e \in End : InFront(e)'
    BY <1>4, <1>5, <1>t
<1>7. ASSUME NEW e \in End PROVE Silent(e)' /\ Ready(e)'
    BY <1>t, <1>p, <1>u, <1>a, <1>c DEF Silent, Ready, isConnected
<1>8. AnswerFirst'
  <2>1. CASE a = "dialler"
      BY <1>a, <1>t, <1>n, <1>p, <1>u, <2>1 DEF AnswerFirst, Other
  <2>2. CASE a = "listener"
      BY <1>a, <1>t, <1>n, <1>p, <1>u, <2>2 DEF AnswerFirst, Other
  <2> QED
      BY <1>t, <2>1, <2>2
<1>9. ConfirmFirst'
  <2>1. CASE a = "dialler"
      BY <1>a, <1>t, <1>n, <1>p, <1>u, <1>c, <1>w, <2>1 DEF ConfirmFirst, DiallerDone, Other
  <2>2. CASE a = "listener"
      BY <1>a, <1>t, <1>n, <1>p, <1>u, <1>c, <1>w, <2>2 DEF ConfirmFirst, DiallerDone, Other, AwaitsConfirm
  <2> QED
      BY <1>t, <2>1, <2>2
<1>10. NoFrameRefused'
    BY <1>u DEF PhaseInv, NoFrameRefused
<1> QED
    BY <1>6, <1>7, <1>8, <1>9, <1>10 DEF PhaseInv

-----------------------------------------------------------------------------
(* Every step keeps the phases                                             *)

(* Only an end that holds a secret gives a challenge. *)
Asked == peerChallenge["listener"] # "none" => HoldsSecret("dialler")

(* That is inductive beside IInv. *)
LEMMA AskedStays == IInv /\ Asked /\ [Next]_vars => Asked'
<1> SUFFICES ASSUME IInv, Asked, [Next]_vars PROVE Asked'
    OBVIOUS
<1>t. /\ "listener" \in End /\ Other("listener") = "dialler"
      /\ peerChallenge \in [End -> Challenge] /\ conf' = conf
    BY KnownStep DEF End, Other, IInv, TypeOK
<1>1. CASE UNCHANGED known
    BY <1>1 DEF known, Asked, HoldsSecret
<1>2. ASSUME NEW a \in End, AuthDeclined(a) \/ AuthSkipped(a) PROVE Asked'
    BY <1>2, <1>t DEF AuthDeclined, AuthSkipped, Asked, HoldsSecret
<1>3. ASSUME NEW a \in End, AuthAgreed(a) PROVE Asked'
  <2>1. OnAuthAccepts(a) /\ peerChallenge' = [peerChallenge EXCEPT ![a] = hand[a].ac]
      BY <1>3 DEF AuthAgreed
  <2>2. a = "listener" => (hand[a].ac # "none" => HoldsSecret("dialler"))
      BY <2>1, <1>t, AcceptedAuth
  <2>3. a = "listener" => peerChallenge'["listener"] = hand[a].ac
      BY <2>1, <1>t
  <2>4. a # "listener" => peerChallenge'["listener"] = peerChallenge["listener"]
      BY <2>1, <1>t
  <2> QED
      BY <2>2, <2>3, <2>4, <1>t DEF Asked, HoldsSecret
<1> QED
    BY <1>1, <1>2, <1>3, KnownChanges

(* Refusals of the auth, failures, timeouts and closed sockets. *)
LEMMA Stops ==
    ASSUME IInv, PhaseInv, [Next]_vars, NEW a \in End,
           \/ OnAuthRefuses(a) \/ OnAuthTooLate(a) \/ AuthDeclined(a)
           \/ SendFails(a) \/ AuthTimesOut(a) \/ LinkCloses(a)
    PROVE  PhaseInv'
<1>t. /\ state \in [End -> States] /\ reason \in [End -> Reasons] /\ timer \in [End -> BOOLEAN]
      /\ peerID \in [End -> Ids \cup {NoId}]
      /\ reason[a] \notin refusals
    BY PhaseTypes DEF PhaseInv, NoFrameRefused, refusals
<1>1. /\ net' = net /\ authReceived' = authReceived /\ spoken' = spoken
      /\ peerChallenge' = peerChallenge /\ limited' = limited
      /\ step' = step \/ step' = [step EXCEPT ![a] = "idle"]
      /\ \A e \in End : e # a => peerID'[e] = peerID[e]
    BY <1>t DEF OnAuthRefuses, OnAuthTooLate, AuthDeclined, SendFails, AuthTimesOut, LinkCloses,
                OnAuthAccepts, Await
<1>2. \/ \E why \in {"Invalid Auth Packet!", "Connected to self", "send failed", "auth timed out",
                     "Remote Connection Closed"} : Disconnect(a, why)
      \/ ~isConnected(a) /\ UNCHANGED <<state, timer, reason>>
    BY DEF OnAuthRefuses, OnAuthTooLate, AuthDeclined, SendFails, AuthTimesOut, LinkCloses
<1>3. /\ state' = [state EXCEPT ![a] = "DISCONNECTED"]
      /\ \A e \in End : e # a => timer'[e] = timer[e] /\ reason'[e] = reason[e]
      /\ reason'[a] \notin refusals
    BY <1>2, <1>t DEF Disconnect, isConnected, refusals
<1> QED
    BY <1>1, <1>3, StopKeeps

(* Without auth the dialler is live; the listener answers first. *)
LEMMA AuthSkippedKeeps ==
    ASSUME IInv, Asked, PhaseInv, [Next]_vars, NEW a \in End, AuthSkipped(a)
    PROVE  PhaseInv'
<1>t. /\ End = {"dialler", "listener"} /\ peerID \in [End -> Ids \cup {NoId}]
      /\ Other("dialler") = "listener" /\ Other("listener") = "dialler"
    BY PhaseTypes DEF End, Other
<1>1. /\ OnAuthAccepts(a) /\ isConnected(a) /\ step[a] = "onAuth"
      /\ authReceived' = authReceived /\ spoken' = spoken /\ peerChallenge' = peerChallenge
      /\ \A e \in End : e # a => peerID'[e] = peerID[e]
    BY <1>t DEF AuthSkipped, OnAuthAccepts
<1>2. CASE a = "dialler"
  <2>1. /\ net' = net /\ limited' = limited /\ reason' = reason
        /\ state' = [state EXCEPT ![a] = "CONNECTED"] /\ timer' = [timer EXCEPT ![a] = FALSE]
        /\ step' = [step EXCEPT ![a] = "idle"]
      BY <1>1, <1>2 DEF AuthSkipped, goLive, Await
  <2>2. ~Challenged("listener")
    <3>1. hand[a].ac = IF HoldsSecret("listener") THEN "listener" ELSE "none"
        BY <1>1, <1>2, <1>t, AcceptedAuth
    <3>2. Challenged("listener") => HoldsSecret("listener") /\ HoldsSecret("dialler")
        BY DEF Asked, Challenged
    <3> QED
        BY <3>1, <3>2, <1>2 DEF AuthSkipped, peerOffersAuth
  <2>3. authReceived[a]
      BY <1>1 DEF PhaseInv, Silent
  <2> QED
      BY <1>1, <1>2, <1>t, <2>1, <2>2, <2>3, LiveKeeps
<1>3. CASE a = "listener"
  <2>1. /\ Transmit("listener", authPacket("listener", NoProof))
        /\ step' = [step EXCEPT !["listener"] = "sendAnswer"]
        /\ limited' = [limited EXCEPT !["listener"] = FALSE]
        /\ UNCHANGED <<state, timer, reason>>
      BY <1>3 DEF AuthSkipped, Await
  <2>2. authPacket("listener", NoProof).type = "AUTH"
      BY DEF authPacket
  <2> QED
      BY <1>1, <1>3, <1>t, <2>1, <2>2, AnswerKeeps
<1> QED
    BY <1>t, <1>2, <1>3

(* The proof was right, or the connection goes. *)
LEMMA VerifySettlesKeeps ==
    ASSUME IInv, PhaseInv, [Next]_vars, NEW a \in End, VerifySettles(a)
    PROVE  PhaseInv'
<1>t. /\ state \in [End -> States] /\ reason \in [End -> Reasons] /\ timer \in [End -> BOOLEAN]
      /\ End = {"dialler", "listener"}
      /\ Other("dialler") = "listener" /\ Other("listener") = "dialler"
      /\ reason[a] \notin refusals
    BY PhaseTypes DEF PhaseInv, NoFrameRefused, refusals, End, Other
<1>u. UNCHANGED <<conf, limited, authReceived, peerID, challenge, peerChallenge, authenticated,
                  e2eRequired, hand, net, spoken>>
    BY DEF VerifySettles
<1>a. a = "dialler" /\ step[a] = "verify" /\ HoldsSecret(a)
    BY DEF VerifySettles, IInv, Stepping
<1>1. CASE verify(a, hand[a].ap)
  <2>1. step' = [step EXCEPT ![a] = "prove"] /\ UNCHANGED <<state, timer, reason>>
      BY <1>1 DEF VerifySettles, Await
  <2>2. PeerProved(a)
      BY <1>1, <1>a, VerifiedIsProved
  <2>3. Challenged("listener")
    <3>1. conf.id[a] # NoId
        BY NoIdAssumption DEF IInv, TypeOK, Configuration
    <3> QED
        BY <2>2, <3>1, <1>a, <1>t DEF PeerProved, Challenged, HoldsSecret
  <2> QED
      BY <1>a, <1>u, <2>1, <2>3, GoesOnKeeps DEF Steps
<1>2. CASE ~verify(a, hand[a].ap)
  <2>1. step' = [step EXCEPT ![a] = "idle"] /\ Disconnect(a, "Invalid Auth Packet!")
      BY <1>2 DEF VerifySettles, Await
  <2>2. /\ state' = [state EXCEPT ![a] = "DISCONNECTED"]
        /\ \A e \in End : e # a => timer'[e] = timer[e] /\ reason'[e] = reason[e]
        /\ reason'[a] \notin refusals
      BY <2>1, <1>t DEF Disconnect, refusals
  <2> QED
      BY <1>u, <2>1, <2>2, StopKeeps
<1> QED
    BY <1>1, <1>2

(* The proof goes out, unless the connection has gone. *)
LEMMA ProveSettlesKeeps ==
    ASSUME IInv, PhaseInv, [Next]_vars, NEW a \in End, ProveSettles(a)
    PROVE  PhaseInv'
<1>t. /\ state \in [End -> States] /\ limited \in [End -> BOOLEAN] /\ End = {"dialler", "listener"}
      /\ reason[a] \notin refusals
    BY PhaseTypes DEF PhaseInv, NoFrameRefused, refusals, End
<1>u. /\ step[a] = "prove" /\ limited' = [limited EXCEPT ![a] = FALSE]
      /\ UNCHANGED <<conf, state, timer, authReceived, peerID, challenge, peerChallenge,
                     authenticated, e2eRequired, hand, spoken, reason>>
    BY DEF ProveSettles
<1>1. CASE ~isConnected(a)
  <2>1. step' = [step EXCEPT ![a] = "idle"] /\ net' = net
      BY <1>1 DEF ProveSettles, Await
  <2>2. state' = [state EXCEPT ![a] = "DISCONNECTED"]
      BY <1>1, <1>t, <1>u DEF isConnected
  <2>3. \A e \in End : limited'[e] => limited[e]
      BY <1>t, <1>u
  <2> QED
      BY <1>t, <1>u, <2>1, <2>2, <2>3, StopKeeps
<1>2. CASE isConnected(a) /\ a = "dialler"
  <2>1. PICK m : m = confirmPacket(prove(a, conf.id[a]))
      OBVIOUS
  <2>2. m.type = "AUTH_CONFIRM" /\ Transmit("dialler", m) /\ step' = [step EXCEPT !["dialler"] = "sendConfirm"]
      BY <1>2, <2>1 DEF ProveSettles, Await, confirmPacket
  <2> QED
      BY <1>2, <1>u, <2>2, ConfirmKeeps
<1>3. CASE isConnected(a) /\ a = "listener"
  <2>1. PICK m : m = authPacket(a, prove(a, conf.id[a]))
      OBVIOUS
  <2>2. m.type = "AUTH" /\ Transmit("listener", m) /\ step' = [step EXCEPT !["listener"] = "sendProof"]
      BY <1>3, <2>1 DEF ProveSettles, Await, authPacket
  <2> QED
      BY <1>3, <1>u, <2>2, AnswerKeeps
<1> QED
    BY <1>t, <1>1, <1>2, <1>3

(* The listener is live, or the connection goes. *)
LEMMA VerifyConfirmSettlesKeeps ==
    ASSUME IInv, PhaseInv, [Next]_vars, NEW a \in End, VerifyConfirmSettles(a)
    PROVE  PhaseInv'
<1>t. /\ state \in [End -> States] /\ reason \in [End -> Reasons] /\ timer \in [End -> BOOLEAN]
      /\ reason[a] \notin refusals
    BY PhaseTypes DEF PhaseInv, NoFrameRefused, refusals
<1>u. /\ step[a] = "verifyConfirm" /\ step' = [step EXCEPT ![a] = "idle"]
      /\ UNCHANGED <<conf, limited, authReceived, peerID, challenge, peerChallenge, e2eRequired,
                     hand, net, spoken>>
    BY DEF VerifyConfirmSettles, Await
<1>a. a = "listener" /\ authReceived[a]
    BY <1>u DEF IInv, Stepping, PhaseInv, Silent
<1>1. CASE verify(a, hand[a].ap) /\ isConnected(a)
  <2>1. /\ state' = [state EXCEPT ![a] = "CONNECTED"] /\ timer' = [timer EXCEPT ![a] = FALSE]
        /\ reason' = reason
      BY <1>1 DEF VerifyConfirmSettles, goLive
  <2> QED
      BY <1>1, <1>a, <1>u, <2>1, LiveKeeps
<1>2. CASE ~(verify(a, hand[a].ap) /\ isConnected(a))
  <2>1. /\ state' = [state EXCEPT ![a] = "DISCONNECTED"]
        /\ \A e \in End : e # a => timer'[e] = timer[e] /\ reason'[e] = reason[e]
        /\ reason'[a] \notin refusals
      BY <1>2, <1>t DEF VerifyConfirmSettles, goLive, Disconnect, isConnected, refusals
  <2> QED
      BY <1>u, <2>1, StopKeeps
<1> QED
    BY <1>1, <1>2

(* A write has finished: the listener waits, or the end is live. *)
LEMMA SendSettlesKeeps ==
    ASSUME IInv, PhaseInv, [Next]_vars, NEW a \in End, SendSettles(a)
    PROVE  PhaseInv'
<1>t. /\ state \in [End -> States] /\ reason[a] \notin refusals
    BY PhaseTypes DEF PhaseInv, NoFrameRefused, refusals
<1>u. /\ step[a] \in {"sendConfirm", "sendProof", "sendAnswer"} /\ step' = [step EXCEPT ![a] = "idle"]
      /\ UNCHANGED <<conf, limited, authReceived, peerID, challenge, peerChallenge, e2eRequired,
                     hand, net, spoken>>
    BY DEF SendSettles, Await
<1>a. /\ authReceived[a] /\ (step[a] = "sendConfirm" <=> a = "dialler")
    BY <1>u DEF IInv, Stepping, PhaseInv, Silent
<1>1. CASE step[a] = "sendProof"
  <2>1. UNCHANGED <<state, timer, reason>> /\ a = "listener"
      BY <1>1 DEF SendSettles, IInv, Stepping
  <2> QED
      BY <1>1, <1>u, <2>1, GoesOnKeeps DEF Steps
<1>2. CASE step[a] # "sendProof" /\ isConnected(a)
  <2>1. /\ state' = [state EXCEPT ![a] = "CONNECTED"] /\ timer' = [timer EXCEPT ![a] = FALSE]
        /\ reason' = reason
      BY <1>2 DEF SendSettles, goLive
  <2> QED
      BY <1>2, <1>a, <1>u, <2>1, LiveKeeps
<1>3. CASE step[a] # "sendProof" /\ ~isConnected(a)
  <2>1. state' = [state EXCEPT ![a] = "DISCONNECTED"] /\ timer' = timer /\ reason' = reason
      BY <1>3, <1>t DEF SendSettles, goLive, isConnected
  <2> QED
      BY <1>u, <1>t, <2>1, StopKeeps
<1> QED
    BY <1>1, <1>2, <1>3

(* No large frame arrives before its time: while the limit is on, whatever *)
(* the listener's handler waits for, the dialler has sent nothing but its  *)
(* AUTH.                                                                   *)
LEMMA ArrivesInTime ==
    ASSUME IInv, PhaseInv, NEW a \in End, Arrives(a)
    PROVE  UNCHANGED <<state, timer, reason>>
<1>1. SUFFICES ASSUME net[a][arrived[a] + 1].type = "LINK", refusesLarge(a) PROVE FALSE
    BY DEF Arrives
<1>2. /\ isConnected(a) /\ limited[a] /\ "LINK" \in Under(a)
    <2>1. /\ net \in [End -> Seq(Message)] /\ arrived \in [End -> Nat]
          /\ arrived[a] < Len(net[a]) /\ isConnected(a)
        BY DEF Arrives, IInv, TypeOK
    <2>2. arrived[a] + 1 \in DOMAIN net[a]
        BY <2>1
    <2> QED
        BY <1>1, <2>1, <2>2 DEF Under, refusesLarge
<1>3. a = "listener" /\ (~authReceived[a] \/ step[a] \in {"onAuth", "prove"})
    BY <1>2 DEF PhaseInv, AnswerFirst, Silent, End
<1>4. Under(a) \subseteq {"AUTH"}
    BY <1>3 DEF PhaseInv, AnswerFirst
<1> QED
    BY <1>2, <1>4

(* All steps together, *)
LEMMA PhaseStays == IInv /\ Asked /\ PhaseInv /\ [Next]_vars => PhaseInv'
<1> SUFFICES ASSUME IInv, Asked, PhaseInv, [Next]_vars PROVE PhaseInv'
    OBVIOUS
<1>1. CASE UNCHANGED vars \/ \E a \in End : Arrives(a)
  <2>1. UNCHANGED <<conf, state, timer, limited, authReceived, peerID, peerChallenge, step, net,
                    spoken, reason>>
      BY <1>1, ArrivesInTime DEF vars, Arrives
  <2>2. \A e \in End : Under(e)' = Under(e) /\ Front(e)' = Front(e)
      BY <2>1, NetStays
  <2>3. /\ \A e \in End : Challenged(e)' <=> Challenged(e)
        /\ (AwaitsConfirm' <=> AwaitsConfirm) /\ (DiallerDone' <=> DiallerDone)
      BY <2>1 DEF Challenged, HoldsSecret, AwaitsConfirm, DiallerDone
  <2>4. \A e \in End : InFront(e)' /\ Silent(e)' /\ Ready(e)'
      BY <2>1, <2>2, <2>3 DEF PhaseInv, InFront, Silent, Ready, isConnected
  <2>5. AnswerFirst' /\ ConfirmFirst'
      BY <2>1, <2>2, <2>3 DEF PhaseInv, AnswerFirst, ConfirmFirst, End
  <2>6. NoFrameRefused'
      BY <2>1 DEF PhaseInv, NoFrameRefused
  <2> QED
      BY <2>4, <2>5, <2>6 DEF PhaseInv
<1>2. ASSUME NEW a \in End, Handle(a) PROVE PhaseInv'
    BY <1>1, <1>2, ReceiveAuthKeeps, ReceiveConfirmKeeps, ReceiveLiveKeeps, Stops, AuthAgreedKeeps,
       AuthSkippedKeeps, VerifySettlesKeeps, ProveSettlesKeeps, VerifyConfirmSettlesKeeps,
       SendSettlesKeeps DEF Handle
<1>3. ASSUME NEW a \in End, SendFails(a) \/ AuthTimesOut(a) \/ LinkCloses(a) \/ Speak(a) PROVE PhaseInv'
    BY <1>3, Stops, SpeakKeeps
<1> QED
    BY <1>1, <1>2, <1>3 DEF Next

(* and the first state. *)
LEMMA PhaseInit == Init => Asked /\ PhaseInv
<1> SUFFICES ASSUME Init PROVE Asked /\ PhaseInv
    OBVIOUS
<1>1. net["listener"] = <<authPacket("dialler", NoProof)>> /\ net["dialler"] = <<>>
    BY DEF Init, End
<1>2. authPacket("dialler", NoProof).type = "AUTH"
    BY DEF authPacket
<1>3. Under("listener") = {"AUTH"} /\ Under("dialler") = {}
    BY <1>1, <1>2 DEF Under
<1>4. Front("listener") /\ Front("dialler")
    BY <1>1 DEF Front
<1>5. ASSUME NEW e \in End PROVE InFront(e)
    BY <1>3, <1>4 DEF Init, InFront, End, LiveTypes
<1>6. ASSUME NEW e \in End PROVE Silent(e) /\ Ready(e)
    BY DEF Init, Silent, Ready, End
<1>7. AnswerFirst /\ ConfirmFirst /\ Asked /\ NoFrameRefused
    BY <1>3 DEF Init, AnswerFirst, ConfirmFirst, Asked, Challenged, NoFrameRefused, End
<1> QED
    BY <1>5, <1>6, <1>7 DEF PhaseInv

(* The two ends go through the handshake in step, whatever fails: the      *)
(* listener answers before the dialler goes on, the dialler confirms       *)
(* before it speaks, and nothing comes from an end before its part is over. *)
THEOREM PhasesInStep == Spec => []PhaseInv
<1>1. Init => Asked /\ PhaseInv
    BY PhaseInit
<1>2. IInv /\ Asked /\ [Next]_vars => Asked'
    BY AskedStays
<1>3. IInv /\ Asked /\ PhaseInv /\ [Next]_vars => PhaseInv'
    BY PhaseStays
<1> QED
    BY <1>1, <1>2, <1>3, Inductive, PTL DEF Spec

(* Nothing an honest peer sends is refused as invalid, oversized or in     *)
(* clear, however late the other end is with its half of the handshake.    *)
THEOREM NoFrameRefusedHolds == Spec => []NoFrameRefused
<1>1. PhaseInv => NoFrameRefused
    BY DEF PhaseInv
<1> QED
    BY <1>1, PhasesInStep, PTL

-----------------------------------------------------------------------------
(* The timeout                                                             *)

(* The step TimeoutOnlyInHandshake allows. *)
SpareLive == \A e \in End : state[e] = "CONNECTED" => reason'[e] # "auth timed out"

(* A live end has no timer armed and no reason noted. *)
LEMMA LiveIsSpared == IInv /\ PhaseInv /\ [Next]_vars => SpareLive
<1> SUFFICES ASSUME IInv, PhaseInv, [Next]_vars, NEW e \in End, state[e] = "CONNECTED"
             PROVE  reason'[e] # "auth timed out"
    BY DEF SpareLive
<1>1. reason[e] = "none" /\ ~timer[e] /\ reason \in [End -> Reasons]
    BY PhaseTypes DEF PhaseInv, Ready, isConnected
<1>2. ASSUME NEW a \in End, AuthTimesOut(a) PROVE reason'[e] # "auth timed out"
    BY <1>1, <1>2 DEF AuthTimesOut, Disconnect
<1>3. ASSUME NEW a \in End, Handle(a) \/ SendFails(a) \/ LinkCloses(a) \/ Speak(a)
      PROVE  reason'[e] # "auth timed out"
  <2>1. reason' = reason \/ \E why \in Reasons \ {"auth timed out"} : Disconnect(a, why)
    <3>1. CASE \/ Arrives(a) \/ ReceiveAuth(a) \/ ReceiveConfirm(a) \/ ReceiveLive(a)
               \/ OnAuthRefuses(a) \/ OnAuthTooLate(a)
        BY <3>1 DEF Arrives, ReceiveAuth, ReceiveConfirm, ReceiveLive, OnAuthRefuses,
                    OnAuthTooLate, Reasons
    <3>2. CASE AuthDeclined(a) \/ AuthAgreed(a) \/ AuthSkipped(a) \/ VerifySettles(a) \/ ProveSettles(a)
        BY <3>2 DEF AuthDeclined, AuthAgreed, AuthSkipped, VerifySettles, ProveSettles, goLive, Reasons
    <3>3. CASE VerifyConfirmSettles(a) \/ SendSettles(a) \/ SendFails(a) \/ LinkCloses(a) \/ Speak(a)
        BY <3>3 DEF VerifyConfirmSettles, SendSettles, SendFails, LinkCloses, Speak, goLive, Reasons
    <3> QED
        BY <1>3, <3>1, <3>2, <3>3 DEF Handle
  <2> QED
      BY <2>1, <1>1 DEF Disconnect
<1>4. CASE UNCHANGED vars
    BY <1>1, <1>4 DEF vars
<1> QED
    BY <1>2, <1>3, <1>4 DEF Next

(* The auth timeout never ends a live connection. *)
THEOREM TimeoutOnlyInHandshakeHolds == Spec => TimeoutOnlyInHandshake
<1>1. IInv /\ PhaseInv /\ [Next]_vars => [SpareLive]_vars
    BY LiveIsSpared
<1> QED
    BY <1>1, Inductive, PhasesInStep, PTL DEF Spec, TimeoutOnlyInHandshake, SpareLive
=============================================================================
