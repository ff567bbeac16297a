---------------------------- MODULE RegistryProofs -----------------------------
(***************************************************************************)
(* What Registry keeps for every set of processes, ids and connections.    *)
(*                                                                         *)
(* Most of the invariant speaks of one process and is kept by each thing   *)
(* its registry does (Closed, Registered, Refused, Superseded): a lemma    *)
(* for each says what it does to every field, and the steps are built from *)
(* those.                                                                  *)
(***************************************************************************)
EXTENDS Registry, TLAPS

Waiting(s) == {s.probing[i] : i \in DOMAIN s.probing}

(* It opens its own dials, it is an end of what is up, and nothing dialled *)
(* before a stop() came up.                                                *)
DialsOf(p, s) ==
    /\ s.up \subseteq {c \in Conn : p \in Ends(c)}
    /\ s.opening \cup s.stale \subseteq {c \in Conn : Dialler[c] = p}
    /\ s.opening \cap s.up = {}
    /\ s.stale \cap s.up = {}
    /\ s.stopping = "closing" => s.up = {} /\ s.registered = NoConn /\ s.opening \subseteq s.stale

(* A probe has someone waiting for it, *)
AskedOf(s) ==
    /\ s.asked = NoConn <=> s.probing = <<>>
    /\ s.answer # "none" => s.probing # <<>>

(* once, who became ready before. *)
ProbeOf(s) ==
    /\ \A i, j \in DOMAIN s.probing : s.probing[i] = s.probing[j] => i = j
    /\ Waiting(s) \subseteq s.ready

(* What is up and ready is registered or waits for its probe, or is one of *)
(* `others`, about which the step is still to decide; what is registered   *)
(* is up, ready and named; and nothing is two of these.                    *)
HeldOf(s, others) ==
    /\ s.registered # NoConn => /\ s.registered \in s.up \cap s.ready \cap s.named
                                /\ s.registered \notin Waiting(s) \cup others
    /\ others \subseteq s.up \cap s.ready
    /\ others \cap Waiting(s) = {}
    /\ s.up \cap s.ready = ({s.registered} \ {NoConn}) \cup (Waiting(s) \cap s.up) \cup others

(* What was told of it is what is registered and has been announced.       *)
ToldOf(s) ==
    {c \in Conn : s.told[c] = "connected"} = ({s.registered} \ {NoConn}) \ s.announcing

NodeInv(p, s, others) ==
    s \in Node /\ DialsOf(p, s) /\ ProbeOf(s) /\ HeldOf(s, others) /\ ToldOf(s)

(* Sockets open before the handshake, the handshake names the peer, and    *)
(* only then is a connection ready.                                        *)
InOrder(s) ==
    /\ s.opening \cup s.up \subseteq dialled
    /\ s.opening \cap exchanged = {}
    /\ s.up \cap exchanged \subseteq s.named
    /\ s.ready \subseteq exchanged

RegInv ==
    /\ world \in World
    /\ running \subseteq Proc /\ dead \subseteq Proc \ running
    /\ dialled \subseteq Conn /\ exchanged \subseteq dialled
    /\ node \in [Proc -> Node]
    /\ \A p \in Proc : NodeInv(p, node[p], {}) /\ AskedOf(node[p]) /\ InOrder(node[p])

(* From s to t connections go and names with them; what they become, and   *)
(* who waits, stays, and only a probe that is out is answered.             *)
Untouched(s, t) ==
    /\ t.up \subseteq s.up /\ t.up \cap s.named \subseteq t.named
    /\ t.opening = s.opening /\ t.ready = s.ready
    /\ t.probing = s.probing /\ t.asked = s.asked
    /\ t.answer # s.answer => s.asked # NoConn

-----------------------------------------------------------------------------
(* What the registry of a process does                                     *)

(* A connection goes, and the peer that uses it. *)
LEMMA ClosedIs ==
    ASSUME NEW s \in Node, NEW c \in Conn
    PROVE  LET t == Closed(s, c)
               lost == c \in s.named /\ s.registered = c
           IN  /\ t \in Node
               /\ t.up = s.up \ {c}
               /\ t.registered = IF lost THEN NoConn ELSE s.registered
               /\ t.told = [x \in Conn |-> IF lost /\ x = c THEN "disconnected" ELSE s.told[x]]
               /\ t.answer = IF s.answer = "none" /\ s.asked = c THEN "silent" ELSE s.answer
               /\ t.ready = s.ready /\ t.named = s.named /\ t.announcing = s.announcing
               /\ t.opening = s.opening /\ t.stale = s.stale /\ t.stopping = s.stopping
               /\ t.probing = s.probing /\ t.asked = s.asked
<1> DEFINE victim == Victim(s, c)
           gone == {c} \cup victim
           up == s.up \ gone
           told == [x \in Conn |-> IF x \in victim THEN "disconnected" ELSE s.told[x]]
           dial == [x \in Conn |-> IF x \in gone /\ s.dial[x] = "pending" THEN "rejected" ELSE s.dial[x]]
           registered == IF victim = {} THEN s.registered ELSE NoConn
           answer == IF s.answer = "none" /\ s.asked \in gone THEN "silent" ELSE s.answer
<1>1. gone = {c} /\ (victim = {} <=> ~(c \in s.named /\ s.registered = c)) /\ victim \subseteq {c}
  BY DEF Victim
<1>2. told \in [Conn -> Events] /\ dial \in [Conn -> Dials]
  BY DEF Node, Events, Dials
<1>3. up \in SUBSET Conn /\ registered \in Conn \cup {NoConn} /\ answer \in {"none", "alive", "silent"}
  BY DEF Node
<1>4. Closed(s, c) = [s EXCEPT !.up = up, !.registered = registered, !.told = told,
                               !.dial = dial, !.answer = answer]
  BY DEF Closed, Node
<1> HIDE DEF victim, gone, up, told, dial, registered, answer
<1>5. Closed(s, c) \in Node
  BY ZenonT(40), <1>2, <1>3, <1>4 DEF Node
<1>6. LET t == Closed(s, c)
      IN  /\ t.up = up /\ t.registered = registered /\ t.told = told /\ t.answer = answer
          /\ t.ready = s.ready /\ t.named = s.named /\ t.announcing = s.announcing
          /\ t.opening = s.opening /\ t.stale = s.stale /\ t.stopping = s.stopping
          /\ t.probing = s.probing /\ t.asked = s.asked
  BY <1>4 DEF Node
<1>7. told = [x \in Conn |-> IF (c \in s.named /\ s.registered = c) /\ x = c
                            THEN "disconnected" ELSE s.told[x]]
  BY <1>1 DEF told
<1>8. registered = IF c \in s.named /\ s.registered = c THEN NoConn ELSE s.registered
  BY <1>1 DEF registered
<1>9. answer = IF s.answer = "none" /\ s.asked = c THEN "silent" ELSE s.answer
  BY <1>1 DEF answer
<1>10. up = s.up \ {c}
  BY <1>1 DEF up
<1>11. QED
  BY <1>5, <1>6, <1>7, <1>8, <1>9, <1>10

(* It keeps the registry sound: what is gone was registered, or waited, or *)
(* is no longer to be decided about.                                       *)
LEMMA ClosedKeeps ==
    ASSUME NEW p \in Proc, NEW s, NEW others, NodeInv(p, s, others), NEW c \in Conn
    PROVE  /\ NodeInv(p, Closed(s, c), others \ {c}) /\ Untouched(s, Closed(s, c))
           /\ Closed(s, c).up = s.up \ {c}
           /\ s.registered # c => Closed(s, c).registered = s.registered
<1> DEFINE t == Closed(s, c)
           lost == c \in s.named /\ s.registered = c
<1>1. s \in Node
  BY DEF NodeInv
<1>2. /\ t \in Node
      /\ t.up = s.up \ {c}
      /\ t.registered = IF lost THEN NoConn ELSE s.registered
      /\ t.told = [x \in Conn |-> IF lost /\ x = c THEN "disconnected" ELSE s.told[x]]
      /\ t.answer = IF s.answer = "none" /\ s.asked = c THEN "silent" ELSE s.answer
      /\ t.ready = s.ready /\ t.named = s.named /\ t.announcing = s.announcing
      /\ t.opening = s.opening /\ t.stale = s.stale /\ t.stopping = s.stopping
      /\ t.probing = s.probing /\ t.asked = s.asked
  BY <1>1, ClosedIs
<1> HIDE DEF t
<1>3. lost <=> s.registered = c
  BY RegistryAssumption DEF NodeInv, HeldOf
<1>4. c # NoConn
  BY RegistryAssumption
<1>5. DialsOf(p, t)
  BY <1>2 DEF NodeInv, DialsOf
<1>6. ProbeOf(t)
  BY <1>2 DEF NodeInv, ProbeOf, Waiting
<1>7. HeldOf(t, others \ {c})
  <2>1. Waiting(t) = Waiting(s)
    BY <1>2 DEF Waiting
  <2>2. QED
    BY <1>2, <1>3, <1>4, <2>1 DEF NodeInv, HeldOf
<1>8. ToldOf(t)
  <2>1. \A x \in Conn : t.told[x] = IF lost /\ x = c THEN "disconnected" ELSE s.told[x]
    BY <1>2
  <2>2. CASE lost
    BY <1>2, <2>1, <2>2 DEF NodeInv, ToldOf
  <2>3. CASE ~lost
    BY <1>2, <2>1, <2>3 DEF NodeInv, ToldOf
  <2>4. QED
    BY <2>2, <2>3
<1>9. NodeInv(p, t, others \ {c}) /\ Untouched(s, t)
  BY <1>2, <1>4, <1>5, <1>6, <1>7, <1>8 DEF NodeInv, Untouched
<1>10. t.up = s.up \ {c} /\ (s.registered # c => t.registered = s.registered)
  BY <1>2
<1>11. QED
  BY <1>9, <1>10 DEF t

(* A dial that resolves changes nothing else. *)
LEMMA ResolveIs ==
    ASSUME NEW s \in Node, NEW c \in Conn
    PROVE  LET t == Resolve(s, c)
           IN  /\ t \in Node
               /\ t.up = s.up /\ t.registered = s.registered /\ t.told = s.told /\ t.answer = s.answer
               /\ t.ready = s.ready /\ t.named = s.named /\ t.announcing = s.announcing
               /\ t.opening = s.opening /\ t.stale = s.stale /\ t.stopping = s.stopping
               /\ t.probing = s.probing /\ t.asked = s.asked
<1> DEFINE dial == [s.dial EXCEPT ![c] = IF @ = "pending" THEN "resolved" ELSE @]
<1>1. dial \in [Conn -> Dials]
  BY DEF Node, Dials
<1>2. Resolve(s, c) = [s EXCEPT !.dial = dial]
  BY DEF Resolve, Node
<1> HIDE DEF dial
<1>3. QED
  BY <1>1, <1>2 DEF Node

(* Registering the one that is ready. *)
LEMMA RegisteredKeeps ==
    ASSUME NEW p \in Proc, NEW s, NEW c \in Conn, NodeInv(p, s, {c}),
           s.registered = NoConn, c \in s.named
    PROVE  NodeInv(p, Registered(s, c), {}) /\ Untouched(s, Registered(s, c))
<1> DEFINE r == Resolve(s, c)
           t == [r EXCEPT !.registered = c, !.announcing = @ \cup {c}]
<1>1. s \in Node
  BY DEF NodeInv
<1>2. /\ r \in Node
      /\ r.up = s.up /\ r.registered = s.registered /\ r.told = s.told /\ r.answer = s.answer
      /\ r.ready = s.ready /\ r.named = s.named /\ r.announcing = s.announcing
      /\ r.opening = s.opening /\ r.stale = s.stale /\ r.stopping = s.stopping
      /\ r.probing = s.probing /\ r.asked = s.asked
  BY <1>1, ResolveIs
<1>3. Registered(s, c) = t
  BY DEF Registered
<1> HIDE DEF r
<1>4. /\ t \in Node
      /\ t.up = s.up /\ t.registered = c /\ t.told = s.told /\ t.answer = s.answer
      /\ t.ready = s.ready /\ t.named = s.named /\ t.announcing = s.announcing \cup {c}
      /\ t.opening = s.opening /\ t.stale = s.stale /\ t.stopping = s.stopping
      /\ t.probing = s.probing /\ t.asked = s.asked
  BY <1>2 DEF Node
<1> HIDE DEF t
<1>5. c # NoConn /\ c \in s.up \cap s.ready
  BY RegistryAssumption DEF NodeInv, HeldOf
<1>6. DialsOf(p, t)
  BY <1>4, <1>5 DEF NodeInv, DialsOf
<1>7. Waiting(t) = Waiting(s)
  BY <1>4 DEF Waiting
<1>8. ProbeOf(t)
  BY <1>4, <1>7 DEF NodeInv, ProbeOf
<1>9. HeldOf(t, {})
  BY <1>4, <1>5, <1>7 DEF NodeInv, HeldOf
<1>10. ToldOf(t)
  BY <1>4 DEF NodeInv, ToldOf
<1>11. QED
  BY <1>3, <1>4, <1>6, <1>8, <1>9, <1>10 DEF NodeInv, Untouched

(* Refusing it. *)
LEMMA RefusedKeeps ==
    ASSUME NEW p \in Proc, NEW s, NEW c \in Conn, NodeInv(p, s, {c})
    PROVE  NodeInv(p, Refused(s, c), {}) /\ Untouched(s, Refused(s, c))
<1> DEFINE r == Resolve(s, c)
           u == [r EXCEPT !.named = @ \ {c}]
           t == Closed(u, c)
<1>1. s \in Node
  BY DEF NodeInv
<1>2. /\ r \in Node
      /\ r.up = s.up /\ r.registered = s.registered /\ r.told = s.told /\ r.answer = s.answer
      /\ r.ready = s.ready /\ r.named = s.named /\ r.announcing = s.announcing
      /\ r.opening = s.opening /\ r.stale = s.stale /\ r.stopping = s.stopping
      /\ r.probing = s.probing /\ r.asked = s.asked
  BY <1>1, ResolveIs
<1> HIDE DEF r
<1>3. /\ u \in Node
      /\ u.up = s.up /\ u.registered = s.registered /\ u.told = s.told /\ u.answer = s.answer
      /\ u.ready = s.ready /\ u.named = s.named \ {c} /\ u.announcing = s.announcing
      /\ u.opening = s.opening /\ u.stale = s.stale /\ u.stopping = s.stopping
      /\ u.probing = s.probing /\ u.asked = s.asked
  BY <1>2 DEF Node
<1>4. Refused(s, c) = t
  BY DEF Refused, r
<1> HIDE DEF u
<1>5. Waiting(u) = Waiting(s)
  BY <1>3 DEF Waiting
<1>6. HeldOf(u, {c})
  BY <1>3, <1>5 DEF NodeInv, HeldOf
<1>7. NodeInv(p, u, {c})
  BY <1>3, <1>5, <1>6 DEF NodeInv, DialsOf, ProbeOf, ToldOf
<1>8. NodeInv(p, t, {}) /\ Untouched(u, t) /\ t.up = u.up \ {c}
  BY <1>7, ClosedKeeps, {c} \ {c} = {}
<1>9. t.up = s.up \ {c}
  BY <1>3, <1>8
<1>10. Untouched(s, t)
  BY <1>3, <1>8, <1>9 DEF Untouched
<1>11. QED
  BY <1>4, <1>8, <1>10

(* Retiring the one that is registered. *)
LEMMA SupersededKeeps ==
    ASSUME NEW p \in Proc, NEW s, NEW c \in Conn, NodeInv(p, s, {c}), s.registered # NoConn
    PROVE  NodeInv(p, Superseded(s), {c}) /\ Untouched(s, Superseded(s))
           /\ Superseded(s).registered = NoConn
<1> DEFINE e == s.registered
           told == [s.told EXCEPT ![e] = "disconnected"]
           u == [s EXCEPT !.registered = NoConn, !.named = @ \ {e}, !.told = told]
           t == Closed(u, e)
<1>1. s \in Node /\ e \in Conn /\ c # e
  BY DEF NodeInv, HeldOf, Node
<1>2. told \in [Conn -> Events]
  BY <1>1 DEF Node, Events
<1>3. Superseded(s) = t
  BY <1>1 DEF Superseded, Node
<1>4. \A x \in Conn : told[x] = IF x = e THEN "disconnected" ELSE s.told[x]
  BY <1>1 DEF Node
<1> HIDE DEF told
<1>5. /\ u \in Node
      /\ u.up = s.up /\ u.registered = NoConn /\ u.told = told /\ u.answer = s.answer
      /\ u.ready = s.ready /\ u.named = s.named \ {e} /\ u.announcing = s.announcing
      /\ u.opening = s.opening /\ u.stale = s.stale /\ u.stopping = s.stopping
      /\ u.probing = s.probing /\ u.asked = s.asked
  BY <1>1, <1>2 DEF Node
<1> HIDE DEF u
<1>6. Waiting(u) = Waiting(s)
  BY <1>5 DEF Waiting
<1>7. HeldOf(u, {c, e})
  BY <1>1, <1>5, <1>6 DEF NodeInv, HeldOf
<1>8. ToldOf(u)
  BY <1>4, <1>5 DEF NodeInv, ToldOf
<1>9. DialsOf(p, u) /\ ProbeOf(u)
  BY <1>5, <1>6 DEF NodeInv, DialsOf, ProbeOf
<1>10. NodeInv(p, u, {c, e})
  BY <1>5, <1>7, <1>8, <1>9 DEF NodeInv
<1>11. NodeInv(p, t, {c}) /\ Untouched(u, t) /\ t.up = u.up \ {e} /\ t.registered = u.registered
  <2>1. {c, e} \ {e} = {c} /\ u.registered # e
    BY <1>1, <1>5
  <2>2. NodeInv(p, t, {c, e} \ {e}) /\ Untouched(u, t) /\ t.up = u.up \ {e}
        /\ (u.registered # e => t.registered = u.registered)
    BY <1>1, <1>10, ClosedKeeps
  <2>3. QED
    BY <2>1, <2>2
<1>12. t.registered = NoConn /\ t.up = s.up \ {e}
  BY <1>5, <1>11
<1>13. Untouched(s, t)
  BY <1>5, <1>11, <1>12 DEF Untouched
<1>14. QED
  BY <1>3, <1>11, <1>12, <1>13

(* One of the three, whatever is registered. *)
LEMMA AdmittedKeeps ==
    ASSUME NEW p \in Proc, NEW s, NEW c \in Conn, NodeInv(p, s, {c}), c \in s.named
    PROVE  NodeInv(p, Admitted(p, s, c), {}) /\ Untouched(s, Admitted(p, s, c))
<1>1. CASE s.registered = NoConn
  BY <1>1, RegisteredKeeps DEF Admitted
<1>2. CASE s.registered # NoConn /\ keepsExisting(p, s.registered, c)
  BY <1>2, RefusedKeeps DEF Admitted
<1>3. CASE s.registered # NoConn /\ ~keepsExisting(p, s.registered, c)
  <2> DEFINE r == Superseded(s)
  <2>1. NodeInv(p, r, {c}) /\ Untouched(s, r) /\ r.registered = NoConn
    BY <1>3, SupersededKeeps
  <2>2. c \in r.named
    BY <2>1 DEF Untouched, NodeInv, HeldOf
  <2>3. NodeInv(p, Registered(r, c), {}) /\ Untouched(r, Registered(r, c))
    BY <2>1, <2>2, RegisteredKeeps
  <2>4. Untouched(s, Registered(r, c))
    BY <2>1, <2>3 DEF Untouched
  <2>5. QED
    BY <1>3, <2>3, <2>4 DEF Admitted
<1>4. QED
  BY <1>1, <1>2, <1>3

(* What the connection that waited does about the answer. *)
LEMMA ProbeOutcomeKeeps ==
    ASSUME NEW p \in Proc, NEW s, NEW c \in Conn, NodeInv(p, s, {c} \cap s.up),
           c \in s.up => c \in s.named
    PROVE  NodeInv(p, ProbeOutcome(p, s, c), {}) /\ Untouched(s, ProbeOutcome(p, s, c))
<1>1. CASE c \notin s.up
  <2>1. {c} \cap s.up = {}
    BY <1>1
  <2>2. QED
    BY <1>1, <2>1 DEF ProbeOutcome, Untouched
<1>2. CASE c \in s.up
  <2>1. {c} \cap s.up = {c}
    BY <1>2
  <2>2. QED
    BY <1>2, <2>1, RefusedKeeps, AdmittedKeeps DEF ProbeOutcome
<1>3. QED
  BY <1>1, <1>2

(* Nothing of that is out of order, and a probe still has who waits for it.*)
LEMMA UntouchedKeeps ==
    ASSUME NEW s, NEW t, Untouched(s, t)
    PROVE  /\ InOrder(s) => InOrder(t)
           /\ AskedOf(s) => AskedOf(t)
BY DEF Untouched, InOrder, AskedOf

-----------------------------------------------------------------------------
(* Steps                                                                   *)

(* A process starts with nothing. *)
LEMMA FreshIs ==
    ASSUME NEW p \in Proc
    PROVE  NodeInv(p, Fresh, {}) /\ AskedOf(Fresh) /\ InOrder(Fresh)
<1>1. Fresh \in Node
  <2>1. [c \in Conn |-> "nothing"] \in [Conn -> Events] /\ [c \in Conn |-> "none"] \in [Conn -> Dials]
    BY DEF Events, Dials
  <2>2. <<>> \in Seq(Conn)
    OBVIOUS
  <2>3. QED
    BY <2>1, <2>2 DEF Fresh, Node
<1>2. Waiting(Fresh) = {}
  BY DEF Waiting, Fresh
<1>3. DialsOf(p, Fresh) /\ AskedOf(Fresh) /\ InOrder(Fresh)
  BY DEF DialsOf, AskedOf, InOrder, Fresh
<1>4. ProbeOf(Fresh) /\ HeldOf(Fresh, {})
  <2>1. Fresh.probing = <<>> /\ Fresh.registered = NoConn /\ Fresh.up = {} /\ Fresh.ready = {}
    BY DEF Fresh
  <2>2. DOMAIN Fresh.probing = {}
    BY <2>1
  <2>3. QED
    BY <1>2, <2>1, <2>2 DEF ProbeOf, HeldOf
<1>5. ToldOf(Fresh)
  BY DEF ToldOf, Fresh
<1>6. QED
  BY <1>1, <1>3, <1>4, <1>5 DEF NodeInv

(* No process keeps anything at first.                                     *)
LEMMA RegInitially ==
    Init => RegInv
<1> SUFFICES ASSUME Init
             PROVE  RegInv
  OBVIOUS
<1>1. world \in World /\ running \subseteq Proc /\ dead = {} /\ dialled = {} /\ exchanged = {}
  BY RegistryAssumption DEF Init
<1>2. \A p \in Proc : node[p] = Fresh /\ Fresh \in Node
  BY FreshIs DEF Init, NodeInv
<1>3. node \in [Proc -> Node]
  BY <1>2 DEF Init
<1>4. QED
  BY <1>1, <1>2, <1>3, FreshIs DEF RegInv

(* A step of one process' registry. *)
LEMMA OneNodeKeeps ==
    ASSUME RegInv, UNCHANGED <<world, dialled, exchanged>>,
           running' \subseteq Proc, dead' \subseteq Proc \ running',
           NEW p \in Proc, NEW t, node' = [node EXCEPT ![p] = t],
           NodeInv(p, t, {}), AskedOf(t), InOrder(t)
    PROVE  RegInv'
<1>1. t \in Node
  BY DEF NodeInv
<1>2. node' \in [Proc -> Node]
  BY <1>1 DEF RegInv
<1>3. \A q \in Proc : node'[q] = IF q = p THEN t ELSE node[q]
  BY DEF RegInv
<1>4. \A q \in Proc : NodeInv(q, node'[q], {}) /\ AskedOf(node'[q]) /\ InOrder(node'[q])
  BY <1>3 DEF RegInv
<1>5. (\A q \in Proc : InOrder(node[q]))'
  BY <1>4 DEF InOrder
<1>6. (\A q \in Proc : NodeInv(q, node[q], {}) /\ AskedOf(node[q]))'
  BY <1>4
<1>7. QED
  BY <1>2, <1>5, <1>6 DEF RegInv

(* A connection is ready: it is admitted, or waits for a probe. *)
LEMMA ReadyKeeps ==
    ASSUME RegInv, NEW p \in Proc, NEW c \in Conn, Ready(p, c)
    PROVE  RegInv'
<1> DEFINE n == node[p]
           s == [n EXCEPT !.ready = @ \cup {c}]
<1>1. n \in Node /\ NodeInv(p, n, {}) /\ AskedOf(n) /\ InOrder(n) /\ c \in exchanged /\ c \in n.up \ n.ready
  BY DEF RegInv, Ready
<1>2. /\ s \in Node
      /\ s.up = n.up /\ s.registered = n.registered /\ s.told = n.told /\ s.answer = n.answer
      /\ s.ready = n.ready \cup {c} /\ s.named = n.named /\ s.announcing = n.announcing
      /\ s.opening = n.opening /\ s.stale = n.stale /\ s.stopping = n.stopping
      /\ s.probing = n.probing /\ s.asked = n.asked
  BY <1>1 DEF Node
<1>3. node' = [node EXCEPT ![p] = IF MustProbe(p, c)
                                  THEN [s EXCEPT !.probing = Append(@, c), !.asked = s.registered]
                                  ELSE Admitted(p, s, c)]
      /\ UNCHANGED <<world, running, dead, dialled, exchanged>>
  BY DEF Ready
<1> HIDE DEF s
<1>4. Waiting(s) = Waiting(n) /\ c \notin Waiting(n)
  BY <1>1, <1>2 DEF Waiting, NodeInv, ProbeOf
<1>5. HeldOf(s, {c})
  BY <1>1, <1>2, <1>4 DEF NodeInv, HeldOf
<1>6. NodeInv(p, s, {c}) /\ AskedOf(s) /\ InOrder(s) /\ c \in s.named
  BY <1>1, <1>2, <1>4, <1>5 DEF NodeInv, DialsOf, ProbeOf, ToldOf, AskedOf, InOrder
<1>7. CASE ~MustProbe(p, c)
  <2>1. NodeInv(p, Admitted(p, s, c), {}) /\ Untouched(s, Admitted(p, s, c))
    BY <1>6, AdmittedKeeps
  <2>2. AskedOf(Admitted(p, s, c)) /\ InOrder(Admitted(p, s, c))
    BY <1>6, <2>1, UntouchedKeeps
  <2>3. node' = [node EXCEPT ![p] = Admitted(p, s, c)]
    BY <1>3, <1>7
  <2>4. QED
    BY <1>3, <2>1, <2>2, <2>3, OneNodeKeeps DEF RegInv
<1>8. CASE MustProbe(p, c)
  <2> DEFINE t == [s EXCEPT !.probing = Append(@, c), !.asked = s.registered]
  <2>1. s.registered # NoConn /\ s.registered \in Conn
    BY <1>2, <1>8 DEF MustProbe, Node
  <2>2. Append(s.probing, c) \in Seq(Conn) /\ s.probing \in Seq(Conn)
    BY <1>2 DEF Node
  <2>3. /\ t \in Node
        /\ t.up = s.up /\ t.registered = s.registered /\ t.told = s.told /\ t.answer = s.answer
        /\ t.ready = s.ready /\ t.named = s.named /\ t.announcing = s.announcing
        /\ t.opening = s.opening /\ t.stale = s.stale /\ t.stopping = s.stopping
        /\ t.probing = Append(s.probing, c) /\ t.asked = s.registered
    BY <1>2, <2>1, <2>2 DEF Node
  <2>4. node' = [node EXCEPT ![p] = t]
    BY <1>3, <1>8
  <2> HIDE DEF t
  <2>5. /\ DOMAIN t.probing = 1..Len(s.probing) + 1
        /\ \A i \in DOMAIN t.probing : t.probing[i] = IF i <= Len(s.probing) THEN s.probing[i] ELSE c
        /\ DOMAIN s.probing = 1..Len(s.probing) /\ Len(s.probing) \in Nat
    BY <2>2, <2>3
  <2>6. Waiting(t) = Waiting(s) \cup {c}
    BY <2>5 DEF Waiting
  <2>7. \A i \in DOMAIN s.probing : s.probing[i] # c
    BY <1>4 DEF Waiting
  <2>8. \A i, j \in DOMAIN t.probing : t.probing[i] = t.probing[j] => i = j
    BY <1>6, <2>5, <2>7 DEF NodeInv, ProbeOf
  <2>9. ProbeOf(t)
    BY <1>2, <1>6, <2>3, <2>6, <2>8 DEF NodeInv, ProbeOf
  <2>10. HeldOf(t, {})
    BY <1>6, <2>1, <2>3, <2>6 DEF NodeInv, HeldOf
  <2>11. AskedOf(t)
    BY <2>1, <2>2, <2>3 DEF AskedOf
  <2>12. NodeInv(p, t, {}) /\ InOrder(t)
    BY <1>6, <2>3, <2>9, <2>10 DEF NodeInv, DialsOf, ToldOf, InOrder
  <2>13. QED
    BY <1>3, <2>4, <2>11, <2>12, OneNodeKeeps DEF RegInv
<1>9. QED
  BY <1>7, <1>8

(* The answer of a probe. *)
LEMMA AnswerKeeps ==
    ASSUME RegInv, NEW p \in Proc, ProbeAnswered(p) \/ ProbeTimesOut(p)
    PROVE  RegInv'
<1>1. PICK how \in {"alive", "silent"} : node' = [node EXCEPT ![p].answer = how]
  BY DEF ProbeAnswered, ProbeTimesOut
<1> DEFINE n == node[p]
           t == [n EXCEPT !.answer = how]
<1>2. n \in Node /\ NodeInv(p, n, {}) /\ AskedOf(n) /\ InOrder(n) /\ n.probing # <<>>
  BY DEF RegInv, ProbeAnswered, ProbeTimesOut
<1>3. /\ t \in Node
      /\ t.up = n.up /\ t.registered = n.registered /\ t.told = n.told /\ t.answer = how
      /\ t.ready = n.ready /\ t.named = n.named /\ t.announcing = n.announcing
      /\ t.opening = n.opening /\ t.stale = n.stale /\ t.stopping = n.stopping
      /\ t.probing = n.probing /\ t.asked = n.asked
  BY <1>2 DEF Node
<1>4. node' = [node EXCEPT ![p] = t]
  BY <1>1 DEF RegInv
<1> HIDE DEF t
<1>5. Waiting(t) = Waiting(n)
  BY <1>3 DEF Waiting
<1>6. NodeInv(p, t, {}) /\ AskedOf(t) /\ InOrder(t)
  BY <1>2, <1>3, <1>5 DEF NodeInv, DialsOf, ProbeOf, HeldOf, ToldOf, AskedOf, InOrder
<1>7. UNCHANGED <<world, running, dead, dialled, exchanged>>
  BY DEF ProbeAnswered, ProbeTimesOut
<1>8. QED
  BY <1>4, <1>6, <1>7, OneNodeKeeps DEF RegInv

(* Of those who wait once each, the rest does not hold the first.          *)
LEMMA HeadAndTail ==
    ASSUME NEW q \in Seq(Conn), q # <<>>,
           \A i, j \in DOMAIN q : q[i] = q[j] => i = j
    PROVE  /\ Head(q) \in Conn /\ Tail(q) \in Seq(Conn)
           /\ {q[i] : i \in DOMAIN q} = {Head(q)} \cup {Tail(q)[i] : i \in DOMAIN Tail(q)}
           /\ Head(q) \notin {Tail(q)[i] : i \in DOMAIN Tail(q)}
           /\ \A i, j \in DOMAIN Tail(q) : Tail(q)[i] = Tail(q)[j] => i = j
<1>1. Len(q) \in Nat /\ Len(q) # 0 /\ DOMAIN q = 1..Len(q) /\ Head(q) = q[1] /\ Tail(q) \in Seq(Conn)
  OBVIOUS
<1>2. DOMAIN Tail(q) = 1..Len(q) - 1 /\ \A i \in DOMAIN Tail(q) : Tail(q)[i] = q[i + 1]
  BY <1>1
<1>3. ASSUME NEW i \in DOMAIN q, i # 1
      PROVE  i - 1 \in DOMAIN Tail(q) /\ q[i] = Tail(q)[i - 1]
  <2>1. i - 1 \in DOMAIN Tail(q) /\ (i - 1) + 1 = i
    BY <1>1, <1>2, <1>3
  <2>2. QED
    BY <1>2, <2>1
<1>4. \A i \in DOMAIN Tail(q) : i + 1 \in DOMAIN q /\ i + 1 # 1
  BY <1>1, <1>2
<1>5. {q[i] : i \in DOMAIN q} = {Head(q)} \cup {Tail(q)[i] : i \in DOMAIN Tail(q)}
  <2>1. ASSUME NEW i \in DOMAIN q
        PROVE  q[i] \in {Head(q)} \cup {Tail(q)[j] : j \in DOMAIN Tail(q)}
    BY <1>1, <1>3
  <2>2. ASSUME NEW j \in DOMAIN Tail(q)
        PROVE  Tail(q)[j] \in {q[i] : i \in DOMAIN q}
    BY <1>2, <1>4
  <2>3. Head(q) \in {q[i] : i \in DOMAIN q}
    BY <1>1
  <2>4. QED
    BY <2>1, <2>2, <2>3
<1>6. Head(q) \notin {Tail(q)[i] : i \in DOMAIN Tail(q)}
  BY <1>1, <1>2, <1>4
<1>7. \A i, j \in DOMAIN Tail(q) : Tail(q)[i] = Tail(q)[j] => i = j
  BY <1>1, <1>2, <1>4
<1>8. QED
  BY <1>1, <1>5, <1>6, <1>7

(* One of those who waited is told. *)
LEMMA SettleKeeps ==
    ASSUME RegInv, NEW p \in Proc, ProbeSettles(p)
    PROVE  RegInv'
<1> DEFINE n == node[p]
           c == Head(n.probing)
           rest == Tail(n.probing)
           s == [n EXCEPT !.probing = rest]
           t == ProbeOutcome(p, s, c)
           u == [t EXCEPT !.asked = NoConn, !.answer = "none"]
<1>1. n \in Node /\ NodeInv(p, n, {}) /\ AskedOf(n) /\ InOrder(n) /\ n.answer # "none"
  BY DEF RegInv, ProbeSettles
<1>2. n.probing \in Seq(Conn) /\ n.probing # <<>> /\ n.asked # NoConn
  BY <1>1 DEF Node, AskedOf
<1>3. /\ node' = [node EXCEPT ![p] = IF rest = <<>> THEN u ELSE t]
      /\ UNCHANGED <<world, running, dead, dialled, exchanged>>
  BY DEF ProbeSettles
<1>4. /\ c \in Conn /\ rest \in Seq(Conn)
      /\ Waiting(n) = {c} \cup {rest[i] : i \in DOMAIN rest}
      /\ c \notin {rest[i] : i \in DOMAIN rest}
      /\ \A i, j \in DOMAIN rest : rest[i] = rest[j] => i = j
  BY <1>1, <1>2, HeadAndTail DEF NodeInv, ProbeOf, Waiting
<1> HIDE DEF c, rest
<1>5. /\ s \in Node
      /\ s.up = n.up /\ s.registered = n.registered /\ s.told = n.told /\ s.answer = n.answer
      /\ s.ready = n.ready /\ s.named = n.named /\ s.announcing = n.announcing
      /\ s.opening = n.opening /\ s.stale = n.stale /\ s.stopping = n.stopping
      /\ s.probing = rest /\ s.asked = n.asked
  BY <1>1, <1>4 DEF Node
<1> HIDE DEF s, t
<1>6. Waiting(s) = {rest[i] : i \in DOMAIN rest}
  BY <1>5 DEF Waiting
<1>7. HeldOf(s, {c} \cap s.up)
  BY <1>1, <1>4, <1>5, <1>6 DEF NodeInv, HeldOf, ProbeOf
<1>8. NodeInv(p, s, {c} \cap s.up) /\ InOrder(s)
  BY <1>1, <1>4, <1>5, <1>6, <1>7 DEF NodeInv, DialsOf, ProbeOf, ToldOf, InOrder
<1>9. c \in s.up => c \in s.named
  BY <1>1, <1>4, <1>5 DEF NodeInv, ProbeOf, InOrder
<1>10. NodeInv(p, t, {}) /\ Untouched(s, t) /\ InOrder(t)
  BY <1>4, <1>8, <1>9, ProbeOutcomeKeeps, UntouchedKeeps DEF t
<1>11. CASE rest # <<>>
  <2>1. AskedOf(t)
    BY <1>2, <1>5, <1>10, <1>11 DEF Untouched, AskedOf
  <2>2. node' = [node EXCEPT ![p] = t]
    BY <1>3, <1>11
  <2>3. QED
    BY <1>3, <1>10, <2>1, <2>2, OneNodeKeeps DEF RegInv
<1>12. CASE rest = <<>>
  <2>1. t \in Node /\ t.probing = <<>>
    BY <1>5, <1>10, <1>12 DEF NodeInv, Untouched
  <2>2. /\ u \in Node
        /\ u.up = t.up /\ u.registered = t.registered /\ u.told = t.told /\ u.answer = "none"
        /\ u.ready = t.ready /\ u.named = t.named /\ u.announcing = t.announcing
        /\ u.opening = t.opening /\ u.stale = t.stale /\ u.stopping = t.stopping
        /\ u.probing = t.probing /\ u.asked = NoConn
    BY <2>1 DEF Node
  <2>3. node' = [node EXCEPT ![p] = u]
    BY <1>3, <1>12
  <2> HIDE DEF u
  <2>4. Waiting(u) = Waiting(t)
    BY <2>2 DEF Waiting
  <2>5. NodeInv(p, u, {}) /\ AskedOf(u) /\ InOrder(u)
    BY <1>10, <2>1, <2>2, <2>4 DEF NodeInv, DialsOf, ProbeOf, HeldOf, ToldOf, AskedOf, InOrder
  <2>6. QED
    BY <1>3, <2>3, <2>5, OneNodeKeeps DEF RegInv
<1>13. QED
  BY <1>11, <1>12

(* "connected" is emitted, if it is registered still. *)
LEMMA AnnounceKeeps ==
    ASSUME RegInv, NEW p \in Proc, NEW c \in Conn, Announce(p, c)
    PROVE  RegInv'
<1> DEFINE n == node[p]
           told == [n.told EXCEPT ![c] = IF n.registered = c THEN "connected" ELSE @]
           t == [n EXCEPT !.announcing = @ \ {c}, !.told = told]
<1>1. n \in Node /\ NodeInv(p, n, {}) /\ AskedOf(n) /\ InOrder(n) /\ c \in n.announcing
  BY DEF RegInv, Announce
<1>2. told \in [Conn -> Events]
  BY <1>1 DEF Node, Events
<1>3. \A x \in Conn : told[x] = IF x = c /\ n.registered = c THEN "connected" ELSE n.told[x]
  BY <1>1 DEF Node
<1>4. /\ node' = [node EXCEPT ![p] = t]
      /\ UNCHANGED <<world, running, dead, dialled, exchanged>>
  BY <1>1 DEF Announce, RegInv, Node
<1> HIDE DEF told
<1>5. /\ t \in Node
      /\ t.up = n.up /\ t.registered = n.registered /\ t.told = told /\ t.answer = n.answer
      /\ t.ready = n.ready /\ t.named = n.named /\ t.announcing = n.announcing \ {c}
      /\ t.opening = n.opening /\ t.stale = n.stale /\ t.stopping = n.stopping
      /\ t.probing = n.probing /\ t.asked = n.asked
  BY <1>1, <1>2 DEF Node
<1> HIDE DEF t
<1>6. Waiting(t) = Waiting(n)
  BY <1>5 DEF Waiting
<1>7. ToldOf(t)
  <2>1. c # NoConn
    BY RegistryAssumption
  <2>2. CASE n.registered = c
    BY <1>1, <1>3, <1>5, <2>1, <2>2 DEF NodeInv, ToldOf
  <2>3. CASE n.registered # c
    BY <1>1, <1>3, <1>5, <2>3 DEF NodeInv, ToldOf
  <2>4. QED
    BY <2>2, <2>3
<1>8. NodeInv(p, t, {}) /\ AskedOf(t) /\ InOrder(t)
  BY <1>1, <1>5, <1>6, <1>7 DEF NodeInv, DialsOf, ProbeOf, HeldOf, AskedOf, InOrder
<1>9. QED
  BY <1>4, <1>8, OneNodeKeeps DEF RegInv

(* connect(). *)
LEMMA DialKeeps ==
    ASSUME RegInv, NEW c \in Conn, Dial(c)
    PROVE  RegInv'
<1> DEFINE p == Dialler[c]
           n == node[p]
           dial == [n.dial EXCEPT ![c] = "pending"]
           t == [n EXCEPT !.opening = @ \cup {c}, !.dial = dial]
<1>1. /\ p \in Proc /\ n \in Node /\ NodeInv(p, n, {}) /\ AskedOf(n) /\ InOrder(n)
      /\ c \notin dialled /\ n.stopping # "closing"
  BY RegistryAssumption DEF RegInv, Dial
<1>2. dial \in [Conn -> Dials]
  BY <1>1 DEF Node, Dials
<1>3. /\ node' = [node EXCEPT ![p] = t]
      /\ dialled' = dialled \cup {c} /\ UNCHANGED <<world, running, dead, exchanged>>
  BY <1>1 DEF Dial, RegInv, Node
<1> HIDE DEF dial, p
<1>4. /\ t \in Node
      /\ t.up = n.up /\ t.registered = n.registered /\ t.told = n.told /\ t.answer = n.answer
      /\ t.ready = n.ready /\ t.named = n.named /\ t.announcing = n.announcing
      /\ t.opening = n.opening \cup {c} /\ t.stale = n.stale /\ t.stopping = n.stopping
      /\ t.probing = n.probing /\ t.asked = n.asked
  BY <1>1, <1>2 DEF Node
<1> HIDE DEF t
<1>5. Waiting(t) = Waiting(n)
  BY <1>4 DEF Waiting
<1>6. c \notin n.up /\ c \notin exchanged
  BY <1>1 DEF InOrder, RegInv
<1>7. DialsOf(p, t)
  BY <1>1, <1>4, <1>6 DEF NodeInv, DialsOf, p
<1>8. NodeInv(p, t, {}) /\ AskedOf(t)
  BY <1>1, <1>4, <1>5, <1>7 DEF NodeInv, ProbeOf, HeldOf, ToldOf, AskedOf
<1>9. \A q \in Proc : node'[q] = IF q = p THEN t ELSE node[q]
  BY <1>3 DEF RegInv
<1>10. (\A q \in Proc : InOrder(node[q]))'
  BY <1>1, <1>3, <1>4, <1>6, <1>9 DEF RegInv, InOrder
<1>11. (\A q \in Proc : NodeInv(q, node[q], {}) /\ AskedOf(node[q]))'
  BY <1>8, <1>9 DEF RegInv
<1>12. node' \in [Proc -> Node] /\ dialled' \subseteq Conn /\ exchanged' \subseteq dialled'
  BY <1>3, <1>4 DEF RegInv
<1>13. QED
  BY <1>3, <1>10, <1>11, <1>12 DEF RegInv

(* A socket opens at its listener, *)
LEMMA ListenerOpens ==
    ASSUME RegInv, NEW c \in Conn, c \in node[Dialler[c]].opening, Listens(Listener[c])
    PROVE  LET q == Listener[c]
               t == [node[q] EXCEPT !.up = @ \cup {c}]
           IN  q \in Proc /\ q # Dialler[c] /\ NodeInv(q, t, {}) /\ AskedOf(t) /\ InOrder(t)
<1> DEFINE q == Listener[c]
           n == node[q]
           t == [n EXCEPT !.up = @ \cup {c}]
<1>1. q \in Proc /\ q # Dialler[c] /\ Dialler[c] \in Proc /\ q \in Ends(c)
  BY RegistryAssumption DEF Ends
<1>2. n \in Node /\ NodeInv(q, n, {}) /\ AskedOf(n) /\ InOrder(n) /\ n.stopping = "no"
  BY <1>1 DEF RegInv, Listens
<1>3. c \in dialled /\ c \notin exchanged
  BY <1>1 DEF RegInv, InOrder
<1> HIDE DEF q
<1>4. /\ t \in Node
      /\ t.up = n.up \cup {c} /\ t.registered = n.registered /\ t.told = n.told /\ t.answer = n.answer
      /\ t.ready = n.ready /\ t.named = n.named /\ t.announcing = n.announcing
      /\ t.opening = n.opening /\ t.stale = n.stale /\ t.stopping = n.stopping
      /\ t.probing = n.probing /\ t.asked = n.asked
  BY <1>2 DEF Node
<1> HIDE DEF t
<1>5. Waiting(t) = Waiting(n)
  BY <1>4 DEF Waiting
<1>6. c \notin n.opening \cup n.stale \cup n.ready \cup Waiting(n)
  BY <1>1, <1>2, <1>3 DEF NodeInv, DialsOf, ProbeOf, InOrder
<1>7. DialsOf(q, t) /\ HeldOf(t, {}) /\ InOrder(t)
  BY <1>1, <1>2, <1>3, <1>4, <1>5, <1>6 DEF NodeInv, DialsOf, HeldOf, InOrder
<1>8. NodeInv(q, t, {}) /\ AskedOf(t)
  BY <1>2, <1>4, <1>5, <1>7 DEF NodeInv, ProbeOf, ToldOf, AskedOf
<1>9. QED
  BY <1>1, <1>7, <1>8 DEF q, t

(* and at its dialler, where a stop() may have come between. *)
LEMMA DiallerOpens ==
    ASSUME RegInv, NEW c \in Conn, c \in node[Dialler[c]].opening
    PROVE  LET n == node[Dialler[c]]
               closed == [n EXCEPT !.opening = @ \ {c}, !.dial[c] = "rejected"]
               open == [n EXCEPT !.opening = @ \ {c}, !.up = @ \cup {c}]
           IN  /\ NodeInv(Dialler[c], closed, {}) /\ AskedOf(closed) /\ InOrder(closed)
               /\ c \notin n.stale => /\ NodeInv(Dialler[c], open, {})
                                      /\ AskedOf(open) /\ InOrder(open)
<1> DEFINE p == Dialler[c]
           n == node[p]
           dial == [n.dial EXCEPT ![c] = "rejected"]
           closed == [n EXCEPT !.opening = @ \ {c}, !.dial = dial]
           open == [n EXCEPT !.opening = @ \ {c}, !.up = @ \cup {c}]
<1>1. p \in Proc /\ p \in Ends(c)
  BY RegistryAssumption DEF Ends
<1>2. n \in Node /\ NodeInv(p, n, {}) /\ AskedOf(n) /\ InOrder(n)
  BY <1>1 DEF RegInv
<1>3. dial \in [Conn -> Dials]
  BY <1>2 DEF Node, Dials
<1>4. c \in dialled /\ c \notin exchanged /\ c \in n.opening
  BY <1>2 DEF InOrder
<1> HIDE DEF p, dial
<1>5. c \notin n.ready \cup Waiting(n) \cup n.up
  BY <1>2, <1>4 DEF NodeInv, DialsOf, ProbeOf, InOrder
<1>6. NodeInv(p, closed, {}) /\ AskedOf(closed) /\ InOrder(closed)
  <2>1. /\ closed \in Node
        /\ closed.up = n.up /\ closed.registered = n.registered /\ closed.told = n.told
        /\ closed.answer = n.answer
        /\ closed.ready = n.ready /\ closed.named = n.named /\ closed.announcing = n.announcing
        /\ closed.opening = n.opening \ {c} /\ closed.stale = n.stale /\ closed.stopping = n.stopping
        /\ closed.probing = n.probing /\ closed.asked = n.asked
    BY <1>2, <1>3 DEF Node
  <2> HIDE DEF closed
  <2>2. Waiting(closed) = Waiting(n)
    BY <2>1 DEF Waiting
  <2>3. QED
    BY <1>2, <2>1, <2>2 DEF NodeInv, DialsOf, ProbeOf, HeldOf, ToldOf, AskedOf, InOrder
<1>7. ASSUME c \notin n.stale
      PROVE  NodeInv(p, open, {}) /\ AskedOf(open) /\ InOrder(open)
  <2>1. /\ open \in Node
        /\ open.up = n.up \cup {c} /\ open.registered = n.registered /\ open.told = n.told
        /\ open.answer = n.answer
        /\ open.ready = n.ready /\ open.named = n.named /\ open.announcing = n.announcing
        /\ open.opening = n.opening \ {c} /\ open.stale = n.stale /\ open.stopping = n.stopping
        /\ open.probing = n.probing /\ open.asked = n.asked
    BY <1>2 DEF Node
  <2> HIDE DEF open
  <2>2. Waiting(open) = Waiting(n)
    BY <2>1 DEF Waiting
  <2>3. DialsOf(p, open) /\ HeldOf(open, {}) /\ InOrder(open)
    BY <1>1, <1>2, <1>4, <1>5, <1>7, <2>1, <2>2 DEF NodeInv, DialsOf, HeldOf, InOrder
  <2>4. QED
    BY <1>2, <2>1, <2>2, <2>3 DEF NodeInv, ProbeOf, ToldOf, AskedOf
<1>8. closed = [n EXCEPT !.opening = @ \ {c}, !.dial[c] = "rejected"]
  BY <1>2 DEF Node, dial
<1>9. QED
  BY <1>6, <1>7, <1>8 DEF p

(* A socket opens: of a dial a stop() came before, it is closed at once.   *)
LEMMA OpensKeeps ==
    ASSUME RegInv, NEW c \in Conn, Opens(c)
    PROVE  RegInv'
<1> DEFINE p == Dialler[c]
           q == Listener[c]
           tq == [node[q] EXCEPT !.up = @ \cup {c}]
           s == [node[p] EXCEPT !.opening = @ \ {c}]
           tp == IF c \in s.stale THEN [s EXCEPT !.dial[c] = "rejected"]
                                  ELSE [s EXCEPT !.up = @ \cup {c}]
<1>1. p \in Proc /\ c \in node[p].opening /\ Listens(q) /\ node[p] \in Node
  BY RegistryAssumption DEF Opens, RegInv
<1>2. /\ node' = [node EXCEPT ![q].up = @ \cup {c}, ![p] = tp]
      /\ UNCHANGED <<world, running, dead, dialled, exchanged>>
  BY DEF Opens
<1>3. q \in Proc /\ q # p /\ NodeInv(q, tq, {}) /\ AskedOf(tq) /\ InOrder(tq)
  BY <1>1, ListenerOpens
<1>4. /\ s.stale = node[p].stale
      /\ [s EXCEPT !.dial[c] = "rejected"] = [node[p] EXCEPT !.opening = @ \ {c}, !.dial[c] = "rejected"]
      /\ [s EXCEPT !.up = @ \cup {c}] = [node[p] EXCEPT !.opening = @ \ {c}, !.up = @ \cup {c}]
  BY <1>1 DEF Node
<1>5. NodeInv(p, tp, {}) /\ AskedOf(tp) /\ InOrder(tp)
  BY <1>1, <1>4, DiallerOpens
<1> HIDE DEF p, q, tp
<1>6. \A r \in Proc : node'[r] = IF r = p THEN tp ELSE IF r = q THEN tq ELSE node[r]
  BY <1>1, <1>2, <1>3 DEF RegInv
<1> HIDE DEF tq
<1>7. node' \in [Proc -> Node]
  BY <1>1, <1>2, <1>3, <1>5, <1>6 DEF RegInv, NodeInv
<1>8. (\A r \in Proc : InOrder(node[r]))'
  BY <1>2, <1>3, <1>5, <1>6 DEF RegInv, InOrder
<1>9. (\A r \in Proc : NodeInv(r, node[r], {}) /\ AskedOf(node[r]))'
  BY <1>3, <1>5, <1>6 DEF RegInv
<1>10. QED
  BY <1>2, <1>7, <1>8, <1>9 DEF RegInv

(* Nobody answers the dial. *)
LEMMA DialFailsKeeps ==
    ASSUME RegInv, NEW c \in Conn, DialFails(c)
    PROVE  RegInv'
<1> DEFINE p == Dialler[c]
           t == [node[p] EXCEPT !.opening = @ \ {c}, !.dial[c] = "rejected"]
<1>1. p \in Proc /\ c \in node[p].opening /\ node[p] \in Node
  BY RegistryAssumption DEF DialFails, RegInv
<1>2. NodeInv(p, t, {}) /\ AskedOf(t) /\ InOrder(t)
  BY <1>1, DiallerOpens
<1>3. node' = [node EXCEPT ![p] = t] /\ UNCHANGED <<world, running, dead, dialled, exchanged>>
  BY <1>1 DEF DialFails, RegInv
<1>4. QED
  BY <1>1, <1>2, <1>3, OneNodeKeeps DEF RegInv

(* The AUTHs are exchanged: each end has a name for the other. *)
LEMMA ExchangeKeeps ==
    ASSUME RegInv, NEW c \in Conn, Exchange(c)
    PROVE  RegInv'
<1>1. /\ \A q \in Ends(c) : c \in node[q].up
      /\ exchanged' = exchanged \cup {c}
      /\ node' = [q \in Proc |-> IF q \in Ends(c) THEN [node[q] EXCEPT !.named = @ \cup {c}]
                                                  ELSE node[q]]
      /\ UNCHANGED <<world, running, dead, dialled>>
  BY DEF Exchange
<1>2. Ends(c) \subseteq Proc /\ c \in dialled
  BY <1>1, RegistryAssumption DEF Ends, RegInv, InOrder
<1>3. ASSUME NEW q \in Proc
      PROVE  NodeInv(q, node'[q], {}) /\ AskedOf(node'[q]) /\ InOrder(node[q])'
  <2> DEFINE n == node[q]
             t == [n EXCEPT !.named = @ \cup {c}]
  <2>1. n \in Node /\ NodeInv(q, n, {}) /\ AskedOf(n) /\ InOrder(n)
    BY DEF RegInv
  <2>2. CASE q \notin Ends(c)
    <3>1. node'[q] = n
      BY <1>1, <2>2
    <3>2. c \notin n.opening \cup n.up
      BY <2>1, <2>2 DEF NodeInv, DialsOf, Ends
    <3>3. InOrder(node[q])'
      BY <1>1, <2>1, <3>1, <3>2 DEF InOrder
    <3>4. QED
      BY <2>1, <3>1, <3>3
  <2>3. CASE q \in Ends(c)
    <3>1. node'[q] = t
      BY <1>1, <2>3
    <3>2. /\ t \in Node
          /\ t.up = n.up /\ t.registered = n.registered /\ t.told = n.told /\ t.answer = n.answer
          /\ t.ready = n.ready /\ t.named = n.named \cup {c} /\ t.announcing = n.announcing
          /\ t.opening = n.opening /\ t.stale = n.stale /\ t.stopping = n.stopping
          /\ t.probing = n.probing /\ t.asked = n.asked
      BY <2>1 DEF Node
    <3> HIDE DEF t
    <3>3. Waiting(t) = Waiting(n)
      BY <3>2 DEF Waiting
    <3>4. NodeInv(q, t, {}) /\ AskedOf(t)
      BY <2>1, <3>2, <3>3 DEF NodeInv, DialsOf, ProbeOf, HeldOf, ToldOf, AskedOf
    <3>5. c \notin n.opening
      BY <1>1, <2>1, <2>3 DEF NodeInv, DialsOf
    <3>6. InOrder(node[q])'
      BY <1>1, <2>1, <3>1, <3>2, <3>5 DEF InOrder
    <3>7. QED
      BY <3>1, <3>4, <3>6
  <2>4. QED
    BY <2>2, <2>3
<1>4. node' \in [Proc -> Node]
  BY <1>1, <1>3 DEF NodeInv
<1>5. exchanged' \subseteq dialled' /\ dialled' \subseteq Conn
  BY <1>1, <1>2 DEF RegInv
<1>6. (\A q \in Proc : NodeInv(q, node[q], {}) /\ AskedOf(node[q]) /\ InOrder(node[q]))'
  BY <1>3
<1>7. QED
  BY <1>1, <1>4, <1>5, <1>6 DEF RegInv

(* An end closes. *)
LEMMA LinkClosesKeeps ==
    ASSUME RegInv, NEW p \in Proc, NEW c \in Conn, LinkCloses(p, c)
    PROVE  RegInv'
<1> DEFINE t == Closed(node[p], c)
<1>1. NodeInv(p, node[p], {}) /\ AskedOf(node[p]) /\ InOrder(node[p])
  BY DEF RegInv
<1>2. {} \ {c} = {}
  OBVIOUS
<1>3. NodeInv(p, t, {}) /\ Untouched(node[p], t)
  BY <1>1, <1>2, ClosedKeeps
<1>4. AskedOf(t) /\ InOrder(t)
  BY <1>1, <1>3, UntouchedKeeps
<1>5. node' = [node EXCEPT ![p] = t] /\ UNCHANGED <<world, running, dead, dialled, exchanged>>
  BY DEF LinkCloses, RegInv
<1>6. QED
  BY <1>3, <1>4, <1>5, OneNodeKeeps DEF RegInv

(* stop() closes everything, *)
LEMMA StopKeeps ==
    ASSUME RegInv, NEW p \in Proc, Stop(p)
    PROVE  RegInv'
<1> DEFINE n == node[p]
           told == [c \in Conn |-> IF c = n.registered THEN "disconnected" ELSE n.told[c]]
           dial == [c \in Conn |-> IF c \in n.up /\ n.dial[c] = "pending" THEN "rejected" ELSE n.dial[c]]
           answer == IF n.asked \in n.up THEN "silent" ELSE n.answer
           t == [n EXCEPT !.up = {}, !.registered = NoConn, !.told = told, !.dial = dial,
                          !.answer = answer, !.stale = n.opening, !.stopping = "closing"]
<1>1. n \in Node /\ NodeInv(p, n, {}) /\ AskedOf(n) /\ InOrder(n)
  BY DEF RegInv
<1>2. told \in [Conn -> Events] /\ dial \in [Conn -> Dials]
  BY <1>1 DEF Node, Events, Dials
<1>3. answer \in {"none", "alive", "silent"} /\ (answer # n.answer => n.asked \in n.up)
  BY <1>1 DEF Node
<1>4. /\ node' = [node EXCEPT ![p] = t]
      /\ UNCHANGED <<world, running, dead, dialled, exchanged>>
  BY <1>1 DEF Stop, Node
<1>5. \A c \in Conn : told[c] # "connected" \/ (c # n.registered /\ n.told[c] = "connected")
  OBVIOUS
<1> HIDE DEF told, dial, answer
<1>6. /\ t \in Node
      /\ t.up = {} /\ t.registered = NoConn /\ t.told = told /\ t.answer = answer
      /\ t.ready = n.ready /\ t.named = n.named /\ t.announcing = n.announcing
      /\ t.opening = n.opening /\ t.stale = n.opening /\ t.stopping = "closing"
      /\ t.probing = n.probing /\ t.asked = n.asked
  BY <1>1, <1>2, <1>3 DEF Node
<1> HIDE DEF t
<1>7. ToldOf(t)
  BY <1>1, <1>5, <1>6 DEF NodeInv, ToldOf
<1>8. Waiting(t) = Waiting(n)
  BY <1>6 DEF Waiting
<1>9. AskedOf(t)
  <2>1. n.asked \in n.up => n.asked # NoConn
    BY <1>1, RegistryAssumption DEF Node
  <2>2. QED
    BY <1>1, <1>3, <1>6, <2>1 DEF AskedOf
<1>10. NodeInv(p, t, {}) /\ InOrder(t)
  BY <1>1, <1>6, <1>7, <1>8 DEF NodeInv, DialsOf, ProbeOf, HeldOf, InOrder
<1>11. QED
  BY <1>4, <1>9, <1>10, OneNodeKeeps DEF RegInv

(* and forgets the rest once the transports have stopped. *)
LEMMA StopEndsKeeps ==
    ASSUME RegInv, NEW p \in Proc, StopEnds(p)
    PROVE  RegInv'
<1> DEFINE n == node[p]
           t == [n EXCEPT !.registered = NoConn, !.named = {}, !.stopping = "done"]
<1>1. n \in Node /\ NodeInv(p, n, {}) /\ AskedOf(n) /\ InOrder(n) /\ n.up = {} /\ n.registered = NoConn
  BY DEF RegInv, StopEnds, NodeInv, DialsOf
<1>2. /\ node' = [node EXCEPT ![p] = t]
      /\ UNCHANGED <<world, running, dead, dialled, exchanged>>
  BY <1>1 DEF StopEnds, RegInv
<1>3. /\ t \in Node
      /\ t.up = n.up /\ t.registered = NoConn /\ t.told = n.told /\ t.answer = n.answer
      /\ t.ready = n.ready /\ t.named = {} /\ t.announcing = n.announcing
      /\ t.opening = n.opening /\ t.stale = n.stale /\ t.stopping = "done"
      /\ t.probing = n.probing /\ t.asked = n.asked
  BY <1>1 DEF Node
<1> HIDE DEF t
<1>4. Waiting(t) = Waiting(n)
  BY <1>3 DEF Waiting
<1>5. NodeInv(p, t, {}) /\ AskedOf(t) /\ InOrder(t)
  BY <1>1, <1>3, <1>4 DEF NodeInv, DialsOf, ProbeOf, HeldOf, ToldOf, AskedOf, InOrder
<1>6. QED
  BY <1>2, <1>5, OneNodeKeeps DEF RegInv

(* Every step keeps it. *)
LEMMA RegNext ==
    RegInv /\ [Next]_vars => RegInv'
<1> SUFFICES ASSUME RegInv, [Next]_vars
             PROVE  RegInv'
  OBVIOUS
<1>1. CASE UNCHANGED vars
  BY <1>1 DEF vars, RegInv, InOrder
<1>2. ASSUME NEW c \in Conn, Dial(c) \/ Opens(c) \/ DialFails(c) \/ Exchange(c)
      PROVE  RegInv'
  BY <1>2, DialKeeps, OpensKeeps, DialFailsKeeps, ExchangeKeeps
<1>3. ASSUME NEW p \in Proc, NEW c \in Conn, Ready(p, c) \/ Announce(p, c) \/ LinkCloses(p, c)
      PROVE  RegInv'
  BY <1>3, ReadyKeeps, AnnounceKeeps, LinkClosesKeeps
<1>4. ASSUME NEW p \in Proc,
             ProbeAnswered(p) \/ ProbeTimesOut(p) \/ ProbeSettles(p) \/ Stop(p) \/ StopEnds(p)
      PROVE  RegInv'
  BY <1>4, AnswerKeeps, SettleKeeps, StopKeeps, StopEndsKeeps
<1>5. ASSUME NEW p \in Proc, Dies(p)
      PROVE  RegInv'
  <2>1. /\ running' \subseteq Proc /\ dead' \subseteq Proc \ running'
        /\ node' = [node EXCEPT ![p] = Fresh] /\ UNCHANGED <<world, dialled, exchanged>>
    BY <1>5 DEF Dies, RegInv
  <2>2. QED
    BY <2>1, FreshIs, OneNodeKeeps
<1>6. ASSUME NEW p \in Proc, Starts(p)
      PROVE  RegInv'
  <2>1. running' \subseteq Proc /\ dead' \subseteq Proc \ running'
    BY <1>6 DEF Starts, RegInv
  <2>2. UNCHANGED <<world, dialled, exchanged, node>>
    BY <1>6 DEF Starts
  <2>3. QED
    BY <2>1, <2>2 DEF RegInv, InOrder
<1>7. QED
  BY <1>1, <1>2, <1>3, <1>4, <1>5, <1>6 DEF Next

-----------------------------------------------------------------------------
(* What is asked before it is given up                                     *)

(* The probe of the connection that is registered has come back silent.    *)
Doubted(s) == s.answer = "silent" /\ s.registered = s.asked /\ s.asked # NoConn

(* What is asked does not itself wait, and without failures only that of   *)
(* which the other end has gone is doubted.                                *)
AskInv ==
    /\ \A p \in Proc : node[p].asked \notin Waiting(node[p])
    /\ ~world.faults => \A p \in Proc : Doubted(node[p]) => ~FarUp(p, node[p].asked)

(* From s to t nothing comes up that has been exchanged, what is doubted   *)
(* was before, and what is asked still does not wait.                      *)
Own(s, t) ==
    /\ t.up \cap exchanged \subseteq s.up
    /\ Doubted(t) => Doubted(s) /\ t.asked = s.asked
    /\ s.asked \notin Waiting(s) => t.asked \notin Waiting(t)

(* And nothing else is registered.                                         *)
Quiet(s, t) == Own(s, t) /\ t.registered \in {s.registered, NoConn}

(* Refusing leaves what is registered. *)
LEMMA RefusedIs ==
    ASSUME NEW p \in Proc, NEW s, NEW c \in Conn, NodeInv(p, s, {c})
    PROVE  LET t == Refused(s, c)
           IN  /\ t.registered = s.registered /\ t.asked = s.asked
               /\ t.answer = IF s.answer = "none" /\ s.asked = c THEN "silent" ELSE s.answer
<1> DEFINE r == Resolve(s, c)
           u == [r EXCEPT !.named = @ \ {c}]
<1>1. s \in Node /\ s.registered # c
  BY RegistryAssumption DEF NodeInv, HeldOf
<1>2. /\ r \in Node
      /\ r.registered = s.registered /\ r.answer = s.answer /\ r.asked = s.asked
  BY <1>1, ResolveIs
<1>3. Refused(s, c) = Closed(u, c)
  BY DEF Refused
<1> HIDE DEF r
<1>4. /\ u \in Node
      /\ u.registered = s.registered /\ u.answer = s.answer /\ u.asked = s.asked
  BY <1>2 DEF Node
<1> HIDE DEF u
<1> DEFINE t == Closed(u, c)
           lost == c \in u.named /\ u.registered = c
<1>5. /\ t \in Node
      /\ t.up = u.up \ {c}
      /\ t.registered = IF lost THEN NoConn ELSE u.registered
      /\ t.told = [x \in Conn |-> IF lost /\ x = c THEN "disconnected" ELSE u.told[x]]
      /\ t.answer = IF u.answer = "none" /\ u.asked = c THEN "silent" ELSE u.answer
      /\ t.ready = u.ready /\ t.named = u.named /\ t.announcing = u.announcing
      /\ t.opening = u.opening /\ t.stale = u.stale /\ t.stopping = u.stopping
      /\ t.probing = u.probing /\ t.asked = u.asked
  BY <1>4, ClosedIs
<1>6. QED
  BY <1>1, <1>3, <1>4, <1>5

(* Registering and retiring, as far as the probe goes. *)
LEMMA RegisteredIs ==
    ASSUME NEW s \in Node, NEW c \in Conn
    PROVE  LET t == Registered(s, c)
           IN  t.registered = c /\ t.asked = s.asked /\ t.answer = s.answer
<1> DEFINE r == Resolve(s, c)
<1>1. r \in Node /\ r.answer = s.answer /\ r.asked = s.asked
  BY ResolveIs
<1>2. Registered(s, c) = [r EXCEPT !.registered = c, !.announcing = @ \cup {c}]
  BY DEF Registered
<1> HIDE DEF r
<1>3. QED
  BY <1>1, <1>2 DEF Node

(* It answers a probe of the one that goes. *)
LEMMA SupersededIs ==
    ASSUME NEW s \in Node, s.registered # NoConn
    PROVE  LET t == Superseded(s)
           IN  /\ t.asked = s.asked
               /\ t.answer = IF s.answer = "none" /\ s.asked = s.registered THEN "silent" ELSE s.answer
<1> DEFINE e == s.registered
           told == [s.told EXCEPT ![e] = "disconnected"]
           u == [s EXCEPT !.registered = NoConn, !.named = @ \ {e}, !.told = told]
<1>1. e \in Conn
  BY DEF Node
<1>2. told \in [Conn -> Events]
  BY <1>1 DEF Node, Events
<1>3. Superseded(s) = Closed(u, e)
  BY <1>1 DEF Superseded, Node
<1> HIDE DEF told
<1>4. u \in Node /\ u.answer = s.answer /\ u.asked = s.asked
  BY <1>1, <1>2 DEF Node
<1> HIDE DEF u
<1> DEFINE t == Closed(u, e)
           lost == e \in u.named /\ u.registered = e
<1>5. /\ t \in Node
      /\ t.up = u.up \ {e}
      /\ t.registered = IF lost THEN NoConn ELSE u.registered
      /\ t.told = [x \in Conn |-> IF lost /\ x = e THEN "disconnected" ELSE u.told[x]]
      /\ t.answer = IF u.answer = "none" /\ u.asked = e THEN "silent" ELSE u.answer
      /\ t.ready = u.ready /\ t.named = u.named /\ t.announcing = u.announcing
      /\ t.opening = u.opening /\ t.stale = u.stale /\ t.stopping = u.stopping
      /\ t.probing = u.probing /\ t.asked = u.asked
  BY <1>1, <1>4, ClosedIs
<1>6. QED
  BY <1>3, <1>4, <1>5

(* Whatever is decided about one that is not asked itself: what is doubted *)
(* afterwards was before, and an answer that is out stays.                 *)
LEMMA AdmittedIs ==
    ASSUME NEW p \in Proc, NEW s, NEW c \in Conn, NodeInv(p, s, {c}), c \in s.named,
           s.answer = "none" \/ s.asked # c
    PROVE  LET t == Admitted(p, s, c)
           IN  t.registered \in {c, s.registered} /\ (Doubted(t) => Doubted(s))
<1> DEFINE t == Admitted(p, s, c)
<1>1. s \in Node /\ c # NoConn /\ s.registered # c
  BY RegistryAssumption DEF NodeInv, HeldOf
<1>2. CASE s.registered = NoConn
  <2>1. t.registered = c /\ t.asked = s.asked /\ t.answer = s.answer
    BY <1>1, <1>2, RegisteredIs DEF Admitted
  <2>2. QED
    BY <2>1 DEF Doubted
<1>3. CASE s.registered # NoConn /\ keepsExisting(p, s.registered, c)
  <2>1. /\ t.registered = s.registered /\ t.asked = s.asked
        /\ t.answer = IF s.answer = "none" /\ s.asked = c THEN "silent" ELSE s.answer
    BY <1>3, RefusedIs DEF Admitted
  <2>2. QED
    BY <1>1, <2>1 DEF Doubted
<1>4. CASE s.registered # NoConn /\ ~keepsExisting(p, s.registered, c)
  <2> DEFINE r == Superseded(s)
  <2>1. r \in Node
    BY <1>4, SupersededKeeps DEF NodeInv
  <2>2. /\ r.asked = s.asked
        /\ r.answer = IF s.answer = "none" /\ s.asked = s.registered THEN "silent" ELSE s.answer
    BY <1>1, <1>4, SupersededIs
  <2>3. t = Registered(r, c)
    BY <1>4 DEF Admitted
  <2> HIDE DEF r
  <2>4. t.registered = c /\ t.asked = r.asked /\ t.answer = r.answer
    BY <2>1, <2>3, RegisteredIs
  <2>5. QED
    BY <1>1, <2>2, <2>4 DEF Doubted
<1>5. QED
  BY <1>2, <1>3, <1>4

(* The steps of sockets, and of what is announced. *)
LEMMA SocketsAreQuiet ==
    ASSUME RegInv, NEW c \in Conn,
           Dial(c) \/ Opens(c) \/ DialFails(c) \/ Exchange(c) \/ \E q \in Proc : Announce(q, c),
           NEW p \in Proc
    PROVE  Quiet(node[p], node'[p])
<1> DEFINE n == node[p]
           t == node'[p]
<1>1. n \in Node /\ InOrder(n) /\ node \in [Proc -> Node]
  BY DEF RegInv
<1>2. /\ t.registered = n.registered /\ t.asked = n.asked /\ t.answer = n.answer
      /\ t.probing = n.probing
      /\ t.up \cap exchanged \subseteq n.up
  <2>1. CASE Dial(c)
    BY <1>1, <2>1 DEF Dial, Node
  <2>2. CASE Opens(c)
    <3>1. c \notin exchanged
      BY <2>2, RegistryAssumption DEF Opens, RegInv, InOrder
    <3>2. Dialler[c] # Listener[c]
      BY RegistryAssumption
    <3> DEFINE d == Dialler[c]
               l == Listener[c]
               o == [node[d] EXCEPT !.opening = @ \ {c}]
               td == IF c \in o.stale THEN [o EXCEPT !.dial[c] = "rejected"]
                                      ELSE [o EXCEPT !.up = @ \cup {c}]
               tl == [node[l] EXCEPT !.up = @ \cup {c}]
    <3>3. node' = [node EXCEPT ![l].up = @ \cup {c}, ![d] = td]
      BY <2>2 DEF Opens
    <3>4. t = IF p = d THEN td ELSE IF p = l THEN tl ELSE n
      BY <1>1, <3>2, <3>3
    <3>5. CASE p = d
      BY <1>1, <3>1, <3>4, <3>5 DEF Node
    <3>6. CASE p # d
      BY <1>1, <3>1, <3>4, <3>6 DEF Node
    <3>7. QED
      BY <3>5, <3>6
  <2>3. CASE DialFails(c)
    BY <1>1, <2>3 DEF DialFails, Node
  <2>4. CASE Exchange(c)
    BY <1>1, <2>4 DEF Exchange, Node
  <2>5. CASE \E q \in Proc : Announce(q, c)
    BY <1>1, <2>5 DEF Announce, Node
  <2>6. QED
    BY <2>1, <2>2, <2>3, <2>4, <2>5
<1> HIDE DEF n, t
<1>3. Waiting(t) = Waiting(n)
  BY <1>2 DEF Waiting
<1>4. QED
  BY <1>2, <1>3 DEF Quiet, Own, Doubted, n, t

(* What closes, ends or begins. *)
LEMMA EndsAreQuiet ==
    ASSUME RegInv, NEW q \in Proc,
           Stop(q) \/ StopEnds(q) \/ Dies(q) \/ Starts(q) \/ \E c \in Conn : LinkCloses(q, c),
           NEW p \in Proc
    PROVE  Quiet(node[p], node'[p])
<1> DEFINE n == node[q]
           t == node'[q]
<1>1. n \in Node /\ NodeInv(q, n, {}) /\ node \in [Proc -> Node]
  BY DEF RegInv
<1>2. ASSUME NEW s
      PROVE  Quiet(s, s)
  BY DEF Quiet, Own
<1>3. (p # q => node'[p] = node[p]) /\ Quiet(n, t)
  <2>1. CASE Stop(q)
    <3>1. t.up = {} /\ t.registered = NoConn /\ t.asked = n.asked /\ t.probing = n.probing
      BY <1>1, <2>1 DEF Stop, Node
    <3>2. p # q => node'[p] = node[p]
      BY <1>1, <2>1 DEF Stop
    <3> HIDE DEF n, t
    <3>3. Waiting(t) = Waiting(n)
      BY <3>1 DEF Waiting
    <3>4. QED
      BY <3>1, <3>2, <3>3 DEF Quiet, Own, Doubted
  <2>2. CASE StopEnds(q)
    <3>1. /\ t.up = n.up /\ t.registered = NoConn /\ t.asked = n.asked /\ t.probing = n.probing
          /\ (p # q => node'[p] = node[p])
      BY <1>1, <2>2 DEF StopEnds, Node
    <3> HIDE DEF n, t
    <3>2. Waiting(t) = Waiting(n)
      BY <3>1 DEF Waiting
    <3>3. QED
      BY <3>1, <3>2 DEF Quiet, Own, Doubted
  <2>3. CASE Dies(q)
    <3>1. t = Fresh /\ (p # q => node'[p] = node[p])
      BY <1>1, <2>3 DEF Dies
    <3>2. Waiting(Fresh) = {} /\ Fresh.up = {} /\ Fresh.registered = NoConn /\ Fresh.asked = NoConn
      BY DEF Waiting, Fresh
    <3>3. QED
      BY <3>1, <3>2 DEF Quiet, Own, Doubted
  <2>4. CASE Starts(q)
    BY <1>2, <2>4 DEF Starts
  <2>5. ASSUME NEW c \in Conn, LinkCloses(q, c)
        PROVE  (p # q => node'[p] = node[p]) /\ Quiet(n, t)
    <3>1. t = Closed(n, c) /\ (p # q => node'[p] = node[p])
      BY <1>1, <2>5 DEF LinkCloses
    <3>2. n.registered = c => c \in n.named
      BY <1>1, RegistryAssumption DEF NodeInv, HeldOf
    <3> DEFINE k == Closed(n, c)
               lost == c \in n.named /\ n.registered = c
    <3>3. /\ k \in Node
          /\ k.up = n.up \ {c}
          /\ k.registered = IF lost THEN NoConn ELSE n.registered
          /\ k.told = [x \in Conn |-> IF lost /\ x = c THEN "disconnected" ELSE n.told[x]]
          /\ k.answer = IF n.answer = "none" /\ n.asked = c THEN "silent" ELSE n.answer
          /\ k.ready = n.ready /\ k.named = n.named /\ k.announcing = n.announcing
          /\ k.opening = n.opening /\ k.stale = n.stale /\ k.stopping = n.stopping
          /\ k.probing = n.probing /\ k.asked = n.asked
      BY <1>1, ClosedIs
    <3>4. t = k
      BY <3>1
    <3> HIDE DEF n, t, k
    <3>5. Waiting(t) = Waiting(n)
      BY <3>3, <3>4 DEF Waiting
    <3>6. QED
      BY <3>1, <3>2, <3>3, <3>4, <3>5 DEF Quiet, Own, Doubted
  <2>6. QED
    BY <2>1, <2>2, <2>3, <2>4, <2>5
<1>4. QED
  BY <1>2, <1>3

(* A connection that is ready. *)
LEMMA ReadyIsOwn ==
    ASSUME RegInv, NEW q \in Proc, NEW c \in Conn, Ready(q, c), NEW p \in Proc
    PROVE  /\ Own(node[p], node'[p])
           /\ p # q => node'[p] = node[p]
           /\ node'[q].registered \in {c, node[q].registered}
           /\ MustProbe(q, c) => node'[q].registered = node[q].registered
<1> DEFINE n == node[q]
           s == [n EXCEPT !.ready = @ \cup {c}]
           a == Admitted(q, s, c)
           b == [s EXCEPT !.probing = Append(@, c), !.asked = s.registered]
<1>1. /\ n \in Node /\ NodeInv(q, n, {}) /\ InOrder(n) /\ c \in exchanged
      /\ c \in n.up \ n.ready /\ n.answer = "none"
  BY DEF RegInv, Ready, Turn
<1>2. /\ s \in Node
      /\ s.up = n.up /\ s.registered = n.registered /\ s.told = n.told /\ s.answer = n.answer
      /\ s.ready = n.ready \cup {c} /\ s.named = n.named /\ s.announcing = n.announcing
      /\ s.opening = n.opening /\ s.stale = n.stale /\ s.stopping = n.stopping
      /\ s.probing = n.probing /\ s.asked = n.asked
  BY <1>1 DEF Node
<1>3. node' = [node EXCEPT ![q] = IF MustProbe(q, c) THEN b ELSE a]
  BY DEF Ready
<1>4. node'[q] = (IF MustProbe(q, c) THEN b ELSE a) /\ (p # q => node'[p] = node[p])
  BY <1>3 DEF RegInv
<1> HIDE DEF s
<1>5. Waiting(s) = Waiting(n) /\ c \notin Waiting(n)
  BY <1>1, <1>2 DEF Waiting, NodeInv, ProbeOf
<1>6. HeldOf(s, {c})
  BY <1>1, <1>2, <1>5 DEF NodeInv, HeldOf
<1>7. NodeInv(q, s, {c}) /\ c \in s.named
  BY <1>1, <1>2, <1>5, <1>6 DEF NodeInv, DialsOf, ProbeOf, ToldOf, InOrder
<1>8. ~Doubted(n) /\ ~Doubted(s)
  BY <1>1, <1>2 DEF Doubted
<1>9. CASE ~MustProbe(q, c)
  <2>1. a.registered \in {c, s.registered} /\ (Doubted(a) => Doubted(s))
    BY <1>1, <1>2, <1>7, AdmittedIs
  <2>2. a.up \subseteq s.up /\ a.probing = s.probing /\ a.asked = s.asked
    BY <1>7, AdmittedKeeps DEF Untouched
  <2> HIDE DEF a
  <2>3. Waiting(a) = Waiting(n)
    BY <1>2, <2>2 DEF Waiting
  <2>4. Own(n, a)
    BY <1>2, <1>8, <2>1, <2>2, <2>3 DEF Own
  <2>5. node'[q] = a
    BY <1>4, <1>9
  <2>6. p # q => Own(node[p], node'[p])
    BY <1>4 DEF Own
  <2>7. QED
    BY <1>2, <1>4, <1>9, <2>1, <2>4, <2>5, <2>6
<1>10. CASE MustProbe(q, c)
  <2>1. s.registered # NoConn /\ s.registered \in Conn /\ s.registered # c
    BY <1>2, <1>7, <1>10 DEF MustProbe, Node, NodeInv, HeldOf
  <2>2. Append(s.probing, c) \in Seq(Conn) /\ s.probing \in Seq(Conn)
    BY <1>2 DEF Node
  <2>3. /\ b.up = s.up /\ b.registered = s.registered /\ b.answer = s.answer
        /\ b.probing = Append(s.probing, c) /\ b.asked = s.registered
    BY <1>2, <2>1, <2>2 DEF Node
  <2> HIDE DEF b
  <2>4. \A i \in DOMAIN b.probing : b.probing[i] = c \/ (i \in DOMAIN s.probing /\ b.probing[i] = s.probing[i])
    BY <2>2, <2>3
  <2>5. Waiting(b) \subseteq Waiting(s) \cup {c}
    BY <2>4 DEF Waiting
  <2>6. s.registered \notin Waiting(s)
    BY <1>6, <2>1 DEF HeldOf
  <2>7. Own(n, b)
    BY <1>1, <1>2, <2>1, <2>3, <2>5, <2>6 DEF Own, Doubted
  <2>8. node'[q] = b
    BY <1>4, <1>10
  <2>9. p # q => Own(node[p], node'[p])
    BY <1>4 DEF Own
  <2>10. QED
    BY <1>2, <1>4, <2>3, <2>7, <2>8, <2>9
<1>11. QED
  BY <1>9, <1>10

(* One of those who waited: it is not the one asked, so that what was      *)
(* asked is kept if it answered.                                           *)
LEMMA SettleIsOwn ==
    ASSUME RegInv, AskInv, NEW q \in Proc, ProbeSettles(q), NEW p \in Proc
    PROVE  /\ Own(node[p], node'[p])
           /\ p # q => node'[p] = node[p]
           /\ node[q].answer = "alive" /\ node[q].asked = node[q].registered
                => node'[q].registered = node[q].registered
<1> DEFINE n == node[q]
           c == Head(n.probing)
           rest == Tail(n.probing)
           s == [n EXCEPT !.probing = rest]
           t == ProbeOutcome(q, s, c)
           u == [t EXCEPT !.asked = NoConn, !.answer = "none"]
<1>1. n \in Node /\ NodeInv(q, n, {}) /\ AskedOf(n) /\ InOrder(n) /\ n.answer # "none"
  BY DEF RegInv, ProbeSettles
<1>2. n.probing \in Seq(Conn) /\ n.probing # <<>> /\ n.asked # NoConn
  BY <1>1 DEF Node, AskedOf
<1>3. node' = [node EXCEPT ![q] = IF rest = <<>> THEN u ELSE t]
  BY DEF ProbeSettles
<1>4. node'[q] = (IF rest = <<>> THEN u ELSE t) /\ (p # q => node'[p] = node[p])
  BY <1>3 DEF RegInv
<1>5. /\ c \in Conn /\ rest \in Seq(Conn)
      /\ Waiting(n) = {c} \cup {rest[i] : i \in DOMAIN rest}
      /\ c \notin {rest[i] : i \in DOMAIN rest}
      /\ \A i, j \in DOMAIN rest : rest[i] = rest[j] => i = j
  BY <1>1, <1>2, HeadAndTail DEF NodeInv, ProbeOf, Waiting
<1> HIDE DEF c, rest
<1>6. /\ s \in Node
      /\ s.up = n.up /\ s.registered = n.registered /\ s.told = n.told /\ s.answer = n.answer
      /\ s.ready = n.ready /\ s.named = n.named /\ s.announcing = n.announcing
      /\ s.opening = n.opening /\ s.stale = n.stale /\ s.stopping = n.stopping
      /\ s.probing = rest /\ s.asked = n.asked
  BY <1>1, <1>5 DEF Node
<1> HIDE DEF s
<1>7. Waiting(s) = {rest[i] : i \in DOMAIN rest}
  BY <1>6 DEF Waiting
<1>8. HeldOf(s, {c} \cap s.up)
  BY <1>1, <1>5, <1>6, <1>7 DEF NodeInv, HeldOf, ProbeOf
<1>9. NodeInv(q, s, {c} \cap s.up)
  BY <1>1, <1>5, <1>6, <1>7, <1>8 DEF NodeInv, DialsOf, ProbeOf, ToldOf
<1>10. c \in s.up => c \in s.named
  BY <1>1, <1>5, <1>6 DEF NodeInv, ProbeOf, InOrder
<1>11. n.asked \notin Waiting(n) /\ s.asked # c
  BY <1>5, <1>6 DEF AskInv
<1>12. /\ t \in Node /\ t.up \subseteq s.up /\ t.probing = s.probing /\ t.asked = s.asked
  BY <1>5, <1>9, <1>10, ProbeOutcomeKeeps DEF Untouched, NodeInv
<1>13. /\ Doubted(t) => Doubted(s)
       /\ s.answer = "alive" /\ s.asked = s.registered => t.registered = s.registered
  <2>1. CASE c \notin s.up
    BY <2>1 DEF ProbeOutcome
  <2>2. CASE c \in s.up
    <3>1. {c} \cap s.up = {c}
      BY <2>2
    <3>2. NodeInv(q, s, {c}) /\ c \in s.named
      BY <1>9, <1>10, <2>2, <3>1
    <3>3. CASE s.answer = "alive" /\ s.registered = s.asked
      <4>1. t = Refused(s, c)
        BY <2>2, <3>3 DEF ProbeOutcome
      <4>2. t.registered = s.registered /\ t.answer = s.answer
        BY <1>1, <1>5, <1>6, <3>2, <4>1, RefusedIs
      <4>3. QED
        BY <3>3, <4>2 DEF Doubted
    <3>4. CASE ~(s.answer = "alive" /\ s.registered = s.asked)
      <4>1. t = Admitted(q, s, c)
        BY <2>2, <3>4 DEF ProbeOutcome
      <4>2. QED
        BY <1>5, <1>11, <3>2, <3>4, <4>1, AdmittedIs
    <3>5. QED
      BY <3>3, <3>4
  <2>3. QED
    BY <2>1, <2>2
<1> HIDE DEF t
<1>14. Waiting(t) = Waiting(s)
  BY <1>12 DEF Waiting
<1>15. Doubted(s) <=> Doubted(n)
  BY <1>6 DEF Doubted
<1>16. Own(n, t)
  BY <1>5, <1>6, <1>7, <1>11, <1>12, <1>13, <1>14, <1>15 DEF Own
<1>17. /\ u.up = t.up /\ u.registered = t.registered /\ u.probing = t.probing
       /\ u.asked = NoConn /\ u.answer = "none"
  BY <1>12 DEF Node
<1> HIDE DEF u
<1>18. Waiting(u) = Waiting(t) /\ NoConn \notin Waiting(t)
  <2>1. Waiting(u) = Waiting(t)
    BY <1>17 DEF Waiting
  <2>2. Waiting(t) \subseteq Conn
    BY <1>1, <1>5, <1>7, <1>14, RegistryAssumption DEF NodeInv, ProbeOf, Node
  <2>3. QED
    BY <2>1, <2>2, RegistryAssumption
<1>19. Own(n, u)
  BY <1>16, <1>17, <1>18 DEF Own, Doubted
<1>20. p # q => Own(node[p], node'[p])
  BY <1>4 DEF Own
<1>21. QED
  BY <1>4, <1>6, <1>13, <1>16, <1>17, <1>19, <1>20

(* An answer changes neither what is registered nor who is asked, and only *)
(* silence of one whose other end has gone makes it doubted.               *)
LEMMA AnswerIs ==
    ASSUME RegInv, NEW q \in Proc, ProbeAnswered(q) \/ ProbeTimesOut(q), NEW p \in Proc
    PROVE  LET n == node[p]
               t == node'[p]
           IN  /\ t.up = n.up /\ t.registered = n.registered
               /\ t.asked = n.asked /\ t.probing = n.probing
               /\ Doubted(t) => \/ Doubted(n)
                                \/ world.faults \/ ~FarUp(p, n.asked)
<1>1. node[p] \in Node /\ node \in [Proc -> Node]
  BY DEF RegInv
<1>2. CASE ProbeAnswered(q)
  BY <1>1, <1>2 DEF ProbeAnswered, Doubted, Node
<1>3. CASE ProbeTimesOut(q)
  BY <1>1, <1>3 DEF ProbeTimesOut, Doubted, Node
<1>4. QED
  BY <1>2, <1>3

(* What keeps the ends of what has been exchanged down keeps it.           *)
LEMMA AskKept ==
    ASSUME RegInv, AskInv, world' = world,
           \A p \in Proc :
               /\ node'[p].up \cap exchanged \subseteq node[p].up
               /\ node'[p].asked \notin Waiting(node'[p])
               /\ Doubted(node'[p]) =>
                    /\ node'[p].asked = node[p].asked /\ node'[p].registered = node[p].registered
                    /\ Doubted(node[p]) \/ world.faults \/ ~FarUp(p, node[p].asked)
    PROVE  AskInv'
<1>1. ASSUME NEW p \in Proc, ~world.faults, Doubted(node'[p])
      PROVE  node'[p].asked \notin node'[Far(p, node'[p].asked)].up
  <2> DEFINE d == node[p].asked
  <2>1. node'[p].asked = d /\ ~FarUp(p, d)
    BY <1>1 DEF AskInv
  <2>2. d = node[p].registered /\ d # NoConn
    BY <1>1, <2>1 DEF Doubted
  <2>3. d \in Conn /\ d \in exchanged
    BY <2>2 DEF RegInv, NodeInv, HeldOf, InOrder, Node
  <2>4. Far(p, d) \in Proc
    BY <2>3, RegistryAssumption DEF Far
  <2>5. QED
    BY <2>1, <2>3, <2>4 DEF FarUp
<1>2. (\A p \in Proc : node[p].asked \notin Waiting(node[p]))'
  BY DEF Waiting
<1>3. (\A p \in Proc : Doubted(node[p]) => ~FarUp(p, node[p].asked))' \/ world.faults
  BY <1>1 DEF FarUp, Far, Doubted
<1>4. QED
  BY <1>2, <1>3 DEF AskInv

(* Every step keeps it. *)
LEMMA AskNext ==
    RegInv /\ AskInv /\ [Next]_vars => AskInv'
<1> SUFFICES ASSUME RegInv, AskInv, [Next]_vars
             PROVE  AskInv'
  OBVIOUS
<1>1. CASE UNCHANGED vars
  BY <1>1 DEF vars, AskInv, Waiting, Doubted, FarUp, Far
<1>2. world' = world
  <2>1. ASSUME NEW c \in Conn, Dial(c) \/ Opens(c) \/ DialFails(c) \/ Exchange(c)
        PROVE  world' = world
    BY <2>1 DEF Dial, Opens, DialFails, Exchange
  <2>2. ASSUME NEW q \in Proc, ProbeAnswered(q) \/ ProbeTimesOut(q) \/ ProbeSettles(q)
        PROVE  world' = world
    BY <2>2 DEF ProbeAnswered, ProbeTimesOut, ProbeSettles
  <2>3. ASSUME NEW q \in Proc, Stop(q) \/ StopEnds(q) \/ Dies(q) \/ Starts(q)
        PROVE  world' = world
    BY <2>3 DEF Stop, StopEnds, Dies, Starts
  <2>4. ASSUME NEW q \in Proc, NEW c \in Conn, Ready(q, c) \/ Announce(q, c) \/ LinkCloses(q, c)
        PROVE  world' = world
    BY <2>4 DEF Ready, Announce, LinkCloses
  <2>5. QED
    BY <2>1, <2>2, <2>3, <2>4 DEF Next, vars
<1>3. ASSUME \A p \in Proc : Own(node[p], node'[p])
      PROVE  AskInv'
  <2>1. ASSUME NEW p \in Proc
        PROVE  /\ node'[p].up \cap exchanged \subseteq node[p].up
               /\ node'[p].asked \notin Waiting(node'[p])
               /\ Doubted(node'[p]) =>
                    /\ node'[p].asked = node[p].asked /\ node'[p].registered = node[p].registered
                    /\ Doubted(node[p])
    BY <1>3 DEF Own, Doubted, AskInv
  <2>2. QED
    BY <1>2, <2>1, AskKept
<1>4. ASSUME NEW c \in Conn,
             Dial(c) \/ Opens(c) \/ DialFails(c) \/ Exchange(c) \/ \E q \in Proc : Announce(q, c)
      PROVE  AskInv'
  BY <1>3, <1>4, SocketsAreQuiet DEF Quiet
<1>5. ASSUME NEW q \in Proc,
             Stop(q) \/ StopEnds(q) \/ Dies(q) \/ Starts(q) \/ \E c \in Conn : LinkCloses(q, c)
      PROVE  AskInv'
  BY <1>3, <1>5, EndsAreQuiet DEF Quiet
<1>6. ASSUME NEW q \in Proc, NEW c \in Conn, Ready(q, c)
      PROVE  AskInv'
  BY <1>3, <1>6, ReadyIsOwn
<1>7. ASSUME NEW q \in Proc, ProbeSettles(q)
      PROVE  AskInv'
  BY <1>3, <1>7, SettleIsOwn
<1>8. ASSUME NEW q \in Proc, ProbeAnswered(q) \/ ProbeTimesOut(q)
      PROVE  AskInv'
  <2>1. ASSUME NEW p \in Proc
        PROVE  /\ node'[p].up \cap exchanged \subseteq node[p].up
               /\ node'[p].asked \notin Waiting(node'[p])
               /\ Doubted(node'[p]) =>
                    /\ node'[p].asked = node[p].asked /\ node'[p].registered = node[p].registered
                    /\ Doubted(node[p]) \/ world.faults \/ ~FarUp(p, node[p].asked)
    <3> DEFINE n == node[p]
               t == node'[p]
    <3>1. /\ t.up = n.up /\ t.registered = n.registered
          /\ t.asked = n.asked /\ t.probing = n.probing
          /\ Doubted(t) => Doubted(n) \/ world.faults \/ ~FarUp(p, n.asked)
      BY <1>8, AnswerIs
    <3> HIDE DEF n, t
    <3>2. Waiting(t) = Waiting(n)
      BY <3>1 DEF Waiting
    <3>3. n.asked \notin Waiting(n)
      BY DEF AskInv, n
    <3>4. QED
      BY <3>1, <3>2, <3>3 DEF n, t
  <2>2. QED
    BY <1>2, <2>1, AskKept
<1>9. QED
  BY <1>1, <1>4, <1>5, <1>6, <1>7, <1>8 DEF Next

(* Nobody has asked at first. *)
LEMMA AskInitially ==
    Init => AskInv
<1> SUFFICES ASSUME Init
             PROVE  AskInv
  OBVIOUS
<1>1. \A p \in Proc : node[p] = Fresh
  BY DEF Init
<1>2. Waiting(Fresh) = {} /\ ~Doubted(Fresh)
  BY DEF Waiting, Doubted, Fresh
<1>3. QED
  BY <1>1, <1>2 DEF AskInv

(* Only a probe that came back silent replaces what is registered by       *)
(* another instance.                                                       *)
LEMMA AskedStep ==
    ASSUME RegInv, AskInv, [Next]_vars, ~world.faults, NEW p \in Proc,
           node[p].answer = "none" \/ node[p].asked = node[p].registered
    PROVE  ~GivesUpLive(p)
<1> SUFFICES ASSUME GivesUpLive(p)
             PROVE  FALSE
  OBVIOUS
<1> DEFINE held == node[p].registered
           new == node'[p].registered
<1>1. held # NoConn /\ new # NoConn /\ held # new /\ ~SameInstance(p, held, new) /\ FarUp(p, held)
  BY DEF GivesUpLive
<1>2. CASE UNCHANGED vars
  BY <1>1, <1>2 DEF vars
<1>3. ASSUME NEW c \in Conn,
             Dial(c) \/ Opens(c) \/ DialFails(c) \/ Exchange(c) \/ \E q \in Proc : Announce(q, c)
      PROVE  FALSE
  BY <1>1, <1>3, SocketsAreQuiet DEF Quiet
<1>4. ASSUME NEW q \in Proc,
             Stop(q) \/ StopEnds(q) \/ Dies(q) \/ Starts(q) \/ \E c \in Conn : LinkCloses(q, c)
      PROVE  FALSE
  BY <1>1, <1>4, EndsAreQuiet DEF Quiet
<1>5. ASSUME NEW q \in Proc, NEW c \in Conn, Ready(q, c)
      PROVE  FALSE
  <2>1. p = q /\ new = c /\ ~MustProbe(q, c)
    BY <1>1, <1>5, ReadyIsOwn
  <2>2. QED
    BY <1>1, <2>1 DEF MustProbe
<1>6. ASSUME NEW q \in Proc, ProbeSettles(q)
      PROVE  FALSE
  <2>1. p = q /\ ~(node[p].answer = "alive" /\ node[p].asked = held)
    BY <1>1, <1>6, SettleIsOwn
  <2>2. node[p].answer # "none" /\ node[p].answer \in {"none", "alive", "silent"}
    BY <1>6, <2>1 DEF ProbeSettles, RegInv, Node
  <2>3. Doubted(node[p])
    BY <1>1, <2>1, <2>2 DEF Doubted
  <2>4. QED
    BY <1>1, <2>3 DEF AskInv, Doubted
<1>7. ASSUME NEW q \in Proc, ProbeAnswered(q) \/ ProbeTimesOut(q)
      PROVE  FALSE
  BY <1>1, <1>7, AnswerIs
<1>8. QED
  BY <1>2, <1>3, <1>4, <1>5, <1>6, <1>7 DEF Next

-----------------------------------------------------------------------------
(* The state is what it is said to be, for every set of processes.         *)
THEOREM TypeCorrect ==
    Spec => []TypeOK
<1>1. RegInv => TypeOK
  BY DEF RegInv, AskedOf, TypeOK
<1>2. QED
  BY <1>1, RegInitially, RegNext, PTL DEF Spec

(* Whatever the duplicate rule, the probes, restarts and stop() do, no     *)
(* connection of a process is up and ready with nobody holding it          *)
(* (AnySocket.js: onProtocolReady, onPeerDisconnected).                    *)
THEOREM NoOrphansHolds ==
    Spec => []NoOrphans
<1>1. RegInv => NoOrphans
  BY DEF RegInv, NodeInv, HeldOf, Waiting, NoOrphans
<1>2. QED
  BY <1>1, RegInitially, RegNext, PTL DEF Spec

(* The application is told of what the registry holds, and of nothing else *)
(* (AnySocket.js: onProtocolReady, onPeerDisconnected).                     *)
THEOREM EventsMatchHolds ==
    Spec => []EventsMatch
<1>1. RegInv => EventsMatch
  BY DEF RegInv, NodeInv, ToldOf, EventsMatch
<1>2. QED
  BY <1>1, RegInitially, RegNext, PTL DEF Spec

(* Nothing dialled before a stop() comes up after it (AnySocket.js: stop,  *)
(* connect).                                                               *)
THEOREM NothingComesBackHolds ==
    Spec => []NothingComesBack
<1>1. RegInv => NothingComesBack
  BY DEF RegInv, NodeInv, DialsOf, NothingComesBack
<1>2. QED
  BY <1>1, RegInitially, RegNext, PTL DEF Spec

(* Without failures the connection that was asked is kept while its other  *)
(* end is there, and none is given up for another instance without having  *)
(* been asked (AnySocket.js: onProtocolReady, probeExisting).              *)
THEOREM AskedIsKeptHolds ==
    Spec => AskedIsKept
<1>1. RegInv /\ AskInv /\ [Next]_vars
        => [~world.faults => \A p \in Proc :
              node[p].answer = "none" \/ node[p].asked = node[p].registered => ~GivesUpLive(p)]_vars
  BY AskedStep
<1>2. Init => RegInv /\ AskInv
  BY RegInitially, AskInitially
<1>3. RegInv /\ AskInv /\ [Next]_vars => (RegInv /\ AskInv)'
  BY RegNext, AskNext
<1>4. QED
  BY <1>1, <1>2, <1>3, PTL DEF Spec, AskedIsKept
=============================================================================
