----------------------------- MODULE SendPathProofs -----------------------------
(***************************************************************************)
(* What the way out of a connection keeps, for every set of messages, cut  *)
(* into any number of chunks, and every window.                            *)
(*                                                                         *)
(* The invariant follows the frames through the packet queue: how often a  *)
(* message is in it (Total), which of its chunks have been in it           *)
(* (Somewhere), and in which order (Rising, Above).  All three are stated  *)
(* of any sequence and carried over concatenation, so that what the queue  *)
(* does is a matter of cutting it and putting the parts together (RunIs).  *)
(***************************************************************************)
EXTENDS SendPath, QueueProofs

-----------------------------------------------------------------------------
(* Sequences                                                               *)

(* There is a frame with chunk c of m among items; *)
At(items, m, c) == \E i \in DOMAIN items : items[i].msg = m /\ items[i].chunk = c

(* it waits in the packet queue p, or has been written;                    *)
Somewhere(p, m, c) == At(p.wire, m, c) \/ At(p.held, m, c) \/ At(p.queue, m, c)

(* so many frames of m have not left the queue.                            *)
Total(p, m) == InQueue(p.held, m) + InQueue(p.queue, m) + InQueue(p.hand, m)

(* The chunks of a message come in order within items, *)
Rising(items) ==
    \A i, j \in DOMAIN items :
        i < j /\ items[i].msg = items[j].msg => items[i].chunk < items[j].chunk

(* and go on in later. *)
Above(items, later) ==
    \A m \in Msg, c, d \in Nat : At(items, m, c) /\ At(later, m, d) => c < d

(* No message is further than its first chunk. *)
FirstChunks(items) == \A m \in Msg, c \in Nat : At(items, m, c) => c = 1

(* How often m is in a sequence is a number, *)
LEMMA CountType ==
    ASSUME NEW T, NEW s \in Seq(T), NEW m
    PROVE  InQueue(s, m) \in Nat /\ (InQueue(s, m) = 0 <=> \A i \in DOMAIN s : s[i].msg # m)
<1> DEFINE S == {i \in DOMAIN s : s[i].msg = m}
<1>1. DOMAIN s = 1..Len(s) /\ Len(s) \in Nat
    OBVIOUS
<1>2. IsFiniteSet(S)
  <2>1. IsFiniteSet(1..Len(s))
      BY <1>1, FS_Interval
  <2> QED
      BY <1>1, <2>1, FS_Subset
<1>3. Cardinality(S) \in Nat /\ (Cardinality(S) = 0 <=> S = {})
    BY <1>2, FS_CardinalityType, FS_EmptySet
<1> QED
    BY <1>3 DEF InQueue

(* and in two in a row it is as often as in both. *)
LEMMA CountConcat ==
    ASSUME NEW T, NEW s \in Seq(T), NEW t \in Seq(T), NEW m
    PROVE  InQueue(s \o t, m) = InQueue(s, m) + InQueue(t, m)
<1> DEFINE u == s \o t
           n == Len(s)
           S == {i \in DOMAIN s : s[i].msg = m}
           R == {i \in DOMAIN t : t[i].msg = m}
           V == {i \in DOMAIN u : u[i].msg = m}
           W == {i \in V : i > n}
           shift == [i \in R |-> i + n]
<1>1. /\ n \in Nat /\ Len(t) \in Nat
      /\ DOMAIN s = 1..n /\ DOMAIN t = 1..Len(t) /\ DOMAIN u = 1..(n + Len(t))
      /\ \A i \in 1..n : u[i] = s[i]
      /\ \A i \in 1..Len(t) : u[i + n] = t[i]
    OBVIOUS
<1>2. IsFiniteSet(S) /\ IsFiniteSet(R) /\ IsFiniteSet(V)
  <2>1. IsFiniteSet(1..n) /\ IsFiniteSet(1..Len(t)) /\ IsFiniteSet(1..(n + Len(t)))
      BY <1>1, FS_Interval
  <2> QED
      BY <1>1, <2>1, FS_Subset
<1> HIDE DEF u, n
<1>3. V = S \cup W /\ S \cap W = {}
    BY <1>1
<1>4. \A i \in W : i - n \in R /\ shift[i - n] = i
  <2>1. \A i \in W : i - n \in 1..Len(t) /\ (i - n) + n = i
      BY <1>1
  <2> QED
      BY <1>1, <2>1
<1>5. shift \in Bijection(R, W)
  <2>1. shift \in [R -> W]
      BY <1>1
  <2>2. \A a, b \in R : shift[a] = shift[b] => a = b
      BY <1>1
  <2> QED
      BY <1>4, <2>1, <2>2 DEF Bijection, Injection, Surjection, IsInjective
<1>6. Cardinality(W) = Cardinality(R) /\ IsFiniteSet(W)
    BY <1>2, <1>5, FS_Bijection DEF ExistsBijection
<1>7. Cardinality(V) = Cardinality(S) + Cardinality(W)
  <2> HIDE DEF S, W, V
  <2>1. Cardinality(S \cap W) = 0 /\ Cardinality(S) \in Nat /\ Cardinality(W) \in Nat
      BY <1>2, <1>3, <1>6, FS_EmptySet, FS_CardinalityType
  <2>2. Cardinality(S \cup W) = Cardinality(S) + Cardinality(W) - Cardinality(S \cap W)
      BY <1>2, <1>6, FS_Union
  <2> QED
      BY <1>3, <2>1, <2>2
<1> QED
    BY <1>6, <1>7 DEF InQueue, u

(* How often it is in a sequence of one. *)
LEMMA CountOne ==
    ASSUME NEW x, NEW m
    PROVE  /\ InQueue(<<>>, m) = 0
           /\ InQueue(<<x>>, m) = IF x.msg = m THEN 1 ELSE 0
<1>1. {i \in DOMAIN <<>> : <<>>[i].msg = m} = {}
    OBVIOUS
<1>2. {i \in DOMAIN <<x>> : <<x>>[i].msg = m} = IF x.msg = m THEN {1} ELSE {}
    OBVIOUS
<1>3. Cardinality({}) = 0 /\ Cardinality({1}) = 1
    BY FS_EmptySet, FS_Singleton
<1> QED
    BY <1>1, <1>2, <1>3 DEF InQueue

(* The frames of two sequences in a row. *)
LEMMA AtConcat ==
    ASSUME NEW T, NEW s \in Seq(T), NEW t \in Seq(T), NEW m, NEW c
    PROVE  At(s \o t, m, c) <=> At(s, m, c) \/ At(t, m, c)
<1> DEFINE u == s \o t
           n == Len(s)
<1>1. /\ n \in Nat /\ Len(t) \in Nat
      /\ DOMAIN s = 1..n /\ DOMAIN t = 1..Len(t) /\ DOMAIN u = 1..(n + Len(t))
      /\ \A i \in 1..n : u[i] = s[i]
      /\ \A i \in 1..Len(t) : u[i + n] = t[i]
    OBVIOUS
<1> HIDE DEF u, n
<1>2. \A i \in 1..(n + Len(t)) : i \in 1..n \/ (i - n \in 1..Len(t) /\ (i - n) + n = i)
    BY <1>1
<1>3. \A i \in DOMAIN u : (\E j \in DOMAIN s : u[i] = s[j]) \/ (\E j \in DOMAIN t : u[i] = t[j])
    BY <1>1, <1>2
<1>4. \A i \in 1..n : i \in 1..(n + Len(t))
    BY <1>1
<1>5. \A i \in 1..Len(t) : i + n \in 1..(n + Len(t))
    BY <1>1
<1>6. \A i \in DOMAIN s : \E j \in DOMAIN u : u[j] = s[i]
    BY <1>1, <1>4
<1>7. \A i \in DOMAIN t : \E j \in DOMAIN u : u[j] = t[i]
    BY <1>1, <1>5
<1>8. At(u, m, c) => At(s, m, c) \/ At(t, m, c)
    BY <1>3 DEF At
<1>9. At(s, m, c) \/ At(t, m, c) => At(u, m, c)
    BY <1>6, <1>7 DEF At
<1> QED
    BY <1>8, <1>9 DEF u

(* The frames of a sequence of one. *)
LEMMA AtOne ==
    ASSUME NEW x, NEW m, NEW c
    PROVE  /\ ~At(<<>>, m, c)
           /\ At(<<x>>, m, c) <=> x.msg = m /\ x.chunk = c
BY DEF At

(* Two in a row are in order if both are, and the second comes above. *)
LEMMA RisingConcat ==
    ASSUME NEW T, NEW s \in Seq(T), NEW t \in Seq(T),
           \A i \in DOMAIN s : s[i].msg \in Msg /\ s[i].chunk \in Nat,
           \A i \in DOMAIN t : t[i].msg \in Msg /\ t[i].chunk \in Nat
    PROVE  Rising(s \o t) <=> Rising(s) /\ Rising(t) /\ Above(s, t)
<1> DEFINE u == s \o t
           n == Len(s)
<1>1. /\ n \in Nat /\ Len(t) \in Nat
      /\ DOMAIN s = 1..n /\ DOMAIN t = 1..Len(t) /\ DOMAIN u = 1..(n + Len(t))
      /\ \A i \in 1..n : u[i] = s[i] /\ i \in 1..(n + Len(t))
      /\ \A i \in 1..Len(t) : u[i + n] = t[i] /\ i + n \in 1..(n + Len(t))
    OBVIOUS
<1> HIDE DEF u, n
<1>2. \A i \in 1..(n + Len(t)) : i \in 1..n \/ (i - n \in 1..Len(t) /\ (i - n) + n = i)
    BY <1>1
<1>3. Rising(u) => Rising(s)
    BY <1>1 DEF Rising
<1>4. Rising(u) => Rising(t)
  <2> SUFFICES ASSUME Rising(u), NEW i \in DOMAIN t, NEW j \in DOMAIN t, i < j, t[i].msg = t[j].msg
               PROVE  t[i].chunk < t[j].chunk
      BY DEF Rising
  <2>1. i + n < j + n /\ i + n \in DOMAIN u /\ j + n \in DOMAIN u
      BY <1>1
  <2>2. u[i + n] = t[i] /\ u[j + n] = t[j]
      BY <1>1
  <2> QED
      BY <2>1, <2>2 DEF Rising
<1>5. Rising(u) => Above(s, t)
  <2> SUFFICES ASSUME Rising(u), NEW i \in DOMAIN s, NEW j \in DOMAIN t, s[i].msg = t[j].msg
               PROVE  s[i].chunk < t[j].chunk
      BY DEF Above, At
  <2>1. i < j + n /\ i \in DOMAIN u /\ j + n \in DOMAIN u
      BY <1>1
  <2>2. u[i] = s[i] /\ u[j + n] = t[j]
      BY <1>1
  <2> QED
      BY <2>1, <2>2 DEF Rising
<1>6. ASSUME Rising(s), Rising(t), Above(s, t),
             NEW i \in DOMAIN u, NEW j \in DOMAIN u, i < j, u[i].msg = u[j].msg
      PROVE  u[i].chunk < u[j].chunk
  <2>1. CASE i \in 1..n /\ j \in 1..n
      BY <1>1, <1>6, <2>1 DEF Rising
  <2>2. CASE i \in 1..n /\ j \notin 1..n
    <3>1. j - n \in DOMAIN t /\ u[j] = t[j - n] /\ u[i] = s[i]
        BY <1>1, <1>2, <1>6, <2>2
    <3>2. At(s, u[i].msg, u[i].chunk) /\ At(t, u[i].msg, u[j].chunk)
        BY <1>1, <1>6, <2>2, <3>1 DEF At
    <3>3. u[i].msg \in Msg /\ u[i].chunk \in Nat /\ u[j].chunk \in Nat
        BY <1>1, <2>2, <3>1
    <3> QED
        BY <1>6, <3>2, <3>3 DEF Above
  <2>3. CASE i \notin 1..n
    <3>1. /\ i - n \in DOMAIN t /\ u[i] = t[i - n]
          /\ j - n \in DOMAIN t /\ u[j] = t[j - n]
      <4>1. i \in 1..(n + Len(t)) /\ j \in 1..(n + Len(t)) /\ j \notin 1..n
          BY <1>1, <1>6, <2>3
      <4> QED
          BY <1>1, <1>2, <2>3, <4>1
    <3>2. i - n < j - n
        BY <1>1, <1>6
    <3> QED
        BY <1>6, <3>1, <3>2 DEF Rising
  <2> QED
      BY <2>1, <2>2, <2>3
<1> QED
    BY <1>3, <1>4, <1>5, <1>6 DEF Rising, u

(* Such a sequence is in order. *)
LEMMA RisingOne ==
    ASSUME NEW x
    PROVE  Rising(<<>>) /\ Rising(<<x>>)
BY DEF Rising

-----------------------------------------------------------------------------
(* The packet queue                                                        *)

(* What a packet queue keeps: frames in order from the wire to what is     *)
(* queued last;                                                            *)
InOrder(p) ==
    /\ Rising(p.wire) /\ Rising(p.held) /\ Rising(p.queue)
    /\ Above(p.wire, p.held) /\ Above(p.wire, p.queue) /\ Above(p.held, p.queue)

(* no chunk without those before it, which are on the wire if it is;       *)
Chained(p) ==
    \A m \in Msg, c \in Nat \ {0} :
        /\ Somewhere(p, m, c + 1) => Somewhere(p, m, c)
        /\ At(p.wire, m, c + 1) => At(p.wire, m, c)

(* what is in hand was written, and no message has more than its chunks.   *)
Sound(p) ==
    /\ Len(p.hand) <= 1
    /\ p.hand # <<>> => At(p.wire, p.hand[1].msg, p.hand[1].chunk)
    /\ InOrder(p)
    /\ \A m \in Msg, c \in Nat : Somewhere(p, m, c) => c <= Chunks[m]

(* A queue that may take a frame has taken one. *)
Idle(p) == p.hand = <<>> => p.queue = <<>>

(* The first offer in a queue, or on the wire. *)
LEMMA FirstOffer ==
    ASSUME NEW T, NEW q \in Seq(T),
           NEW n, n = SelectInSeq(q, IsOffer)
    PROVE  \/ n = 0 /\ \A i \in DOMAIN q : ~IsOffer(q[i])
           \/ n \in 1..Len(q) /\ IsOffer(q[n]) /\ \A i \in 1..n - 1 : ~IsOffer(q[i])
<1> DEFINE I == {i \in 1..Len(q) : IsOffer(q[i])}
<1>1. n = IF I # {} THEN Min(I) ELSE 0
    BY DEF SelectInSeq
<1>2. CASE I = {}
    BY <1>1, <1>2
<1>3. CASE I # {}
  <2>1. I \subseteq Nat
      OBVIOUS
  <2>2. \E m \in I : \A k \in I : m <= k
      BY <1>3, <2>1, LeastOf
  <2>3. n \in I /\ \A k \in I : n <= k
      BY <1>1, <1>3, <2>2 DEF Min
  <2>4. n \in 1..Len(q) /\ Len(q) \in Nat
      BY <2>3
  <2>5. \A i \in 1..n - 1 : i \in 1..Len(q) /\ ~(n <= i)
      BY <2>4
  <2> QED
      BY <2>3, <2>4, <2>5
<1> QED
    BY <1>2, <1>3

(* What an idle queue does: what stands in front is held back, one frame   *)
(* is taken and written, the rest stays.                                   *)
Cut(p, q, switching, sealing, front, took, tail, written) ==
    /\ p.queue = front \o (took \o tail)
    /\ q \in Path
    /\ q.held = p.held \o front
    /\ q.hand = took
    /\ q.queue = tail
    /\ q.wire = p.wire \o written
    /\ front # <<>> => switching
    /\ \A i \in DOMAIN front : ~IsOffer(front[i])
    /\ \/ took = <<>> /\ tail = <<>> /\ written = <<>> /\ q.seals = p.seals
       \/ \E item \in Item :
             /\ took = <<item>>
             /\ switching => IsOffer(item)
             /\ q.seals = IF sealing THEN p.seals + 1 ELSE p.seals
             /\ written = <<[msg |-> item.msg, chunk |-> item.chunk,
                             seal |-> IF sealing THEN q.seals ELSE 0]>>

(* Once the front is held back, the first frame is taken, if there is one. *)
LEMMA TakeIs ==
    ASSUME NEW p \in Path, NEW switching \in BOOLEAN, NEW sealing \in BOOLEAN, NEW before \in Path,
           NEW front \in Seq(Item), before.queue = front \o p.queue, p.held = before.held \o front,
           p.wire = before.wire, p.seals = before.seals, p.hand = <<>>,
           front # <<>> => switching, \A i \in DOMAIN front : ~IsOffer(front[i]),
           switching /\ p.queue # <<>> => IsOffer(Head(p.queue)),
           NEW q, q = IF p.queue # <<>> THEN TakeFirst(p, sealing) ELSE p
    PROVE  \E took, tail \in Seq(Item), written \in Seq(Frame) :
              Cut(before, q, switching, sealing, front, took, tail, written)
<1>0. /\ p.queue \in Seq(Item) /\ p.held \in Seq(Item) /\ p.wire \in Seq(Frame) /\ p.seals \in Nat
      /\ before.queue \in Seq(Item)
    BY DEF Path
<1>1. CASE p.queue = <<>>
  <2>1. p.queue = <<>> \o <<>> /\ p.wire = before.wire \o <<>>
      BY <1>0, <1>1, ConcatEmptySeq
  <2>2. Cut(before, q, switching, sealing, front, <<>>, <<>>, <<>>)
      BY <1>0, <1>1, <2>1 DEF Cut
  <2>3. <<>> \in Seq(Item) /\ <<>> \in Seq(Frame)
      OBVIOUS
  <2> QED
      BY <2>2, <2>3
<1>2. CASE p.queue # <<>>
  <2> DEFINE item == Head(p.queue)
             tail == Tail(p.queue)
             n == IF sealing THEN p.seals + 1 ELSE p.seals
             f == [msg |-> item.msg, chunk |-> item.chunk, seal |-> IF sealing THEN n ELSE 0]
  <2>1. item \in Item /\ tail \in Seq(Item) /\ p.queue = <<item>> \o tail
    <3>1. item \in Item /\ tail \in Seq(Item)
        BY <1>0, <1>2
    <3>2. <<item>> \in Seq(Item)
        BY <3>1
    <3> QED
        BY <1>0, <1>2, <3>1, <3>2
  <2>2. f \in Frame /\ n \in Nat
    <3>1. n \in Nat /\ (IF sealing THEN n ELSE 0) \in Nat
        BY <1>0
    <3>2. item.msg \in Msg /\ item.chunk \in Nat \ {0}
        BY <2>1 DEF Item
    <3> HIDE DEF item, n
    <3>3. f \in Frame
        BY <3>1, <3>2 DEF Frame
    <3> QED
        BY <3>1, <3>3
  <2>3. p.wire \o <<f>> = Append(p.wire, f) /\ Append(p.wire, f) \in Seq(Frame)
      BY <1>0, <2>2
  <2>4. q = [p EXCEPT !.queue = tail, !.hand = <<item>>, !.seals = n, !.wire = Append(p.wire, f)]
      BY <1>2 DEF TakeFirst
  <2>5. /\ q \in Path /\ q.queue = tail /\ q.hand = <<item>> /\ q.seals = n /\ q.held = p.held
        /\ q.wire = p.wire \o <<f>>
    <3> HIDE DEF item, tail, n, f
    <3>1. <<item>> \in Seq(Item)
        BY <2>1
    <3> QED
        BY <2>1, <2>2, <2>3, <2>4, <3>1 DEF Path
  <2>6. f = [msg |-> item.msg, chunk |-> item.chunk, seal |-> IF sealing THEN q.seals ELSE 0]
      BY <2>5
  <2>7. /\ switching => IsOffer(item)
        /\ n = IF sealing THEN before.seals + 1 ELSE before.seals
      BY <1>2
  <2>8. <<item>> \in Seq(Item) /\ <<f>> \in Seq(Frame)
      BY <2>1, <2>2
  <2> HIDE DEF item, tail, n, f
  <2>9. Cut(before, q, switching, sealing, front, <<item>>, tail, <<f>>)
      BY <2>1, <2>5, <2>6, <2>7 DEF Cut
  <2> QED
      BY <2>1, <2>8, <2>9
<1> QED
    BY <1>1, <1>2

(* An idle queue makes such a cut, and a busy one nothing. *)
LEMMA RunIs ==
    ASSUME NEW p \in Path, NEW switching \in BOOLEAN, NEW sealing \in BOOLEAN,
           NEW q, q = Run(p, switching, sealing)
    PROVE  /\ p.hand # <<>> => q = p
           /\ p.hand = <<>> =>
                 \E front, took, tail \in Seq(Item), written \in Seq(Frame) :
                    Cut(p, q, switching, sealing, front, took, tail, written)
<1>0. p.queue \in Seq(Item) /\ p.held \in Seq(Item)
    BY DEF Path
<1>1. CASE p.hand # <<>>
    BY <1>1 DEF Run
<1>2. CASE p.hand = <<>> /\ ~switching
  <2>1. /\ p.queue = <<>> \o p.queue /\ p.held = p.held \o <<>> /\ <<>> \in Seq(Item)
        /\ \A i \in DOMAIN <<>> : ~IsOffer(<<>>[i])
      BY <1>0
  <2>2. q = IF p.queue # <<>> THEN TakeFirst(p, sealing) ELSE p
      BY <1>2 DEF Run
  <2>3. \E took, tail \in Seq(Item), written \in Seq(Frame) :
            Cut(p, q, switching, sealing, <<>>, took, tail, written)
    <3> DEFINE front == <<>>
    <3>1. /\ front \in Seq(Item) /\ p.queue = front \o p.queue /\ p.held = p.held \o front
          /\ \A i \in DOMAIN front : ~IsOffer(front[i])
          /\ ~(front # <<>>)
        BY <2>1
    <3> HIDE DEF front
    <3>2. \E took, tail \in Seq(Item), written \in Seq(Frame) :
            Cut(p, q, switching, sealing, front, took, tail, written)
        BY <1>2, <2>2, <3>1, TakeIs
    <3> QED
        BY <3>2 DEF front
  <2> QED
      BY <1>2, <2>1, <2>3
<1>3. CASE p.hand = <<>> /\ switching
  <2> DEFINE n == SelectInSeq(p.queue, IsOffer)
             k == IF n = 0 THEN Len(p.queue) ELSE n - 1
             front == SubSeq(p.queue, 1, k)
             rest == SubSeq(p.queue, k + 1, Len(p.queue))
             r == [p EXCEPT !.held = p.held \o front, !.queue = rest]
  <2>1. \/ n = 0 /\ \A i \in DOMAIN p.queue : ~IsOffer(p.queue[i])
        \/ n \in 1..Len(p.queue) /\ IsOffer(p.queue[n]) /\ \A i \in 1..n - 1 : ~IsOffer(p.queue[i])
      BY <1>0, FirstOffer
  <2> HIDE DEF n
  <2>2. /\ k \in 0..Len(p.queue) /\ Len(p.queue) \in Nat
        /\ n = 0 \/ (n \in 1..Len(p.queue) /\ k + 1 = n)
      BY <1>0, <2>1
  <2> HIDE DEF k
  <2>3. front \in Seq(Item) /\ rest \in Seq(Item) /\ p.queue = front \o rest
    <3>0. front \in Seq(Item) /\ rest \in Seq(Item)
      <4>1. \A i \in 1..k : p.queue[i] \in Item
          BY <1>0, <2>2
      <4>2. \A i \in k + 1..Len(p.queue) : p.queue[i] \in Item
          BY <1>0, <2>2
      <4>3. k \in Int /\ k + 1 \in Int /\ Len(p.queue) \in Int
          BY <2>2
      <4> QED
          BY <4>1, <4>2, <4>3, SubSeqProperties
    <3>1. front \o rest = SubSeq(p.queue, 1, Len(p.queue))
      <4>1. 1 \in 1..Len(p.queue) + 1 /\ k \in 1 - 1..Len(p.queue) /\ Len(p.queue) \in k..Len(p.queue)
          BY <2>2
      <4> QED
          BY <1>0, <4>1, ConcatAdjacentSubSeq
    <3>2. SubSeq(p.queue, 1, Len(p.queue)) = p.queue
        BY <1>0, SubSeqFull
    <3> QED
        BY <3>0, <3>1, <3>2
  <2>4. ASSUME NEW i \in DOMAIN front
        PROVE  ~IsOffer(front[i])
    <3>1. i \in 1..k /\ i \in DOMAIN p.queue /\ front[i] = p.queue[i]
        BY <1>0, <2>2
    <3>2. n = 0 \/ i \in 1..n - 1
        BY <2>2, <3>1
    <3>3. ~IsOffer(p.queue[i])
        BY <2>1, <3>1, <3>2
    <3> QED
        BY <3>1, <3>3
  <2>5. rest # <<>> => IsOffer(Head(rest))
    <3>1. CASE n = 0
      <4>1. k = Len(p.queue)
          BY <3>1 DEF k
      <4> QED
          BY <2>2, <4>1
    <3>2. CASE n # 0
      <4>1. rest = SubSeq(p.queue, n, Len(p.queue)) /\ n \in 1..Len(p.queue)
          BY <2>2, <3>2
      <4>2. Head(rest) = p.queue[n]
        <5>1. Len(p.queue) \in n..Len(p.queue)
            BY <2>2, <4>1
        <5> QED
            BY <1>0, <4>1, <5>1, HeadTailOfSubSeq
      <4> QED
          BY <2>1, <3>2, <4>2
    <3> QED
        BY <3>1, <3>2
  <2>6. HoldBack(p) = r
      BY DEF HoldBack, n, k
  <2>7. q = IF r.queue # <<>> THEN TakeFirst(r, sealing) ELSE r
    <3>1. r.hand = <<>>
        BY <1>3 DEF Path
    <3> QED
        BY <1>3, <2>6, <3>1 DEF Run
  <2> HIDE DEF front, rest
  <2>8. /\ r \in Path /\ r.held = p.held \o front /\ r.queue = rest /\ r.wire = p.wire
        /\ r.seals = p.seals /\ r.hand = <<>>
    <3> DEFINE h == p.held \o front
    <3>1. h \in Seq(Item)
        BY <1>0, <2>3
    <3> HIDE DEF h
    <3>2. r = [p EXCEPT !.held = h, !.queue = rest]
        BY DEF h
    <3>3. r \in Path /\ r.held = h /\ r.queue = rest
        BY <2>3, <3>1, <3>2 DEF Path
    <3>4. r.wire = p.wire /\ r.seals = p.seals /\ r.hand = p.hand
        BY <3>2 DEF Path
    <3> QED
        BY <1>3, <3>3, <3>4 DEF h
  <2> HIDE DEF r
  <2>9. \E took, tail \in Seq(Item), written \in Seq(Frame) :
            Cut(p, q, switching, sealing, front, took, tail, written)
      BY <1>3, <2>3, <2>4, <2>5, <2>7, <2>8, TakeIs
  <2> QED
      BY <1>3, <2>3, <2>9
<1> QED
    BY <1>1, <1>2, <1>3

(* What items and frames are made of. *)
LEMMA Fields ==
    /\ \A x \in Item : x.msg \in Msg /\ x.chunk \in Nat \ {0}
    /\ \A x \in Frame : x.msg \in Msg /\ x.chunk \in Nat \ {0}
BY DEF Item, Frame

(* What is at a place of a sequence of items, or of frames. *)
LEMMA AtType ==
    ASSUME NEW m, NEW c
    PROVE  /\ \A s \in Seq(Item) : At(s, m, c) => m \in Msg /\ c \in Nat \ {0}
           /\ \A s \in Seq(Frame) : At(s, m, c) => m \in Msg /\ c \in Nat \ {0}
<1>1. /\ \A s \in Seq(Item) : \A i \in DOMAIN s : s[i] \in Item
      /\ \A s \in Seq(Frame) : \A i \in DOMAIN s : s[i] \in Frame
    OBVIOUS
<1> QED
    BY <1>1, Fields DEF At

(* Order over two sequences of items in a row, *)
LEMMA ItemsRising ==
    ASSUME NEW s \in Seq(Item), NEW t \in Seq(Item)
    PROVE  Rising(s \o t) <=> Rising(s) /\ Rising(t) /\ Above(s, t)
<1>1. /\ \A i \in DOMAIN s : s[i] \in Item
      /\ \A i \in DOMAIN t : t[i] \in Item
    OBVIOUS
<1> QED
    BY <1>1, Fields, RisingConcat

(* and of frames. *)
LEMMA FramesRising ==
    ASSUME NEW s \in Seq(Frame), NEW t \in Seq(Frame)
    PROVE  Rising(s \o t) <=> Rising(s) /\ Rising(t) /\ Above(s, t)
<1>1. /\ \A i \in DOMAIN s : s[i] \in Frame
      /\ \A i \in DOMAIN t : t[i] \in Frame
    OBVIOUS
<1> QED
    BY <1>1, Fields, RisingConcat

(* From p to q the frames of front, took and tail have moved, and none is  *)
(* lost.                                                                   *)
Moves(p, q, front, took, tail) ==
    /\ \A m, c : /\ At(p.queue, m, c) <=> At(front, m, c) \/ At(took, m, c) \/ At(tail, m, c)
                 /\ At(q.held, m, c) <=> At(p.held, m, c) \/ At(front, m, c)
                 /\ At(q.wire, m, c) <=> At(p.wire, m, c) \/ At(took, m, c)
                 /\ At(q.queue, m, c) <=> At(tail, m, c)
                 /\ Somewhere(q, m, c) <=> Somewhere(p, m, c)
    /\ \A m : Total(q, m) = Total(p, m)

(* A cut moves them so. *)
LEMMA CutMoves ==
    ASSUME NEW p \in Path, NEW q, NEW switching \in BOOLEAN, NEW sealing \in BOOLEAN, p.hand = <<>>,
           NEW front \in Seq(Item), NEW took \in Seq(Item), NEW tail \in Seq(Item),
           NEW written \in Seq(Frame), Cut(p, q, switching, sealing, front, took, tail, written)
    PROVE  Moves(p, q, front, took, tail)
<1>0. /\ p.queue = front \o (took \o tail) /\ q.held = p.held \o front /\ q.queue = tail
      /\ q.hand = took /\ q.wire = p.wire \o written
    BY DEF Cut
<1>1. /\ p.held \in Seq(Item) /\ took \o tail \in Seq(Item) /\ p.wire \in Seq(Frame)
    BY DEF Path
<1>2. ASSUME NEW m, NEW c
      PROVE  At(written, m, c) <=> At(took, m, c)
  <2>1. CASE took = <<>> /\ written = <<>>
      BY <2>1
  <2>2. ASSUME NEW item \in Item, NEW f, took = <<item>>, written = <<f>>,
               f.msg = item.msg, f.chunk = item.chunk
        PROVE  At(written, m, c) <=> At(took, m, c)
      BY <2>2, AtOne
  <2> QED
      BY <2>1, <2>2 DEF Cut
<1>3. ASSUME NEW m, NEW c
      PROVE  /\ At(p.queue, m, c) <=> At(front, m, c) \/ At(took, m, c) \/ At(tail, m, c)
             /\ At(q.held, m, c) <=> At(p.held, m, c) \/ At(front, m, c)
             /\ At(q.wire, m, c) <=> At(p.wire, m, c) \/ At(took, m, c)
  <2>1. At(p.queue, m, c) <=> At(front, m, c) \/ At(took \o tail, m, c)
    <3> DEFINE rest == took \o tail
    <3>1. rest \in Seq(Item) /\ p.queue = front \o rest
        BY <1>0, <1>1
    <3> HIDE DEF rest
    <3>2. At(front \o rest, m, c) <=> At(front, m, c) \/ At(rest, m, c)
        BY <3>1, AtConcat
    <3> QED
        BY <3>1, <3>2 DEF rest
  <2>2. At(took \o tail, m, c) <=> At(took, m, c) \/ At(tail, m, c)
      BY AtConcat
  <2>3. At(q.held, m, c) <=> At(p.held, m, c) \/ At(front, m, c)
      BY <1>0, <1>1, AtConcat
  <2>4. At(q.wire, m, c) <=> At(p.wire, m, c) \/ At(written, m, c)
      BY <1>0, <1>1, AtConcat
  <2> QED
      BY <1>2, <2>1, <2>2, <2>3, <2>4
<1>4. ASSUME NEW m
      PROVE  Total(q, m) = Total(p, m)
  <2>1. /\ InQueue(p.queue, m) = InQueue(front, m) + InQueue(took \o tail, m)
        /\ InQueue(took \o tail, m) = InQueue(took, m) + InQueue(tail, m)
        /\ InQueue(q.held, m) = InQueue(p.held, m) + InQueue(front, m)
        /\ InQueue(p.hand, m) = 0
    <3> DEFINE rest == took \o tail
    <3>1. rest \in Seq(Item) /\ p.queue = front \o rest
        BY <1>0, <1>1
    <3>2. InQueue(rest, m) = InQueue(took, m) + InQueue(tail, m)
        BY CountConcat
    <3> HIDE DEF rest
    <3>3. InQueue(front \o rest, m) = InQueue(front, m) + InQueue(rest, m)
        BY <3>1, CountConcat
    <3>4. InQueue(p.held \o front, m) = InQueue(p.held, m) + InQueue(front, m)
        BY <1>1, CountConcat
    <3> QED
        BY <1>0, <3>1, <3>2, <3>3, <3>4, CountOne DEF rest
  <2>2. /\ InQueue(front, m) \in Nat /\ InQueue(took, m) \in Nat /\ InQueue(tail, m) \in Nat
        /\ InQueue(p.held, m) \in Nat
      BY <1>1, CountType
  <2> QED
      BY <1>0, <2>1, <2>2 DEF Total
<1>5. \A m, c : Somewhere(q, m, c) <=> Somewhere(p, m, c)
    BY <1>0, <1>3 DEF Somewhere
<1> QED
    BY <1>0, <1>3, <1>4, <1>5 DEF Moves

(* A cut keeps the order, if what it takes cannot overtake what is held:   *)
(* nothing is, or it is the first of its message.                          *)
LEMMA CutInOrder ==
    ASSUME NEW p \in Path, NEW q, NEW switching \in BOOLEAN, NEW sealing \in BOOLEAN, p.hand = <<>>,
           NEW front \in Seq(Item), NEW took \in Seq(Item), NEW tail \in Seq(Item),
           NEW written \in Seq(Frame), Cut(p, q, switching, sealing, front, took, tail, written),
           InOrder(p),
           \/ q.held = <<>>
           \/ \A i \in DOMAIN took : took[i].chunk = 1
    PROVE  InOrder(q)
<1>0. /\ p.queue = front \o (took \o tail) /\ q.held = p.held \o front /\ q.queue = tail
      /\ q.hand = took /\ q.wire = p.wire \o written
    BY DEF Cut
<1>1. /\ p.held \in Seq(Item) /\ took \o tail \in Seq(Item) /\ p.wire \in Seq(Frame)
      /\ p.queue \in Seq(Item)
    BY DEF Path
<1>2. \A m, c : /\ At(p.queue, m, c) <=> At(front, m, c) \/ At(took, m, c) \/ At(tail, m, c)
                /\ At(q.held, m, c) <=> At(p.held, m, c) \/ At(front, m, c)
                /\ At(q.wire, m, c) <=> At(p.wire, m, c) \/ At(took, m, c)
                /\ At(q.queue, m, c) <=> At(tail, m, c)
  <2>1. Moves(p, q, front, took, tail)
      BY CutMoves
  <2> QED
      BY <2>1 DEF Moves
<1>3. \A m, c : At(took \o tail, m, c) <=> At(took, m, c) \/ At(tail, m, c)
    BY AtConcat
<1>4. \A m, c : At(p.wire \o written, m, c) <=> At(p.wire, m, c) \/ At(written, m, c)
    BY <1>1, AtConcat
<1>5. /\ Rising(front) /\ Rising(took \o tail) /\ Above(front, took \o tail)
      /\ Rising(tail) /\ Above(took, tail)
  <2>1. Rising(p.queue)
      BY DEF InOrder
  <2>2. Rising(front) /\ Rising(took \o tail) /\ Above(front, took \o tail)
    <3> DEFINE rest == took \o tail
    <3>1. Rising(front \o rest) /\ rest \in Seq(Item)
        BY <1>0, <1>1, <2>1
    <3> HIDE DEF rest
    <3>2. Rising(front) /\ Rising(rest) /\ Above(front, rest)
        BY <3>1, ItemsRising
    <3> QED
        BY <3>2 DEF rest
  <2> QED
      BY <2>2, ItemsRising
<1>6. Above(took, q.held)
  <2>1. CASE q.held = <<>>
      BY <2>1 DEF Above, At
  <2>2. CASE \A i \in DOMAIN took : took[i].chunk = 1
    <3>1. \A m, c : At(took, m, c) => c = 1
        BY <2>2 DEF At
    <3>2. Above(p.held, p.queue) /\ Above(front, took)
        BY <1>3, <1>5 DEF InOrder, Above
    <3>3. ASSUME NEW m \in Msg, NEW c \in Nat, NEW d \in Nat, At(took, m, c), At(q.held, m, d)
          PROVE  FALSE
      <4>1. c = 1
          BY <3>1, <3>3
      <4>2. d \in Nat \ {0}
          BY <1>0, <1>1, <1>2, <3>3, AtType
      <4>3. d < c
          BY <1>2, <3>2, <3>3 DEF Above
      <4> QED
          BY <4>1, <4>2, <4>3
    <3> QED
        BY <3>3 DEF Above
  <2> QED
      BY <2>1, <2>2
<1>7. Rising(q.held)
  <2>1. Rising(p.held) /\ Above(p.held, front)
      BY <1>2 DEF InOrder, Above
  <2> QED
      BY <1>0, <1>1, <1>5, <2>1, ItemsRising
<1>8. Rising(q.wire)
  <2>1. Rising(p.wire) /\ Above(p.wire, took)
      BY <1>2 DEF InOrder, Above
  <2>2. Rising(written)
    <3>1. written = <<>> \/ \E x : written = <<x>>
        BY DEF Cut
    <3> QED
        BY <3>1, RisingOne
  <2>3. Above(p.wire, written)
    <3>1. \A m \in Msg, c, d \in Nat : At(p.wire, m, c) /\ At(written, m, d) => At(took, m, d) \/ At(p.wire, m, d)
        BY <1>0, <1>2, <1>4
    <3>2. \A m, c : At(written, m, c) <=> At(took, m, c)
      <4>1. CASE took = <<>> /\ written = <<>>
          BY <4>1
      <4>2. ASSUME NEW item \in Item, NEW f, took = <<item>>, written = <<f>>,
                   f.msg = item.msg, f.chunk = item.chunk, NEW m, NEW c
            PROVE  At(written, m, c) <=> At(took, m, c)
          BY <4>2, AtOne
      <4> QED
          BY <4>1, <4>2 DEF Cut
    <3> QED
        BY <2>1, <3>2 DEF Above
  <2> QED
      BY <1>0, <1>1, <2>1, <2>2, <2>3, FramesRising
<1>9. Above(q.wire, q.held)
  <2>1. Above(p.wire, p.held) /\ Above(p.wire, p.queue)
      BY DEF InOrder
  <2> QED
      BY <1>2, <1>6, <2>1 DEF Above
<1>10. Above(q.wire, q.queue)
  <2>1. Above(p.wire, p.queue)
      BY DEF InOrder
  <2> QED
      BY <1>2, <1>5, <2>1 DEF Above
<1>11. Above(q.held, q.queue)
  <2>1. Above(p.held, p.queue)
      BY DEF InOrder
  <2> QED
      BY <1>2, <1>3, <1>5, <2>1 DEF Above
<1> QED
    BY <1>0, <1>5, <1>7, <1>8, <1>9, <1>10, <1>11 DEF InOrder

(* Nothing that is taken overtakes a chunk of its message: an offer has no *)
(* other, and what else is taken finds nothing held back, or is the first. *)
LEMMA CutOvertakesNothing ==
    ASSUME NEW p \in Path, NEW q, NEW switching \in BOOLEAN, NEW sealing \in BOOLEAN, p.hand = <<>>,
           NEW front \in Seq(Item), NEW took \in Seq(Item), NEW tail \in Seq(Item),
           NEW written \in Seq(Frame), Cut(p, q, switching, sealing, front, took, tail, written),
           Sound(p),
           \/ switching
           \/ p.held = <<>>
           \/ FirstChunks(p.queue)
    PROVE  \/ q.held = <<>>
           \/ \A i \in DOMAIN took : took[i].chunk = 1
<1>0. p.held \in Seq(Item)
    BY DEF Path
<1>a. \A m, c : At(took, m, c) => At(p.queue, m, c)
  <2>1. Moves(p, q, front, took, tail)
      BY CutMoves
  <2> QED
      BY <2>1 DEF Moves
<1>1. ASSUME NEW item \in Item, took = <<item>>, switching => IsOffer(item)
      PROVE  q.held = <<>> \/ item.chunk = 1
  <2>1. At(took, item.msg, item.chunk) /\ item.msg \in Msg /\ item.chunk \in Nat \ {0}
      BY <1>1, AtOne, Fields
  <2>2. At(p.queue, item.msg, item.chunk)
      BY <1>a, <2>1
  <2>3. CASE switching
    <3>1. item.chunk <= Chunks[item.msg]
        BY <2>1, <2>2 DEF Sound, Somewhere
    <3>2. Chunks[item.msg] = 1
        BY <1>1, <2>1, <2>3, SendPathAssumption DEF IsOffer
    <3> QED
        BY <2>1, <3>1, <3>2
  <2>4. CASE p.held = <<>> /\ ~switching
    <3>1. front = <<>> /\ q.held = p.held \o front
        BY <2>4 DEF Cut
    <3> QED
        BY <2>4, <3>1
  <2>5. CASE FirstChunks(p.queue)
      BY <2>1, <2>2, <2>5 DEF FirstChunks
  <2> QED
      BY <2>3, <2>4, <2>5
<1>2. CASE took = <<>>
    BY <1>2
<1>3. ASSUME NEW item \in Item, took = <<item>>, switching => IsOffer(item)
      PROVE  q.held = <<>> \/ \A i \in DOMAIN took : took[i].chunk = 1
  <2>1. \A i \in DOMAIN took : took[i] = item
      BY <1>3
  <2> QED
      BY <1>1, <1>3, <2>1
<1> QED
    BY <1>2, <1>3 DEF Cut

(* A cut leaves no chunk behind. *)
LEMMA CutChained ==
    ASSUME NEW p \in Path, NEW q, NEW switching \in BOOLEAN, NEW sealing \in BOOLEAN, p.hand = <<>>,
           NEW front \in Seq(Item), NEW took \in Seq(Item), NEW tail \in Seq(Item),
           NEW written \in Seq(Frame), Cut(p, q, switching, sealing, front, took, tail, written),
           Sound(p), Chained(p),
           \/ q.held = <<>>
           \/ \A i \in DOMAIN took : took[i].chunk = 1
    PROVE  Chained(q)
<1>0. /\ p.held \in Seq(Item) /\ q.held = p.held \o front
      /\ p.queue = front \o (took \o tail) /\ p.queue \in Seq(Item)
    BY DEF Path, Cut
<1>1. /\ \A m, c : /\ At(p.queue, m, c) <=> At(front, m, c) \/ At(took, m, c) \/ At(tail, m, c)
                   /\ At(q.held, m, c) <=> At(p.held, m, c) \/ At(front, m, c)
                   /\ At(q.wire, m, c) <=> At(p.wire, m, c) \/ At(took, m, c)
                   /\ At(q.queue, m, c) <=> At(tail, m, c)
                   /\ Somewhere(q, m, c) <=> Somewhere(p, m, c)
  <2>1. Moves(p, q, front, took, tail)
      BY CutMoves
  <2> QED
      BY <2>1 DEF Moves
<1>2. \A m, c : At(took, m, c) => \A d : At(took, m, d) => d = c
  <2>1. took = <<>> \/ \E item : took = <<item>>
      BY DEF Cut
  <2>2. CASE took = <<>>
      BY <2>2, AtOne
  <2>3. ASSUME NEW item, took = <<item>>
        PROVE  \A m, c : At(took, m, c) <=> item.msg = m /\ item.chunk = c
      BY <2>3, AtOne
  <2> QED
      BY <2>1, <2>2, <2>3
<1>3. Above(took, tail)
  <2>1. Rising(front \o (took \o tail))
      BY <1>0 DEF Sound, InOrder
  <2>2. Rising(took \o tail)
    <3> DEFINE rest == took \o tail
    <3>1. rest \in Seq(Item) /\ Rising(front \o rest)
        BY <2>1
    <3> HIDE DEF rest
    <3>2. Rising(rest)
        BY <3>1, ItemsRising
    <3> QED
        BY <3>2 DEF rest
  <2> QED
      BY <2>2, ItemsRising
<1>4. ASSUME NEW m \in Msg, NEW c \in Nat \ {0}, At(took, m, c + 1)
      PROVE  At(p.wire, m, c)
  <2>1. Somewhere(p, m, c)
      BY <1>1, <1>4 DEF Chained, Somewhere
  <2>2. ~At(took, m, c)
      BY <1>2, <1>4
  <2>3. ~At(tail, m, c)
      BY <1>3, <1>4 DEF Above
  <2>4. ~At(q.held, m, c)
    <3>1. CASE q.held = <<>>
        BY <3>1, AtOne
    <3>2. CASE \A i \in DOMAIN took : took[i].chunk = 1
        BY <1>4, <3>2 DEF At
    <3> QED
        BY <3>1, <3>2
  <2> QED
      BY <1>1, <2>1, <2>2, <2>3, <2>4 DEF Somewhere
<1> QED
    BY <1>1, <1>4 DEF Chained

(* An empty sequence is cut into empty ones. *)
LEMMA CutEmpty ==
    ASSUME NEW front \in Seq(Item), NEW took \in Seq(Item), NEW tail \in Seq(Item),
           front \o (took \o tail) = <<>>
    PROVE  front = <<>> /\ took = <<>> /\ tail = <<>>
<1> DEFINE rest == took \o tail
<1>1. rest \in Seq(Item) /\ front \o rest = <<>>
    OBVIOUS
<1> HIDE DEF rest
<1>2. front = <<>> /\ rest = <<>>
    BY <1>1, ConcatEqualIffEmpty
<1>3. took \o tail = <<>> => took = <<>> /\ tail = <<>>
    BY ConcatEqualIffEmpty
<1> QED
    BY <1>2, <1>3 DEF rest

(* What the queue keeps when it moves on: every frame, and their order. *)
Carries(p, q, switching) ==
    /\ q \in Path /\ Sound(q) /\ Idle(q)
    /\ Chained(p) => Chained(q)
    /\ \A m : Total(q, m) = Total(p, m)
    /\ \A m, c : Somewhere(q, m, c) <=> Somewhere(p, m, c)
    /\ \A m, c : At(p.wire, m, c) => At(q.wire, m, c)
    /\ p.held = <<>> /\ ~switching => q.held = <<>>
    /\ p.queue = <<>> => q.queue = <<>> /\ q.held = p.held

(* A cut keeps it, *)
LEMMA CutKeeps ==
    ASSUME NEW p \in Path, NEW q, NEW switching \in BOOLEAN, NEW sealing \in BOOLEAN, p.hand = <<>>,
           NEW front \in Seq(Item), NEW took \in Seq(Item), NEW tail \in Seq(Item),
           NEW written \in Seq(Frame), Cut(p, q, switching, sealing, front, took, tail, written),
           Sound(p),
           \/ switching
           \/ p.held = <<>>
           \/ FirstChunks(p.queue)
    PROVE  Carries(p, q, switching)
<1>0. p.queue \in Seq(Item) /\ p.held \in Seq(Item)
    BY DEF Path
<1>1. \/ q.held = <<>>
      \/ \A i \in DOMAIN took : took[i].chunk = 1
    BY CutOvertakesNothing
<1>2. /\ \A m, c : /\ At(p.queue, m, c) <=> At(front, m, c) \/ At(took, m, c) \/ At(tail, m, c)
                   /\ At(q.held, m, c) <=> At(p.held, m, c) \/ At(front, m, c)
                   /\ At(q.wire, m, c) <=> At(p.wire, m, c) \/ At(took, m, c)
                   /\ At(q.queue, m, c) <=> At(tail, m, c)
                   /\ Somewhere(q, m, c) <=> Somewhere(p, m, c)
      /\ \A m : Total(q, m) = Total(p, m)
  <2>1. Moves(p, q, front, took, tail)
      BY CutMoves
  <2> QED
      BY <2>1 DEF Moves
<1>3. InOrder(q)
  <2>1. InOrder(p)
      BY DEF Sound
  <2> QED
      BY <1>1, <2>1, CutInOrder
<1>4. /\ Len(q.hand) <= 1
      /\ q.hand # <<>> => At(took, q.hand[1].msg, q.hand[1].chunk)
      /\ q.hand = <<>> => q.queue = <<>>
  <2>1. CASE took = <<>> /\ tail = <<>>
      BY <2>1 DEF Cut
  <2>2. ASSUME NEW item \in Item, took = <<item>>
        PROVE  /\ Len(q.hand) <= 1
               /\ q.hand # <<>> => At(took, q.hand[1].msg, q.hand[1].chunk)
               /\ q.hand # <<>>
    <3>1. q.hand = <<item>>
        BY <2>2 DEF Cut
    <3> QED
        BY <2>2, <3>1, AtOne
  <2> QED
      BY <2>1, <2>2 DEF Cut
<1>5. Sound(q)
    BY <1>2, <1>3, <1>4 DEF Sound
<1>6. Chained(p) => Chained(q)
    BY <1>1, CutChained
<1>7. p.held = <<>> /\ ~switching => q.held = <<>>
    BY DEF Cut
<1>8. p.queue = <<>> => q.queue = <<>> /\ q.held = p.held
  <2>1. p.queue = <<>> => front = <<>> /\ tail = <<>>
    <3>1. p.queue = front \o (took \o tail)
        BY DEF Cut
    <3> QED
        BY <3>1, CutEmpty
  <2> QED
      BY <1>0, <2>1 DEF Cut
<1>9. q \in Path
    BY DEF Cut
<1> QED
    BY <1>2, <1>4, <1>5, <1>6, <1>7, <1>8, <1>9 DEF Idle, Carries

(* and so does a run of the queue. *)
LEMMA RunKeeps ==
    ASSUME NEW p \in Path, NEW switching \in BOOLEAN, NEW sealing \in BOOLEAN, Sound(p),
           \/ switching
           \/ p.held = <<>>
           \/ p.hand # <<>>
           \/ FirstChunks(p.queue)
    PROVE  /\ Carries(p, Run(p, switching, sealing), switching)
           /\ p.hand # <<>> => Run(p, switching, sealing) = p
<1> DEFINE q == Run(p, switching, sealing)
<1>1. CASE p.hand # <<>>
  <2>1. q = p
      BY <1>1, RunIs
  <2>2. Carries(p, p, switching)
      BY <1>1 DEF Idle, Carries
  <2> QED
      BY <2>1, <2>2
<1>2. CASE p.hand = <<>>
  <2>1. PICK front \in Seq(Item), took \in Seq(Item), tail \in Seq(Item), written \in Seq(Frame) :
            Cut(p, q, switching, sealing, front, took, tail, written)
      BY <1>2, RunIs
  <2>2. switching \/ p.held = <<>> \/ FirstChunks(p.queue)
      BY <1>2
  <2> HIDE DEF q
  <2>3. Carries(p, q, switching)
      BY <1>2, <2>1, <2>2, CutKeeps
  <2> QED
      BY <1>2, <2>3 DEF q
<1> QED
    BY <1>1, <1>2

(* Frames that may be queued behind p: in order, above what p has had of   *)
(* their message, and no more than it has;                                 *)
Follows(p, items) ==
    /\ Rising(items)
    /\ \A m \in Msg, d \in Nat : At(items, m, d) =>
          d <= Chunks[m] /\ \A c \in Nat : Somewhere(p, m, c) => c < d

(* and whose predecessors p has had.                                       *)
Joins(p, items) == \A m \in Msg, c \in Nat \ {0} : At(items, m, c + 1) => Somewhere(p, m, c)

(* What p has become when it has taken in items. *)
Takes(p, q, items) ==
    /\ q \in Path /\ Sound(q)
    /\ Chained(p) /\ Joins(p, items) => Chained(q)
    /\ \A m : Total(q, m) = Total(p, m) + InQueue(items, m)
    /\ \A m, c : Somewhere(q, m, c) <=> Somewhere(p, m, c) \/ At(items, m, c)
    /\ \A m, c : At(p.wire, m, c) => At(q.wire, m, c)

(* What waits is counted in numbers, and by its places. *)
LEMMA TotalType ==
    ASSUME NEW p \in Path, NEW m
    PROVE  /\ Total(p, m) \in Nat
           /\ InQueue(p.held, m) \in Nat /\ InQueue(p.queue, m) \in Nat /\ InQueue(p.hand, m) \in Nat
           /\ InQueue(p.held, m) = 0 <=> \A c : ~At(p.held, m, c)
           /\ InQueue(p.queue, m) = 0 <=> \A c : ~At(p.queue, m, c)
<1>1. p.held \in Seq(Item) /\ p.queue \in Seq(Item) /\ p.hand \in Seq(Item)
    BY DEF Path
<1>2. /\ InQueue(p.held, m) \in Nat /\ (InQueue(p.held, m) = 0 <=> \A i \in DOMAIN p.held : p.held[i].msg # m)
      /\ InQueue(p.queue, m) \in Nat /\ (InQueue(p.queue, m) = 0 <=> \A i \in DOMAIN p.queue : p.queue[i].msg # m)
      /\ InQueue(p.hand, m) \in Nat
    BY <1>1, CountType
<1>3. Total(p, m) \in Nat
    BY <1>2 DEF Total
<1> QED
    BY <1>2, <1>3 DEF At

(* Frames queued behind p. *)
LEMMA GrowKeeps ==
    ASSUME NEW p \in Path, Sound(p), NEW items \in Seq(Item), Follows(p, items),
           NEW g, g = [p EXCEPT !.queue = @ \o items]
    PROVE  /\ Takes(p, g, items)
           /\ g.hand = p.hand /\ g.held = p.held /\ g.wire = p.wire /\ g.queue = p.queue \o items
<1> DEFINE longer == p.queue \o items
<1>1. p.queue \in Seq(Item) /\ p.held \in Seq(Item) /\ p.wire \in Seq(Frame) /\ p.hand \in Seq(Item)
    BY DEF Path
<1>2. longer \in Seq(Item)
    BY <1>1
<1>3. \A m, c : At(longer, m, c) <=> At(p.queue, m, c) \/ At(items, m, c)
    BY <1>1, AtConcat
<1>4. \A m : InQueue(longer, m) = InQueue(p.queue, m) + InQueue(items, m)
    BY <1>1, CountConcat
<1>5. Rising(longer) <=> Rising(p.queue) /\ Rising(items) /\ Above(p.queue, items)
    BY <1>1, ItemsRising
<1>6. g = [p EXCEPT !.queue = longer]
    OBVIOUS
<1> HIDE DEF longer
<1>7. /\ g \in Path /\ g.queue = longer /\ g.hand = p.hand /\ g.held = p.held /\ g.wire = p.wire
    BY <1>2, <1>6 DEF Path
<1>8. \A m, c : Somewhere(g, m, c) <=> Somewhere(p, m, c) \/ At(items, m, c)
    BY <1>3, <1>7 DEF Somewhere
<1>9. ASSUME NEW m
      PROVE  Total(g, m) = Total(p, m) + InQueue(items, m)
  <2>1. /\ InQueue(p.held, m) \in Nat /\ InQueue(p.queue, m) \in Nat
        /\ InQueue(p.hand, m) \in Nat /\ InQueue(items, m) \in Nat
      BY <1>1, CountType
  <2>2. /\ Total(g, m) = InQueue(p.held, m) + InQueue(longer, m) + InQueue(p.hand, m)
        /\ Total(p, m) = InQueue(p.held, m) + InQueue(p.queue, m) + InQueue(p.hand, m)
      BY <1>7 DEF Total
  <2>3. InQueue(longer, m) = InQueue(p.queue, m) + InQueue(items, m)
      BY <1>4
  <2> QED
      BY <2>1, <2>2, <2>3
<1>10. /\ Above(p.queue, items) /\ Above(p.wire, items) /\ Above(p.held, items)
    BY DEF Follows, Above, Somewhere
<1>11. InOrder(g)
  <2>1. InOrder(p) /\ Rising(items)
      BY DEF Sound, Follows
  <2>2. Rising(longer)
      BY <1>5, <1>10, <2>1 DEF InOrder
  <2>3. Above(p.wire, longer) /\ Above(p.held, longer)
      BY <1>3, <1>10, <2>1 DEF InOrder, Above
  <2> QED
      BY <1>7, <2>1, <2>2, <2>3 DEF InOrder
<1>12. Sound(g)
  <2>1. \A m \in Msg, c \in Nat : Somewhere(g, m, c) => c <= Chunks[m]
      BY <1>8 DEF Sound, Follows
  <2> QED
      BY <1>7, <1>11, <2>1 DEF Sound
<1>13. ASSUME Chained(p), Joins(p, items)
       PROVE  Chained(g)
    BY <1>7, <1>8, <1>13 DEF Chained, Joins
<1> QED
    BY <1>7, <1>8, <1>9, <1>12, <1>13 DEF Takes, longer

(* And so does a queue that was given more and goes on. *)
LEMMA PushKeeps ==
    ASSUME NEW p \in Path, Sound(p), NEW items \in Seq(Item), Follows(p, items),
           NEW switching \in BOOLEAN, NEW sealing \in BOOLEAN,
           \/ switching
           \/ p.held = <<>>
           \/ p.hand # <<>>
           \/ p.queue = <<>> /\ FirstChunks(items)
    PROVE  /\ Takes(p, Push(p, items, switching, sealing), items)
           /\ Idle(Push(p, items, switching, sealing))
           /\ p.held = <<>> /\ ~switching => Push(p, items, switching, sealing).held = <<>>
<1> DEFINE g == [p EXCEPT !.queue = @ \o items]
           q == Push(p, items, switching, sealing)
<1>1. /\ Takes(p, g, items)
      /\ g.hand = p.hand /\ g.held = p.held /\ g.wire = p.wire /\ g.queue = p.queue \o items
    BY GrowKeeps
<1>2. q = Run(g, switching, sealing)
    BY DEF Push
<1> HIDE DEF g, q
<1>3. switching \/ g.held = <<>> \/ g.hand # <<>> \/ FirstChunks(g.queue)
  <2>1. p.queue = <<>> => p.queue \o items = items
      BY ConcatEmptySeq
  <2> QED
      BY <1>1, <2>1
<1>4. Carries(g, q, switching)
  <2>1. g \in Path /\ Sound(g)
      BY <1>1 DEF Takes
  <2> QED
      BY <1>2, <1>3, <2>1, RunKeeps
<1>5. Takes(p, q, items)
    BY <1>1, <1>4 DEF Takes, Carries
<1> QED
    BY <1>1, <1>4, <1>5 DEF Carries, q

(* What was held goes back ahead of what is queued. *)
LEMMA UnshiftKeeps ==
    ASSUME NEW p \in Path, Sound(p), NEW sealing \in BOOLEAN
    PROVE  /\ Takes(p, UnshiftHeld(p, sealing), <<>>)
           /\ Idle(UnshiftHeld(p, sealing))
           /\ UnshiftHeld(p, sealing).held = <<>>
<1> DEFINE longer == p.held \o p.queue
           g == [p EXCEPT !.queue = longer, !.held = <<>>]
           q == UnshiftHeld(p, sealing)
<1>1. p.queue \in Seq(Item) /\ p.held \in Seq(Item) /\ p.wire \in Seq(Frame) /\ p.hand \in Seq(Item)
    BY DEF Path
<1>2. longer \in Seq(Item)
    BY <1>1
<1>3. \A m, c : At(longer, m, c) <=> At(p.held, m, c) \/ At(p.queue, m, c)
    BY <1>1, AtConcat
<1>4. \A m : InQueue(longer, m) = InQueue(p.held, m) + InQueue(p.queue, m)
    BY <1>1, CountConcat
<1>5. Rising(longer) <=> Rising(p.held) /\ Rising(p.queue) /\ Above(p.held, p.queue)
    BY <1>1, ItemsRising
<1>6. q = Run(g, FALSE, sealing)
    BY DEF UnshiftHeld
<1> HIDE DEF longer
<1>7. /\ g \in Path /\ g.queue = longer /\ g.hand = p.hand /\ g.held = <<>> /\ g.wire = p.wire
  <2> DEFINE none == <<>>
  <2>1. none \in Seq(Item)
      OBVIOUS
  <2> HIDE DEF none
  <2>2. g = [p EXCEPT !.queue = longer, !.held = none]
      BY DEF none
  <2>3. /\ g \in Path /\ g.queue = longer /\ g.hand = p.hand /\ g.held = none /\ g.wire = p.wire
      BY <1>2, <2>1, <2>2 DEF Path
  <2> QED
      BY <2>3 DEF none
<1> HIDE DEF g, q
<1>8. \A m, c : ~At(<<>>, m, c)
    BY AtOne
<1>9. \A m, c : Somewhere(g, m, c) <=> Somewhere(p, m, c)
    BY <1>3, <1>7, <1>8 DEF Somewhere
<1>10. \A m : Total(g, m) = Total(p, m) /\ Total(p, m) \in Nat
  <2>1. ASSUME NEW m
        PROVE  /\ InQueue(p.held, m) \in Nat /\ InQueue(p.queue, m) \in Nat
               /\ InQueue(p.hand, m) \in Nat /\ InQueue(<<>>, m) = 0
      BY <1>1, CountType, CountOne
  <2> QED
      BY <1>4, <1>7, <2>1 DEF Total
<1>11. Sound(g)
  <2>1. InOrder(p)
      BY DEF Sound
  <2>2. Rising(longer) /\ Above(p.wire, longer)
      BY <1>3, <1>5, <2>1 DEF InOrder, Above
  <2>3. Rising(<<>>) /\ Above(p.wire, <<>>) /\ Above(<<>>, longer)
      BY <1>8, RisingOne DEF Above
  <2>4. InOrder(g)
      BY <1>7, <2>1, <2>2, <2>3 DEF InOrder
  <2> QED
      BY <1>7, <1>9, <2>4 DEF Sound
<1>12. Chained(p) => Chained(g)
    BY <1>7, <1>9 DEF Chained
<1>13. Carries(g, q, FALSE)
    BY <1>6, <1>7, <1>11, RunKeeps
<1>14. Takes(p, q, <<>>)
  <2>1. \A m : InQueue(<<>>, m) = 0
      BY CountOne
  <2>2. \A m : Total(q, m) = Total(p, m) + InQueue(<<>>, m)
      BY <1>10, <1>13, <2>1 DEF Carries
  <2>3. \A m, c : /\ Somewhere(q, m, c) <=> Somewhere(p, m, c) \/ At(<<>>, m, c)
                  /\ At(p.wire, m, c) => At(q.wire, m, c)
      BY <1>7, <1>8, <1>9, <1>13 DEF Carries
  <2> QED
      BY <1>12, <1>13, <2>2, <2>3 DEF Takes, Carries
<1> QED
    BY <1>7, <1>13, <1>14 DEF Carries, q

(* The session comes up: what waited in the link queue is queued, and what *)
(* was held goes ahead of it.                                              *)
LEMMA SessionKeeps ==
    ASSUME NEW p \in Path, Sound(p), Idle(p), NEW items \in Seq(Item), Follows(p, items), FirstChunks(items)
    PROVE  /\ Takes(p, SessionPath(p, items), items)
           /\ Idle(SessionPath(p, items))
           /\ SessionPath(p, items).held = <<>>
<1> DEFINE g == Push(p, items, FALSE, TRUE)
           q == SessionPath(p, items)
<1>1. p.hand # <<>> \/ (p.queue = <<>> /\ FirstChunks(items))
    BY DEF Idle
<1>2. Takes(p, g, items)
    BY <1>1, PushKeeps
<1>3. q = UnshiftHeld(g, TRUE)
    BY DEF SessionPath
<1> HIDE DEF g, q
<1>4. Takes(g, q, <<>>) /\ Idle(q) /\ q.held = <<>>
  <2>1. g \in Path /\ Sound(g)
      BY <1>2 DEF Takes
  <2> QED
      BY <1>3, <2>1, UnshiftKeeps
<1>5. Takes(p, q, items)
  <2>1. \A m, c : ~At(<<>>, m, c)
      BY AtOne
  <2>2. Joins(g, <<>>)
      BY <2>1 DEF Joins
  <2>3. /\ q \in Path /\ Sound(q)
        /\ Chained(p) /\ Joins(p, items) => Chained(q)
      BY <1>2, <1>4, <2>2 DEF Takes
  <2>4. /\ \A m, c : Somewhere(q, m, c) <=> Somewhere(p, m, c) \/ At(items, m, c)
        /\ \A m, c : At(p.wire, m, c) => At(q.wire, m, c)
      BY <1>2, <1>4, <2>1 DEF Takes
  <2>5. ASSUME NEW m
        PROVE  Total(q, m) = Total(p, m) + InQueue(items, m)
    <3>1. Total(q, m) = Total(g, m) + InQueue(<<>>, m) /\ Total(g, m) = Total(p, m) + InQueue(items, m)
        BY <1>2, <1>4 DEF Takes
    <3>2. InQueue(<<>>, m) = 0 /\ InQueue(items, m) \in Nat /\ Total(p, m) \in Nat
        BY CountOne, CountType, TotalType
    <3> QED
        BY <3>1, <3>2
  <2> QED
      BY <2>3, <2>4, <2>5 DEF Takes
<1> QED
    BY <1>4, <1>5 DEF q

(* What is in hand. *)
LEMMA HandIs ==
    ASSUME NEW p \in Path, Sound(p), p.hand # <<>>
    PROVE  /\ p.hand[1] \in Item
           /\ \A m : InQueue(p.hand, m) = IF m = p.hand[1].msg THEN 1 ELSE 0
           /\ At(p.wire, p.hand[1].msg, p.hand[1].chunk)
<1>1. p.hand \in Seq(Item) /\ Len(p.hand) <= 1
    BY DEF Path, Sound
<1>2. p.hand[1] \in Item /\ p.hand = <<p.hand[1]>>
    BY <1>1
<1> DEFINE item == p.hand[1]
<1>3. p.hand = <<item>>
    BY <1>2
<1> HIDE DEF item
<1>4. \A m : InQueue(<<item>>, m) = IF m = item.msg THEN 1 ELSE 0
    BY CountOne
<1>5. \A m : InQueue(p.hand, m) = IF m = item.msg THEN 1 ELSE 0
    BY <1>3, <1>4
<1>6. At(p.wire, p.hand[1].msg, p.hand[1].chunk)
    BY DEF Sound
<1> QED
    BY <1>2, <1>5, <1>6 DEF item

(* The queue is killed: what is left is on the wire, in hand, or held.     *)
Killed(p, q, held, hand) ==
    /\ q \in Path /\ Sound(q) /\ Idle(q)
    /\ q.queue = <<>> /\ q.held = held /\ q.hand = hand /\ q.wire = p.wire
    /\ \A m : Total(q, m) = InQueue(held, m) + InQueue(hand, m)
    /\ \A m, c : Somewhere(q, m, c) <=> At(p.wire, m, c) \/ At(held, m, c)
    /\ Chained(p) /\ held = <<>> => Chained(q)

(* A queue that is killed keeps it. *)
LEMMA KillKeeps ==
    ASSUME NEW p \in Path, Sound(p), NEW held, held = p.held \/ held = <<>>,
           NEW hand, hand = p.hand \/ hand = <<>>,
           NEW q, q = [p EXCEPT !.queue = <<>>, !.held = held, !.hand = hand]
    PROVE  Killed(p, q, held, hand)
<1> DEFINE none == <<>>
<1>1. p.queue \in Seq(Item) /\ p.held \in Seq(Item) /\ p.wire \in Seq(Frame) /\ p.hand \in Seq(Item)
    BY DEF Path
<1>2. none \in Seq(Item) /\ held \in Seq(Item) /\ hand \in Seq(Item)
  <2>1. none \in Seq(Item)
      OBVIOUS
  <2> QED
      BY <1>1, <2>1
<1>3. q = [p EXCEPT !.queue = none, !.held = held, !.hand = hand]
    OBVIOUS
<1>4. (\A m, c : ~At(none, m, c)) /\ Rising(none) /\ (\A m : InQueue(none, m) = 0)
    BY AtOne, RisingOne, CountOne
<1>5. (held = p.held \/ held = none) /\ (hand = p.hand \/ hand = none) /\ Len(none) = 0
    OBVIOUS
<1> HIDE DEF none
<1>6. /\ q \in Path /\ q.queue = none /\ q.held = held /\ q.hand = hand /\ q.wire = p.wire
    BY <1>2, <1>3 DEF Path
<1>7. \A m, c : Somewhere(q, m, c) <=> At(p.wire, m, c) \/ At(held, m, c)
    BY <1>4, <1>6 DEF Somewhere
<1>8. ASSUME NEW m
      PROVE  Total(q, m) = InQueue(held, m) + InQueue(hand, m)
  <2>1. InQueue(held, m) \in Nat /\ InQueue(hand, m) \in Nat
      BY <1>2, CountType
  <2>2. Total(q, m) = InQueue(held, m) + InQueue(none, m) + InQueue(hand, m) /\ InQueue(none, m) = 0
      BY <1>4, <1>6 DEF Total
  <2> QED
      BY <2>1, <2>2
<1>9. Sound(q)
  <2>1. InOrder(p)
      BY DEF Sound
  <2>2. Rising(held) /\ Above(p.wire, held)
      BY <1>4, <1>5, <2>1 DEF InOrder, Above
  <2>3. Above(p.wire, none) /\ Above(held, none)
      BY <1>4 DEF Above
  <2>4. InOrder(q)
      BY <1>4, <1>6, <2>1, <2>2, <2>3 DEF InOrder
  <2>5. \A m \in Msg, c \in Nat : Somewhere(q, m, c) => Somewhere(p, m, c)
      BY <1>4, <1>5, <1>7 DEF Somewhere
  <2>6. \A m \in Msg, c \in Nat : Somewhere(q, m, c) => c <= Chunks[m]
      BY <2>5 DEF Sound
  <2>7. /\ Len(q.hand) <= 1
        /\ q.hand # <<>> => At(q.wire, q.hand[1].msg, q.hand[1].chunk)
    <3>1. CASE hand = p.hand
        BY <1>6, <3>1 DEF Sound
    <3>2. CASE hand = none
        BY <1>5, <1>6, <3>2 DEF none
    <3> QED
        BY <1>5, <3>1, <3>2
  <2> QED
      BY <2>4, <2>6, <2>7 DEF Sound
<1>10. ASSUME Chained(p), held = <<>>
       PROVE  Chained(q)
  <2>1. \A m, c : Somewhere(q, m, c) <=> At(p.wire, m, c)
      BY <1>4, <1>7, <1>10 DEF none
  <2> QED
      BY <1>6, <1>10, <2>1 DEF Chained
<1> QED
    BY <1>6, <1>7, <1>8, <1>9, <1>10 DEF Idle, Killed, none

(* The frame in hand has settled, and the queue goes on. *)
LEMMA NextKeeps ==
    ASSUME NEW p \in Path, Sound(p), NEW switching \in BOOLEAN, NEW sealing \in BOOLEAN,
           switching \/ p.held = <<>>,
           NEW q, q = Run([p EXCEPT !.hand = <<>>], switching, sealing)
    PROVE  /\ q \in Path /\ Sound(q) /\ Idle(q)
           /\ Chained(p) => Chained(q)
           /\ \A m : Total(p, m) = Total(q, m) + InQueue(p.hand, m)
           /\ \A m, c : Somewhere(q, m, c) <=> Somewhere(p, m, c)
           /\ \A m, c : At(p.wire, m, c) => At(q.wire, m, c)
           /\ p.held = <<>> /\ ~switching => q.held = <<>>
           /\ p.queue = <<>> => q.queue = <<>>
<1> DEFINE none == <<>>
           g == [p EXCEPT !.hand = none]
<1>1. none \in Seq(Item) /\ (\A m : InQueue(none, m) = 0) /\ Len(none) = 0
  <2>1. none \in Seq(Item) /\ Len(none) = 0
      OBVIOUS
  <2>2. \A m : InQueue(none, m) = 0
      BY CountOne
  <2> QED
      BY <2>1, <2>2
<1> HIDE DEF none
<1>2. /\ g \in Path /\ g.queue = p.queue /\ g.hand = none /\ g.held = p.held /\ g.wire = p.wire
    BY <1>1 DEF Path
<1>3. q = Run(g, switching, sealing)
    BY DEF none
<1> HIDE DEF g
<1>4. ASSUME NEW m
      PROVE  Total(p, m) = Total(g, m) + InQueue(p.hand, m)
  <2>1. InQueue(p.held, m) \in Nat /\ InQueue(p.queue, m) \in Nat /\ InQueue(p.hand, m) \in Nat
      BY TotalType
  <2>2. Total(g, m) = InQueue(p.held, m) + InQueue(p.queue, m) + InQueue(none, m)
      BY <1>2 DEF Total
  <2> QED
      BY <1>1, <2>1, <2>2 DEF Total
<1>5. \A m, c : Somewhere(g, m, c) <=> Somewhere(p, m, c)
    BY <1>2 DEF Somewhere
<1>6. Sound(g)
  <2>1. InOrder(g)
      BY <1>2 DEF Sound, InOrder
  <2> QED
      BY <1>1, <1>2, <1>5, <2>1 DEF Sound, none
<1>7. Chained(p) => Chained(g)
    BY <1>2, <1>5 DEF Chained
<1>8. Carries(g, q, switching)
    BY <1>2, <1>3, <1>6, RunKeeps
<1>9. \A m, c : /\ Somewhere(q, m, c) <=> Somewhere(p, m, c)
                /\ At(p.wire, m, c) => At(q.wire, m, c)
    BY <1>2, <1>5, <1>8 DEF Carries
<1>10. \A m : Total(p, m) = Total(q, m) + InQueue(p.hand, m)
    BY <1>4, <1>8 DEF Carries
<1> QED
    BY <1>2, <1>7, <1>8, <1>9, <1>10 DEF Carries

-----------------------------------------------------------------------------
(* What becomes of a message                                               *)

(* A stream that has not begun. *)
Fresh(s) == ~s.on /\ s.next = 1 /\ s.inFlight = 0 /\ ~s.failed

(* Below, st is the status of m and s its stream, linked says whether it   *)
(* waits in the link queue, and p is the packet queue of its sender.       *)

(* A message that has not left, or waits in the link queue, is nowhere     *)
(* else.                                                                   *)
Apart(m, st, s, linked, p) ==
    st = "unsent" \/ linked =>
        /\ Fresh(s)
        /\ Total(p, m) = 0
        /\ \A c \in Nat : ~Somewhere(p, m, c)

(* A message of one frame is once in the queue until it has settled. *)
OnceIn(m, st, s, linked, p) ==
    Single(m) =>
        /\ ~s.on
        /\ Total(p, m) <= 1
        /\ st = "pending" => WriteErrors \/ linked \/ Total(p, m) = 1

(* The stream of a larger one counts right, and has missed no chunk.       *)
Counted(m, st, s, linked, p) ==
    ~Single(m) =>
        /\ s.inFlight <= Window
        /\ Total(p, m) <= s.inFlight
        /\ WriteErrors \/ Total(p, m) = s.inFlight
        /\ \A c \in Nat : Somewhere(p, m, c) => c < s.next
        /\ st = "pending" => linked \/ s.on
        /\ WriteErrors \/ s.failed \/ \A c \in 1..s.next - 1 : Somewhere(p, m, c)

(* A send that resolved is on the wire, chunk by chunk. *)
Whole(m, st, p) == st = "resolved" => WriteErrors \/ \A c \in 1..Chunks[m] : At(p.wire, m, c)

(* All that is kept of a message. *)
MsgOK(m, st, s, linked, p) ==
    Apart(m, st, s, linked, p) /\ OnceIn(m, st, s, linked, p) /\ Counted(m, st, s, linked, p) /\ Whole(m, st, p)

(* Nothing happens to a message whose frames only move. *)
LEMMA Moved ==
    ASSUME NEW m, NEW st, NEW s, NEW linked \in BOOLEAN, NEW p, NEW q, MsgOK(m, st, s, linked, p),
           Total(q, m) = Total(p, m),
           \A c : Somewhere(q, m, c) <=> Somewhere(p, m, c),
           \A c : At(p.wire, m, c) => At(q.wire, m, c)
    PROVE  MsgOK(m, st, s, linked, q)
<1>1. Apart(m, st, s, linked, q)
    BY DEF MsgOK, Apart
<1>2. OnceIn(m, st, s, linked, q)
    BY DEF MsgOK, OnceIn
<1>3. Counted(m, st, s, linked, q)
    BY DEF MsgOK, Counted
<1>4. Whole(m, st, q)
    BY DEF MsgOK, Whole
<1> QED
    BY <1>1, <1>2, <1>3, <1>4 DEF MsgOK

(* A send that is rejected is settled, wherever its frames are. *)
LEMMA Rejected ==
    ASSUME NEW m, NEW st, NEW s, NEW linked \in BOOLEAN, NEW p, MsgOK(m, st, s, linked, p)
    PROVE  MsgOK(m, "rejected", s, linked, p)
<1>1. Apart(m, "rejected", s, linked, p)
    BY DEF MsgOK, Apart
<1>2. OnceIn(m, "rejected", s, linked, p)
    BY DEF MsgOK, OnceIn
<1>3. Counted(m, "rejected", s, linked, p)
    BY DEF MsgOK, Counted
<1> QED
    BY <1>1, <1>2, <1>3 DEF MsgOK, Whole

(* It is queued behind the switch. *)
LEMMA LinkQueued ==
    ASSUME NEW m, NEW s, NEW linked \in BOOLEAN, NEW p, MsgOK(m, "unsent", s, linked, p)
    PROVE  MsgOK(m, "pending", s, TRUE, p)
<1>1. Apart(m, "pending", s, TRUE, p)
    BY DEF MsgOK, Apart
<1>2. OnceIn(m, "pending", s, TRUE, p)
    BY DEF MsgOK, OnceIn
<1>3. Counted(m, "pending", s, TRUE, p)
    BY DEF MsgOK, Counted
<1> QED
    BY <1>1, <1>2, <1>3 DEF MsgOK, Whole

(* Its only frame is queued. *)
LEMMA Queued ==
    ASSUME NEW m, NEW st, NEW s \in Stream, NEW linked \in BOOLEAN, NEW p, NEW q, NEW items,
           MsgOK(m, st, s, linked, p), st = "unsent" \/ linked, Single(m),
           Takes(p, q, items), InQueue(items, m) = 1
    PROVE  MsgOK(m, "pending", s, FALSE, q)
<1>1. Fresh(s) /\ Total(p, m) = 0
    BY DEF MsgOK, Apart
<1>2. Total(q, m) = 1
    BY <1>1 DEF Takes
<1> QED
    BY <1>1, <1>2 DEF MsgOK, Apart, OnceIn, Counted, Whole, Fresh

(* It begins to stream. *)
LEMMA Started ==
    ASSUME NEW m, NEW st, NEW s \in Stream, NEW linked \in BOOLEAN, NEW p, NEW q,
           MsgOK(m, st, s, linked, p), st = "unsent" \/ linked, ~Single(m),
           Total(q, m) = Total(p, m),
           \A c : Somewhere(q, m, c) <=> Somewhere(p, m, c)
    PROVE  MsgOK(m, "pending", [s EXCEPT !.on = TRUE], FALSE, q)
<1> DEFINE t == [s EXCEPT !.on = TRUE]
<1>1. Fresh(s) /\ Total(q, m) = 0 /\ \A c \in Nat : ~Somewhere(q, m, c)
    BY DEF MsgOK, Apart
<1>2. t.on /\ t.next = 1 /\ t.inFlight = 0
    BY <1>1 DEF Stream, Fresh
<1>3. Window \in Nat
    BY SendPathAssumption
<1> HIDE DEF t
<1>4. Counted(m, "pending", t, FALSE, q)
    BY <1>1, <1>2, <1>3 DEF Counted
<1>5. MsgOK(m, "pending", t, FALSE, q)
    BY <1>4 DEF MsgOK, Apart, OnceIn, Whole
<1> QED
    BY <1>5 DEF t

(* Its next chunk is queued. *)
LEMMA ChunkQueued ==
    ASSUME NEW m, NEW s \in Stream, NEW linked \in BOOLEAN, NEW p \in Path, NEW q,
           MsgOK(m, "pending", s, linked, p), s.on, s.inFlight < Window,
           Takes(p, q, <<[msg |-> m, chunk |-> s.next]>>)
    PROVE  MsgOK(m, "pending", [s EXCEPT !.next = @ + 1, !.inFlight = @ + 1], linked, q)
<1> DEFINE t == [s EXCEPT !.next = @ + 1, !.inFlight = @ + 1]
           item == [msg |-> m, chunk |-> s.next]
<1>1. ~linked /\ ~Single(m)
    BY DEF MsgOK, Apart, OnceIn, Fresh
<1>2. /\ t.on /\ t.next = s.next + 1 /\ t.inFlight = s.inFlight + 1 /\ t.failed = s.failed
      /\ s.next \in Nat /\ s.inFlight \in Nat
    BY DEF Stream
<1>3. Takes(p, q, <<item>>) /\ item.msg = m /\ item.chunk = s.next
    OBVIOUS
<1>4. Window \in Nat
    BY SendPathAssumption
<1> HIDE DEF t, item
<1>5. Total(q, m) = Total(p, m) + 1 /\ Total(p, m) \in Nat
  <2>1. InQueue(<<item>>, m) = 1
      BY <1>3, CountOne
  <2> QED
      BY <1>3, <2>1, TotalType DEF Takes
<1>6. \A c : Somewhere(q, m, c) <=> Somewhere(p, m, c) \/ c = s.next
  <2>1. \A c : At(<<item>>, m, c) <=> c = s.next
      BY <1>3, AtOne
  <2> QED
      BY <1>3, <2>1 DEF Takes
<1>7. Counted(m, "pending", s, linked, p)
    BY DEF MsgOK
<1>8. Counted(m, "pending", t, linked, q)
  <2>1. t.inFlight <= Window
      BY <1>2, <1>4
  <2>2. /\ Total(q, m) <= t.inFlight
        /\ WriteErrors \/ Total(q, m) = t.inFlight
      BY <1>1, <1>2, <1>5, <1>7 DEF Counted
  <2>3. ASSUME NEW c \in Nat, Somewhere(q, m, c)
        PROVE  c < t.next
    <3>1. Somewhere(p, m, c) \/ c = s.next
        BY <1>6, <2>3
    <3>2. CASE Somewhere(p, m, c)
      <4>1. c < s.next
          BY <1>1, <1>7, <3>2 DEF Counted
      <4> QED
          BY <1>2, <4>1
    <3> QED
        BY <1>2, <3>1, <3>2
  <2>4. WriteErrors \/ t.failed \/ \A c \in 1..t.next - 1 : Somewhere(q, m, c)
    <3>1. ASSUME ~WriteErrors, ~t.failed, NEW c \in 1..t.next - 1
          PROVE  Somewhere(q, m, c)
      <4>1. c \in 1..s.next - 1 \/ c = s.next
          BY <1>2, <3>1
      <4>2. c \in 1..s.next - 1 => Somewhere(p, m, c)
          BY <1>1, <1>2, <1>7, <3>1 DEF Counted
      <4> QED
          BY <1>6, <4>1, <4>2
    <3> QED
        BY <3>1
  <2> QED
      BY <1>2, <2>1, <2>2, <2>3, <2>4 DEF Counted
<1>9. MsgOK(m, "pending", t, linked, q)
    BY <1>1, <1>8 DEF MsgOK, Apart, OnceIn, Whole
<1> QED
    BY <1>9 DEF t

(* All its chunks are out. *)
LEMMA StreamDone ==
    ASSUME NEW m \in Msg, NEW s \in Stream, NEW linked \in BOOLEAN, NEW p \in Path,
           MsgOK(m, "pending", s, linked, p), s.on, s.next > Chunks[m], s.inFlight = 0, ~s.failed
    PROVE  MsgOK(m, "resolved", s, linked, p)
<1>1. ~linked /\ ~Single(m)
    BY DEF MsgOK, Apart, OnceIn, Fresh
<1>2. Counted(m, "pending", s, linked, p)
    BY DEF MsgOK
<1>3. Counted(m, "resolved", s, linked, p)
    BY <1>2 DEF Counted
<1>4. ASSUME ~WriteErrors, NEW c \in 1..Chunks[m]
      PROVE  At(p.wire, m, c)
  <2>1. Total(p, m) = 0 /\ Somewhere(p, m, c)
    <3>1. Chunks[m] \in Nat /\ s.next \in Nat
        BY SendPathAssumption DEF Stream
    <3>2. c \in 1..s.next - 1
        BY <3>1
    <3> QED
        BY <1>1, <1>2, <1>4, <3>2 DEF Counted
  <2>2. InQueue(p.held, m) = 0 /\ InQueue(p.queue, m) = 0
    <3>1. InQueue(p.held, m) \in Nat /\ InQueue(p.queue, m) \in Nat /\ InQueue(p.hand, m) \in Nat
        BY TotalType
    <3> QED
        BY <2>1, <3>1 DEF Total
  <2>3. ~At(p.held, m, c) /\ ~At(p.queue, m, c)
      BY <2>2, TotalType
  <2> QED
      BY <2>1, <2>3 DEF Somewhere
<1> QED
    BY <1>1, <1>3, <1>4 DEF MsgOK, Apart, OnceIn, Whole

(* What becomes of a message when one of its frames settles, *)
SettleStatus(m, st, how) == IF Single(m) THEN how ELSE st

(* and of its stream. *)
SettleStream(m, s, how) ==
    IF Single(m) THEN s ELSE [s EXCEPT !.inFlight = @ - 1, !.failed = @ \/ how = "rejected"]

(* p has gone on to q: what was in hand has left. *)
Onward(p, q, m) ==
    /\ Total(p, m) = Total(q, m) + InQueue(p.hand, m)
    /\ \A c : Somewhere(q, m, c) <=> Somewhere(p, m, c)
    /\ \A c : At(p.wire, m, c) => At(q.wire, m, c)

(* The frame in hand is written, *)
LEMMA Settled ==
    ASSUME NEW m \in Msg, NEW st, NEW s \in Stream, NEW linked \in BOOLEAN, NEW p \in Path, NEW q \in Path,
           MsgOK(m, st, s, linked, p), Sound(p), p.hand # <<>>, p.hand[1].msg = m, Onward(p, q, m)
    PROVE  /\ MsgOK(m, SettleStatus(m, st, "resolved"), SettleStream(m, s, "resolved"), linked, q)
           /\ SettleStream(m, s, "resolved") \in Stream
<1> USE DEF Onward
<1>1. InQueue(p.hand, m) = 1 /\ At(p.wire, m, p.hand[1].chunk) /\ p.hand[1] \in Item
    BY HandIs
<1>2. Total(p, m) = Total(q, m) + 1 /\ Total(q, m) \in Nat /\ Total(p, m) \in Nat /\ Total(p, m) # 0
    BY <1>1, TotalType
<1>3. ~linked /\ st # "unsent"
    BY <1>2 DEF MsgOK, Apart
<1>4. ASSUME Single(m)
      PROVE  MsgOK(m, "resolved", s, linked, q)
  <2>1. OnceIn(m, "resolved", s, linked, q)
      BY <1>2 DEF MsgOK, OnceIn
  <2>2. p.hand[1].chunk = 1
    <3>1. p.hand[1].chunk \in Nat \ {0} /\ Chunks[m] = 1
        BY <1>1, <1>4 DEF Item, Single
    <3>2. p.hand[1].chunk <= Chunks[m]
        BY <1>1, <3>1 DEF Sound, Somewhere
    <3> QED
        BY <3>1, <3>2
  <2>3. Whole(m, "resolved", q)
    <3>1. \A c \in 1..Chunks[m] : c = 1
        BY <1>4 DEF Single
    <3> QED
        BY <1>1, <2>2, <3>1 DEF Whole
  <2>4. Counted(m, "resolved", s, linked, q)
      BY <1>4 DEF Counted
  <2> QED
      BY <1>3, <2>1, <2>3, <2>4 DEF MsgOK, Apart
<1>5. ASSUME ~Single(m)
      PROVE  MsgOK(m, st, SettleStream(m, s, "resolved"), linked, q) /\ SettleStream(m, s, "resolved") \in Stream
  <2> DEFINE t == SettleStream(m, s, "resolved")
  <2>0. t = [s EXCEPT !.inFlight = @ - 1, !.failed = @ \/ FALSE]
      BY <1>5 DEF SettleStream
  <2>1. /\ t.on = s.on /\ t.next = s.next /\ t.inFlight = s.inFlight - 1 /\ t.failed = s.failed
        /\ s.inFlight \in Nat
      BY <2>0 DEF Stream
  <2> HIDE DEF t
  <2>2. Counted(m, st, s, linked, p) /\ Whole(m, st, p)
      BY DEF MsgOK
  <2>3. /\ t.inFlight <= Window /\ s.inFlight > 0
        /\ Total(q, m) <= t.inFlight
        /\ WriteErrors \/ Total(q, m) = t.inFlight
    <3>1. Window \in Nat
        BY SendPathAssumption
    <3> QED
        BY <1>2, <1>5, <2>1, <2>2, <3>1 DEF Counted
  <2>4. WriteErrors \/ t.failed \/ \A c \in 1..t.next - 1 : Somewhere(q, m, c)
      BY <1>5, <2>1, <2>2 DEF Counted
  <2>5. Counted(m, st, t, linked, q)
      BY <1>5, <2>1, <2>2, <2>3, <2>4 DEF Counted
  <2>6. MsgOK(m, st, t, linked, q)
      BY <1>3, <1>5, <2>2, <2>5 DEF MsgOK, Apart, OnceIn, Whole
  <2>7. t \in Stream
    <3>1. s.inFlight - 1 \in Nat
        BY <2>1, <2>3
    <3> QED
        BY <2>0, <3>1 DEF Stream
  <2> QED
      BY <2>6, <2>7 DEF t
<1> QED
    BY <1>4, <1>5 DEF SettleStatus, SettleStream

(* or it is not, and the queue behind it is killed. *)
Emptied(p, q, m) ==
    /\ Total(q, m) = InQueue(p.held, m)
    /\ \A c : Somewhere(q, m, c) <=> At(p.wire, m, c) \/ At(p.held, m, c)
    /\ q.wire = p.wire

(* The frame in hand is not written. *)
LEMMA Failed ==
    ASSUME NEW m \in Msg, NEW st, NEW s \in Stream, NEW linked \in BOOLEAN, NEW p \in Path, NEW q \in Path,
           MsgOK(m, st, s, linked, p), Sound(p), p.hand # <<>>, Emptied(p, q, m),
           WriteErrors \/ p.queue = <<>>
    PROVE  /\ p.hand[1].msg # m => MsgOK(m, st, s, linked, q)
           /\ p.hand[1].msg = m =>
                 /\ MsgOK(m, SettleStatus(m, st, "rejected"), SettleStream(m, s, "rejected"), linked, q)
                 /\ SettleStream(m, s, "rejected") \in Stream
<1> USE DEF Emptied
<1>1. /\ InQueue(p.held, m) \in Nat /\ InQueue(p.queue, m) \in Nat /\ InQueue(p.hand, m) \in Nat
      /\ InQueue(p.hand, m) = IF m = p.hand[1].msg THEN 1 ELSE 0
    BY TotalType, HandIs
<1>2. /\ Total(p, m) = Total(q, m) + InQueue(p.queue, m) + InQueue(p.hand, m)
      /\ Total(q, m) \in Nat /\ Total(p, m) \in Nat
    BY <1>1 DEF Total
<1>3. \A c : Somewhere(q, m, c) => Somewhere(p, m, c)
    BY DEF Somewhere
<1>4. ~WriteErrors => InQueue(p.queue, m) = 0 /\ \A c : Somewhere(p, m, c) => Somewhere(q, m, c)
  <2>1. ASSUME p.queue = <<>>
        PROVE  InQueue(p.queue, m) = 0 /\ \A c : ~At(p.queue, m, c)
    <3>1. InQueue(<<>>, m) = 0
        BY CountOne
    <3>2. \A c : ~At(<<>>, m, c)
        BY AtOne
    <3> QED
        BY <2>1, <3>1, <3>2
  <2> QED
      BY <2>1 DEF Somewhere
<1>5. Apart(m, st, s, linked, q)
    BY <1>2, <1>3, <1>1 DEF MsgOK, Apart
<1>6. OnceIn(m, "rejected", s, linked, q)
    BY <1>1, <1>2 DEF MsgOK, OnceIn
<1>7. Counted(m, st, s, linked, p) /\ Whole(m, st, p)
    BY DEF MsgOK
<1>8. ASSUME p.hand[1].msg # m
      PROVE  MsgOK(m, st, s, linked, q)
  <2>0. InQueue(p.hand, m) = 0
      BY <1>1, <1>8
  <2>1. Total(q, m) <= Total(p, m) /\ (~WriteErrors => Total(q, m) = Total(p, m))
      BY <1>1, <1>2, <1>4, <2>0
  <2>2. OnceIn(m, st, s, linked, q)
      BY <1>2, <2>1 DEF MsgOK, OnceIn
  <2>3. Counted(m, st, s, linked, q)
    <3>1. ASSUME ~Single(m)
          PROVE  Total(q, m) <= s.inFlight /\ (WriteErrors \/ Total(q, m) = s.inFlight)
      <4>1. s.inFlight \in Nat
          BY DEF Stream
      <4> QED
          BY <1>2, <1>7, <2>1, <3>1, <4>1 DEF Counted
    <3> QED
        BY <1>3, <1>4, <1>7, <3>1 DEF Counted
  <2> QED
      BY <1>5, <1>7, <2>2, <2>3 DEF MsgOK, Whole
<1>9. ASSUME p.hand[1].msg = m, Single(m)
      PROVE  MsgOK(m, "rejected", s, linked, q)
  <2>1. ~linked
      BY <1>1, <1>2, <1>9 DEF MsgOK, Apart
  <2> QED
      BY <1>6, <1>9, <2>1 DEF MsgOK, Apart, Counted, Whole
<1>10. ASSUME p.hand[1].msg = m, ~Single(m)
       PROVE  MsgOK(m, st, SettleStream(m, s, "rejected"), linked, q) /\ SettleStream(m, s, "rejected") \in Stream
  <2> DEFINE t == SettleStream(m, s, "rejected")
  <2>0. t = [s EXCEPT !.inFlight = @ - 1, !.failed = @ \/ TRUE]
      BY <1>10 DEF SettleStream
  <2>1. /\ t.on = s.on /\ t.next = s.next /\ t.inFlight = s.inFlight - 1 /\ t.failed
        /\ s.inFlight \in Nat
      BY <2>0 DEF Stream
  <2> HIDE DEF t
  <2>2. ~linked /\ st # "unsent"
      BY <1>1, <1>2, <1>10 DEF MsgOK, Apart
  <2>3. /\ t.inFlight <= Window /\ s.inFlight > 0
        /\ Total(q, m) <= t.inFlight
        /\ WriteErrors \/ Total(q, m) = t.inFlight
    <3>1. Window \in Nat
        BY SendPathAssumption
    <3>2. InQueue(p.hand, m) = 1
        BY <1>1, <1>10
    <3>3. s.inFlight <= Window /\ Total(p, m) <= s.inFlight /\ (WriteErrors \/ Total(p, m) = s.inFlight)
        BY <1>7, <1>10 DEF Counted
    <3> QED
        BY <1>1, <1>2, <1>4, <2>1, <3>1, <3>2, <3>3
  <2>4. Counted(m, st, t, linked, q)
      BY <1>3, <1>7, <1>10, <2>1, <2>3 DEF Counted
  <2>5. MsgOK(m, st, t, linked, q)
      BY <1>7, <1>10, <2>2, <2>4 DEF MsgOK, Apart, OnceIn, Whole
  <2>6. t \in Stream
    <3>1. s.inFlight - 1 \in Nat
        BY <2>1, <2>3
    <3> QED
        BY <2>0, <3>1 DEF Stream
  <2> QED
      BY <2>5, <2>6 DEF t
<1> QED
    BY <1>8, <1>9, <1>10 DEF SettleStatus, SettleStream

(* What becomes of a message with n frames in a queue that is dropped      *)
(* (told: the caller rejects the send itself),                             *)
DropStatus(m, st, linked, told, n) == IF linked \/ (Single(m) /\ n > 0) \/ told THEN "rejected" ELSE st

(* and of its stream. *)
DropStream(m, s, n) == IF Single(m) \/ n = 0 THEN s ELSE [s EXCEPT !.inFlight = @ - n, !.failed = TRUE]

(* Only what is in hand is left of p, *)
Stripped(p, q, hand, m) ==
    /\ Total(q, m) = InQueue(hand, m)
    /\ \A c : Somewhere(q, m, c) <=> At(p.wire, m, c)
    /\ q.wire = p.wire

(* and if not that, the sender is told. *)
Spared(p, hand, told, m) ==
    InQueue(hand, m) = InQueue(p.hand, m) \/ (InQueue(hand, m) = 0 /\ told /\ Single(m))

(* The connection is dropped. *)
LEMMA Dropped ==
    ASSUME NEW m \in Msg, NEW st, NEW s \in Stream, NEW linked \in BOOLEAN, NEW p \in Path, NEW q \in Path,
           MsgOK(m, st, s, linked, p), NEW told \in BOOLEAN, NEW hand,
           Stripped(p, q, hand, m), Spared(p, hand, told, m),
           NEW n, n = InQueue(p.held \o p.queue, m)
    PROVE  /\ MsgOK(m, DropStatus(m, st, linked, told, n), DropStream(m, s, n), FALSE, q)
           /\ DropStream(m, s, n) \in Stream
<1> USE DEF Stripped, Spared
<1> DEFINE st2 == DropStatus(m, st, linked, told, n)
           s2 == DropStream(m, s, n)
<1>0. /\ st2 = IF linked \/ (Single(m) /\ n > 0) \/ told THEN "rejected" ELSE st
      /\ s2 = IF Single(m) \/ n = 0 THEN s ELSE [s EXCEPT !.inFlight = @ - n, !.failed = TRUE]
    BY DEF DropStatus, DropStream
<1> HIDE DEF st2, s2
<1>1. /\ InQueue(p.held, m) \in Nat /\ InQueue(p.queue, m) \in Nat /\ InQueue(p.hand, m) \in Nat
      /\ n = InQueue(p.held, m) + InQueue(p.queue, m)
  <2>1. p.held \in Seq(Item) /\ p.queue \in Seq(Item)
      BY DEF Path
  <2>2. InQueue(p.held \o p.queue, m) = InQueue(p.held, m) + InQueue(p.queue, m)
      BY <2>1, CountConcat
  <2> QED
      BY <2>2, TotalType
<1>2. /\ Total(p, m) = n + InQueue(p.hand, m) /\ n \in Nat /\ Total(p, m) \in Nat
      /\ InQueue(hand, m) \in Nat /\ Total(q, m) \in Nat /\ Total(q, m) <= InQueue(p.hand, m)
    BY <1>1 DEF Total
<1>3. n = 0 => \A c : Somewhere(p, m, c) => Somewhere(q, m, c)
  <2>1. n = 0 => InQueue(p.held, m) = 0 /\ InQueue(p.queue, m) = 0
      BY <1>1
  <2> QED
      BY <2>1, TotalType DEF Somewhere
<1>4. \A c : Somewhere(q, m, c) => Somewhere(p, m, c)
    BY DEF Somewhere
<1>5. Apart(m, st2, s2, FALSE, q)
  <2>1. st2 = "unsent" => st = "unsent"
      BY <1>0
  <2>2. st = "unsent" => Total(p, m) = 0 /\ n = 0 /\ Fresh(s) /\ \A c \in Nat : ~Somewhere(p, m, c)
      BY <1>1, <1>2 DEF MsgOK, Apart
  <2>3. st = "unsent" => s2 = s
      BY <1>0, <2>2
  <2>4. st = "unsent" => Total(q, m) = 0
      BY <1>1, <1>2, <2>2
  <2> QED
      BY <1>4, <2>1, <2>2, <2>3, <2>4 DEF Apart
<1>6. OnceIn(m, st2, s2, FALSE, q)
  <2>1. ASSUME Single(m)
        PROVE  ~s2.on /\ Total(q, m) <= 1
    <3>1. ~s.on /\ Total(p, m) <= 1
        BY <2>1 DEF MsgOK, OnceIn
    <3> QED
        BY <1>0, <1>1, <1>2, <2>1, <3>1
  <2>2. ASSUME Single(m), st2 = "pending", ~WriteErrors
        PROVE  Total(q, m) = 1
    <3>1. ~linked /\ ~told /\ st = "pending" /\ ~(n > 0)
        BY <1>0, <2>2
    <3>2. Total(p, m) = 1
        BY <2>2, <3>1 DEF MsgOK, OnceIn
    <3> QED
        BY <1>1, <1>2, <3>1, <3>2
  <2> QED
      BY <2>1, <2>2 DEF OnceIn
<1>7. ASSUME ~Single(m)
      PROVE  Counted(m, st2, s2, FALSE, q) /\ n <= s.inFlight
  <2>1. /\ s2.on = s.on /\ s2.next = s.next /\ s2.inFlight = s.inFlight - n /\ s.inFlight \in Nat
        /\ n > 0 => s2.failed
        /\ n = 0 => s2.failed = s.failed
    <3>1. CASE n = 0
        BY <1>0, <1>7, <3>1 DEF Stream
    <3>2. CASE n # 0
        BY <1>0, <1>7, <3>2 DEF Stream
    <3> QED
        BY <3>1, <3>2
  <2>2. InQueue(hand, m) = InQueue(p.hand, m)
      BY <1>7
  <2>3. Counted(m, st, s, linked, p)
      BY DEF MsgOK
  <2>4. st2 = "pending" => st = "pending" /\ ~linked
      BY <1>0
  <2>5. /\ s2.inFlight <= Window /\ Total(q, m) <= s2.inFlight /\ n <= s.inFlight
        /\ WriteErrors \/ Total(q, m) = s2.inFlight
    <3>1. Window \in Nat
        BY SendPathAssumption
    <3>2. s.inFlight <= Window /\ Total(p, m) <= s.inFlight /\ (WriteErrors \/ Total(p, m) = s.inFlight)
        BY <1>7, <2>3 DEF Counted
    <3> QED
        BY <1>1, <1>2, <2>1, <2>2, <3>1, <3>2
  <2>6. WriteErrors \/ s2.failed \/ \A c \in 1..s2.next - 1 : Somewhere(q, m, c)
    <3>1. CASE n = 0
        BY <1>3, <1>7, <2>1, <2>3, <3>1 DEF Counted
    <3>2. CASE n # 0
        BY <1>2, <2>1, <3>2
    <3> QED
        BY <3>1, <3>2
  <2> QED
      BY <1>4, <1>7, <2>1, <2>3, <2>4, <2>5, <2>6 DEF Counted
<1>8. Whole(m, st2, q)
  <2>1. st2 = "resolved" => st = "resolved"
      BY <1>0
  <2> QED
      BY <2>1 DEF MsgOK, Whole
<1>9. Counted(m, st2, s2, FALSE, q)
    BY <1>7 DEF Counted
<1>10. MsgOK(m, st2, s2, FALSE, q)
    BY <1>5, <1>6, <1>8, <1>9 DEF MsgOK
<1>11. s2 \in Stream
  <2>1. ~Single(m) => s.inFlight - n \in Nat
      BY <1>2, <1>7 DEF Stream
  <2> QED
      BY <1>0, <2>1 DEF Stream
<1> QED
    BY <1>10, <1>11 DEF st2, s2

-----------------------------------------------------------------------------
(* The invariant                                                           *)

(* The packet queue p of e has frames of e only. *)
Own(e, p) == \A m \in Msg, c \in Nat : Somewhere(p, m, c) => Sender[m] = e

(* The packet queue p of e, in state st and with the link queue lq: what   *)
(* waits for a switch waits only during one.                               *)
EndOK(e, st, lq, p) ==
    /\ Sound(p) /\ Idle(p) /\ Own(e, p)
    /\ WriteErrors \/ Chained(p)
    /\ st # "SWITCHING_PROTOCOL" => p.held = <<>> /\ lq = <<>>
    /\ st = "DISCONNECTED" => p.queue = <<>>

(* A message is at most once in the link queue of its sender. *)
LinkOK(e, lq, stat) ==
    /\ \A i \in DOMAIN lq : Sender[lq[i]] = e /\ stat[lq[i]] = "pending"
    /\ \A i, j \in DOMAIN lq : i # j => lq[i] # lq[j]

(* m waits for the switch. *)
InLink(m) == m \in ToSet(linkQueue[Sender[m]])

(* The invariant: the types, the ends and the messages. *)
SendInv ==
    /\ SendTypeOK
    /\ \A e \in End : EndOK(e, state[e], linkQueue[e], out[e])
    /\ \A e \in End : LinkOK(e, linkQueue[e], status)
    /\ \A m \in Msg : MsgOK(m, status[m], stream[m], InLink(m), out[Sender[m]])

(* The types of what a message comes with. *)
LEMMA MsgTypes ==
    ASSUME SendTypeOK, NEW m \in Msg
    PROVE  /\ Sender[m] \in End /\ out[Sender[m]] \in Path /\ stream[m] \in Stream
           /\ Chunks[m] \in Nat \ {0} /\ InLink(m) \in BOOLEAN /\ Single(m) \in BOOLEAN
BY SendPathAssumption DEF SendTypeOK, InLink, Single

(* A connection is at rest at first. *)
LEMMA InitHolds == SendInit => SendInv
<1> SUFFICES ASSUME SendInit
             PROVE  SendInv
    OBVIOUS
<1> DEFINE none == <<>>
           p == [queue |-> none, held |-> none, hand |-> none, wire |-> none, seals |-> 0]
           s == [on |-> FALSE, next |-> 1, inFlight |-> 0, failed |-> FALSE]
<1>1. none \in Seq(Item) /\ none \in Seq(Frame) /\ none \in Seq(Msg) /\ Len(none) = 0 /\ ToSet(none) = {}
    BY DEF ToSet
<1>2. /\ state = [e \in End |-> "CONNECTED"] /\ ready = [e \in End |-> FALSE]
      /\ linkQueue = [e \in End |-> none] /\ out = [e \in End |-> p] /\ stream = [m \in Msg |-> s]
      /\ status = [m \in Msg |-> "unsent"]
    BY DEF SendInit
<1>3. (\A m, c : ~At(none, m, c)) /\ (\A m : InQueue(none, m) = 0) /\ Rising(none)
    BY AtOne, CountOne, RisingOne
<1>4. \A i \in DOMAIN none : FALSE
    OBVIOUS
<1>5. none = <<>>
    OBVIOUS
<1> HIDE DEF none
<1>6. p \in Path /\ s \in Stream
    BY <1>1 DEF Path, Stream
<1>7. /\ p.queue = none /\ p.held = none /\ p.hand = none /\ p.wire = none
      /\ ~s.on /\ s.next = 1 /\ s.inFlight = 0 /\ ~s.failed
    OBVIOUS
<1> HIDE DEF p, s
<1>8. SendTypeOK
    BY <1>1, <1>2, <1>6, <1>7 DEF SendTypeOK
<1>9. \A m, c : ~Somewhere(p, m, c)
    BY <1>3, <1>7 DEF Somewhere
<1>10. \A m : Total(p, m) = 0
    BY <1>3, <1>7 DEF Total
<1>11. InOrder(p)
    BY <1>3, <1>7 DEF InOrder, Above
<1>12. ASSUME NEW e \in End
       PROVE  EndOK(e, state[e], linkQueue[e], out[e])
  <2>1. Sound(p)
      BY <1>1, <1>5, <1>7, <1>9, <1>11 DEF Sound
  <2> QED
      BY <1>2, <1>3, <1>5, <1>7, <1>9, <2>1 DEF EndOK, Idle, Own, Chained
<1>13. ASSUME NEW e \in End
       PROVE  LinkOK(e, linkQueue[e], status)
    BY <1>2, <1>4 DEF LinkOK
<1>14. ASSUME NEW m \in Msg
       PROVE  MsgOK(m, status[m], stream[m], InLink(m), out[Sender[m]])
  <2>1. /\ out[Sender[m]] = p /\ stream[m] = s /\ status[m] = "unsent" /\ InLink(m) = FALSE
      BY <1>1, <1>2, SendPathAssumption DEF InLink
  <2>2. Window \in Nat
      BY SendPathAssumption
  <2> QED
      BY <1>7, <1>9, <1>10, <2>1, <2>2 DEF MsgOK, Apart, OnceIn, Counted, Whole, Fresh
<1> QED
    BY <1>8, <1>12, <1>13, <1>14 DEF SendInv

(* A send() that is not in the link queue settles, and nothing else moves. *)
LEMMA StatusSet ==
    ASSUME SendInv, NEW m \in Msg, ~InLink(m), NEW how \in {"resolved", "rejected"},
           MsgOK(m, how, stream[m], InLink(m), out[Sender[m]]),
           status' = [status EXCEPT ![m] = how],
           UNCHANGED <<state, ready, linkQueue, out, stream>>
    PROVE  SendInv'
<1>1. SendTypeOK'
    BY DEF SendInv, SendTypeOK
<1>2. \A e \in End : EndOK(e, state'[e], linkQueue'[e], out'[e])
    BY DEF SendInv
<1>3. ASSUME NEW e \in End
      PROVE  LinkOK(e, linkQueue'[e], status')
  <2>1. linkQueue[e] \in Seq(Msg) /\ status \in [Msg -> {"unsent", "pending", "resolved", "rejected"}]
      BY DEF SendInv, SendTypeOK
  <2>2. LinkOK(e, linkQueue[e], status)
      BY DEF SendInv
  <2>3. ASSUME NEW i \in DOMAIN linkQueue[e]
        PROVE  linkQueue[e][i] \in Msg /\ linkQueue[e][i] # m
    <3>1. linkQueue[e][i] \in Msg /\ Sender[linkQueue[e][i]] = e
        BY <2>1, <2>2 DEF LinkOK
    <3>2. linkQueue[e][i] \in ToSet(linkQueue[e])
        BY DEF ToSet
    <3> QED
        BY <3>1, <3>2 DEF InLink
  <2> QED
      BY <2>1, <2>2, <2>3 DEF LinkOK
<1>4. ASSUME NEW x \in Msg
      PROVE  MsgOK(x, status'[x], stream'[x], InLink(x)', out'[Sender[x]])
    BY DEF SendInv, SendTypeOK, InLink
<1> QED
    BY <1>1, <1>2, <1>3, <1>4 DEF SendInv

(* A frame may follow what p has if p has nothing of its message, or if it *)
(* is its next chunk.                                                      *)
LEMMA OneFollows ==
    ASSUME NEW m \in Msg, NEW p \in Path, NEW k \in Nat \ {0}, NEW item, item = [msg |-> m, chunk |-> k],
           k <= Chunks[m],
           \A c \in Nat : Somewhere(p, m, c) => c < k
    PROVE  /\ <<item>> \in Seq(Item) /\ Follows(p, <<item>>)
           /\ InQueue(<<item>>, m) = 1
           /\ \A x : x # m => InQueue(<<item>>, x) = 0
           /\ \A x, c : At(<<item>>, x, c) <=> x = m /\ c = k
           /\ k = 1 \/ Somewhere(p, m, k - 1) => Joins(p, <<item>>)
<1>1. item \in Item /\ item.msg = m /\ item.chunk = k
    BY DEF Item
<1>2. <<item>> \in Seq(Item)
    BY <1>1
<1>3. \A x, c : At(<<item>>, x, c) <=> item.msg = x /\ item.chunk = c
    BY AtOne
<1>4. \A x : InQueue(<<item>>, x) = IF item.msg = x THEN 1 ELSE 0
    BY CountOne
<1>5. Rising(<<item>>)
    BY RisingOne
<1>6. Follows(p, <<item>>)
    BY <1>1, <1>3, <1>5 DEF Follows
<1>7. ASSUME k = 1 \/ Somewhere(p, m, k - 1)
      PROVE  Joins(p, <<item>>)
  <2>1. ASSUME NEW x \in Msg, NEW c \in Nat \ {0}, At(<<item>>, x, c + 1)
        PROVE  Somewhere(p, x, c)
    <3>1. x = m /\ c + 1 = k
        BY <1>1, <1>3, <2>1
    <3>2. k - 1 = c /\ k # 1
        BY <3>1
    <3> QED
        BY <1>7, <3>1, <3>2
  <2> QED
      BY <2>1 DEF Joins
<1> QED
    BY <1>1, <1>2, <1>3, <1>4, <1>6, <1>7

(* The queue of an end that is up takes one frame of a message of its own. *)
LEMMA EndPushed ==
    ASSUME NEW e \in End, NEW p \in Path, NEW st, NEW lq, EndOK(e, st, lq, p),
           NEW m \in Msg, Sender[m] = e, NEW k \in Nat \ {0}, k <= Chunks[m],
           NEW item, item = [msg |-> m, chunk |-> k],
           \A c \in Nat : Somewhere(p, m, c) => c < k,
           WriteErrors \/ k = 1 \/ Somewhere(p, m, k - 1),
           NEW switching \in BOOLEAN, NEW sealing \in BOOLEAN,
           st = "CONNECTED" \/ (st = "SWITCHING_PROTOCOL" /\ switching),
           NEW new, new = IF switching THEN "SWITCHING_PROTOCOL" ELSE "CONNECTED",
           NEW q, q = Push(p, <<item>>, switching, sealing)
    PROVE  /\ EndOK(e, new, lq, q)
           /\ Takes(p, q, <<item>>)
<1>1. Sound(p) /\ (st = "CONNECTED" => p.held = <<>> /\ lq = <<>>)
    BY DEF EndOK
<1>2. /\ <<item>> \in Seq(Item) /\ Follows(p, <<item>>)
      /\ \A x, c : At(<<item>>, x, c) <=> x = m /\ c = k
      /\ k = 1 \/ Somewhere(p, m, k - 1) => Joins(p, <<item>>)
    BY OneFollows
<1>3. switching \/ p.held = <<>>
    BY <1>1
<1>4. /\ Takes(p, q, <<item>>) /\ Idle(q)
      /\ p.held = <<>> /\ ~switching => q.held = <<>>
    BY <1>1, <1>2, <1>3, PushKeeps
<1>5. Own(e, q)
    BY <1>2, <1>4 DEF EndOK, Own, Takes
<1>6. Sound(q) /\ (WriteErrors \/ Chained(q))
    BY <1>2, <1>4 DEF EndOK, Takes
<1>7. new # "SWITCHING_PROTOCOL" => q.held = <<>> /\ lq = <<>>
    BY <1>1, <1>4
<1>8. new # "DISCONNECTED"
    OBVIOUS
<1> HIDE DEF Takes
<1> QED
    BY <1>4, <1>5, <1>6, <1>7, <1>8 DEF EndOK

(* The only frame of a message that has not been sent is queued: a single  *)
(* link message, a heartbeat, a relayed frame, or our offer.               *)
LEMMA FirstQueued ==
    ASSUME SendInv, NEW m \in Msg, NEW e, e = Sender[m], Single(m), status[m] = "unsent",
           NEW switching \in BOOLEAN, NEW sealing \in BOOLEAN,
           state[e] = "CONNECTED" \/ (state[e] = "SWITCHING_PROTOCOL" /\ switching),
           state' = [state EXCEPT ![e] = IF switching THEN "SWITCHING_PROTOCOL" ELSE "CONNECTED"],
           out' = [out EXCEPT ![e] = Push(@, <<frameOf(m)>>, switching, sealing)],
           status' = [status EXCEPT ![m] = "pending"],
           UNCHANGED <<ready, linkQueue, stream>>
    PROVE  SendInv'
<1> DEFINE p == out[e]
           item == frameOf(m)
           q == Push(p, <<item>>, switching, sealing)
           new == IF switching THEN "SWITCHING_PROTOCOL" ELSE "CONNECTED"
<1>1. /\ SendTypeOK /\ e \in End /\ p \in Path /\ EndOK(e, state[e], linkQueue[e], p)
      /\ MsgOK(m, "unsent", stream[m], InLink(m), p) /\ Chunks[m] = 1 /\ stream[m] \in Stream
    BY MsgTypes DEF SendInv, Single
<1>2. \A c \in Nat : ~Somewhere(p, m, c)
    BY <1>1 DEF MsgOK, Apart
<1>3. item = [msg |-> m, chunk |-> 1] /\ 1 \in Nat \ {0} /\ 1 <= Chunks[m]
    BY <1>1 DEF frameOf
<1>4. q = Push(p, <<item>>, switching, sealing) /\ new = IF switching THEN "SWITCHING_PROTOCOL" ELSE "CONNECTED"
    OBVIOUS
<1>5. /\ out' = [out EXCEPT ![e] = q] /\ state' = [state EXCEPT ![e] = new]
    OBVIOUS
<1>6. new \in {"CONNECTED", "SWITCHING_PROTOCOL"}
    OBVIOUS
<1> HIDE DEF p, item, q, new
<1>7. EndOK(e, new, linkQueue[e], q) /\ Takes(p, q, <<item>>)
    BY <1>1, <1>2, <1>3, <1>4, EndPushed
<1>8. InQueue(<<item>>, m) = 1 /\ \A x : x # m => InQueue(<<item>>, x) = 0 /\ \A c : ~At(<<item>>, x, c)
    BY <1>1, <1>2, <1>3, OneFollows
<1>9. q \in Path /\ Len(q.hand) <= 1
    BY <1>7 DEF Takes, Sound
<1>10. SendTypeOK'
  <2>1. /\ state' \in [End -> {"CONNECTED", "SWITCHING_PROTOCOL", "DISCONNECTED"}]
        /\ status' \in [Msg -> {"unsent", "pending", "resolved", "rejected"}]
        /\ out' \in [End -> Path]
      BY <1>1, <1>5, <1>6, <1>9 DEF SendTypeOK
  <2>2. \A d \in End : Len(out'[d].hand) <= 1
      BY <1>1, <1>5, <1>9 DEF SendTypeOK
  <2> QED
      BY <1>1, <2>1, <2>2 DEF SendTypeOK
<1>11. ASSUME NEW d \in End
       PROVE  EndOK(d, state'[d], linkQueue'[d], out'[d])
    BY <1>1, <1>5, <1>7 DEF SendInv, SendTypeOK
<1>12. ASSUME NEW d \in End
       PROVE  LinkOK(d, linkQueue'[d], status')
    BY <1>1 DEF SendInv, SendTypeOK, LinkOK
<1>13. ASSUME NEW x \in Msg
       PROVE  MsgOK(x, status'[x], stream'[x], InLink(x)', out'[Sender[x]])
  <2>0. InLink(x)' = InLink(x) /\ InLink(x) \in BOOLEAN
      BY DEF InLink
  <2>1. CASE x = m
    <3>1. MsgOK(m, "pending", stream[m], FALSE, q)
        BY <1>1, <1>7, <1>8, <2>0, <2>1, Queued
    <3>2. ~InLink(m)
      <4>1. LinkOK(e, linkQueue[e], status)
          BY <1>1 DEF SendInv
      <4> QED
          BY <4>1 DEF LinkOK, InLink, ToSet
    <3> QED
        BY <1>1, <1>5, <2>0, <2>1, <3>1, <3>2 DEF SendTypeOK
  <2>2. CASE x # m /\ Sender[x] = e
    <3>1. MsgOK(x, status[x], stream[x], InLink(x), p)
        BY <2>2 DEF SendInv, p
    <3>2. Total(q, x) = Total(p, x)
        BY <1>1, <1>7, <1>8, <2>2, TotalType DEF Takes
    <3>3. \A c : /\ Somewhere(q, x, c) <=> Somewhere(p, x, c)
                 /\ At(p.wire, x, c) => At(q.wire, x, c)
        BY <1>7, <1>8, <2>2 DEF Takes
    <3>4. MsgOK(x, status[x], stream[x], InLink(x), q)
        BY <2>0, <3>1, <3>2, <3>3, Moved
    <3> QED
        BY <1>1, <1>5, <2>0, <2>2, <3>4 DEF SendTypeOK
  <2>3. CASE x # m /\ Sender[x] # e
      BY <1>1, <2>0, <2>3 DEF SendInv, SendTypeOK
  <2> QED
      BY <2>1, <2>2, <2>3
<1> QED
    BY <1>10, <1>11, <1>12, <1>13 DEF SendInv

(* One step after the other keeps the invariant.  A message waits for the  *)
(* switch,                                                                 *)
LEMMA QueueLinkKeeps ==
    ASSUME SendInv, NEW m \in Msg, QueueLink(m)
    PROVE  SendInv'
<1> DEFINE e == Sender[m]
           lq == Append(linkQueue[e], m)
<1>1. /\ SendTypeOK /\ e \in End /\ linkQueue[e] \in Seq(Msg) /\ status[m] = "unsent"
      /\ EndOK(e, state[e], linkQueue[e], out[e]) /\ LinkOK(e, linkQueue[e], status)
      /\ state[e] = "SWITCHING_PROTOCOL"
      /\ linkQueue' = [linkQueue EXCEPT ![e] = lq] /\ status' = [status EXCEPT ![m] = "pending"]
      /\ UNCHANGED <<state, ready, out, stream>>
    BY MsgTypes DEF SendInv, SendTypeOK, QueueLink
<1>2. /\ lq \in Seq(Msg)
      /\ \A i \in DOMAIN lq : \/ i \in DOMAIN linkQueue[e] /\ lq[i] = linkQueue[e][i]
                              \/ lq[i] = m /\ i = Len(linkQueue[e]) + 1
      /\ ToSet(lq) = ToSet(linkQueue[e]) \cup {m}
  <2>1. /\ lq \in Seq(Msg) /\ Len(linkQueue[e]) \in Nat
        /\ DOMAIN lq = 1..Len(linkQueue[e]) + 1 /\ DOMAIN linkQueue[e] = 1..Len(linkQueue[e])
        /\ \A i \in 1..Len(linkQueue[e]) : lq[i] = linkQueue[e][i]
        /\ lq[Len(linkQueue[e]) + 1] = m
      BY <1>1
  <2> HIDE DEF lq
  <2>2. \A i \in DOMAIN lq : \/ i \in DOMAIN linkQueue[e] /\ lq[i] = linkQueue[e][i]
                             \/ lq[i] = m /\ i = Len(linkQueue[e]) + 1
    <3> DEFINE n == Len(linkQueue[e])
    <3>1. \A i \in 1..n + 1 : i \in 1..n \/ i = n + 1
        BY <2>1
    <3> HIDE DEF n
    <3>2. DOMAIN lq = 1..n + 1 /\ DOMAIN linkQueue[e] = 1..n /\ lq[n + 1] = m
        BY <2>1 DEF n
    <3>3. ASSUME NEW i \in 1..n
          PROVE  lq[i] = linkQueue[e][i]
        BY <2>1, <3>3 DEF n
    <3>4. ASSUME NEW i \in DOMAIN lq
          PROVE  (i \in DOMAIN linkQueue[e] /\ lq[i] = linkQueue[e][i]) \/ (lq[i] = m /\ i = n + 1)
      <4>1. CASE i \in 1..n
          BY <3>2, <3>3, <4>1
      <4>2. CASE i = n + 1
          BY <3>2, <4>2
      <4> QED
          BY <3>1, <3>2, <4>1, <4>2
    <3> QED
        BY <3>4 DEF n
  <2>3. \A i \in DOMAIN linkQueue[e] : i \in DOMAIN lq /\ lq[i] = linkQueue[e][i]
      BY <2>1
  <2>4. Len(linkQueue[e]) + 1 \in DOMAIN lq
      BY <2>1
  <2> QED
      BY <2>1, <2>2, <2>3, <2>4 DEF ToSet
<1> HIDE DEF lq
<1>3. SendTypeOK'
    BY <1>1, <1>2 DEF SendTypeOK
<1>4. ASSUME NEW d \in End
      PROVE  EndOK(d, state'[d], linkQueue'[d], out'[d])
  <2>1. CASE d = e
      BY <1>1, <2>1 DEF EndOK
  <2>2. CASE d # e
      BY <1>1, <2>2 DEF SendInv, SendTypeOK
  <2> QED
      BY <2>1, <2>2
<1>5. ASSUME NEW d \in End
      PROVE  LinkOK(d, linkQueue'[d], status')
  <2>1. CASE d = e
    <3>1. linkQueue'[d] = lq
        BY <1>1, <2>1 DEF SendTypeOK
    <3>2. \A i \in DOMAIN linkQueue[e] : linkQueue[e][i] # m /\ linkQueue[e][i] \in Msg
        BY <1>1 DEF LinkOK
    <3>3. ASSUME NEW i \in DOMAIN lq
          PROVE  Sender[lq[i]] = e /\ status'[lq[i]] = "pending"
        BY <1>1, <1>2, <3>2 DEF LinkOK, SendTypeOK
    <3>4. ASSUME NEW i \in DOMAIN lq, NEW j \in DOMAIN lq, i # j
          PROVE  lq[i] # lq[j]
      <4>1. (lq[i] = m) # (lq[j] = m) \/ (i \in DOMAIN linkQueue[e] /\ j \in DOMAIN linkQueue[e]
                                            /\ lq[i] = linkQueue[e][i] /\ lq[j] = linkQueue[e][j])
          BY <1>2, <3>2, <3>4
      <4> QED
          BY <1>1, <3>4, <4>1 DEF LinkOK
    <3>5. LinkOK(e, lq, status')
        BY <3>3, <3>4 DEF LinkOK
    <3> QED
        BY <2>1, <3>1, <3>5
  <2>2. CASE d # e
      BY <1>1, <2>2 DEF SendInv, SendTypeOK, LinkOK
  <2> QED
      BY <2>1, <2>2
<1>6. ASSUME NEW x \in Msg
      PROVE  MsgOK(x, status'[x], stream'[x], InLink(x)', out'[Sender[x]])
  <2>1. InLink(x)' = (InLink(x) \/ x = m)
      BY <1>1, <1>2, MsgTypes DEF SendTypeOK, InLink
  <2>2. CASE x = m
    <3>1. MsgOK(m, "unsent", stream[m], InLink(m), out[e]) /\ InLink(m) \in BOOLEAN
        BY <1>1, MsgTypes DEF SendInv
    <3>2. MsgOK(m, "pending", stream[m], TRUE, out[e])
        BY <3>1, LinkQueued
    <3>3. InLink(x)' = TRUE
        BY <2>1, <2>2
    <3> QED
        BY <1>1, <2>2, <3>2, <3>3 DEF SendTypeOK
  <2>3. CASE x # m
    <3>1. InLink(x)' = InLink(x)
        BY <2>1, <2>3, MsgTypes, <1>1
    <3> QED
        BY <1>1, <2>3, <3>1 DEF SendInv, SendTypeOK
  <2> QED
      BY <2>2, <2>3
<1> QED
    BY <1>3, <1>4, <1>5, <1>6 DEF SendInv

(* What is pushed goes through a queue that is switching, or not. *)
LEMMA PushHereIs ==
    ASSUME SendInv, NEW e \in End, isConnected(e), NEW items, PushHere(e, items)
    PROVE  \E switching, sealing \in BOOLEAN :
              /\ state[e] = IF switching THEN "SWITCHING_PROTOCOL" ELSE "CONNECTED"
              /\ out' = [out EXCEPT ![e] = Push(@, items, switching, sealing)]
<1>1. state[e] \in {"CONNECTED", "SWITCHING_PROTOCOL"} /\ ready[e] \in BOOLEAN
    BY DEF SendInv, SendTypeOK, isConnected
<1> DEFINE switching == state[e] = "SWITCHING_PROTOCOL"
<1>2. /\ switching \in BOOLEAN /\ state[e] = IF switching THEN "SWITCHING_PROTOCOL" ELSE "CONNECTED"
      /\ out' = [out EXCEPT ![e] = Push(@, items, switching, ready[e])]
    BY <1>1 DEF PushHere
<1> HIDE DEF switching
<1> QED
    BY <1>1, <1>2

(* Only a link message may be of several frames. *)
LEMMA OneFrame ==
    ASSUME NEW m \in Msg
    PROVE  Kind[m] # "link" => Single(m)
BY SendPathAssumption DEF Single

(* is sent at once,                                                        *)
LEMMA SendLinkKeeps ==
    ASSUME SendInv, NEW m \in Msg, SendLink(m)
    PROVE  SendInv'
<1> DEFINE e == Sender[m]
<1>1. /\ SendTypeOK /\ e \in End /\ status[m] = "unsent" /\ state[e] = "CONNECTED"
      /\ status' = [status EXCEPT ![m] = "pending"] /\ UNCHANGED <<state, ready, linkQueue>>
    BY MsgTypes DEF SendInv, SendLink
<1>2. CASE Single(m)
  <2>1. PushHere(e, <<frameOf(m)>>) /\ UNCHANGED stream
      BY <1>2 DEF SendLink
  <2>2. isConnected(e)
      BY <1>1 DEF isConnected
  <2>3. PICK switching \in BOOLEAN, sealing \in BOOLEAN :
            /\ state[e] = IF switching THEN "SWITCHING_PROTOCOL" ELSE "CONNECTED"
            /\ out' = [out EXCEPT ![e] = Push(@, <<frameOf(m)>>, switching, sealing)]
      BY <1>1, <2>1, <2>2, PushHereIs
  <2>4. state' = [state EXCEPT ![e] = IF switching THEN "SWITCHING_PROTOCOL" ELSE "CONNECTED"]
      BY <1>1, <2>3 DEF SendTypeOK
  <2> QED
      BY <1>1, <1>2, <2>1, <2>3, <2>4, FirstQueued
<1>3. CASE ~Single(m)
  <2>1. stream' = [stream EXCEPT ![m].on = TRUE] /\ UNCHANGED out
      BY <1>3 DEF SendLink
  <2>2. [stream[m] EXCEPT !.on = TRUE] \in Stream /\ stream'[m] = [stream[m] EXCEPT !.on = TRUE]
    <3>1. stream \in [Msg -> Stream] /\ stream[m] \in Stream
        BY <1>1 DEF SendTypeOK
    <3>2. [stream[m] EXCEPT !.on = TRUE] \in Stream
        BY <3>1 DEF Stream
    <3>3. stream'[m] = [stream[m] EXCEPT !.on = TRUE]
        BY <1>1, <2>1, <3>1
    <3> QED
        BY <3>2, <3>3
  <2>3. SendTypeOK'
    <3>1. stream' \in [Msg -> Stream]
        BY <1>1, <2>1, <2>2 DEF SendTypeOK
    <3> QED
        BY <1>1, <2>1, <3>1 DEF SendTypeOK
  <2>4. \A d \in End : EndOK(d, state'[d], linkQueue'[d], out'[d])
      BY <1>1, <2>1 DEF SendInv
  <2>5. ASSUME NEW d \in End
        PROVE  LinkOK(d, linkQueue'[d], status')
      BY <1>1 DEF SendInv, SendTypeOK, LinkOK
  <2>6. ASSUME NEW x \in Msg
        PROVE  MsgOK(x, status'[x], stream'[x], InLink(x)', out'[Sender[x]])
    <3>0. InLink(x)' = InLink(x)
        BY <1>1 DEF InLink
    <3>1. CASE x = m
      <4>1. MsgOK(m, "unsent", stream[m], InLink(m), out[e]) /\ stream[m] \in Stream /\ InLink(m) \in BOOLEAN
          BY <1>1, MsgTypes DEF SendInv
      <4>2. MsgOK(m, "pending", [stream[m] EXCEPT !.on = TRUE], FALSE, out[e])
          BY <1>3, <4>1, Started
      <4>3. InLink(x)' = FALSE
        <5>1. LinkOK(e, linkQueue[e], status)
            BY <1>1 DEF SendInv
        <5> QED
            BY <1>1, <3>0, <3>1, <5>1 DEF LinkOK, InLink, ToSet
      <4> QED
          BY <1>1, <2>1, <2>2, <3>1, <4>2, <4>3 DEF SendTypeOK
    <3>2. CASE x # m
        BY <1>1, <2>1, <3>0, <3>2 DEF SendInv, SendTypeOK
    <3> QED
        BY <3>1, <3>2
  <2> QED
      BY <2>3, <2>4, <2>5, <2>6 DEF SendInv
<1> QED
    BY <1>2, <1>3

(* or needs no link queue.                                                 *)
LEMMA SendDirectKeeps ==
    ASSUME SendInv, NEW m \in Msg, SendDirect(m)
    PROVE  SendInv'
<1> DEFINE e == Sender[m]
<1>1. /\ SendTypeOK /\ e \in End /\ status[m] = "unsent" /\ isConnected(e) /\ Single(m)
      /\ PushHere(e, <<frameOf(m)>>)
      /\ status' = [status EXCEPT ![m] = "pending"] /\ UNCHANGED <<state, ready, linkQueue, stream>>
    BY MsgTypes, OneFrame DEF SendInv, SendDirect, isConnected
<1>2. PICK switching \in BOOLEAN, sealing \in BOOLEAN :
          /\ state[e] = IF switching THEN "SWITCHING_PROTOCOL" ELSE "CONNECTED"
          /\ out' = [out EXCEPT ![e] = Push(@, <<frameOf(m)>>, switching, sealing)]
    BY <1>1, PushHereIs
<1>3. state' = [state EXCEPT ![e] = IF switching THEN "SWITCHING_PROTOCOL" ELSE "CONNECTED"]
    BY <1>1, <1>2 DEF SendTypeOK
<1>4. state[e] = "CONNECTED" \/ (state[e] = "SWITCHING_PROTOCOL" /\ switching)
    BY <1>2
<1> QED
    BY <1>1, <1>2, <1>3, <1>4, FirstQueued

(* The offer is made.                                                      *)
LEMMA OfferOutKeeps ==
    ASSUME SendInv, NEW e \in End, NEW m \in Offers(e), OfferOut(e, m)
    PROVE  SendInv'
<1>1. /\ m \in Msg /\ Sender[m] = e /\ Single(m) /\ status[m] = "unsent" /\ state[e] = "CONNECTED"
      /\ state' = [state EXCEPT ![e] = "SWITCHING_PROTOCOL"]
      /\ out' = [out EXCEPT ![e] = Push(@, <<frameOf(m)>>, TRUE, FALSE)]
      /\ status' = [status EXCEPT ![m] = "pending"]
      /\ UNCHANGED <<ready, linkQueue, stream>>
    BY OneFrame DEF OfferOut, Offers
<1> QED
    BY <1>1, FirstQueued

(* A stream sends its next chunk. *)
LEMMA StreamPushKeeps ==
    ASSUME SendInv, NEW m \in Msg, StreamPush(m)
    PROVE  SendInv'
<1> DEFINE e == Sender[m]
           p == out[e]
           s == stream[m]
           item == [msg |-> m, chunk |-> s.next]
           t == [s EXCEPT !.next = @ + 1, !.inFlight = @ + 1]
<1>1. /\ SendTypeOK /\ e \in End /\ p \in Path /\ s \in Stream /\ status[m] = "pending" /\ s.on
      /\ s.next <= Chunks[m] /\ ~s.failed /\ s.inFlight < Window /\ isConnected(e)
      /\ PushHere(e, <<item>>)
      /\ stream' = [stream EXCEPT ![m].next = @ + 1, ![m].inFlight = @ + 1]
      /\ UNCHANGED <<state, ready, linkQueue, status>>
    BY MsgTypes DEF SendInv, StreamPush, Streaming, HasRoom
<1>2. PICK switching \in BOOLEAN, sealing \in BOOLEAN :
          /\ state[e] = IF switching THEN "SWITCHING_PROTOCOL" ELSE "CONNECTED"
          /\ out' = [out EXCEPT ![e] = Push(@, <<item>>, switching, sealing)]
    BY <1>1, PushHereIs
<1> DEFINE q == Push(p, <<item>>, switching, sealing)
<1>3. out' = [out EXCEPT ![e] = q]
    BY <1>2
<1>4. stream' = [stream EXCEPT ![m] = t] /\ t \in Stream
  <2>1. /\ t.next = s.next + 1 /\ t.inFlight = s.inFlight + 1
        /\ t = [s EXCEPT !.next = t.next, !.inFlight = t.inFlight]
        /\ t.next \in Nat \ {0} /\ t.inFlight \in Nat
      BY <1>1 DEF Stream
  <2> HIDE DEF t
  <2>2. t \in Stream
      BY <1>1, <2>1 DEF Stream
  <2>3. stream' = [stream EXCEPT ![m] = t]
      BY <1>1 DEF SendTypeOK, t
  <2> QED
      BY <2>2, <2>3
<1>5. EndOK(e, state[e], linkQueue[e], p) /\ MsgOK(m, "pending", s, InLink(m), p)
      /\ InLink(m) \in BOOLEAN /\ s.next \in Nat \ {0} /\ s.inFlight \in Nat
    BY <1>1, MsgTypes DEF SendInv, Stream
<1>6. item = [msg |-> m, chunk |-> s.next] /\ q = Push(p, <<item>>, switching, sealing)
    OBVIOUS
<1> HIDE DEF q, item, p, t
<1>7. ~InLink(m) /\ ~Single(m)
    BY <1>1, <1>5 DEF MsgOK, Apart, OnceIn, Fresh
<1>8. /\ \A c \in Nat : Somewhere(p, m, c) => c < s.next
      /\ WriteErrors \/ s.next = 1 \/ Somewhere(p, m, s.next - 1)
  <2>1. Counted(m, "pending", s, InLink(m), p)
      BY <1>5 DEF MsgOK
  <2>2. s.next # 1 => s.next - 1 \in 1..s.next - 1
      BY <1>5
  <2> QED
      BY <1>1, <1>7, <2>1, <2>2 DEF Counted
<1>9. EndOK(e, state[e], linkQueue[e], q) /\ Takes(p, q, <<item>>)
  <2>1. state[e] = "CONNECTED" \/ (state[e] = "SWITCHING_PROTOCOL" /\ switching)
      BY <1>2
  <2> QED
      BY <1>1, <1>2, <1>5, <1>6, <1>8, <2>1, EndPushed
<1>10. \A x : x # m => InQueue(<<item>>, x) = 0 /\ \A c : ~At(<<item>>, x, c)
    BY <1>1, <1>5, <1>6, <1>8, OneFollows
<1>11. q \in Path /\ Len(q.hand) <= 1
    BY <1>9 DEF Takes, Sound
<1>12. SendTypeOK'
  <2>1. stream' \in [Msg -> Stream]
      BY <1>1, <1>4 DEF SendTypeOK
  <2>2. out \in [End -> Path]
      BY <1>1 DEF SendTypeOK
  <2>3. out' \in [End -> Path]
      BY <1>3, <1>11, <2>2
  <2>4. \A d \in End : Len(out'[d].hand) <= 1
      BY <1>1, <1>3, <1>11 DEF SendTypeOK
  <2> QED
      BY <1>1, <2>1, <2>3, <2>4 DEF SendTypeOK
<1>13. ASSUME NEW d \in End
       PROVE  EndOK(d, state'[d], linkQueue'[d], out'[d])
    BY <1>1, <1>3, <1>9 DEF SendInv, SendTypeOK
<1>14. ASSUME NEW d \in End
       PROVE  LinkOK(d, linkQueue'[d], status')
    BY <1>1 DEF SendInv
<1>15. ASSUME NEW x \in Msg
       PROVE  MsgOK(x, status'[x], stream'[x], InLink(x)', out'[Sender[x]])
  <2>0. InLink(x)' = InLink(x) /\ InLink(x) \in BOOLEAN
      BY <1>1, MsgTypes DEF InLink
  <2>1. CASE x = m
    <3>1. MsgOK(m, "pending", t, InLink(m), q)
        BY <1>1, <1>5, <1>6, <1>9, ChunkQueued DEF t
    <3> QED
        BY <1>1, <1>3, <1>4, <2>0, <2>1, <3>1 DEF SendTypeOK
  <2>2. CASE x # m /\ Sender[x] = e
    <3>1. MsgOK(x, status[x], stream[x], InLink(x), p)
        BY <2>2 DEF SendInv, p
    <3>2. Total(q, x) = Total(p, x)
        BY <1>1, <1>9, <1>10, <2>2, TotalType DEF Takes
    <3>3. \A c : /\ Somewhere(q, x, c) <=> Somewhere(p, x, c)
                 /\ At(p.wire, x, c) => At(q.wire, x, c)
        BY <1>9, <1>10, <2>2 DEF Takes
    <3>4. MsgOK(x, status[x], stream[x], InLink(x), q)
        BY <2>0, <3>1, <3>2, <3>3, Moved
    <3> QED
        BY <1>1, <1>3, <1>4, <2>0, <2>2, <3>4 DEF SendTypeOK
  <2>3. CASE x # m /\ Sender[x] # e
      BY <1>1, <1>3, <1>4, <2>0, <2>3 DEF SendInv, SendTypeOK
  <2> QED
      BY <2>1, <2>2, <2>3
<1> QED
    BY <1>12, <1>13, <1>14, <1>15 DEF SendInv

(* The connection is dropped: the sends of e that wait are rejected, and   *)
(* the streams with chunks waiting are told.                               *)
LEMMA DropKeeps ==
    ASSUME SendInv, NEW e \in End, NEW also, NEW hand, hand = out[e].hand \/ hand = <<>>,
           \A m \in also : Sender[m] = e,
           \A m \in Msg : \/ InQueue(hand, m) = InQueue(out[e].hand, m)
                          \/ InQueue(hand, m) = 0 /\ m \in also /\ Single(m),
           Drop(e, also, hand), ready' = ready
    PROVE  SendInv'
<1> DEFINE p == out[e]
           none == <<>>
           q == [p EXCEPT !.queue = <<>>, !.held = none, !.hand = hand]
           n(m) == InQueue(p.held \o p.queue, m)
<1>1. /\ SendTypeOK /\ p \in Path /\ EndOK(e, state[e], linkQueue[e], p) /\ LinkOK(e, linkQueue[e], status)
      /\ (none = p.held \/ none = <<>>) /\ (hand = p.hand \/ hand = <<>>) /\ none = <<>>
    BY DEF SendInv, SendTypeOK
<1>2. /\ state' = [state EXCEPT ![e] = "DISCONNECTED"]
      /\ linkQueue' = [linkQueue EXCEPT ![e] = <<>>]
      /\ out' = [out EXCEPT ![e] = q]
      /\ status' = [m \in Msg |-> IF m \in Unsent(e) \cup also THEN "rejected" ELSE status[m]]
      /\ stream' = [m \in Msg |-> IF Single(m) \/ n(m) = 0 THEN stream[m]
                                  ELSE [stream[m] EXCEPT !.inFlight = @ - n(m), !.failed = TRUE]]
    BY <1>1 DEF Drop, Waiting, SendTypeOK
<1>3. q = [p EXCEPT !.queue = <<>>, !.held = none, !.hand = hand] /\ none \in Seq(Item) /\ none \in Seq(Msg)
    OBVIOUS
<1>4. Unsent(e) = ToSet(linkQueue[e]) \cup {m \in Msg : Single(m) /\ n(m) > 0}
    BY DEF Unsent, Waiting
<1> HIDE DEF p, q, none
<1>5. Sound(p)
    BY <1>1 DEF EndOK
<1>6. /\ q \in Path /\ Sound(q) /\ Idle(q)
      /\ q.queue = <<>> /\ q.held = none /\ q.wire = p.wire
      /\ \A m : Total(q, m) = InQueue(none, m) + InQueue(hand, m)
      /\ \A m, c : Somewhere(q, m, c) <=> At(p.wire, m, c) \/ At(none, m, c)
      /\ Chained(p) /\ none = <<>> => Chained(q)
  <2>1. Killed(p, q, none, hand)
      BY <1>1, <1>3, <1>5, KillKeeps
  <2> QED
      BY <2>1 DEF Killed
<1>7. hand \in Seq(Item)
  <2>1. p.hand \in Seq(Item)
      BY <1>1 DEF Path
  <2> QED
      BY <1>1, <1>3, <2>1
<1>8. \A m : Total(q, m) = InQueue(hand, m)
  <2>1. \A m : InQueue(none, m) = 0
      BY <1>1, CountOne
  <2>2. \A m : InQueue(hand, m) \in Nat
      BY <1>7, CountType
  <2> QED
      BY <1>6, <2>1, <2>2
<1>9. \A m, c : Somewhere(q, m, c) <=> At(p.wire, m, c)
  <2>1. \A m, c : ~At(none, m, c)
      BY <1>1, AtOne
  <2> QED
      BY <1>6, <2>1
<1>10. ASSUME NEW m \in Msg, Sender[m] # e
       PROVE  ~(m \in Unsent(e) \cup also) /\ n(m) = 0
  <2>1. InQueue(p.held, m) = 0 /\ InQueue(p.queue, m) = 0
    <3>1. \A c \in Nat : ~Somewhere(p, m, c)
        BY <1>1, <1>10 DEF EndOK, Own
    <3>2. \A c : ~At(p.held, m, c) /\ ~At(p.queue, m, c)
      <4>1. \A c : At(p.held, m, c) => c \in Nat
          BY <1>1, AtType DEF Path
      <4>2. \A c : At(p.queue, m, c) => c \in Nat
          BY <1>1, AtType DEF Path
      <4> QED
          BY <3>1, <4>1, <4>2 DEF Somewhere
    <3> QED
        BY <1>1, <3>2, TotalType
  <2>2. n(m) = 0
    <3>1. p.held \in Seq(Item) /\ p.queue \in Seq(Item)
        BY <1>1 DEF Path
    <3>2. n(m) = InQueue(p.held, m) + InQueue(p.queue, m)
        BY <3>1, CountConcat
    <3> QED
        BY <2>1, <3>2
  <2>3. m \notin ToSet(linkQueue[e])
      BY <1>1, <1>10 DEF LinkOK, ToSet
  <2> HIDE DEF n
  <2>4. ~(n(m) > 0)
      BY <2>2
  <2> QED
      BY <1>4, <1>10, <2>2, <2>3, <2>4
<1>11. ASSUME NEW m \in Msg, Sender[m] = e
       PROVE  /\ MsgOK(m, status'[m], stream'[m], FALSE, q)
              /\ stream'[m] \in Stream
  <2> DEFINE told == m \in also
             k == n(m)
             st == status[m]
             s == stream[m]
             linked == InLink(m)
  <2>0. told \in BOOLEAN /\ linked \in BOOLEAN /\ s \in Stream
      BY <1>1, MsgTypes
  <2>1. MsgOK(m, st, s, linked, p)
      BY <1>11 DEF SendInv, p
  <2>2. Spared(p, hand, told, m)
      BY DEF p, Spared
  <2>3. k = InQueue(p.held \o p.queue, m)
      OBVIOUS
  <2>4. status'[m] = DropStatus(m, st, linked, told, k)
      BY <1>2, <1>4, <1>11 DEF InLink, DropStatus
  <2>5. stream'[m] = DropStream(m, s, k)
      BY <1>2 DEF DropStream
  <2>6. Stripped(p, q, hand, m)
      BY <1>6, <1>8, <1>9 DEF Stripped
  <2> HIDE DEF told, k, st, s, n, linked
  <2>7. MsgOK(m, DropStatus(m, st, linked, told, k), DropStream(m, s, k), FALSE, q) /\ DropStream(m, s, k) \in Stream
      BY ZenonT(40), <1>1, <1>6, <2>0, <2>1, <2>2, <2>3, <2>6, Dropped
  <2> QED
      BY <2>4, <2>5, <2>7
<1>12. SendTypeOK'
  <2>1. stream' \in [Msg -> Stream]
    <3>1. \A m \in Msg : stream'[m] \in Stream
      <4>1. ASSUME NEW m \in Msg, Sender[m] # e
            PROVE  stream'[m] \in Stream
          BY <1>1, <1>2, <1>10, <4>1 DEF SendTypeOK
      <4> QED
          BY <1>11, <4>1
    <3> HIDE DEF n
    <3> QED
        BY <1>2, <3>1
  <2>2. /\ status' \in [Msg -> {"unsent", "pending", "resolved", "rejected"}]
        /\ state' \in [End -> {"CONNECTED", "SWITCHING_PROTOCOL", "DISCONNECTED"}]
        /\ out' \in [End -> Path]
      BY <1>1, <1>2, <1>6 DEF SendTypeOK
  <2>3. linkQueue' \in [End -> Seq(Msg)]
      BY <1>1, <1>2, <1>3 DEF SendTypeOK
  <2>4. \A d \in End : Len(out'[d].hand) <= 1
    <3>1. Len(q.hand) <= 1
        BY <1>6 DEF Sound
    <3> QED
        BY <1>1, <1>2, <3>1 DEF SendTypeOK
  <2> QED
      BY <1>1, <2>1, <2>2, <2>3, <2>4 DEF SendTypeOK
<1>13. ASSUME NEW d \in End
       PROVE  EndOK(d, state'[d], linkQueue'[d], out'[d])
  <2>1. EndOK(e, "DISCONNECTED", <<>>, q)
    <3>1. Own(e, q)
        BY <1>1, <1>9 DEF EndOK, Own, Somewhere
    <3> QED
        BY <1>1, <1>6, <3>1 DEF EndOK
  <2>2. CASE d = e
      BY <1>1, <1>2, <2>1, <2>2 DEF SendTypeOK
  <2>3. CASE d # e
      BY <1>1, <1>2, <2>3 DEF SendInv, SendTypeOK
  <2> QED
      BY <2>2, <2>3
<1>14. ASSUME NEW d \in End
       PROVE  LinkOK(d, linkQueue'[d], status')
  <2>1. CASE d = e
    <3>1. linkQueue'[d] = <<>>
        BY <1>1, <1>2, <2>1 DEF SendTypeOK
    <3>2. \A i \in DOMAIN <<>> : FALSE
        OBVIOUS
    <3> QED
        BY <3>1, <3>2 DEF LinkOK
  <2>2. CASE d # e
    <3>1. linkQueue'[d] = linkQueue[d] /\ LinkOK(d, linkQueue[d], status) /\ linkQueue[d] \in Seq(Msg)
        BY <1>1, <1>2, <2>2 DEF SendInv, SendTypeOK
    <3>2. ASSUME NEW i \in DOMAIN linkQueue[d]
          PROVE  status'[linkQueue[d][i]] = "pending" /\ Sender[linkQueue[d][i]] = d
      <4>1. linkQueue[d][i] \in Msg /\ Sender[linkQueue[d][i]] = d /\ status[linkQueue[d][i]] = "pending"
          BY <3>1 DEF LinkOK
      <4>2. ~(linkQueue[d][i] \in Unsent(e) \cup also)
          BY <1>10, <2>2, <4>1
      <4> QED
          BY <1>2, <4>1, <4>2
    <3> QED
        BY <3>1, <3>2 DEF LinkOK
  <2> QED
      BY <2>1, <2>2
<1>15. ASSUME NEW m \in Msg
       PROVE  MsgOK(m, status'[m], stream'[m], InLink(m)', out'[Sender[m]])
  <2>1. CASE Sender[m] = e
    <3>1. out'[Sender[m]] = q /\ InLink(m)' = FALSE
      <4>1. out'[e] = q /\ linkQueue'[e] = <<>>
          BY <1>1, <1>2 DEF SendTypeOK
      <4>2. ToSet(<<>>) = {}
          BY DEF ToSet
      <4>3. m \notin ToSet(linkQueue'[Sender[m]])
          BY <2>1, <4>1, <4>2
      <4> QED
          BY <2>1, <4>1, <4>3 DEF InLink
    <3> QED
        BY <1>11, <2>1, <3>1
  <2>2. CASE Sender[m] # e
    <3>1. out'[Sender[m]] = out[Sender[m]] /\ InLink(m)' = InLink(m)
      <4>1. Sender[m] \in End
          BY SendPathAssumption
      <4>2. out'[Sender[m]] = out[Sender[m]] /\ linkQueue'[Sender[m]] = linkQueue[Sender[m]]
          BY <1>1, <1>2, <2>2, <4>1 DEF SendTypeOK
      <4> QED
          BY <4>2 DEF InLink
    <3>2. status'[m] = status[m] /\ stream'[m] = stream[m]
        BY <1>2, <1>10, <2>2
    <3> QED
        BY <3>1, <3>2 DEF SendInv
  <2> QED
      BY <2>1, <2>2
<1> QED
    BY <1>12, <1>13, <1>14, <1>15 DEF SendInv

(* The connection goes. *)
LEMMA DisconnectKeeps ==
    ASSUME SendInv, NEW e \in End, Disconnect(e)
    PROVE  SendInv'
<1> DEFINE hand == out[e].hand
<1>1. Drop(e, {}, hand) /\ ready' = ready
    BY DEF Disconnect
<1>2. hand = out[e].hand \/ hand = <<>>
    OBVIOUS
<1>3. \A m \in Msg : \/ InQueue(hand, m) = InQueue(out[e].hand, m)
                     \/ InQueue(hand, m) = 0 /\ m \in {} /\ Single(m)
    OBVIOUS
<1> HIDE DEF hand
<1> QED
    BY <1>1, <1>2, <1>3, DropKeeps

(* A send comes too late. *)
LEMMA SendWhenGoneKeeps ==
    ASSUME SendInv, NEW m \in Msg, SendWhenGone(m)
    PROVE  SendInv'
<1>1. /\ SendTypeOK /\ status[m] = "unsent" /\ InLink(m) \in BOOLEAN
      /\ MsgOK(m, status[m], stream[m], InLink(m), out[Sender[m]])
      /\ LinkOK(Sender[m], linkQueue[Sender[m]], status)
      /\ status' = [status EXCEPT ![m] = "rejected"]
      /\ UNCHANGED <<state, ready, linkQueue, out, stream>>
    BY MsgTypes DEF SendInv, SendWhenGone
<1>2. ~InLink(m)
    BY <1>1 DEF LinkOK, InLink, ToSet
<1>3. MsgOK(m, "rejected", stream[m], InLink(m), out[Sender[m]])
    BY <1>1, Rejected
<1> QED
    BY <1>1, <1>2, <1>3, StatusSet

(* The send() of a stream rejects. *)
LEMMA RejectSendKeeps ==
    ASSUME SendInv, NEW m \in Msg, Streaming(m), RejectSend(m), ready' = ready
    PROVE  SendInv'
<1> DEFINE e == Sender[m]
           hand == out[e].hand
<1>1. /\ SendTypeOK /\ e \in End /\ InLink(m) \in BOOLEAN
      /\ MsgOK(m, status[m], stream[m], InLink(m), out[e])
    BY MsgTypes DEF SendInv
<1>2. CASE isConnected(e)
  <2>1. Drop(e, {m}, hand)
      BY <1>2 DEF RejectSend
  <2>2. hand = out[e].hand \/ hand = <<>>
      OBVIOUS
  <2>3. \A x \in Msg : \/ InQueue(hand, x) = InQueue(out[e].hand, x)
                       \/ InQueue(hand, x) = 0 /\ x \in {m} /\ Single(x)
      OBVIOUS
  <2>4. \A x \in {m} : Sender[x] = e
      OBVIOUS
  <2> HIDE DEF hand, e
  <2> QED
      BY <1>1, <2>1, <2>2, <2>3, <2>4, DropKeeps
<1>3. CASE ~isConnected(e)
  <2>1. /\ status' = [status EXCEPT ![m] = "rejected"]
        /\ UNCHANGED <<state, ready, linkQueue, out, stream>>
      BY <1>3 DEF RejectSend
  <2>2. ~InLink(m)
      BY <1>1 DEF MsgOK, Apart, Fresh, Streaming
  <2>3. MsgOK(m, "rejected", stream[m], InLink(m), out[Sender[m]])
      BY <1>1, Rejected
  <2> QED
      BY <2>1, <2>2, <2>3, StatusSet
<1> QED
    BY <1>2, <1>3

(* A stream gives up, *)
LEMMA StreamAbortsKeeps ==
    ASSUME SendInv, NEW m \in Msg, StreamAborts(m)
    PROVE  SendInv'
BY RejectSendKeeps DEF StreamAborts

(* or is through. *)
LEMMA StreamEndsKeeps ==
    ASSUME SendInv, NEW m \in Msg, StreamEnds(m)
    PROVE  SendInv'
<1>1. CASE stream[m].failed
    BY <1>1, RejectSendKeeps DEF StreamEnds
<1>2. CASE ~stream[m].failed
  <2>1. /\ status' = [status EXCEPT ![m] = "resolved"]
        /\ UNCHANGED <<state, ready, linkQueue, out, stream>>
        /\ stream[m].on /\ status[m] = "pending" /\ stream[m].next > Chunks[m] /\ stream[m].inFlight = 0
      BY <1>2 DEF StreamEnds, Streaming
  <2>2. /\ SendTypeOK /\ InLink(m) \in BOOLEAN /\ out[Sender[m]] \in Path /\ stream[m] \in Stream
        /\ MsgOK(m, "pending", stream[m], InLink(m), out[Sender[m]])
      BY <2>1, MsgTypes DEF SendInv
  <2>3. ~InLink(m)
      BY <2>1, <2>2 DEF MsgOK, Apart, Fresh
  <2>4. MsgOK(m, "resolved", stream[m], InLink(m), out[Sender[m]])
      BY <1>2, <2>1, <2>2, StreamDone
  <2> QED
      BY <2>1, <2>3, <2>4, StatusSet
<1> QED
    BY <1>1, <1>2

(* The frame in hand of e settles one way or the other, its queue becomes  *)
(* q, and no other message is disturbed.                                   *)
LEMMA SettleKeeps ==
    ASSUME SendInv, NEW e \in End, NEW m \in Msg, Sender[m] = e, ~InLink(m),
           NEW how \in {"resolved", "rejected"}, Settle(m, how),
           NEW q \in Path, out' = [out EXCEPT ![e] = q],
           UNCHANGED <<state, ready, linkQueue>>,
           EndOK(e, state[e], linkQueue[e], q),
           MsgOK(m, SettleStatus(m, status[m], how), SettleStream(m, stream[m], how), InLink(m), q),
           SettleStream(m, stream[m], how) \in Stream,
           \A x \in Msg : Sender[x] = e /\ x # m => MsgOK(x, status[x], stream[x], InLink(x), q)
    PROVE  SendInv'
<1>1. /\ SendTypeOK /\ stream[m] \in Stream
      /\ status \in [Msg -> {"unsent", "pending", "resolved", "rejected"}]
    BY MsgTypes DEF SendInv, SendTypeOK
<1> DEFINE st == SettleStatus(m, status[m], how)
           t == SettleStream(m, stream[m], how)
<1>2. stream' = [stream EXCEPT ![m] = t] /\ status' = [status EXCEPT ![m] = st]
  <2>1. CASE Single(m)
      BY <1>1, <2>1 DEF Settle, SettleStatus, SettleStream, SendTypeOK
  <2>2. CASE ~Single(m)
      BY <1>1, <2>2 DEF Settle, SettleStatus, SettleStream, SendTypeOK
  <2> QED
      BY <2>1, <2>2
<1>3. st \in {"unsent", "pending", "resolved", "rejected"} /\ t \in Stream /\ MsgOK(m, st, t, InLink(m), q)
    BY <1>1 DEF SettleStatus
<1> HIDE DEF st, t
<1>4. SendTypeOK'
  <2>1. Len(q.hand) <= 1
      BY DEF EndOK, Sound
  <2>2. out' \in [End -> Path]
      BY <1>1 DEF SendTypeOK
  <2>3. \A d \in End : Len(out'[d].hand) <= 1
      BY <1>1, <2>1 DEF SendTypeOK
  <2>4. stream' \in [Msg -> Stream] /\ status' \in [Msg -> {"unsent", "pending", "resolved", "rejected"}]
      BY <1>1, <1>2, <1>3 DEF SendTypeOK
  <2> QED
      BY <1>1, <2>2, <2>3, <2>4 DEF SendTypeOK
<1>5. ASSUME NEW d \in End
      PROVE  EndOK(d, state'[d], linkQueue'[d], out'[d])
    BY <1>1 DEF SendInv, SendTypeOK
<1>6. ASSUME NEW d \in End
      PROVE  LinkOK(d, linkQueue'[d], status')
  <2>1. LinkOK(d, linkQueue[d], status) /\ linkQueue[d] \in Seq(Msg)
      BY <1>1 DEF SendInv, SendTypeOK
  <2>2. ASSUME NEW i \in DOMAIN linkQueue[d]
        PROVE  status'[linkQueue[d][i]] = "pending" /\ Sender[linkQueue[d][i]] = d
    <3>1. linkQueue[d][i] \in Msg /\ Sender[linkQueue[d][i]] = d /\ status[linkQueue[d][i]] = "pending"
        BY <2>1 DEF LinkOK
    <3>2. linkQueue[d][i] # m
        BY <3>1 DEF InLink, ToSet
    <3>3. status'[linkQueue[d][i]] = status[linkQueue[d][i]]
        BY <1>1, <1>2, <1>3, <3>1, <3>2
    <3> QED
        BY <3>1, <3>3
  <2> QED
      BY <2>1, <2>2 DEF LinkOK
<1>7. ASSUME NEW x \in Msg
      PROVE  MsgOK(x, status'[x], stream'[x], InLink(x)', out'[Sender[x]])
  <2>0. InLink(x)' = InLink(x)
      BY DEF InLink
  <2>1. CASE x = m
    <3>1. stream'[m] = t /\ status'[m] = st /\ out'[Sender[m]] = q
        BY <1>1, <1>2 DEF SendTypeOK
    <3> QED
        BY <1>3, <2>0, <2>1, <3>1
  <2>2. CASE x # m
    <3>1. status'[x] = status[x] /\ stream'[x] = stream[x]
        BY <1>1, <1>2, <2>2 DEF SendTypeOK
    <3>2. CASE Sender[x] = e
        BY <1>1, <2>0, <2>2, <3>1, <3>2 DEF SendTypeOK
    <3>3. CASE Sender[x] # e
        BY <1>1, <2>0, <3>1, <3>3, SendPathAssumption DEF SendInv, SendTypeOK
    <3> QED
        BY <3>2, <3>3
  <2> QED
      BY <2>1, <2>2
<1> QED
    BY <1>4, <1>5, <1>6, <1>7 DEF SendInv

(* The frame in hand is of a message of e that waits nowhere else. *)
LEMMA InHand ==
    ASSUME SendInv, NEW e \in End, out[e].hand # <<>>
    PROVE  /\ out[e].hand[1].msg \in Msg /\ Sender[out[e].hand[1].msg] = e
           /\ ~InLink(out[e].hand[1].msg)
           /\ \A x \in Msg : x # out[e].hand[1].msg => InQueue(out[e].hand, x) = 0
<1> DEFINE p == out[e]
           m == p.hand[1].msg
<1>1. p \in Path /\ Sound(p) /\ Own(e, p)
    BY DEF SendInv, SendTypeOK, EndOK
<1>2. p.hand # <<>>
    OBVIOUS
<1> HIDE DEF p
<1>3. /\ p.hand[1] \in Item
      /\ \A x : InQueue(p.hand, x) = IF x = p.hand[1].msg THEN 1 ELSE 0
      /\ At(p.wire, p.hand[1].msg, p.hand[1].chunk)
    BY <1>1, <1>2, HandIs
<1>4. m \in Msg /\ p.hand[1].chunk \in Nat
    BY <1>3 DEF Item
<1>5. Sender[m] = e
    BY <1>1, <1>3, <1>4 DEF Own, Somewhere
<1>6. Total(p, m) > 0
  <2>1. InQueue(p.hand, m) = 1
      BY <1>3
  <2>2. InQueue(p.held, m) \in Nat /\ InQueue(p.queue, m) \in Nat
      BY <1>1, TotalType
  <2> QED
      BY <2>1, <2>2 DEF Total
<1>7. ~InLink(m)
  <2>1. MsgOK(m, status[m], stream[m], InLink(m), p) /\ InLink(m) \in BOOLEAN
      BY <1>4, <1>5, MsgTypes DEF SendInv, p
  <2> QED
      BY <1>6, <2>1 DEF MsgOK, Apart
<1> QED
    BY <1>3, <1>4, <1>5, <1>7 DEF p

(* The transport has taken the frame in hand, *)
LEMMA WriteDoneKeeps ==
    ASSUME SendInv, NEW e \in End, WriteDone(e)
    PROVE  SendInv'
<1> DEFINE p == out[e]
           m == p.hand[1].msg
           switching == state[e] = "SWITCHING_PROTOCOL"
           sealing == ready[e]
           q == Run([p EXCEPT !.hand = <<>>], switching, sealing)
<1>1. /\ SendTypeOK /\ p \in Path /\ EndOK(e, state[e], linkQueue[e], p)
      /\ p.hand # <<>> /\ Settle(m, "resolved") /\ UNCHANGED <<state, ready, linkQueue>>
      /\ out' = [out EXCEPT ![e] = q]
      /\ switching \in BOOLEAN /\ sealing \in BOOLEAN
    BY DEF SendInv, SendTypeOK, WriteDone
<1>2. m \in Msg /\ Sender[m] = e /\ ~InLink(m) /\ \A x \in Msg : x # m => InQueue(p.hand, x) = 0
    BY <1>1, InHand
<1>3. Sound(p) /\ (switching \/ p.held = <<>>) /\ (~switching => p.held = <<>> /\ linkQueue[e] = <<>>)
    BY <1>1 DEF EndOK
<1>4. q = Run([p EXCEPT !.hand = <<>>], switching, sealing)
    OBVIOUS
<1> HIDE DEF q, sealing
<1>5. /\ q \in Path /\ Sound(q) /\ Idle(q)
      /\ Chained(p) => Chained(q)
      /\ \A x : Total(p, x) = Total(q, x) + InQueue(p.hand, x)
      /\ \A x, c : Somewhere(q, x, c) <=> Somewhere(p, x, c)
      /\ \A x, c : At(p.wire, x, c) => At(q.wire, x, c)
      /\ p.held = <<>> /\ ~switching => q.held = <<>>
      /\ p.queue = <<>> => q.queue = <<>>
  <2> HIDE DEF switching, p
  <2> QED
      BY <1>1, <1>3, <1>4, NextKeeps
<1>6. EndOK(e, state[e], linkQueue[e], q)
  <2>1. Own(e, q)
      BY <1>1, <1>5 DEF EndOK, Own
  <2> QED
      BY <1>1, <1>3, <1>5, <2>1 DEF EndOK
<1> HIDE DEF switching
<1>7. /\ MsgOK(m, status[m], stream[m], InLink(m), p) /\ InLink(m) \in BOOLEAN /\ stream[m] \in Stream
    BY <1>1, <1>2, MsgTypes DEF SendInv
<1> HIDE DEF p
<1>8. /\ MsgOK(m, SettleStatus(m, status[m], "resolved"), SettleStream(m, stream[m], "resolved"), InLink(m), q)
      /\ SettleStream(m, stream[m], "resolved") \in Stream
  <2>1. Onward(p, q, m)
      BY <1>5 DEF Onward
  <2> QED
      BY <1>1, <1>2, <1>3, <1>5, <1>7, <2>1, Settled
<1>9. ASSUME NEW x \in Msg, Sender[x] = e, x # m
      PROVE  MsgOK(x, status[x], stream[x], InLink(x), q)
  <2>1. MsgOK(x, status[x], stream[x], InLink(x), p) /\ InLink(x) \in BOOLEAN
      BY <1>1, <1>9, MsgTypes DEF SendInv, p
  <2>2. Total(q, x) = Total(p, x)
    <3>1. Total(p, x) = Total(q, x) + InQueue(p.hand, x) /\ InQueue(p.hand, x) = 0
        BY <1>2, <1>5, <1>9
    <3>2. Total(q, x) \in Nat
        BY <1>5, TotalType
    <3> QED
        BY <3>1, <3>2
  <2> QED
      BY <1>5, <2>1, <2>2, Moved
<1>10. \A x \in Msg : Sender[x] = e /\ x # m => MsgOK(x, status[x], stream[x], InLink(x), q)
    BY <1>9
<1>11. q \in Path /\ Settle(m, "resolved") /\ UNCHANGED <<state, ready, linkQueue>> /\ out' = [out EXCEPT ![e] = q]
    BY <1>1, <1>5
<1> HIDE DEF m
<1> QED
    BY <1>2, <1>6, <1>8, <1>10, <1>11, SettleKeeps

(* or it has not. *)
LEMMA WriteFailsKeeps ==
    ASSUME SendInv, NEW e \in End, WriteFails(e)
    PROVE  SendInv'
<1> DEFINE p == out[e]
           m == p.hand[1].msg
           none == <<>>
           q == [p EXCEPT !.hand = <<>>, !.queue = <<>>]
<1>1. /\ SendTypeOK /\ p \in Path /\ EndOK(e, state[e], linkQueue[e], p)
      /\ p.hand # <<>> /\ (WriteErrors \/ ~isConnected(e)) /\ ready' = ready
    BY DEF SendInv, SendTypeOK, WriteFails
<1>2. m \in Msg /\ Sender[m] = e /\ ~InLink(m) /\ \A x \in Msg : x # m => InQueue(p.hand, x) = 0
    BY <1>1, InHand
<1>3. CASE isConnected(e) /\ Single(m) /\ Kind[m] # "forward"
  <2>1. Drop(e, {m}, none)
      BY <1>3 DEF WriteFails
  <2>2. none = out[e].hand \/ none = <<>>
      OBVIOUS
  <2>3. ASSUME NEW x \in Msg
        PROVE  \/ InQueue(none, x) = InQueue(out[e].hand, x)
               \/ InQueue(none, x) = 0 /\ x \in {m} /\ Single(x)
    <3>1. InQueue(none, x) = 0
        BY CountOne
    <3> HIDE DEF none
    <3>2. CASE x = m
        BY <1>3, <3>1, <3>2
    <3>3. CASE x # m
        BY <1>2, <3>1, <3>3
    <3> QED
        BY <3>2, <3>3
  <2>4. \A x \in {m} : Sender[x] = e
      BY <1>2
  <2> HIDE DEF none, m, p
  <2> QED
      BY <1>1, <2>1, <2>2, <2>3, <2>4, DropKeeps
<1>4. CASE ~(isConnected(e) /\ Single(m) /\ Kind[m] # "forward")
  <2>1. /\ Settle(m, "rejected") /\ UNCHANGED <<state, linkQueue>>
        /\ out' = [out EXCEPT ![e] = q]
    <3>1. /\ out' = [out EXCEPT ![e].hand = <<>>, ![e].queue = <<>>]
          /\ Settle(m, "rejected") /\ UNCHANGED <<state, linkQueue>>
        BY <1>4 DEF WriteFails
    <3> QED
        BY <1>1, <3>1 DEF SendTypeOK
  <2> DEFINE held == p.held
  <2>2. q = [p EXCEPT !.queue = <<>>, !.held = held, !.hand = none]
      BY <1>1 DEF Path
  <2>3. (held = p.held \/ held = <<>>) /\ (none = p.hand \/ none = <<>>)
      OBVIOUS
  <2>4. Sound(p) /\ (~WriteErrors => p.queue = <<>> /\ held = <<>>)
      BY <1>1 DEF EndOK, isConnected
  <2> HIDE DEF q, held, none
  <2>5. Killed(p, q, held, none)
      BY <1>1, <2>2, <2>3, <2>4, KillKeeps
  <2>6. /\ q \in Path /\ Sound(q) /\ Idle(q) /\ q.queue = <<>> /\ q.wire = p.wire /\ q.held = p.held
        /\ Chained(p) /\ held = <<>> => Chained(q)
        /\ \A x, c : Somewhere(q, x, c) <=> At(p.wire, x, c) \/ At(p.held, x, c)
      BY <2>5 DEF Killed, held
  <2>7. \A x : Total(q, x) = InQueue(p.held, x)
    <3>1. \A x : InQueue(none, x) = 0
        BY CountOne DEF none
    <3>2. \A x : InQueue(p.held, x) \in Nat
        BY <1>1, TotalType
    <3> QED
        BY <2>5, <3>1, <3>2 DEF Killed, held
  <2>8. EndOK(e, state[e], linkQueue[e], q)
    <3>1. Own(e, q)
        BY <1>1, <2>6 DEF EndOK, Own, Somewhere
    <3>2. WriteErrors \/ Chained(q)
        BY <1>1, <2>4, <2>6 DEF EndOK
    <3> QED
        BY <1>1, <2>6, <3>1, <3>2 DEF EndOK
  <2>9. ASSUME NEW x \in Msg, Sender[x] = e
        PROVE  /\ p.hand[1].msg # x => MsgOK(x, status[x], stream[x], InLink(x), q)
               /\ p.hand[1].msg = x =>
                     /\ MsgOK(x, SettleStatus(x, status[x], "rejected"),
                              SettleStream(x, stream[x], "rejected"), InLink(x), q)
                     /\ SettleStream(x, stream[x], "rejected") \in Stream
    <3>1. /\ MsgOK(x, status[x], stream[x], InLink(x), p) /\ InLink(x) \in BOOLEAN /\ stream[x] \in Stream
        BY <1>1, <2>9, MsgTypes DEF SendInv
    <3>2. Emptied(p, q, x)
        BY <2>6, <2>7 DEF Emptied
    <3> HIDE DEF p, m
    <3> QED
        BY <1>1, <2>4, <2>6, <3>1, <3>2, Failed
  <2>10. /\ MsgOK(m, SettleStatus(m, status[m], "rejected"), SettleStream(m, stream[m], "rejected"), InLink(m), q)
         /\ SettleStream(m, stream[m], "rejected") \in Stream
      BY <1>2, <2>9
  <2>11. \A x \in Msg : Sender[x] = e /\ x # m => MsgOK(x, status[x], stream[x], InLink(x), q)
      BY <2>9
  <2> HIDE DEF m, p
  <2> QED
      BY ZenonT(40), <1>1, <1>2, <2>1, <2>6, <2>8, <2>10, <2>11, SettleKeeps
<1> QED
    BY <1>3, <1>4

(* What waits in the link queue, with one frame: each message once.        *)
Singles(lq) == Kept(lq, {i \in DOMAIN lq : Single(lq[i])})

(* They are frames no queue has had. *)
LEMMA SinglesAre ==
    ASSUME NEW e \in End, NEW lq \in Seq(Msg), NEW stat, LinkOK(e, lq, stat),
           NEW s, s = Singles(lq),
           NEW items, items = [i \in DOMAIN s |-> frameOf(s[i])]
    PROVE  /\ items \in Seq(Item)
           /\ \A m, c : At(items, m, c) <=> m \in ToSet(lq) /\ Single(m) /\ c = 1
           /\ \A m \in Msg : InQueue(items, m) = IF m \in ToSet(lq) /\ Single(m) THEN 1 ELSE 0
           /\ Rising(items)
<1> DEFINE S == {i \in DOMAIN lq : Single(lq[i])}
<1>1. S \in SUBSET (DOMAIN lq)
    OBVIOUS
<1>2. s = Kept(lq, S)
    BY DEF Singles
<1> HIDE DEF S
<1>3. Kept(lq, S) \in Seq(Msg) /\ \E at : PlacedBy(at, Kept(lq, S), lq, S)
    BY <1>1, KeptIs
<1>4. PICK at : PlacedBy(at, Kept(lq, S), lq, S)
    BY <1>3
<1>5. /\ s \in Seq(Msg) /\ DOMAIN s = 1..Len(s) /\ Len(s) \in Nat
      /\ \A n \in DOMAIN s : at[n] \in S /\ s[n] = lq[at[n]] /\ at[n] \in DOMAIN lq
      /\ \A n, k \in DOMAIN s : n < k => at[n] < at[k]
      /\ \A i \in S : \E n \in DOMAIN s : at[n] = i
    BY <1>1, <1>2, <1>3, <1>4 DEF PlacedBy
<1>6. /\ DOMAIN items = 1..Len(s)
      /\ \A n \in DOMAIN s : items[n] \in Item /\ items[n].msg = s[n] /\ items[n].chunk = 1
    BY <1>5 DEF frameOf, Item
<1>7. items \in Seq(Item)
    BY <1>5, <1>6
<1>8. ASSUME NEW m
      PROVE  (\E n \in DOMAIN s : s[n] = m) <=> m \in ToSet(lq) /\ Single(m)
  <2>1. ASSUME NEW n \in DOMAIN s, s[n] = m
        PROVE  m \in ToSet(lq) /\ Single(m)
      BY <1>5, <2>1 DEF ToSet, S
  <2>2. ASSUME m \in ToSet(lq), Single(m)
        PROVE  \E n \in DOMAIN s : s[n] = m
    <3>1. PICK i \in DOMAIN lq : lq[i] = m
        BY <2>2 DEF ToSet
    <3>2. i \in S
        BY <2>2, <3>1 DEF S
    <3>3. PICK n \in DOMAIN s : at[n] = i
        BY <1>5, <3>2
    <3>4. s[n] = m
        BY <1>5, <3>1, <3>3
    <3> QED
        BY <3>4
  <2> QED
      BY <2>1, <2>2
<1>9. ASSUME NEW m, NEW c
      PROVE  At(items, m, c) <=> m \in ToSet(lq) /\ Single(m) /\ c = 1
  <2>1. DOMAIN items = DOMAIN s /\ \A n \in DOMAIN items : items[n].msg = s[n] /\ items[n].chunk = 1
      BY <1>5, <1>6
  <2>2. At(items, m, c) <=> \E n \in DOMAIN s : s[n] = m /\ c = 1
      BY <2>1 DEF At
  <2> QED
      BY <1>8, <2>2
<1>10. ASSUME NEW n \in DOMAIN s, NEW k \in DOMAIN s, s[n] = s[k]
       PROVE  n = k
  <2>1. at[n] = at[k]
    <3>1. lq[at[n]] = lq[at[k]] /\ at[n] \in DOMAIN lq /\ at[k] \in DOMAIN lq
        BY <1>5, <1>10
    <3> QED
        BY <3>1 DEF LinkOK
  <2>2. n \in Nat /\ k \in Nat /\ at[n] \in Nat
      BY <1>5
  <2>3. ~(n < k) /\ ~(k < n)
      BY <1>5, <2>1, <2>2
  <2> QED
      BY <2>2, <2>3
<1>11. ASSUME NEW m \in Msg
       PROVE  InQueue(items, m) = IF m \in ToSet(lq) /\ Single(m) THEN 1 ELSE 0
  <2> DEFINE P == {i \in DOMAIN items : items[i].msg = m}
  <2>1. Cardinality({}) = 0 /\ \A i : Cardinality({i}) = 1
      BY FS_EmptySet, FS_Singleton
  <2>2. CASE m \in ToSet(lq) /\ Single(m)
    <3>1. PICK n \in DOMAIN s : s[n] = m
        BY <1>8, <2>2
    <3>2. P = {n}
        BY <1>5, <1>6, <1>10, <3>1
    <3> QED
        BY <2>1, <2>2, <3>2 DEF InQueue
  <2>3. CASE ~(m \in ToSet(lq) /\ Single(m))
    <3>1. P = {}
        BY <1>5, <1>6, <1>8, <2>3
    <3> QED
        BY <2>1, <2>3, <3>1 DEF InQueue
  <2> QED
      BY <2>2, <2>3
<1>12. Rising(items)
  <2>1. ASSUME NEW n \in DOMAIN s, NEW k \in DOMAIN s, n < k
        PROVE  items[n].msg # items[k].msg
    <3>1. n # k
        BY <1>5, <2>1
    <3> QED
        BY <1>6, <1>10, <3>1
  <2> QED
      BY <1>5, <1>6, <2>1 DEF Rising
<1> QED
    BY <1>7, <1>9, <1>11, <1>12

(* The session comes up: what waited is sent, and what was held. *)
LEMMA SessionUpKeeps ==
    ASSUME SendInv, NEW e \in End, SessionUp(e)
    PROVE  SendInv'
<1> DEFINE p == out[e]
           lq == linkQueue[e]
           s == Singles(lq)
           items == [i \in DOMAIN s |-> frameOf(s[i])]
           q == SessionPath(p, items)
<1>1. /\ SendTypeOK /\ p \in Path /\ lq \in Seq(Msg)
      /\ EndOK(e, state[e], lq, p) /\ LinkOK(e, lq, status)
    BY DEF SendInv, SendTypeOK
<1>2. /\ state' = [state EXCEPT ![e] = "CONNECTED"] /\ ready' = [ready EXCEPT ![e] = TRUE]
      /\ linkQueue' = [linkQueue EXCEPT ![e] = <<>>]
      /\ out' = [out EXCEPT ![e] = q]
      /\ stream' = [m \in Msg |-> IF m \in ToSet(lq) /\ ~Single(m)
                                THEN [stream[m] EXCEPT !.on = TRUE] ELSE stream[m]]
      /\ UNCHANGED status
    BY DEF SessionUp, Singles
<1>3. /\ items \in Seq(Item)
      /\ \A m, c : At(items, m, c) <=> m \in ToSet(lq) /\ Single(m) /\ c = 1
      /\ \A m \in Msg : InQueue(items, m) = IF m \in ToSet(lq) /\ Single(m) THEN 1 ELSE 0
      /\ Rising(items)
  <2> HIDE DEF lq
  <2> QED
      BY <1>1, SinglesAre
<1>4. q = SessionPath(p, items)
    OBVIOUS
<1>5. ASSUME NEW m \in Msg
      PROVE  /\ m \in ToSet(lq) => Sender[m] = e /\ InLink(m) /\ status[m] = "pending"
             /\ Sender[m] = e => (InLink(m) <=> m \in ToSet(lq))
    BY <1>1 DEF LinkOK, InLink, ToSet
<1> HIDE DEF q, items, s, p
<1>6. Follows(p, items) /\ FirstChunks(items) /\ Joins(p, items)
  <2>2. ASSUME NEW m \in Msg, NEW d \in Nat, At(items, m, d)
        PROVE  d <= Chunks[m] /\ \A c \in Nat : Somewhere(p, m, c) => c < d
    <3>1. m \in ToSet(lq) /\ Single(m) /\ d = 1
        BY <1>3, <2>2
    <3>2. MsgOK(m, status[m], stream[m], InLink(m), p) /\ InLink(m)
        BY <1>5, <3>1 DEF SendInv, p
    <3>3. \A c \in Nat : ~Somewhere(p, m, c)
        BY <3>2 DEF MsgOK, Apart
    <3> QED
        BY <3>1, <3>3 DEF Single
  <2>3. ASSUME NEW m \in Msg, NEW c \in Nat \ {0}
        PROVE  ~At(items, m, c + 1)
      BY <1>3
  <2>4. Follows(p, items)
      BY <1>3, <2>2 DEF Follows
  <2>5. FirstChunks(items)
      BY <1>3 DEF FirstChunks
  <2>6. Joins(p, items)
      BY <2>3 DEF Joins
  <2> QED
      BY <2>4, <2>5, <2>6
<1>7. Takes(p, q, items) /\ Idle(q) /\ q.held = <<>>
  <2>1. Sound(p) /\ Idle(p)
      BY <1>1 DEF EndOK
  <2> QED
      BY <1>1, <1>3, <1>4, <1>6, <2>1, SessionKeeps
<1>8. EndOK(e, "CONNECTED", <<>>, q)
  <2>1. Own(e, q)
    <3>1. ASSUME NEW m \in Msg, NEW c \in Nat, Somewhere(q, m, c)
          PROVE  Sender[m] = e
      <4>1. Somewhere(p, m, c) \/ At(items, m, c)
          BY <1>7, <3>1 DEF Takes
      <4> QED
          BY <1>1, <1>3, <1>5, <4>1 DEF EndOK, Own
    <3> QED
        BY <3>1 DEF Own
  <2>2. Sound(q) /\ (WriteErrors \/ Chained(q))
      BY <1>1, <1>6, <1>7 DEF Takes, EndOK
  <2> QED
      BY <1>7, <2>1, <2>2 DEF EndOK
<1>9. ASSUME NEW m \in Msg, Sender[m] = e
      PROVE  /\ MsgOK(m, status[m], stream'[m], FALSE, q) /\ stream'[m] \in Stream
  <2>1. MsgOK(m, status[m], stream[m], InLink(m), p) /\ InLink(m) \in BOOLEAN /\ stream[m] \in Stream
      BY <1>1, <1>9, MsgTypes DEF SendInv, p
  <2>2. CASE m \in ToSet(lq) /\ Single(m)
    <3>1. InQueue(items, m) = 1 /\ InLink(m) /\ status[m] = "pending" /\ stream'[m] = stream[m]
        BY <1>2, <1>3, <1>5, <2>2
    <3> QED
        BY <1>7, <2>1, <2>2, <3>1, Queued
  <2>3. CASE ~(m \in ToSet(lq) /\ Single(m))
    <3>1. InQueue(items, m) = 0 /\ \A c : ~At(items, m, c)
        BY <1>3, <2>3
    <3>2. Total(q, m) = Total(p, m)
        BY <1>1, <1>7, <3>1, TotalType DEF Takes
    <3>3. \A c : /\ Somewhere(q, m, c) <=> Somewhere(p, m, c)
                 /\ At(p.wire, m, c) => At(q.wire, m, c)
        BY <1>7, <3>1 DEF Takes
    <3>4. CASE m \in ToSet(lq)
      <4>1. stream'[m] = [stream[m] EXCEPT !.on = TRUE] /\ ~Single(m)
          BY <1>2, <2>3, <3>4
      <4>2. InLink(m) /\ status[m] = "pending"
          BY <1>5, <3>4
      <4>3. MsgOK(m, "pending", [stream[m] EXCEPT !.on = TRUE], FALSE, q)
          BY <2>1, <3>2, <3>3, <4>1, <4>2, Started
      <4>4. [stream[m] EXCEPT !.on = TRUE] \in Stream
          BY <2>1 DEF Stream
      <4> QED
          BY <4>1, <4>2, <4>3, <4>4
    <3>5. CASE m \notin ToSet(lq)
      <4>1. stream'[m] = stream[m] /\ InLink(m) = FALSE
          BY <1>2, <1>5, <1>9, <2>1, <3>5
      <4>2. MsgOK(m, status[m], stream[m], InLink(m), q)
          BY <2>1, <3>2, <3>3, Moved
      <4> QED
          BY <2>1, <4>1, <4>2
    <3> QED
        BY <3>4, <3>5
  <2> QED
      BY <2>2, <2>3
<1>10. SendTypeOK'
  <2>1. stream' \in [Msg -> Stream]
    <3>1. \A m \in Msg : stream'[m] \in Stream
      <4>1. ASSUME NEW m \in Msg, Sender[m] # e
            PROVE  stream'[m] \in Stream
          BY <1>1, <1>2, <1>5, <4>1 DEF SendTypeOK
      <4> QED
          BY <1>9, <4>1
    <3> HIDE DEF lq
    <3> QED
        BY <1>2, <3>1
  <2>2. q \in Path /\ Len(q.hand) <= 1
      BY <1>7 DEF Takes, Sound
  <2>3. out' \in [End -> Path]
      BY <1>1, <1>2, <2>2 DEF SendTypeOK
  <2>4. \A d \in End : Len(out'[d].hand) <= 1
      BY <1>1, <1>2, <2>2 DEF SendTypeOK
  <2>5. linkQueue' \in [End -> Seq(Msg)]
    <3>1. <<>> \in Seq(Msg)
        OBVIOUS
    <3> QED
        BY <1>1, <1>2, <3>1 DEF SendTypeOK
  <2>6. /\ state' \in [End -> {"CONNECTED", "SWITCHING_PROTOCOL", "DISCONNECTED"}]
        /\ ready' \in [End -> BOOLEAN]
      BY <1>1, <1>2 DEF SendTypeOK
  <2> QED
      BY <1>1, <1>2, <2>1, <2>3, <2>4, <2>5, <2>6 DEF SendTypeOK
<1>11. ASSUME NEW d \in End
       PROVE  EndOK(d, state'[d], linkQueue'[d], out'[d])
  <2>1. CASE d = e
      BY <1>1, <1>2, <1>8, <2>1 DEF SendTypeOK
  <2>2. CASE d # e
      BY <1>1, <1>2, <2>2 DEF SendInv, SendTypeOK
  <2> QED
      BY <2>1, <2>2
<1>12. ASSUME NEW d \in End
       PROVE  LinkOK(d, linkQueue'[d], status')
  <2>1. CASE d = e
    <3>1. linkQueue'[d] = <<>>
        BY <1>1, <1>2, <2>1 DEF SendTypeOK
    <3>2. \A i \in DOMAIN <<>> : FALSE
        OBVIOUS
    <3> QED
        BY <3>1, <3>2 DEF LinkOK
  <2>2. CASE d # e
    <3>1. linkQueue'[d] = linkQueue[d] /\ LinkOK(d, linkQueue[d], status)
        BY <1>1, <1>2, <2>2 DEF SendInv, SendTypeOK
    <3> QED
        BY <1>2, <3>1
  <2> QED
      BY <2>1, <2>2
<1>13. ASSUME NEW m \in Msg
       PROVE  MsgOK(m, status'[m], stream'[m], InLink(m)', out'[Sender[m]])
  <2>1. CASE Sender[m] = e
    <3>1. out'[Sender[m]] = q /\ linkQueue'[Sender[m]] = <<>>
        BY <1>1, <1>2, <2>1 DEF SendTypeOK
    <3>2. ToSet(<<>>) = {}
        BY DEF ToSet
    <3>3. InLink(m)' = FALSE
        BY <3>1, <3>2 DEF InLink
    <3> QED
        BY <1>2, <1>9, <2>1, <3>1, <3>3
  <2>2. CASE Sender[m] # e
    <3>1. Sender[m] \in End
        BY SendPathAssumption
    <3>2. out'[Sender[m]] = out[Sender[m]] /\ linkQueue'[Sender[m]] = linkQueue[Sender[m]]
        BY <1>1, <1>2, <2>2, <3>1 DEF SendTypeOK
    <3>3. InLink(m)' = InLink(m)
        BY <3>2 DEF InLink
    <3>4. stream'[m] = stream[m]
        BY <1>2, <1>5, <2>2
    <3> QED
        BY <1>2, <3>2, <3>3, <3>4 DEF SendInv
  <2> QED
      BY <2>1, <2>2
<1> QED
    BY <1>10, <1>11, <1>12, <1>13 DEF SendInv

(* Every step keeps the invariant. *)
LEMMA NextKeepsInv == SendInv /\ [SendNext]_sendVars => SendInv'
<1> SUFFICES ASSUME SendInv, [SendNext]_sendVars
             PROVE  SendInv'
    OBVIOUS
<1>1. ASSUME NEW m \in Msg, SendStep(m)
      PROVE  SendInv'
    BY <1>1, SendWhenGoneKeeps, QueueLinkKeeps, SendLinkKeeps, SendDirectKeeps, StreamPushKeeps,
       StreamAbortsKeeps, StreamEndsKeeps DEF SendStep
<1>2. ASSUME NEW e \in End,
             \/ WriteDone(e) \/ WriteFails(e) \/ SessionUp(e) \/ Disconnect(e)
             \/ \E m \in Offers(e) : OfferOut(e, m)
      PROVE  SendInv'
    BY <1>2, WriteDoneKeeps, WriteFailsKeeps, SessionUpKeeps, DisconnectKeeps, OfferOutKeeps
<1>3. CASE UNCHANGED sendVars
    BY <1>3 DEF sendVars, SendInv, SendTypeOK, InLink
<1> QED
    BY <1>1, <1>2, <1>3 DEF SendNext

(* The invariant of the way out: SendTypeOK, and where every message is.   *)
THEOREM SendInvariant == SendSpec => []SendInv
<1>1. SendInit => SendInv
    BY InitHolds
<1>2. SendInv /\ [SendNext]_sendVars => SendInv'
    BY NextKeepsInv
<1> QED
    BY <1>1, <1>2, PTL DEF SendSpec

-----------------------------------------------------------------------------
(* What it means                                                           *)

(* SendTypeOK: the variables are of their types, and at most one frame is  *)
(* in hand.                                                                *)
THEOREM SendTyped == SendSpec => []SendTypeOK
<1>1. SendInv => SendTypeOK
    BY DEF SendInv
<1> QED
    BY <1>1, SendInvariant, PTL

(* What WindowKept and NoSendLost count is Total. *)
LEMMA OutstandingIs ==
    ASSUME SendTypeOK, NEW m \in Msg
    PROVE  Outstanding(m) = Total(out[Sender[m]], m)
<1> DEFINE p == out[Sender[m]]
           waiting == p.held \o p.queue
<1>1. p.held \in Seq(Item) /\ p.queue \in Seq(Item) /\ p.hand \in Seq(Item)
    BY MsgTypes DEF Path
<1>2. waiting \in Seq(Item) /\ InQueue(waiting, m) = InQueue(p.held, m) + InQueue(p.queue, m)
    BY <1>1, CountConcat
<1>3. Outstanding(m) = InQueue(waiting \o p.hand, m)
    BY DEF Outstanding, Waiting
<1> HIDE DEF waiting
<1>4. InQueue(waiting \o p.hand, m) = InQueue(waiting, m) + InQueue(p.hand, m)
    BY <1>1, <1>2, CountConcat
<1> QED
    BY <1>2, <1>3, <1>4 DEF Total

(* WindowKept: no message holds more than sendWindow frames in memory,     *)
(* however long it is and however long the switch takes.                   *)
THEOREM WindowIsKept == SendSpec => []WindowKept
<1>1. ASSUME SendInv, NEW m \in Msg
      PROVE  Outstanding(m) <= Window
  <2>1. Outstanding(m) = Total(out[Sender[m]], m) /\ Total(out[Sender[m]], m) \in Nat
      BY <1>1, OutstandingIs, MsgTypes, TotalType DEF SendInv
  <2>2. MsgOK(m, status[m], stream[m], InLink(m), out[Sender[m]])
      BY <1>1 DEF SendInv
  <2>3. Window \in Nat \ {0} /\ stream[m].inFlight \in Nat
      BY <1>1, MsgTypes, SendPathAssumption DEF Stream, SendInv
  <2>4. CASE Single(m)
      BY <2>1, <2>2, <2>3, <2>4 DEF MsgOK, OnceIn
  <2>5. CASE ~Single(m)
      BY <2>1, <2>2, <2>3, <2>5 DEF MsgOK, Counted
  <2> QED
      BY <2>4, <2>5
<1>2. SendInv => WindowKept
    BY <1>1 DEF WindowKept
<1> QED
    BY <1>2, SendInvariant, PTL

(* A chain of chunks goes down to the first. *)
LEMMA DownToFirst ==
    ASSUME NEW w \in Seq(Frame), NEW m \in Msg, NEW c \in Nat \ {0}, At(w, m, c),
           \A d \in Nat \ {0} : At(w, m, d + 1) => At(w, m, d),
           NEW d \in 1..c
    PROVE  At(w, m, d)
<1> SUFFICES ASSUME ~At(w, m, d)
             PROVE  FALSE
    OBVIOUS
<1> DEFINE T == {k \in Nat : k <= c /\ ~At(w, m, c - k)}
<1>1. c - d \in Nat /\ c - d <= c /\ c - (c - d) = d
    OBVIOUS
<1>2. c - d \in T
    BY <1>1
<1>3. PICK k \in T : \A j \in T : k <= j
  <2>1. T \subseteq Nat /\ T # {}
      BY <1>2
  <2> HIDE DEF T
  <2> QED
      BY <2>1, LeastOf
<1>4. k \in Nat /\ k <= c /\ ~At(w, m, c - k) /\ k <= c - d
    BY <1>2, <1>3
<1>5. k # 0
  <2>1. c - 0 = c
      OBVIOUS
  <2> QED
      BY <1>4, <2>1
<1>6. k - 1 \in Nat /\ k - 1 <= c /\ ~(k <= k - 1) /\ c - k \in Nat \ {0} /\ c - (k - 1) = (c - k) + 1
    BY <1>4, <1>5
<1>7. k - 1 \notin T
    BY <1>3, <1>6
<1>8. At(w, m, (c - k) + 1)
    BY <1>6, <1>7
<1> QED
    BY <1>4, <1>6, <1>8

(* What stands before a chunk is the chunks before it, and no other. *)
LEMMA WireInOrder ==
    ASSUME NEW w \in Seq(Frame), Rising(w),
           \A m \in Msg, d \in Nat \ {0} : At(w, m, d + 1) => At(w, m, d),
           NEW i \in DOMAIN w
    PROVE  {w[j].chunk : j \in {k \in 1..i - 1 : w[k].msg = w[i].msg}} = 1..w[i].chunk - 1
<1> DEFINE m == w[i].msg
           c == w[i].chunk
           before == {k \in 1..i - 1 : w[k].msg = w[i].msg}
<1>1. /\ DOMAIN w = 1..Len(w) /\ Len(w) \in Nat
      /\ \A k \in DOMAIN w : w[k].msg \in Msg /\ w[k].chunk \in Nat \ {0}
  <2>1. DOMAIN w = 1..Len(w) /\ Len(w) \in Nat /\ \A k \in DOMAIN w : w[k] \in Frame
      OBVIOUS
  <2> QED
      BY <2>1, Fields
<1>2. ASSUME NEW k \in before
      PROVE  w[k].chunk \in 1..c - 1
  <2>1. k \in DOMAIN w /\ k < i /\ w[k].msg = w[i].msg
      BY <1>1
  <2>2. w[k].chunk < w[i].chunk
      BY <2>1 DEF Rising
  <2> QED
      BY <1>1, <2>1, <2>2
<1>3. ASSUME NEW d \in 1..c - 1
      PROVE  \E k \in before : w[k].chunk = d
  <2>1. c \in Nat \ {0} /\ m \in Msg /\ d \in 1..c /\ d # c
      BY <1>1
  <2>2. At(w, m, c)
      BY DEF At
  <2>3. At(w, m, d)
    <3> HIDE DEF m, c
    <3> QED
        BY <2>1, <2>2, DownToFirst
  <2>4. PICK k \in DOMAIN w : w[k].msg = m /\ w[k].chunk = d
      BY <2>3 DEF At
  <2>5. ~(i < k)
    <3>1. i < k => c < d
        BY <2>4 DEF Rising
    <3> QED
        BY <2>1, <3>1
  <2>6. k # i
      BY <2>1, <2>4
  <2>7. k \in 1..i - 1
      BY <1>1, <2>5, <2>6
  <2> QED
      BY <2>4, <2>7
<1> QED
    BY <1>2, <1>3

(* ChunksInOrder, on a connection whose writes fail only once it is gone:  *)
(* where they fail earlier, what a killed queue held is skipped.           *)
THEOREM ChunksKeepOrder ==
    ASSUME ~WriteErrors
    PROVE  SendSpec => []ChunksInOrder
<1>1. ASSUME SendInv, NEW e \in End, NEW i \in DOMAIN out[e].wire
      PROVE  LET wire == out[e].wire
                 before == {j \in 1..i - 1 : wire[j].msg = wire[i].msg}
             IN  {wire[j].chunk : j \in before} = 1..wire[i].chunk - 1
  <2> DEFINE w == out[e].wire
  <2>1. w \in Seq(Frame)
      BY <1>1 DEF SendInv, SendTypeOK, Path
  <2>2. Sound(out[e]) /\ Chained(out[e])
      BY <1>1 DEF SendInv, EndOK
  <2>3. Rising(w) /\ \A m \in Msg, d \in Nat \ {0} : At(w, m, d + 1) => At(w, m, d)
      BY <2>2 DEF Sound, InOrder, Chained
  <2>4. i \in DOMAIN w
      BY <1>1
  <2> HIDE DEF w
  <2>5. {w[j].chunk : j \in {k \in 1..i - 1 : w[k].msg = w[i].msg}} = 1..w[i].chunk - 1
      BY <2>1, <2>3, <2>4, WireInOrder
  <2> QED
      BY <2>5 DEF w
<1>2. SendInv => ChunksInOrder
    BY <1>1 DEF ChunksInOrder
<1> QED
    BY <1>2, SendInvariant, PTL

(* NoSendLost, under the same assumption: what is queued on a connection   *)
(* that ends hears of it.                                                  *)
THEOREM NoSendIsLost ==
    ASSUME ~WriteErrors
    PROVE  SendSpec => []NoSendLost
<1>1. ASSUME SendInv, NEW m \in Msg, status[m] = "pending"
      PROVE  IF Single(m) THEN InLink(m) \/ Outstanding(m) = 1
             ELSE InLink(m) \/ (stream[m].on /\ stream[m].inFlight = Outstanding(m))
  <2>1. Outstanding(m) = Total(out[Sender[m]], m) /\ Total(out[Sender[m]], m) \in Nat
      BY <1>1, OutstandingIs, MsgTypes, TotalType DEF SendInv
  <2>2. MsgOK(m, "pending", stream[m], InLink(m), out[Sender[m]])
      BY <1>1 DEF SendInv
  <2>3. CASE Single(m)
      BY <2>1, <2>2, <2>3 DEF MsgOK, OnceIn
  <2>4. CASE ~Single(m)
    <3>1. InLink(m) \/ stream[m].on
        BY <2>2, <2>4 DEF MsgOK, Counted
    <3>2. Total(out[Sender[m]], m) = stream[m].inFlight
        BY <2>2, <2>4 DEF MsgOK, Counted
    <3> QED
        BY <2>1, <2>4, <3>1, <3>2
  <2> QED
      BY <2>3, <2>4
<1>2. SendInv => NoSendLost
    BY <1>1 DEF NoSendLost, InLink
<1> QED
    BY <1>2, SendInvariant, PTL

(* ResolvedMeansWritten, under the same assumption: every frame of a       *)
(* send() that resolved was given to the transport.                        *)
THEOREM ResolvedIsWritten ==
    ASSUME ~WriteErrors
    PROVE  SendSpec => []ResolvedMeansWritten
<1>1. ASSUME SendInv, NEW m \in Msg, status[m] = "resolved", NEW k \in 1..Chunks[m]
      PROVE  At(out[Sender[m]].wire, m, k)
    BY <1>1 DEF SendInv, MsgOK, Whole
<1>2. SendInv => ResolvedMeansWritten
    BY <1>1 DEF ResolvedMeansWritten, At
<1> QED
    BY <1>2, SendInvariant, PTL

-----------------------------------------------------------------------------
(* The switch, on the wire                                                 *)

(* Before the session: nothing is sealed, and our offer, once it is on the *)
(* wire, is the last frame there.                                          *)
Clear(wire, seals) ==
    /\ seals = 0
    /\ \A i \in DOMAIN wire : wire[i].seal = 0
    /\ \A i \in DOMAIN wire : IsOffer(wire[i]) => i = Len(wire)

(* From then on: what comes after the offer, at n, is sealed, counting up; *)
SealedAfter(n, wire) ==
    /\ IsOffer(wire[n]) /\ \A i \in 1..n - 1 : ~IsOffer(wire[i])
    /\ \A i \in DOMAIN wire : wire[i].seal = IF i <= n THEN 0 ELSE i - n

(* and so will what comes next.                                            *)
Sealed(wire, seals) == \E n \in DOMAIN wire : SealedAfter(n, wire) /\ seals = Len(wire) - n

(* The offer m was made: it waits in p, or is on the wire.                 *)
Offered(p, m) == Kind[m] = "switch" /\ \E c \in Nat : Somewhere(p, m, c)

(* None was,                                                               *)
NoOffer(p) == \A m \in Msg : ~Offered(p, m)

(* or no more than one.                                                    *)
OneOffer(p) == \A m, k \in Msg : Offered(p, m) /\ Offered(p, k) => m = k

(* What a packet queue keeps before the session (rd: it is ready) and after. *)
SealOK(st, rd, p) ==
    /\ ~rd => Clear(p.wire, p.seals) /\ OneOffer(p)
    /\ ~rd /\ st = "CONNECTED" => NoOffer(p)
    /\ rd => Sealed(p.wire, p.seals) /\ st # "SWITCHING_PROTOCOL"

(* An offer that was written is on the wire, and a session has no offer    *)
(* left to make.                                                           *)
OfferOK(m, st, rd, p) ==
    Kind[m] = "switch" =>
        /\ st = "resolved" => \E c \in Nat : At(p.wire, m, c)
        /\ rd => st # "unsent"

(* The invariant of the switch. *)
SealInv ==
    /\ \A e \in End : SealOK(state[e], ready[e], out[e])
    /\ \A m \in Msg : OfferOK(m, status[m], ready[Sender[m]], out[Sender[m]])

(* From p to q the frame x is written, *)
Wrote(p, q, x, switching, sealing) ==
    /\ q.wire = p.wire \o <<x>>
    /\ switching => IsOffer(x)
    /\ x.seal = IF sealing THEN p.seals + 1 ELSE 0
    /\ q.seals = IF sealing THEN p.seals + 1 ELSE p.seals

(* or perhaps one is,                                                      *)
Writes(p, q, switching, sealing) ==
    \/ q.wire = p.wire /\ q.seals = p.seals
    \/ \E x \in Frame : Wrote(p, q, x, switching, sealing)

(* and nothing but items comes to be anywhere in it.                       *)
Gains(p, q, items) == \A m \in Msg, c \in Nat : Somewhere(q, m, c) => Somewhere(p, m, c) \/ At(items, m, c)

(* An idle queue writes one frame or none, and makes none up. *)
LEMMA CutWrites ==
    ASSUME NEW p \in Path, NEW q, NEW switching \in BOOLEAN, NEW sealing \in BOOLEAN, p.hand = <<>>,
           NEW front \in Seq(Item), NEW took \in Seq(Item), NEW tail \in Seq(Item),
           NEW written \in Seq(Frame), Cut(p, q, switching, sealing, front, took, tail, written)
    PROVE  q \in Path /\ Writes(p, q, switching, sealing) /\ Gains(p, q, <<>>)
<1>1. Gains(p, q, <<>>)
  <2>1. Moves(p, q, front, took, tail)
      BY CutMoves
  <2> QED
      BY <2>1 DEF Gains, Moves
<1>2. q \in Path /\ q.wire = p.wire \o written
    BY DEF Cut
<1>3. ASSUME written = <<>>, q.seals = p.seals
      PROVE  Writes(p, q, switching, sealing)
  <2>1. p.wire \in Seq(Frame)
      BY DEF Path
  <2>2. q.wire = p.wire
      BY <1>2, <1>3, <2>1, ConcatEmptySeq
  <2> QED
      BY <1>3, <2>2 DEF Writes
<1>4. ASSUME NEW item \in Item, switching => IsOffer(item),
             q.seals = IF sealing THEN p.seals + 1 ELSE p.seals,
             written = <<[msg |-> item.msg, chunk |-> item.chunk,
                          seal |-> IF sealing THEN q.seals ELSE 0]>>
      PROVE  Writes(p, q, switching, sealing)
  <2> DEFINE x == [msg |-> item.msg, chunk |-> item.chunk, seal |-> IF sealing THEN q.seals ELSE 0]
  <2>1. x.msg = item.msg /\ x.chunk = item.chunk /\ x.seal = IF sealing THEN q.seals ELSE 0
      OBVIOUS
  <2>2. q.seals \in Nat /\ item.msg \in Msg /\ item.chunk \in Nat \ {0}
      BY <1>2 DEF Path, Item
  <2>3. x \in Frame
      BY <2>2 DEF Frame
  <2>4. q.wire = p.wire \o <<x>>
      BY <1>2, <1>4
  <2> HIDE DEF x
  <2>5. x.seal = IF sealing THEN p.seals + 1 ELSE 0
      BY <1>4, <2>1
  <2>6. switching => IsOffer(x)
      BY <1>4, <2>1 DEF IsOffer
  <2>7. Wrote(p, q, x, switching, sealing)
      BY <1>4, <2>4, <2>5, <2>6 DEF Wrote
  <2> QED
      BY <2>3, <2>7 DEF Writes
<1>5. Writes(p, q, switching, sealing)
    BY <1>3, <1>4 DEF Cut
<1> QED
    BY <1>1, <1>2, <1>5

(* A run of the queue is such a cut, or nothing. *)
LEMMA RunWrites ==
    ASSUME NEW p \in Path, NEW switching \in BOOLEAN, NEW sealing \in BOOLEAN,
           NEW q, q = Run(p, switching, sealing)
    PROVE  q \in Path /\ Writes(p, q, switching, sealing) /\ Gains(p, q, <<>>)
<1>1. CASE p.hand # <<>>
  <2>1. q = p
      BY <1>1, RunIs
  <2> QED
      BY <2>1 DEF Writes, Gains
<1>2. CASE p.hand = <<>>
  <2>1. \E front, took, tail \in Seq(Item), written \in Seq(Frame) :
            Cut(p, q, switching, sealing, front, took, tail, written)
      BY <1>2, RunIs
  <2> QED
      BY <1>2, <2>1, CutWrites
<1> QED
    BY <1>1, <1>2

(* So does a queue that is given more, *)
LEMMA PushWrites ==
    ASSUME NEW p \in Path, NEW items \in Seq(Item), NEW switching \in BOOLEAN, NEW sealing \in BOOLEAN,
           NEW q, q = Push(p, items, switching, sealing)
    PROVE  q \in Path /\ Writes(p, q, switching, sealing) /\ Gains(p, q, items)
<1> DEFINE longer == p.queue \o items
           g == [p EXCEPT !.queue = longer]
<1>1. p.queue \in Seq(Item) /\ longer \in Seq(Item)
    BY DEF Path
<1>2. \A m, c : At(longer, m, c) <=> At(p.queue, m, c) \/ At(items, m, c)
    BY <1>1, AtConcat
<1>3. q = Run(g, switching, sealing)
    BY DEF Push
<1> HIDE DEF longer
<1>4. g \in Path /\ g.queue = longer /\ g.held = p.held /\ g.wire = p.wire /\ g.seals = p.seals
    BY <1>1 DEF Path
<1> HIDE DEF g
<1>5. q \in Path /\ Writes(g, q, switching, sealing) /\ Gains(g, q, <<>>)
    BY <1>3, <1>4, RunWrites
<1>6. Writes(p, q, switching, sealing)
    BY <1>4, <1>5 DEF Writes, Wrote
<1>7. Gains(p, q, items)
  <2>1. \A m, c : ~At(<<>>, m, c)
      BY AtOne
  <2> QED
      BY <1>2, <1>4, <1>5, <2>1 DEF Gains, Somewhere
<1> QED
    BY <1>5, <1>6, <1>7

(* one whose frame in hand is done, *)
LEMMA NextWrites ==
    ASSUME NEW p \in Path, NEW switching \in BOOLEAN, NEW sealing \in BOOLEAN,
           NEW q, q = Run([p EXCEPT !.hand = <<>>], switching, sealing)
    PROVE  /\ q \in Path /\ Writes(p, q, switching, sealing) /\ Gains(p, q, <<>>)
           /\ p.queue = <<>> /\ ~switching => q.wire = p.wire /\ q.seals = p.seals
<1> DEFINE none == <<>>
           g == [p EXCEPT !.hand = none]
<1>1. none \in Seq(Item)
    OBVIOUS
<1>2. q = Run(g, switching, sealing)
    OBVIOUS
<1> HIDE DEF none
<1>3. g \in Path /\ g.queue = p.queue /\ g.held = p.held /\ g.wire = p.wire /\ g.seals = p.seals
    BY <1>1 DEF Path
<1> HIDE DEF g
<1>4. q \in Path /\ Writes(g, q, switching, sealing) /\ Gains(g, q, <<>>)
    BY <1>2, <1>3, RunWrites
<1>5. Writes(p, q, switching, sealing) /\ Gains(p, q, <<>>)
    BY <1>3, <1>4 DEF Writes, Wrote, Gains, Somewhere
<1>6. ASSUME p.queue = <<>>, ~switching
      PROVE  q = g
    BY <1>2, <1>3, <1>6 DEF Run
<1> QED
    BY <1>3, <1>4, <1>5, <1>6

(* and one that gets back what was held. *)
LEMMA UnshiftWrites ==
    ASSUME NEW p \in Path, NEW sealing \in BOOLEAN,
           NEW q, q = UnshiftHeld(p, sealing)
    PROVE  q \in Path /\ Writes(p, q, FALSE, sealing)
<1> DEFINE none == <<>>
           longer == p.held \o p.queue
           g == [p EXCEPT !.queue = longer, !.held = none]
<1>1. none \in Seq(Item) /\ longer \in Seq(Item)
    BY DEF Path
<1>2. q = Run(g, FALSE, sealing)
    BY DEF UnshiftHeld
<1> HIDE DEF none, longer
<1>3. g \in Path /\ g.wire = p.wire /\ g.seals = p.seals
    BY <1>1 DEF Path
<1> HIDE DEF g
<1>4. q \in Path /\ Writes(g, q, FALSE, sealing)
    BY <1>2, <1>3, RunWrites
<1> QED
    BY <1>3, <1>4 DEF Writes, Wrote

(* One more frame on the wire. *)
LEMMA OneMore ==
    ASSUME NEW w \in Seq(Frame), NEW x \in Frame, NEW v, v = w \o <<x>>
    PROVE  /\ Len(w) \in Nat /\ Len(v) = Len(w) + 1 /\ DOMAIN w = 1..Len(w) /\ DOMAIN v = 1..Len(w) + 1
           /\ \A i \in 1..Len(w) : v[i] = w[i]
           /\ v[Len(w) + 1] = x
OBVIOUS

(* A sealed wire stays sealed. *)
LEMMA SealedGrows ==
    ASSUME NEW p \in Path, NEW q \in Path, NEW switching, Writes(p, q, switching, TRUE), Sealed(p.wire, p.seals)
    PROVE  Sealed(q.wire, q.seals)
<1>1. CASE q.wire = p.wire /\ q.seals = p.seals
    BY <1>1
<1>2. ASSUME NEW x \in Frame, Wrote(p, q, x, switching, TRUE)
      PROVE  Sealed(q.wire, q.seals)
  <2> DEFINE w == p.wire
             v == q.wire
  <2>1. PICK n \in DOMAIN w : SealedAfter(n, w) /\ p.seals = Len(w) - n
      BY DEF Sealed
  <2>2. w \in Seq(Frame) /\ p.seals \in Nat /\ v = w \o <<x>> /\ q.seals = p.seals + 1 /\ x.seal = p.seals + 1
      BY <1>2 DEF Path, Wrote
  <2> HIDE DEF w, v
  <2>3. /\ Len(w) \in Nat /\ Len(v) = Len(w) + 1 /\ DOMAIN w = 1..Len(w) /\ DOMAIN v = 1..Len(w) + 1
        /\ \A i \in 1..Len(w) : v[i] = w[i]
        /\ v[Len(w) + 1] = x
      BY <2>2, OneMore
  <2>4. n \in DOMAIN v /\ q.seals = Len(v) - n
      BY <2>1, <2>2, <2>3
  <2>5. IsOffer(v[n]) /\ \A i \in 1..n - 1 : ~IsOffer(v[i])
    <3>1. n \in 1..Len(w) /\ \A i \in 1..n - 1 : i \in 1..Len(w)
        BY <2>1, <2>3
    <3> QED
        BY <2>1, <2>3, <3>1 DEF SealedAfter
  <2>6. ASSUME NEW i \in DOMAIN v
        PROVE  v[i].seal = IF i <= n THEN 0 ELSE i - n
    <3>1. CASE i \in 1..Len(w)
        BY <2>1, <2>3, <3>1 DEF SealedAfter
    <3>2. CASE i = Len(w) + 1
      <4>1. v[i].seal = p.seals + 1 /\ ~(i <= n) /\ i - n = p.seals + 1
          BY <2>1, <2>2, <2>3, <3>2
      <4> QED
          BY <4>1
    <3> QED
        BY <2>3, <3>1, <3>2
  <2>7. SealedAfter(n, v)
      BY <2>5, <2>6 DEF SealedAfter
  <2> QED
      BY <2>4, <2>7 DEF Sealed, v
<1> QED
    BY <1>1, <1>2 DEF Writes

(* A wire in clear stays so: a switching end writes its offer, and that    *)
(* once.                                                                   *)
LEMMA ClearGrows ==
    ASSUME NEW p \in Path, NEW q \in Path, NEW switching, Writes(p, q, switching, FALSE),
           Clear(p.wire, p.seals), Sound(q), OneOffer(q), switching \/ NoOffer(q)
    PROVE  Clear(q.wire, q.seals)
<1>1. CASE q.wire = p.wire /\ q.seals = p.seals
    BY <1>1
<1>2. ASSUME NEW x \in Frame, Wrote(p, q, x, switching, FALSE)
      PROVE  Clear(q.wire, q.seals)
  <2> DEFINE w == p.wire
             v == q.wire
  <2>1. w \in Seq(Frame) /\ v \in Seq(Frame) /\ v = w \o <<x>> /\ q.seals = p.seals /\ x.seal = 0
      BY <1>2 DEF Path, Wrote
  <2>2. switching => IsOffer(x)
      BY <1>2 DEF Wrote
  <2>3. Clear(w, q.seals) /\ Rising(v)
      BY <2>1 DEF Sound, InOrder
  <2>4. ASSUME NEW i \in DOMAIN v, IsOffer(v[i])
        PROVE  Offered(q, v[i].msg) /\ v[i].msg \in Msg /\ v[i].chunk = 1
    <3>1. v[i] \in Frame
        BY <2>1, <2>4
    <3>2. v[i].msg \in Msg /\ v[i].chunk \in Nat \ {0}
        BY <3>1, Fields
    <3>3. Somewhere(q, v[i].msg, v[i].chunk)
        BY <2>4 DEF Somewhere, At
    <3>4. v[i].chunk <= Chunks[v[i].msg]
        BY <3>2, <3>3 DEF Sound
    <3>5. Chunks[v[i].msg] = 1 /\ Kind[v[i].msg] = "switch"
        BY <2>4, <3>2, OneFrame DEF IsOffer, Single
    <3>6. v[i].chunk = 1
        BY <3>2, <3>4, <3>5
    <3> QED
        BY <3>2, <3>3, <3>5, <3>6 DEF Offered
  <2> HIDE DEF w, v
  <2>5. /\ Len(w) \in Nat /\ Len(v) = Len(w) + 1 /\ DOMAIN w = 1..Len(w) /\ DOMAIN v = 1..Len(w) + 1
        /\ \A i \in 1..Len(w) : v[i] = w[i]
        /\ v[Len(w) + 1] = x
      BY <2>1, OneMore
  <2>6. q.seals = 0 /\ \A i \in DOMAIN v : v[i].seal = 0
    <3>1. q.seals = 0 /\ \A i \in 1..Len(w) : w[i].seal = 0
        BY <2>3, <2>5 DEF Clear
    <3> QED
        BY <2>1, <2>5, <3>1
  <2>7. ASSUME NEW i \in DOMAIN v, IsOffer(v[i]), i # Len(v)
        PROVE  FALSE
    <3>1. i \in DOMAIN v /\ Len(v) \in DOMAIN v /\ i < Len(v) /\ v[Len(v)] = x
        BY <2>5, <2>7
    <3>2. CASE NoOffer(q)
        BY <2>4, <2>7, <3>2 DEF NoOffer
    <3>3. CASE switching
      <4>1. IsOffer(v[Len(v)])
          BY <2>2, <3>1, <3>3
      <4>2. v[i].msg = v[Len(v)].msg
          BY <2>4, <2>7, <3>1, <4>1 DEF OneOffer
      <4>3. v[i].chunk < v[Len(v)].chunk
          BY <2>3, <3>1, <4>2 DEF Rising
      <4> QED
          BY <2>4, <2>7, <3>1, <4>1, <4>3
    <3> QED
        BY <3>2, <3>3
  <2>8. \A i \in DOMAIN v : IsOffer(v[i]) => i = Len(v)
      BY <2>7
  <2> QED
      BY <2>6, <2>8 DEF Clear, v
<1> QED
    BY <1>1, <1>2 DEF Writes

(* Nothing leaves the wire. *)
LEMMA WritesKeep ==
    ASSUME NEW p \in Path, NEW q \in Path, NEW switching, NEW sealing, Writes(p, q, switching, sealing)
    PROVE  \A m, c : At(p.wire, m, c) => At(q.wire, m, c)
<1>1. CASE q.wire = p.wire
    BY <1>1
<1>2. ASSUME NEW x \in Frame, q.wire = p.wire \o <<x>>
      PROVE  \A m, c : At(p.wire, m, c) => At(q.wire, m, c)
  <2>1. p.wire \in Seq(Frame) /\ <<x>> \in Seq(Frame)
      BY DEF Path
  <2>2. \A m, c : At(p.wire \o <<x>>, m, c) <=> At(p.wire, m, c) \/ At(<<x>>, m, c)
      BY <2>1, AtConcat
  <2> QED
      BY <1>2, <2>2
<1> QED
    BY <1>1, <1>2 DEF Writes, Wrote

(* How a connection goes on as it is: frames other than an offer are sent. *)
LEMMA SealMoves ==
    ASSUME NEW st, NEW rd \in BOOLEAN, NEW p \in Path, NEW q \in Path, NEW switching \in BOOLEAN,
           SealOK(st, rd, p), Sound(q), Writes(p, q, switching, rd),
           \/ st = "CONNECTED"
           \/ st = "SWITCHING_PROTOCOL" /\ switching,
           \A m \in Msg : Offered(q, m) => Offered(p, m)
    PROVE  SealOK(st, rd, q)
<1>1. CASE rd
  <2>1. Sealed(p.wire, p.seals) /\ st # "SWITCHING_PROTOCOL" /\ Writes(p, q, switching, TRUE)
      BY <1>1 DEF SealOK
  <2>2. Sealed(q.wire, q.seals)
      BY <2>1, SealedGrows
  <2> QED
      BY <1>1, <2>1, <2>2 DEF SealOK
<1>2. CASE ~rd
  <2>1. Clear(p.wire, p.seals) /\ OneOffer(p) /\ Writes(p, q, switching, FALSE)
      BY <1>2 DEF SealOK
  <2>2. OneOffer(q) /\ (st = "CONNECTED" => NoOffer(q))
      BY <1>2, <2>1 DEF SealOK, OneOffer, NoOffer
  <2>3. Clear(q.wire, q.seals)
      BY <2>1, <2>2, ClearGrows
  <2> QED
      BY <1>2, <2>2, <2>3 DEF SealOK
<1> QED
    BY <1>1, <1>2

(* Our offer is made. *)
LEMMA SealOffers ==
    ASSUME NEW p \in Path, NEW q \in Path, SealOK("CONNECTED", FALSE, p), Sound(q), Writes(p, q, TRUE, FALSE),
           NEW m, \A k \in Msg : Offered(q, k) => Offered(p, k) \/ k = m
    PROVE  SealOK("SWITCHING_PROTOCOL", FALSE, q)
<1>1. Clear(p.wire, p.seals) /\ NoOffer(p)
    BY DEF SealOK
<1>2. OneOffer(q)
    BY <1>1 DEF OneOffer, NoOffer
<1>3. Clear(q.wire, q.seals)
    BY <1>1, <1>2, ClearGrows
<1> QED
    BY <1>2, <1>3 DEF SealOK

(* The session is up: our offer is the last frame in clear. *)
LEMMA SealBegins ==
    ASSUME NEW p \in Path, NEW items \in Seq(Item), SealOK("SWITCHING_PROTOCOL", FALSE, p),
           NEW m \in Msg, Kind[m] = "switch", NEW c, At(p.wire, m, c),
           NEW q, q = SessionPath(p, items)
    PROVE  /\ q \in Path /\ SealOK("CONNECTED", TRUE, q)
           /\ \A k, d : At(p.wire, k, d) => At(q.wire, k, d)
<1> DEFINE g == Push(p, items, FALSE, TRUE)
<1>1. g \in Path /\ Writes(p, g, FALSE, TRUE)
    BY PushWrites
<1>2. q = UnshiftHeld(g, TRUE)
    BY DEF SessionPath
<1> HIDE DEF g
<1>3. q \in Path /\ Writes(g, q, FALSE, TRUE)
    BY <1>1, <1>2, UnshiftWrites
<1>4. Sealed(p.wire, p.seals)
  <2> DEFINE w == p.wire
  <2>1. w \in Seq(Frame) /\ Clear(w, p.seals)
      BY DEF Path, SealOK
  <2>2. PICK n \in DOMAIN w : w[n].msg = m
      BY DEF At
  <2>3. IsOffer(w[n])
      BY <2>2 DEF IsOffer
  <2> HIDE DEF w
  <2>4. DOMAIN w = 1..Len(w) /\ Len(w) \in Nat /\ n = Len(w) /\ p.seals = 0
      BY <2>1, <2>2, <2>3 DEF Clear
  <2>5. \A i \in 1..n - 1 : ~IsOffer(w[i])
    <3> DEFINE l == Len(w)
    <3>1. l \in Nat /\ n = l /\ DOMAIN w = 1..l
        BY <2>4
    <3> HIDE DEF l
    <3>2. \A i \in 1..n - 1 : i \in DOMAIN w /\ i # l
        BY <3>1
    <3> QED
        BY <2>1, <3>2 DEF Clear, l
  <2>6. \A i \in DOMAIN w : w[i].seal = IF i <= n THEN 0 ELSE i - n
    <3>1. \A i \in DOMAIN w : i <= n /\ w[i].seal = 0
        BY <2>1, <2>4 DEF Clear
    <3> QED
        BY <3>1
  <2>7. SealedAfter(n, w) /\ p.seals = Len(w) - n
      BY <2>3, <2>4, <2>5, <2>6 DEF SealedAfter
  <2> QED
      BY <2>2, <2>7 DEF Sealed, w
<1>5. Sealed(g.wire, g.seals)
    BY <1>1, <1>4, SealedGrows
<1>6. Sealed(q.wire, q.seals)
    BY <1>1, <1>3, <1>5, SealedGrows
<1>7. \A k, d : At(p.wire, k, d) => At(g.wire, k, d)
    BY <1>1, WritesKeep
<1>8. \A k, d : At(g.wire, k, d) => At(q.wire, k, d)
    BY <1>1, <1>3, WritesKeep
<1> QED
    BY <1>3, <1>6, <1>7, <1>8 DEF SealOK

(* Nothing is written: the queue is left, or killed. *)
LEMMA SealRests ==
    ASSUME NEW st, NEW rd, NEW p, NEW q, SealOK(st, rd, p), q.wire = p.wire, q.seals = p.seals,
           NEW after, after = st \/ after = "DISCONNECTED",
           \A m \in Msg : Offered(q, m) => Offered(p, m)
    PROVE  SealOK(after, rd, q)
BY DEF SealOK, NoOffer, OneOffer

(* A step of one end. *)
LEMMA SealStep ==
    ASSUME SendInv, SealInv, NEW e \in End,
           \A d \in End : d # e => state'[d] = state[d] /\ ready'[d] = ready[d] /\ out'[d] = out[d],
           SealOK(state'[e], ready'[e], out'[e]),
           \A m, c : At(out[e].wire, m, c) => At(out'[e].wire, m, c),
           \A m \in Msg : Kind[m] = "switch" =>
               /\ status'[m] = "resolved" =>
                     status[m] = "resolved" \/ \E c \in Nat : At(out'[Sender[m]].wire, m, c)
               /\ status'[m] = "unsent" => status[m] = "unsent",
           ready'[e] = ready[e] \/ \A m \in Offers(e) : status'[m] # "unsent"
    PROVE  SealInv'
<1>1. ASSUME NEW d \in End
      PROVE  SealOK(state'[d], ready'[d], out'[d])
  <2>1. CASE d = e
      BY <2>1
  <2>2. CASE d # e
      BY <2>2 DEF SealInv
  <2> QED
      BY <2>1, <2>2
<1>2. ASSUME NEW m \in Msg, Kind[m] = "switch"
      PROVE  /\ status'[m] = "resolved" => \E c \in Nat : At(out'[Sender[m]].wire, m, c)
             /\ ready'[Sender[m]] => status'[m] # "unsent"
  <2>1. /\ Sender[m] \in End
        /\ status[m] = "resolved" => \E c \in Nat : At(out[Sender[m]].wire, m, c)
        /\ ready[Sender[m]] => status[m] # "unsent"
      BY <1>2, SendPathAssumption DEF SealInv, OfferOK
  <2>2. \A c : At(out[Sender[m]].wire, m, c) => At(out'[Sender[m]].wire, m, c)
      BY <2>1
  <2>3. ready'[Sender[m]] => status'[m] # "unsent"
      BY <1>2, <2>1 DEF Offers
  <2> QED
      BY <1>2, <2>1, <2>2, <2>3
<1> QED
    BY <1>1, <1>2 DEF SealInv, OfferOK

(* The steps of m, or of its sender, that write nothing. *)
LEMMA QuietSeals ==
    ASSUME SendInv, SealInv, NEW e \in End,
           \A d \in End : d # e => state'[d] = state[d] /\ out'[d] = out[d],
           ready' = ready, state'[e] = state[e] \/ state'[e] = "DISCONNECTED",
           out'[e].wire = out[e].wire, out'[e].seals = out[e].seals,
           \A m \in Msg, c \in Nat : Somewhere(out'[e], m, c) => Somewhere(out[e], m, c),
           \A m \in Msg : Kind[m] = "switch" =>
               /\ status'[m] = "resolved" => status[m] = "resolved"
               /\ status'[m] = "unsent" => status[m] = "unsent"
    PROVE  SealInv'
<1> DEFINE p == out[e]
           q == out'[e]
           after == state'[e]
<1>1. SealOK(state[e], ready[e], p)
    BY DEF SealInv
<1>2. \A m \in Msg : Offered(q, m) => Offered(p, m)
    BY DEF Offered
<1>3. q.wire = p.wire /\ q.seals = p.seals /\ (after = state[e] \/ after = "DISCONNECTED")
    OBVIOUS
<1> HIDE DEF p, q, after
<1>4. SealOK(after, ready[e], q)
    BY <1>1, <1>2, <1>3, SealRests
<1>5. SealOK(state'[e], ready'[e], out'[e])
    BY <1>4 DEF q, after
<1>6. \A m, c : At(out[e].wire, m, c) => At(out'[e].wire, m, c)
    OBVIOUS
<1>7. \A d \in End : d # e => state'[d] = state[d] /\ ready'[d] = ready[d] /\ out'[d] = out[d]
    OBVIOUS
<1> QED
    BY <1>5, <1>6, <1>7, SealStep

(* A send: one frame is given to the queue. *)
LEMMA PushSeals ==
    ASSUME SendInv, SendInv', SealInv, NEW e \in End, isConnected(e),
           NEW item \in Item, Kind[item.msg] # "switch", PushHere(e, <<item>>),
           state' = state, ready' = ready,
           \A m \in Msg : /\ status'[m] = "resolved" => status[m] = "resolved"
                          /\ status'[m] = "unsent" => status[m] = "unsent"
    PROVE  SealInv'
<1> DEFINE p == out[e]
           q == out'[e]
           rd == ready[e]
           st == state[e]
<1>1. PICK switching \in BOOLEAN :
          /\ st = IF switching THEN "SWITCHING_PROTOCOL" ELSE "CONNECTED"
          /\ out' = [out EXCEPT ![e] = Push(p, <<item>>, switching, rd)]
  <2>1. state[e] \in {"CONNECTED", "SWITCHING_PROTOCOL"}
      BY DEF SendInv, SendTypeOK, isConnected
  <2> DEFINE switching == state[e] = "SWITCHING_PROTOCOL"
  <2>2. /\ switching \in BOOLEAN /\ state[e] = IF switching THEN "SWITCHING_PROTOCOL" ELSE "CONNECTED"
        /\ out' = [out EXCEPT ![e] = Push(p, <<item>>, switching, rd)]
      BY <2>1 DEF PushHere
  <2> HIDE DEF switching
  <2> QED
      BY <2>2
<1>2. /\ p \in Path /\ rd \in BOOLEAN /\ SealOK(st, rd, p)
      /\ q = Push(p, <<item>>, switching, rd) /\ \A d \in End : d # e => out'[d] = out[d]
    BY <1>1 DEF SendInv, SendTypeOK, SealInv
<1>3. Sound(q)
    BY DEF SendInv, EndOK
<1> HIDE DEF p, q, rd, st
<1>4. q \in Path /\ Writes(p, q, switching, rd) /\ Gains(p, q, <<item>>)
  <2>1. <<item>> \in Seq(Item)
      OBVIOUS
  <2> QED
      BY <1>2, <2>1, PushWrites
<1>5. \A m \in Msg : Offered(q, m) => Offered(p, m)
  <2>1. \A m, c : At(<<item>>, m, c) => m = item.msg
      BY AtOne
  <2> QED
      BY <1>4, <2>1 DEF Gains, Offered
<1>6. st = "CONNECTED" \/ (st = "SWITCHING_PROTOCOL" /\ switching)
    BY <1>1
<1>7. SealOK(st, rd, q)
    BY <1>2, <1>3, <1>4, <1>5, <1>6, SealMoves
<1>8. \A m, c : At(p.wire, m, c) => At(q.wire, m, c)
    BY <1>2, <1>4, WritesKeep
<1> QED
  <2>1. /\ SealOK(state'[e], ready'[e], out'[e])
        /\ \A m, c : At(out[e].wire, m, c) => At(out'[e].wire, m, c)
      BY <1>7, <1>8 DEF p, q, rd, st
  <2>2. \A d \in End : d # e => state'[d] = state[d] /\ ready'[d] = ready[d] /\ out'[d] = out[d]
      BY <1>2
  <2> QED
      BY <2>1, <2>2, SealStep

(* The offer is made. *)
LEMMA OfferOutSeals ==
    ASSUME SendInv, SendInv', SealInv, NEW e \in End, NEW m \in Offers(e), OfferOut(e, m)
    PROVE  SealInv'
<1> DEFINE p == out[e]
           q == out'[e]
           item == frameOf(m)
<1>1. /\ m \in Msg /\ Kind[m] = "switch" /\ Sender[m] = e /\ status[m] = "unsent"
      /\ state[e] = "CONNECTED" /\ state'[e] = "SWITCHING_PROTOCOL" /\ ready' = ready
      /\ p \in Path /\ ready[e] \in BOOLEAN /\ SealOK(state[e], ready[e], p)
      /\ q = Push(p, <<item>>, TRUE, FALSE)
      /\ \A d \in End : d # e => out'[d] = out[d] /\ state'[d] = state[d]
      /\ status' = [status EXCEPT ![m] = "pending"]
    BY DEF SendInv, SendTypeOK, SealInv, OfferOut, Offers
<1>2. ready[e] = FALSE
    BY <1>1 DEF SealInv, OfferOK
<1>3. Sound(q)
    BY DEF SendInv, EndOK
<1>4. item \in Item /\ item.msg = m
    BY <1>1 DEF frameOf, Item
<1> HIDE DEF p, q, item
<1>5. q \in Path /\ Writes(p, q, TRUE, FALSE) /\ Gains(p, q, <<item>>)
  <2>1. <<item>> \in Seq(Item)
      BY <1>4
  <2> QED
      BY <1>1, <2>1, PushWrites
<1>6. \A k \in Msg : Offered(q, k) => Offered(p, k) \/ k = m
  <2>1. \A k, c : At(<<item>>, k, c) => k = m
      BY <1>4, AtOne
  <2> QED
      BY <1>5, <2>1 DEF Gains, Offered
<1>7. SealOK("SWITCHING_PROTOCOL", FALSE, q)
  <2>1. SealOK("CONNECTED", FALSE, p)
      BY <1>1, <1>2
  <2> QED
      BY <1>1, <1>3, <1>5, <1>6, <2>1, SealOffers
<1>8. \A k, c : At(p.wire, k, c) => At(q.wire, k, c)
    BY <1>1, <1>5, WritesKeep
<1> QED
  <2>1. /\ SealOK(state'[e], ready'[e], out'[e])
        /\ \A k, c : At(out[e].wire, k, c) => At(out'[e].wire, k, c)
      BY <1>1, <1>2, <1>7, <1>8 DEF p, q
  <2>2. \A d \in End : d # e => state'[d] = state[d] /\ ready'[d] = ready[d] /\ out'[d] = out[d]
      BY <1>1
  <2>3. \A k \in Msg : /\ status'[k] = "resolved" => status[k] = "resolved"
                       /\ status'[k] = "unsent" => status[k] = "unsent"
      BY <1>1 DEF SendInv, SendTypeOK
  <2>4. ready'[e] = ready[e]
      BY <1>1
  <2> QED
      BY <2>1, <2>2, <2>3, <2>4, SealStep

(* The session comes up. *)
LEMMA SessionUpSeals ==
    ASSUME SendInv, SealInv, NEW e \in End, SessionUp(e)
    PROVE  SealInv'
<1> DEFINE p == out[e]
           s == Singles(linkQueue[e])
           items == [i \in DOMAIN s |-> frameOf(s[i])]
           q == out'[e]
<1>1. /\ state[e] = "SWITCHING_PROTOCOL" /\ \A m \in Offers(e) : status[m] = "resolved"
      /\ state'[e] = "CONNECTED" /\ ready'[e] = TRUE /\ status' = status
      /\ q = SessionPath(p, items) /\ p \in Path /\ ready[e] \in BOOLEAN
      /\ \A d \in End : d # e => out'[d] = out[d] /\ state'[d] = state[d] /\ ready'[d] = ready[d]
      /\ SealOK(state[e], ready[e], p)
    BY DEF SendInv, SendTypeOK, SealInv, SessionUp, Singles
<1>2. items \in Seq(Item)
  <2> DEFINE lq == linkQueue[e]
  <2>1. lq \in Seq(Msg) /\ LinkOK(e, lq, status)
      BY DEF SendInv, SendTypeOK
  <2> HIDE DEF lq
  <2>2. /\ items \in Seq(Item)
        /\ \A m, c : At(items, m, c) <=> m \in ToSet(lq) /\ Single(m) /\ c = 1
        /\ \A m \in Msg : InQueue(items, m) = IF m \in ToSet(lq) /\ Single(m) THEN 1 ELSE 0
        /\ Rising(items)
    <3>1. items = [i \in DOMAIN Singles(lq) |-> frameOf(Singles(lq)[i])]
        BY DEF lq
    <3> HIDE DEF items, s
    <3> QED
        BY <2>1, <3>1, SinglesAre
  <2> QED
      BY <2>2
<1> HIDE DEF p, q, items
<1>3. PICK m \in Msg : Sender[m] = e /\ Kind[m] = "switch"
    BY SendPathAssumption
<1>4. PICK c \in Nat : At(p.wire, m, c)
    BY <1>1, <1>3 DEF SealInv, OfferOK, Offers, p
<1>5. SealOK("SWITCHING_PROTOCOL", FALSE, p)
    BY <1>1 DEF SealOK
<1>6. /\ q \in Path /\ SealOK("CONNECTED", TRUE, q)
      /\ \A k, d : At(p.wire, k, d) => At(q.wire, k, d)
    BY <1>1, <1>2, <1>3, <1>4, <1>5, SealBegins
<1> QED
  <2>1. /\ SealOK(state'[e], ready'[e], out'[e])
        /\ \A k, d : At(out[e].wire, k, d) => At(out'[e].wire, k, d)
      BY <1>1, <1>6 DEF p, q
  <2>2. \A d \in End : d # e => state'[d] = state[d] /\ ready'[d] = ready[d] /\ out'[d] = out[d]
      BY <1>1
  <2>3. \A k \in Msg : /\ status'[k] = "resolved" => status[k] = "resolved"
                       /\ status'[k] = "unsent" => status[k] = "unsent"
      BY <1>1
  <2>4. \A k \in Offers(e) : status'[k] # "unsent"
      BY <1>1
  <2> QED
      BY <2>1, <2>2, <2>3, <2>4, SealStep

(* The connection is dropped, *)
LEMMA DropSeals ==
    ASSUME SendInv, SealInv, NEW e \in End, NEW also, NEW hand, Drop(e, also, hand), ready' = ready
    PROVE  SealInv'
<1>1. /\ state'[e] = "DISCONNECTED" /\ \A d \in End : d # e => state'[d] = state[d] /\ out'[d] = out[d]
      /\ out'[e].wire = out[e].wire /\ out'[e].seals = out[e].seals
      /\ out'[e].queue = <<>> /\ out'[e].held = <<>>
    BY DEF SendInv, SendTypeOK, Path, Drop
<1>2. \A m \in Msg, c \in Nat : Somewhere(out'[e], m, c) => Somewhere(out[e], m, c)
  <2>1. \A m, c : ~At(<<>>, m, c)
      BY AtOne
  <2> QED
      BY <1>1, <2>1 DEF Somewhere
<1>3. \A m \in Msg : /\ status'[m] = "resolved" => status[m] = "resolved"
                     /\ status'[m] = "unsent" => status[m] = "unsent"
    BY DEF Drop
<1> QED
    BY <1>1, <1>2, <1>3, QuietSeals

(* A step that changes nothing on the way out. *)
LEMMA StillSeals ==
    ASSUME SendInv, SealInv, UNCHANGED <<state, ready, out>>,
           \A m \in Msg : Kind[m] = "switch" =>
               /\ status'[m] = "resolved" => status[m] = "resolved"
               /\ status'[m] = "unsent" => status[m] = "unsent"
    PROVE  SealInv'
BY DEF SealInv, OfferOK

(* by a send that fails,                                                   *)
LEMMA RejectSeals ==
    ASSUME SendInv, SealInv, NEW m \in Msg, RejectSend(m), ready' = ready
    PROVE  SealInv'
<1>1. CASE isConnected(Sender[m])
  <2>1. Drop(Sender[m], {m}, out[Sender[m]].hand) /\ Sender[m] \in End
      BY <1>1, SendPathAssumption DEF RejectSend
  <2> QED
      BY <2>1, DropSeals
<1>2. CASE ~isConnected(Sender[m])
  <2>1. status' = [status EXCEPT ![m] = "rejected"] /\ UNCHANGED <<state, out>>
      BY <1>2 DEF RejectSend
  <2> QED
      BY <2>1, StillSeals DEF SendInv, SendTypeOK
<1> QED
    BY <1>1, <1>2

(* at the end of a stream,                                                 *)
LEMMA StreamEndsSeals ==
    ASSUME SendInv, SealInv, NEW m \in Msg, StreamEnds(m)
    PROVE  SealInv'
<1>1. CASE stream[m].failed
    BY <1>1, RejectSeals DEF StreamEnds
<1>2. CASE ~stream[m].failed
  <2>1. status' = [status EXCEPT ![m] = "resolved"] /\ UNCHANGED <<state, ready, out>> /\ stream[m].on
      BY <1>2 DEF StreamEnds, Streaming
  <2>2. Kind[m] # "switch"
      BY <2>1, OneFrame DEF SendInv, MsgOK, OnceIn
  <2> QED
      BY <2>1, <2>2, StillSeals DEF SendInv, SendTypeOK
<1> QED
    BY <1>1, <1>2

(* or by a frame that is not written. *)
LEMMA WriteFailsSeals ==
    ASSUME SendInv, SealInv, NEW e \in End, WriteFails(e)
    PROVE  SealInv'
<1> DEFINE m == out[e].hand[1].msg
<1>1. CASE isConnected(e) /\ Single(m) /\ Kind[m] # "forward"
  <2>1. Drop(e, {m}, <<>>) /\ ready' = ready
      BY <1>1 DEF WriteFails
  <2> QED
      BY <2>1, DropSeals
<1>2. CASE ~(isConnected(e) /\ Single(m) /\ Kind[m] # "forward")
  <2>1. /\ Settle(m, "rejected") /\ UNCHANGED <<state, ready>>
        /\ out' = [out EXCEPT ![e].hand = <<>>, ![e].queue = <<>>]
      BY <1>2 DEF WriteFails
  <2>2. /\ \A d \in End : d # e => out'[d] = out[d]
        /\ out'[e].wire = out[e].wire /\ out'[e].seals = out[e].seals
        /\ out'[e].queue = <<>> /\ out'[e].held = out[e].held
      BY <2>1 DEF SendInv, SendTypeOK, Path
  <2>3. \A x \in Msg, c \in Nat : Somewhere(out'[e], x, c) => Somewhere(out[e], x, c)
    <3>1. \A x, c : ~At(<<>>, x, c)
        BY AtOne
    <3> QED
        BY <2>2, <3>1 DEF Somewhere
  <2>4. \A x \in Msg : /\ status'[x] = "resolved" => status[x] = "resolved"
                       /\ status'[x] = "unsent" => status[x] = "unsent"
      BY <2>1 DEF Settle, SendInv, SendTypeOK
  <2> QED
      BY <2>1, <2>2, <2>3, <2>4, QuietSeals
<1> QED
    BY <1>1, <1>2

(* The frame in hand is written, and the queue goes on. *)
LEMMA WriteDoneSeals ==
    ASSUME SendInv, SendInv', SealInv, NEW e \in End, WriteDone(e)
    PROVE  SealInv'
<1> DEFINE p == out[e]
           q == out'[e]
           m == p.hand[1].msg
           rd == ready[e]
           st == state[e]
           switching == st = "SWITCHING_PROTOCOL"
<1>1. /\ q = Run([p EXCEPT !.hand = <<>>], switching, rd)
      /\ \A d \in End : d # e => out'[d] = out[d]
      /\ UNCHANGED <<state, ready>> /\ Settle(m, "resolved") /\ p.hand # <<>>
      /\ p \in Path /\ rd \in BOOLEAN /\ switching \in BOOLEAN /\ SealOK(st, rd, p)
      /\ st \in {"CONNECTED", "SWITCHING_PROTOCOL", "DISCONNECTED"}
    BY DEF SendInv, SendTypeOK, SealInv, WriteDone
<1>2. Sound(p) /\ Sound(q) /\ (st = "DISCONNECTED" => p.queue = <<>> /\ ~switching)
    BY DEF SendInv, EndOK
<1>3. m \in Msg /\ Sender[m] = e /\ p.hand[1] \in Item /\ At(p.wire, m, p.hand[1].chunk)
  <2>1. m \in Msg /\ Sender[m] = e
      BY <1>1, InHand
  <2> QED
      BY <1>1, <1>2, <2>1 DEF Sound, Path
<1>4. \A k \in Msg : /\ status'[k] = "resolved" => status[k] = "resolved" \/ k = m
                     /\ status'[k] = "unsent" => status[k] = "unsent"
    BY <1>1 DEF Settle, SendInv, SendTypeOK
<1>5. st # "DISCONNECTED" => (st = "CONNECTED" \/ (st = "SWITCHING_PROTOCOL" /\ switching))
    BY <1>1
<1> HIDE DEF p, q, m, rd, st, switching
<1>6. /\ q \in Path /\ Writes(p, q, switching, rd) /\ Gains(p, q, <<>>)
      /\ p.queue = <<>> /\ ~switching => q.wire = p.wire /\ q.seals = p.seals
    BY <1>1, NextWrites
<1>7. \A k \in Msg : Offered(q, k) => Offered(p, k)
  <2>1. \A k, c : ~At(<<>>, k, c)
      BY AtOne
  <2> QED
      BY <1>6, <2>1 DEF Gains, Offered
<1>8. SealOK(st, rd, q)
  <2>1. CASE st = "DISCONNECTED"
      BY <1>1, <1>2, <1>6, <1>7, <2>1, SealRests
  <2>2. CASE st # "DISCONNECTED"
      BY <1>1, <1>2, <1>5, <1>6, <1>7, <2>2, SealMoves
  <2> QED
      BY <2>1, <2>2
<1>9. \A k, c : At(p.wire, k, c) => At(q.wire, k, c)
    BY <1>1, <1>6, WritesKeep
<1>10. \E c \in Nat : At(q.wire, m, c)
  <2>1. p.hand[1].chunk \in Nat
      BY <1>3, Fields
  <2> QED
      BY <1>3, <1>9, <2>1
<1> QED
  <2>1. /\ SealOK(state'[e], ready'[e], out'[e])
        /\ \A k, c : At(out[e].wire, k, c) => At(out'[e].wire, k, c)
      BY <1>1, <1>8, <1>9 DEF p, q, rd, st
  <2>2. \A d \in End : d # e => state'[d] = state[d] /\ ready'[d] = ready[d] /\ out'[d] = out[d]
      BY <1>1
  <2>3. \A k \in Msg : Kind[k] = "switch" =>
            /\ status'[k] = "resolved" =>
                  status[k] = "resolved" \/ \E c \in Nat : At(out'[Sender[k]].wire, k, c)
            /\ status'[k] = "unsent" => status[k] = "unsent"
      BY <1>3, <1>4, <1>10 DEF q
  <2>4. ready'[e] = ready[e]
      BY <1>1
  <2> QED
      BY <2>1, <2>2, <2>3, <2>4, SealStep

(* What a message does keeps SealInv, *)
LEMMA SendStepSeals ==
    ASSUME SendInv, SendInv', SealInv, NEW m \in Msg, SendStep(m)
    PROVE  SealInv'
<1> DEFINE e == Sender[m]
<1>1. e \in End /\ status \in [Msg -> {"unsent", "pending", "resolved", "rejected"}]
    BY SendPathAssumption DEF SendInv, SendTypeOK
<1>2. CASE SendWhenGone(m)
  <2>1. status' = [status EXCEPT ![m] = "rejected"] /\ UNCHANGED <<state, ready, out>>
      BY <1>2 DEF SendWhenGone
  <2> QED
      BY <1>1, <2>1, StillSeals
<1>3. CASE QueueLink(m)
  <2>1. status' = [status EXCEPT ![m] = "pending"] /\ UNCHANGED <<state, ready, out>>
      BY <1>3 DEF QueueLink
  <2> QED
      BY <1>1, <2>1, StillSeals
<1>4. CASE SendLink(m) /\ ~Single(m)
  <2>1. status' = [status EXCEPT ![m] = "pending"] /\ UNCHANGED <<state, ready, out>>
      BY <1>4 DEF SendLink
  <2> QED
      BY <1>1, <2>1, StillSeals
<1>5. CASE (SendLink(m) /\ Single(m)) \/ SendDirect(m)
  <2>1. /\ PushHere(e, <<frameOf(m)>>) /\ isConnected(e) /\ Kind[m] # "switch"
        /\ status' = [status EXCEPT ![m] = "pending"] /\ state' = state /\ ready' = ready
      BY <1>5 DEF SendLink, SendDirect, isConnected
  <2>2. frameOf(m) \in Item /\ frameOf(m).msg = m
      BY DEF frameOf, Item
  <2>3. \A k \in Msg : /\ status'[k] = "resolved" => status[k] = "resolved"
                       /\ status'[k] = "unsent" => status[k] = "unsent"
      BY <1>1, <2>1
  <2> QED
      BY <1>1, <2>1, <2>2, <2>3, PushSeals
<1>6. CASE StreamPush(m)
  <2> DEFINE item == [msg |-> m, chunk |-> stream[m].next]
  <2>1. /\ PushHere(e, <<item>>) /\ isConnected(e) /\ stream[m].on
        /\ status' = status /\ state' = state /\ ready' = ready
      BY <1>6 DEF StreamPush, Streaming
  <2>2. Kind[m] # "switch"
      BY <2>1, OneFrame DEF SendInv, MsgOK, OnceIn
  <2>3. item \in Item /\ item.msg = m
    <3>1. stream[m].next \in Nat \ {0}
        BY DEF SendInv, SendTypeOK, Stream
    <3> QED
        BY <3>1 DEF Item
  <2> HIDE DEF item
  <2> QED
      BY <1>1, <2>1, <2>2, <2>3, PushSeals
<1>7. CASE StreamAborts(m)
    BY <1>7, RejectSeals DEF StreamAborts
<1>8. CASE StreamEnds(m)
    BY <1>8, StreamEndsSeals
<1> QED
    BY <1>2, <1>3, <1>4, <1>5, <1>6, <1>7, <1>8 DEF SendStep

(* and so does every step. *)
LEMMA SealNext == SendInv /\ SendInv' /\ SealInv /\ [SendNext]_sendVars => SealInv'
<1> SUFFICES ASSUME SendInv, SendInv', SealInv, [SendNext]_sendVars
             PROVE  SealInv'
    OBVIOUS
<1>1. ASSUME NEW e \in End, Disconnect(e)
      PROVE  SealInv'
    BY <1>1, DropSeals DEF Disconnect
<1>2. CASE UNCHANGED sendVars
    BY <1>2 DEF sendVars, SealInv
<1>3. ASSUME NEW e \in End,
             \/ WriteDone(e) \/ WriteFails(e) \/ SessionUp(e) \/ Disconnect(e)
             \/ \E m \in Offers(e) : OfferOut(e, m)
      PROVE  SealInv'
    BY <1>1, <1>3, WriteDoneSeals, WriteFailsSeals, SessionUpSeals, OfferOutSeals
<1> QED
    BY <1>2, <1>3, SendStepSeals DEF SendNext

(* At first nothing is written. *)
LEMMA SealInit == SendInit => SealInv
<1> SUFFICES ASSUME SendInit
             PROVE  SealInv
    OBVIOUS
<1> DEFINE none == <<>>
           p == [queue |-> none, held |-> none, hand |-> none, wire |-> none, seals |-> 0]
<1>1. DOMAIN none = {} /\ \A m, c : ~At(none, m, c)
  <2>1. DOMAIN none = {}
      OBVIOUS
  <2>2. \A m, c : ~At(<<>>, m, c)
      BY AtOne
  <2> QED
      BY <2>1, <2>2
<1> HIDE DEF none
<1>2. p.wire = none /\ p.held = none /\ p.queue = none /\ p.seals = 0
    OBVIOUS
<1>3. \A e \in End : state[e] = "CONNECTED" /\ ready[e] = FALSE /\ out[e] = p
    BY DEF SendInit, none
<1> HIDE DEF p
<1>4. NoOffer(p) /\ Clear(p.wire, p.seals)
    BY <1>1, <1>2 DEF NoOffer, Offered, Somewhere, Clear
<1>5. SealOK("CONNECTED", FALSE, p)
    BY <1>4 DEF SealOK, OneOffer, NoOffer
<1>6. \A m \in Msg : status[m] = "unsent" /\ ready[Sender[m]] = FALSE
    BY SendPathAssumption DEF SendInit
<1> QED
    BY <1>3, <1>5, <1>6 DEF SealInv, OfferOK

(* SealInv is an invariant of the way out. *)
THEOREM SealInvariant == SendSpec => []SealInv
<1>1. SendInit => SealInv
    BY SealInit
<1>2. SendInv /\ SendInv' /\ SealInv /\ [SendNext]_sendVars => SealInv'
    BY SealNext
<1> QED
    BY <1>1, <1>2, SendInvariant, PTL DEF SendSpec

(* ClearThenSealed: what follows our offer on the wire is sealed, counting *)
(* up from one, and nothing before it is.                                  *)
THEOREM OfferDividesWire == SendSpec => []ClearThenSealed
<1>1. ASSUME SendInv, SealInv, NEW e \in End
      PROVE  LET wire == out[e].wire
                 offerAt == SelectInSeq(wire, IsOffer)
                 last == IF offerAt = 0 THEN Len(wire) ELSE offerAt
             IN  \A i \in DOMAIN wire : wire[i].seal = IF i <= last THEN 0 ELSE i - last
  <2> DEFINE w == out[e].wire
             n == SelectInSeq(w, IsOffer)
             last == IF n = 0 THEN Len(w) ELSE n
  <2>1. /\ w \in Seq(Frame) /\ ready[e] \in BOOLEAN
        /\ ~ready[e] => Clear(w, out[e].seals)
        /\ ready[e] => Sealed(w, out[e].seals)
      BY <1>1 DEF SendInv, SendTypeOK, Path, SealInv, SealOK
  <2> HIDE DEF w
  <2>2. \/ n = 0 /\ \A i \in DOMAIN w : ~IsOffer(w[i])
        \/ n \in 1..Len(w) /\ IsOffer(w[n]) /\ \A i \in 1..n - 1 : ~IsOffer(w[i])
      BY <2>1, FirstOffer
  <2> HIDE DEF n
  <2>3. DOMAIN w = 1..Len(w) /\ Len(w) \in Nat
      BY <2>1
  <2>4. CASE ~ready[e]
    <3>1. last = Len(w)
        BY <2>1, <2>2, <2>3, <2>4 DEF Clear
    <3>2. \A i \in DOMAIN w : i <= last /\ w[i].seal = 0
        BY <2>1, <2>3, <2>4, <3>1 DEF Clear
    <3> HIDE DEF last
    <3>3. \A i \in DOMAIN w : w[i].seal = IF i <= last THEN 0 ELSE i - last
        BY <3>2
    <3> QED
        BY <3>3 DEF w, last, n
  <2>5. CASE ready[e]
    <3>1. PICK k \in DOMAIN w : SealedAfter(k, w)
        BY <2>1, <2>5 DEF Sealed
    <3>2. k \in Nat /\ IsOffer(w[k]) /\ \A i \in 1..k - 1 : ~IsOffer(w[i])
        BY <2>3, <3>1 DEF SealedAfter
    <3>3. n \in 1..Len(w) /\ IsOffer(w[n]) /\ \A i \in 1..n - 1 : ~IsOffer(w[i])
        BY <2>2, <3>1, <3>2
    <3>4. n = k
      <4>1. n < k => n \in 1..k - 1
          BY <3>2, <3>3
      <4>2. k < n => k \in 1..n - 1
          BY <2>3, <3>1, <3>2, <3>3
      <4>3. ~(n < k) /\ ~(k < n)
          BY <3>2, <3>3, <4>1, <4>2
      <4> QED
          BY <3>2, <3>3, <4>3
    <3>5. last = k
        BY <2>3, <3>3, <3>4
    <3> HIDE DEF last
    <3> QED
        BY <3>1, <3>5 DEF SealedAfter, w, last, n
  <2> QED
      BY <2>1, <2>4, <2>5
<1>2. SendInv /\ SealInv => ClearThenSealed
    BY <1>1 DEF ClearThenSealed
<1> QED
    BY <1>2, SendInvariant, SealInvariant, PTL
=============================================================================
