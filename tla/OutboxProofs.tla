---------------------------- MODULE OutboxProofs ----------------------------
(***************************************************************************)
(* Proofs about Outbox, for every set of guests and clients, every number  *)
(* of channels and without the bounds TLC needs: what a client types gets  *)
(* to the guests in order, and is neither lost nor repeated between its    *)
(* inbound task and the guest that receives it.                            *)
(***************************************************************************)
EXTENDS Outbox, SequenceTheorems, FiniteSetTheorems, WellFoundedInduction, TLAPS

----------------------------------------------------------------------------
(* The inductive invariant *)

SeenByte == [ch : Nat, by : Clients \cup {NoClient}, n : Nat]

\* A byte that a client typed.
Typed == [by : Clients, n : Nat]

\* The typed bytes in a queue, and whether x is older than y where both are of
\* the same client.
Els(q)      == {x \in Typed : \E i \in DOMAIN q : q[i].by = x.by /\ q[i].n = x.n}
Below(P, Q) == \A x \in P, y \in Q : x.by = y.by => x.n < y.n

\* What guest g has received or is being sent, and all that has left the
\* outbox.
Given(g) == Els(rcvd[g]) \cup Els(reply[g].data)
Left     == (UNION {Given(g) : g \in Guests}) \cup (lost \cap Typed)

\* Every queue is in order; an inbound task holds bytes of its own client, and
\* no byte is numbered beyond what has been typed.
QueuesOrdered ==
  /\ \A a \in Clients : Ordered(inbuf[a]) /\ \A x \in Els(inbuf[a]) : x.by = a
  /\ \A c \in Channels : Ordered(outbox[c])
  /\ \A g \in Guests : Ordered(reply[g].data) /\ Ordered(rcvd[g])

AllTyped ==
  /\ \A a \in Clients : \A x \in Els(inbuf[a]) : x.n \in 1..taken[x.by]
  /\ \A c \in Channels : \A x \in Els(outbox[c]) : x.n \in 1..taken[x.by]
  /\ \A x \in Left : x.n \in 1..taken[x.by]

\* Bytes pass the places on their way in the order typed.
PlacesOrdered ==
  /\ \A a \in Clients, c \in Channels : Below(Els(outbox[c]), Els(inbuf[a]))
  /\ \A a \in Clients : Below(Left, Els(inbuf[a]))
  /\ \A c \in Channels : Below(Left, Els(outbox[c]))
  /\ \A g \in Guests : Below(Els(rcvd[g]), Els(reply[g].data))

\* A session has a reply only between its handler and the guest's read, and
\* a guest that is not connected has no exchange.
Exchange ==
  \A g \in Guests :
    /\ step[g] \notin {"writing", "sent"} => reply[g] = NoReply
    /\ step[g] \in {"asked", "writing", "sent"} => ask[g].op \in {"SERREAD", "SERREADM"}
    /\ link[g] = "none" => step[g] = "none"

\* A queue of the outbox holds the bytes of the clients attached to it. (A
\* client's channel is set before it types.)
Home ==
  /\ \A a \in Clients : inbound[a] = "none" => taken[a] = 0
  /\ \A c \in Channels : \A x \in Els(outbox[c]) : chan[x.by] = c

OrderInv == TypeOK /\ QueuesOrdered /\ AllTyped /\ PlacesOrdered /\ Home /\ Exchange

----------------------------------------------------------------------------
\* A guest that is alone: nobody else drains the outbox.
Alone(g) == \A h \in Guests \ {g} : link[h] = "none"

\* Padding never gets into a queue, and the count that a lone guest has been
\* or will be told is still queued.
NoPads(q) == \A i \in DOMAIN q : q[i].by # NoClient

Covered(c, k) == k = 0 \/ (c \in Channels /\ k <= Len(outbox[c]))

CountKept(g) ==
  /\ step[g] \in {"writing", "sent"} /\ ask[g].op = "SERREAD" /\ reply[g].code >= 17 =>
       Covered(reply[g].code - 17, reply[g].count)
  /\ step[g] = "asked" /\ ask[g].op = "SERREADM" => Covered(ask[g].ch, ask[g].count)

QueuesReal ==
  /\ \A a \in Clients : NoPads(inbuf[a])
  /\ \A c \in Channels : NoPads(outbox[c])

LoneReal(g) == NoPads(reply[g].data) /\ NoPads(rcvd[g]) /\ CountKept(g)

PadInv == QueuesReal /\ \A g \in Guests : Alone(g) => LoneReal(g)

----------------------------------------------------------------------------
\* SERREAD can announce the channels 0 to 14; channel 15 is known not to work.
Announced == \A a \in Clients : ClientChannels[a] \cap Channels \subseteq 0..14

\* No byte is in two places: with two guests, or lost and with a guest.
Apart ==
  /\ \A g, h \in Guests : g # h => Given(g) \cap Given(h) = {}
  /\ \A g \in Guests : Given(g) \cap lost = {}

\* Bytes are on the channel their client is attached to, also for the guest.
ReplyChannel(g) ==
  \A x \in Els(reply[g].data) :
    /\ ask[g].op = "SERREAD"  => reply[g].code = 1 + chan[x.by]
    /\ ask[g].op = "SERREADM" => ask[g].ch = chan[x.by]
    /\ chan[x.by] \in Channels

SeenChannel(q) == \A i \in DOMAIN q : q[i].by \in Clients => q[i].ch = chan[q[i].by]

RightChannel ==
  /\ \A a \in Clients : chan[a] \in ClientChannels[a] \cup {0}
  /\ \A g \in Guests : ReplyChannel(g) /\ SeenChannel(rcvd[g])

\* A byte typed on a channel is somewhere.
NoneMissing ==
  \A a \in Clients : chan[a] \in Channels =>
    \A x \in Typed : x.by = a /\ x.n \in 1..taken[a] =>
      x \in Els(inbuf[a]) \cup Els(outbox[chan[a]]) \cup Left

PlaceInv == Apart /\ RightChannel /\ NoneMissing

----------------------------------------------------------------------------
(* Queues of bytes *)

\* What the queues of the model hold.
Any == Byte \cup SeenByte

LEMMA AnyTypes ==
  /\ \A q \in Seq(Byte) : q \in Seq(Any)
  /\ \A q \in Seq(SeenByte) : q \in Seq(Any)
  /\ \A x \in Any : x.by \in Clients \cup {NoClient} /\ x.n \in Nat
<1>1. Byte \subseteq Any /\ SeenByte \subseteq Any
  BY DEF Any
<1>2. \A q \in Seq(Byte) : q \in Seq(Any)
  BY <1>1, SeqMonotonic
<1>3. \A q \in Seq(SeenByte) : q \in Seq(Any)
  BY <1>1, SeqMonotonic
<1>4. \A x \in Any : x.by \in Clients \cup {NoClient} /\ x.n \in Nat
  BY DEF Any, Byte, SeenByte
<1> QED
  BY <1>2, <1>3, <1>4

\* The typed bytes of an empty queue and of one queue behind another.
LEMMA ElsEmpty == Els(<<>>) = {}
  BY DEF Els

LEMMA ElsConcat ==
  ASSUME NEW p \in Seq(Any), NEW q \in Seq(Any)
  PROVE  p \o q \in Seq(Any) /\ Els(p \o q) = Els(p) \cup Els(q)
<1> DEFINE m == Len(p)
           k == Len(q)
           r == p \o q
<1>1. /\ r \in Seq(Any) /\ Len(r) = m + k /\ m \in Nat /\ k \in Nat
      /\ DOMAIN p = 1..m /\ DOMAIN q = 1..k /\ DOMAIN r = 1..(m + k)
  OBVIOUS
<1>2. /\ \A i \in 1..m : i \in 1..(m + k) /\ r[i] = p[i]
      /\ \A i \in 1..k : i + m \in 1..(m + k) /\ r[i + m] = q[i]
      /\ \A i \in 1..(m + k) : i \in 1..m \/ (i - m \in 1..k /\ r[i] = q[i - m])
  <2>1. \A i \in 1..m : i \in 1..(m + k) /\ r[i] = p[i]
    OBVIOUS
  <2>2. \A i \in 1..k : i + m \in 1..(m + k) /\ r[i + m] = q[i]
    OBVIOUS
  <2>3. \A i \in 1..(m + k) : i \in 1..m \/ (i - m \in 1..k /\ r[i] = q[i - m])
    OBVIOUS
  <2> QED
    BY <2>1, <2>2, <2>3
<1> HIDE DEF m, k, r
<1>3. ASSUME NEW x \in Typed
      PROVE  x \in Els(r) <=> x \in Els(p) \/ x \in Els(q)
  <2>1. ASSUME x \in Els(p) PROVE x \in Els(r)
    BY <1>1, <1>2, <2>1 DEF Els
  <2>2. ASSUME x \in Els(q) PROVE x \in Els(r)
    <3>1. PICK i \in 1..k : q[i].by = x.by /\ q[i].n = x.n
      BY <1>1, <2>2 DEF Els
    <3>2. i + m \in 1..(m + k) /\ r[i + m] = q[i]
      BY <1>2
    <3> QED
      BY <1>1, <3>1, <3>2 DEF Els
  <2>3. ASSUME x \in Els(r) PROVE x \in Els(p) \/ x \in Els(q)
    <3>1. PICK i \in 1..(m + k) : r[i].by = x.by /\ r[i].n = x.n
      BY <1>1, <2>3 DEF Els
    <3>2. CASE i \in 1..m
      BY <1>1, <1>2, <3>1, <3>2 DEF Els
    <3>3. CASE i - m \in 1..k /\ r[i] = q[i - m]
      BY <1>1, <3>1, <3>3 DEF Els
    <3> QED
      BY <1>2, <3>2, <3>3
  <2> QED
    BY <2>1, <2>2, <2>3
<1>4. Els(r) = Els(p) \cup Els(q)
  <2>1. Els(r) \subseteq Typed /\ Els(p) \subseteq Typed /\ Els(q) \subseteq Typed
    BY DEF Els
  <2> QED
    BY <1>3, <2>1
<1> QED
  BY <1>1, <1>4 DEF r

\* Two queues in order, the first older than the second, are in order one
\* behind the other.
LEMMA OrderedConcat ==
  ASSUME NEW p \in Seq(Any), NEW q \in Seq(Any),
         Ordered(p), Ordered(q), Below(Els(p), Els(q))
  PROVE  Ordered(p \o q)
<1> DEFINE m == Len(p)
           k == Len(q)
           r == p \o q
<1>1. /\ r \in Seq(Any) /\ Len(r) = m + k /\ m \in Nat /\ k \in Nat
      /\ DOMAIN p = 1..m /\ DOMAIN q = 1..k /\ DOMAIN r = 1..(m + k)
  OBVIOUS
<1>2. /\ \A i \in 1..m : r[i] = p[i]
      /\ \A i \in 1..(m + k) : i \in 1..m \/ (i - m \in 1..k /\ r[i] = q[i - m])
      /\ \A i \in 1..m : p[i] \in Any
      /\ \A i \in 1..k : q[i] \in Any
  <2>1. \A i \in 1..m : r[i] = p[i] /\ p[i] \in Any
    OBVIOUS
  <2>2. \A i \in 1..(m + k) : i \in 1..m \/ (i - m \in 1..k /\ r[i] = q[i - m])
    OBVIOUS
  <2>3. \A i \in 1..k : q[i] \in Any
    OBVIOUS
  <2> QED
    BY <2>1, <2>2, <2>3
<1> HIDE DEF m, k, r
<1>3. SUFFICES ASSUME NEW i \in 1..(m + k), NEW j \in 1..(m + k), i < j,
                      r[i].by = r[j].by, r[i].by # NoClient
               PROVE  r[i].n < r[j].n
  BY <1>1 DEF Ordered, r
<1>4. CASE i \in 1..m /\ j \in 1..m
  BY <1>1, <1>2, <1>3, <1>4 DEF Ordered
<1>5. CASE i \in 1..m /\ j - m \in 1..k /\ r[j] = q[j - m]
  <2>1. p[i].by \in Clients /\ p[i].n \in Nat /\ q[j - m].n \in Nat /\ p[i].by = q[j - m].by
    BY <1>2, <1>3, <1>5, AnyTypes
  <2> DEFINE x == [by |-> p[i].by, n |-> p[i].n]
             y == [by |-> p[i].by, n |-> q[j - m].n]
  <2>2. x \in Els(p)
    <3>1. x \in Typed /\ i \in DOMAIN p /\ p[i].by = x.by /\ p[i].n = x.n
      BY <1>1, <1>5, <2>1 DEF Typed
    <3> QED
      BY <3>1 DEF Els
  <2>3. y \in Els(q)
    <3>1. y \in Typed /\ j - m \in DOMAIN q /\ q[j - m].by = y.by /\ q[j - m].n = y.n
      BY <1>1, <1>5, <2>1 DEF Typed
    <3> QED
      BY <3>1 DEF Els
  <2>4. x.n < y.n
    BY <2>2, <2>3 DEF Below
  <2> QED
    BY <1>2, <1>5, <2>4
<1>6. CASE ~(i \in 1..m) /\ ~(j \in 1..m)
  <2>1. /\ i - m \in 1..k /\ r[i] = q[i - m]
        /\ j - m \in 1..k /\ r[j] = q[j - m]
        /\ i - m < j - m
    BY <1>1, <1>2, <1>3, <1>6
  <2> QED
    BY <1>1, <1>3, <2>1 DEF Ordered
<1>7. i \in 1..m \/ ~(j \in 1..m)
  BY <1>1, <1>3
<1> QED
  BY <1>2, <1>4, <1>5, <1>6, <1>7

\* There is a lowest channel that has bytes: handle_serread's scan finds it.
LEMMA FirstReady ==
  ASSUME VserialChannels \in Nat, Ready # {}
  PROVE  First \in Channels /\ outbox[First] # <<>>
<1>1. Ready \subseteq Nat
  BY DEF Ready, Channels
<1>2. PICK x \in Ready : \A y \in Ready : ~(<<y, x>> \in OpToRel(<, Nat))
  BY <1>1, WFMin, NatLessThanWellFounded
<1>3. \A y \in Ready : x <= y
  <2> SUFFICES ASSUME NEW y \in Ready, y < x PROVE FALSE
    BY <1>1
  <2>1. <<y, x>> \in OpToRel(<, Nat)
    BY <1>1 DEF OpToRel
  <2> QED
    BY <1>2, <2>1
<1>4. First \in Ready
  BY <1>3 DEF First
<1> QED
  BY <1>4 DEF Ready

\* d takes the first bytes of q (and perhaps padding), r is what is left of q.
Splits(q, d, r) ==
  /\ d \in Seq(Byte) /\ r \in Seq(Byte)
  /\ Els(q) = Els(d) \cup Els(r)
  /\ Ordered(q) => Ordered(d) /\ Ordered(r) /\ Below(Els(d), Els(r))
  /\ NoPads(q) => NoPads(r)

\* The elements of a queue with a client as author are typed bytes.
LEMMA ElsOf ==
  ASSUME NEW q \in Seq(Any), NEW i \in 1..Len(q), q[i].by \in Clients
  PROVE  [by |-> q[i].by, n |-> q[i].n] \in Els(q)
<1>1. q[i] \in Any
  OBVIOUS
<1>2. q[i].n \in Nat
  BY <1>1, AnyTypes
<1> DEFINE x == [by |-> q[i].by, n |-> q[i].n]
<1>3. x \in Typed /\ i \in DOMAIN q /\ q[i].by = x.by /\ q[i].n = x.n
  BY <1>2 DEF Typed
<1> QED
  BY <1>3 DEF Els

\* If d consists of the bytes 1..k of q and padding, and r of those behind k,
\* then they split q.
LEMMA SplitAt ==
  ASSUME NEW q \in Seq(Byte), NEW d \in Seq(Byte), NEW r \in Seq(Byte), NEW k \in Nat,
         NoClient \notin Clients,
         \A i \in 1..Len(d) : IF i <= Len(q) THEN d[i] = q[i] ELSE d[i].by = NoClient,
         Len(d) = k,
         \A i \in 1..Len(r) : r[i] = q[i + k],
         Len(r) = (IF k <= Len(q) THEN Len(q) - k ELSE 0)
  PROVE  Splits(q, d, r)
<1> DEFINE L == Len(q)
           M == Len(r)
<1>1. L \in Nat /\ DOMAIN q = 1..L /\ DOMAIN d = 1..k /\ DOMAIN r = 1..M /\ M \in Nat
  OBVIOUS
<1> HIDE DEF L, M
<1>0. /\ \A i \in 1..k : IF i <= L THEN d[i] = q[i] ELSE d[i].by = NoClient
      /\ \A i \in 1..M : r[i] = q[i + k]
      /\ M = IF k <= L THEN L - k ELSE 0
  BY DEF L, M
<1>2. ASSUME NEW i \in 1..k PROVE (i \in 1..L /\ d[i] = q[i]) \/ d[i].by \notin Clients
  <2>1. CASE i <= L
    <3>1. i \in 1..L
      BY <1>1, <2>1
    <3> QED
      BY <1>0, <2>1, <3>1
  <2>2. CASE ~(i <= L)
    BY <1>0, <2>2
  <2> QED
    BY <2>1, <2>2
<1>r. \A i \in 1..M : r[i] = q[i + k]
  BY Zenon DEF M
<1>3. ASSUME NEW i \in 1..M PROVE i + k \in 1..L /\ r[i] = q[i + k]
  <2>1. i + k \in 1..L
    BY <1>1, <1>0
  <2>2. r[i] = q[i + k]
    BY <1>r
  <2> QED
    BY <2>1, <2>2
<1>4. ASSUME NEW i \in 1..L
      PROVE  (i \in 1..k /\ d[i] = q[i]) \/ (i - k \in 1..M /\ r[i - k] = q[i])
  <2>1. CASE i <= k
    <3>1. i \in 1..k /\ i <= L
      BY <1>1, <2>1
    <3> QED
      BY <1>0, <3>1
  <2>2. CASE ~(i <= k)
    <3>1. i - k \in 1..M /\ (i - k) + k = i
      BY <1>1, <1>0, <2>2
    <3>2. PICK j \in 1..M : j = i - k /\ j + k = i
      BY <3>1
    <3>3. r[j] = q[j + k]
      BY <1>r
    <3> QED
      BY <3>1, <3>2, <3>3
  <2> QED
    BY <2>1, <2>2
<1>5. \A x \in Typed : x \in Els(q) <=> x \in Els(d) \/ x \in Els(r)
  <2> SUFFICES ASSUME NEW x \in Typed
               PROVE  x \in Els(q) <=> x \in Els(d) \/ x \in Els(r)
    OBVIOUS
  <2>0. x.by \in Clients
    BY DEF Typed
  <2>1. ASSUME x \in Els(q) PROVE x \in Els(d) \/ x \in Els(r)
    <3>1. PICK i \in 1..L : q[i].by = x.by /\ q[i].n = x.n
      BY <1>1, <2>1 DEF Els
    <3>2. CASE i \in 1..k /\ d[i] = q[i]
      BY <1>1, <3>1, <3>2 DEF Els
    <3>3. CASE i - k \in 1..M /\ r[i - k] = q[i]
      BY <1>1, <3>1, <3>3 DEF Els
    <3> QED
      BY <1>4, <3>2, <3>3
  <2>2. ASSUME x \in Els(d) PROVE x \in Els(q)
    <3>1. PICK i \in 1..k : d[i].by = x.by /\ d[i].n = x.n
      BY <1>1, <2>2 DEF Els
    <3>2. i \in 1..L /\ d[i] = q[i]
      BY <1>2, <2>0, <3>1
    <3> QED
      BY <1>1, <3>1, <3>2 DEF Els
  <2>3. ASSUME x \in Els(r) PROVE x \in Els(q)
    <3>1. PICK i \in 1..M : r[i].by = x.by /\ r[i].n = x.n
      BY <1>1, <2>3 DEF Els
    <3>2. i + k \in 1..L /\ r[i] = q[i + k]
      BY <1>3
    <3> QED
      BY <1>1, <3>1, <3>2 DEF Els
  <2> QED
    BY <2>1, <2>2, <2>3
<1>6. Els(q) = Els(d) \cup Els(r)
  <2>1. Els(q) \subseteq Typed /\ Els(d) \subseteq Typed /\ Els(r) \subseteq Typed
    BY DEF Els
  <2> QED
    BY <1>5, <2>1
<1>7. NoPads(q) => NoPads(r)
  BY <1>1, <1>3 DEF NoPads
<1>8. \A i \in 1..k : d[i].by \in Clients \cup {NoClient}
  <2>1. \A i \in 1..k : d[i] \in Byte
    BY <1>1
  <2> QED
    BY <2>1 DEF Byte
<1>9. ASSUME Ordered(q) PROVE Ordered(d) /\ Ordered(r) /\ Below(Els(d), Els(r))
  <2>1. Ordered(d)
    <3> SUFFICES ASSUME NEW i \in 1..k, NEW j \in 1..k, i < j, d[i].by = d[j].by, d[i].by # NoClient
                 PROVE  d[i].n < d[j].n
      BY <1>1 DEF Ordered
    <3>1. i \in 1..L /\ d[i] = q[i] /\ j \in 1..L /\ d[j] = q[j]
      BY <1>2, <1>8
    <3> QED
      BY <1>1, <1>9, <3>1 DEF Ordered
  <2>2. Ordered(r)
    <3> SUFFICES ASSUME NEW i \in 1..M, NEW j \in 1..M, i < j,
                        r[i].by = r[j].by, r[i].by # NoClient
                 PROVE  r[i].n < r[j].n
      BY <1>1 DEF Ordered
    <3>1. i + k \in 1..L /\ r[i] = q[i + k] /\ j + k \in 1..L /\ r[j] = q[j + k]
      BY <1>3
    <3>2. i + k < j + k
      BY <1>1
    <3>3. q[i + k].by = q[j + k].by /\ q[i + k].by # NoClient
      BY <3>1
    <3>4. q[i + k].n < q[j + k].n
      BY <1>1, <1>9, <3>1, <3>2, <3>3 DEF Ordered
    <3> QED
      BY <3>1, <3>4
  <2>3. ASSUME NEW x \in Els(d), NEW y \in Els(r), x.by = y.by PROVE x.n < y.n
    <3>1. PICK i \in 1..k : d[i].by = x.by /\ d[i].n = x.n
      BY <1>1 DEF Els
    <3>2. PICK j \in 1..M : r[j].by = y.by /\ r[j].n = y.n
      BY <1>1 DEF Els
    <3>3. x.by \in Clients /\ x.by # NoClient
      BY DEF Els, Typed
    <3>4. i \in 1..L /\ d[i] = q[i]
      BY <1>2, <3>1, <3>3
    <3>5. j + k \in 1..L /\ r[j] = q[j + k]
      BY <1>3
    <3>6. i < j + k
      BY <1>1
    <3>7. q[i].by = q[j + k].by /\ q[i].by # NoClient
      BY <2>3, <3>1, <3>2, <3>3, <3>4, <3>5
    <3>8. q[i].n < q[j + k].n
      BY <1>1, <1>9, <3>4, <3>5, <3>6, <3>7 DEF Ordered
    <3> QED
      BY <3>1, <3>2, <3>4, <3>5, <3>8
  <2> QED
    BY <2>1, <2>2, <2>3 DEF Below
<1> QED
  BY <1>6, <1>7, <1>9 DEF Splits

\* handle_serreadm's reply and what it leaves in the queue.
Burst(q, k) == [i \in 1..k |-> IF i <= Len(q) THEN q[i] ELSE Pad]
Rest(q, k)  == SubSeq(q, k + 1, Len(q))

LEMMA BurstSplits ==
  ASSUME NEW q \in Seq(Byte), NEW k \in Nat, NoClient \notin Clients
  PROVE  /\ Splits(q, Burst(q, k), Rest(q, k))
         /\ k <= Len(q) /\ NoPads(q) => NoPads(Burst(q, k))
         /\ k = 0 => NoPads(Burst(q, k)) /\ Rest(q, k) = q
<1> DEFINE d == Burst(q, k)
           r == Rest(q, k)
<1>d. d = [i \in 1..k |-> IF i <= Len(q) THEN q[i] ELSE Pad] /\ r = SubSeq(q, k + 1, Len(q))
  BY DEF Burst, Rest
<1> HIDE DEF d, r
<1>1. Pad \in Byte /\ Pad.by = NoClient
  BY DEF Pad, Byte
<1>2. d \in [1..k -> Byte]
  BY <1>1, <1>d
<1>3. d \in Seq(Byte) /\ Len(d) = k
  BY <1>2
<1>4. r \in Seq(Byte) /\ Len(r) = IF k <= Len(q) THEN Len(q) - k ELSE 0
  BY <1>d
<1>5. \A i \in 1..Len(r) : r[i] = q[i + k]
  BY <1>d
<1>6. \A i \in 1..Len(d) : IF i <= Len(q) THEN d[i] = q[i] ELSE d[i].by = NoClient
  BY <1>1, <1>3, <1>d
<1>7. Splits(q, d, r)
  BY <1>3, <1>4, <1>5, <1>6, SplitAt
<1>8. k <= Len(q) /\ NoPads(q) => NoPads(d)
  BY <1>3, <1>6 DEF NoPads
<1>9. k = 0 => NoPads(d) /\ r = q
  BY <1>3, <1>4, <1>5 DEF NoPads
<1> QED
  BY <1>7, <1>8, <1>9 DEF d, r

\* handle_serread's inline byte.
LEMMA InlineSplits ==
  ASSUME NEW q \in Seq(Byte), q # <<>>, NoClient \notin Clients,
         NEW d, d = <<Head(q)>>, NEW r, r = Tail(q)
  PROVE  Splits(q, d, r) /\ (NoPads(q) => NoPads(d))
<1>1. /\ d \in Seq(Byte) /\ Len(d) = 1 /\ d[1] = q[1]
      /\ r \in Seq(Byte) /\ Len(r) = Len(q) - 1 /\ Len(q) \in Nat /\ 1 <= Len(q)
  OBVIOUS
<1>2. \A i \in 1..Len(r) : r[i] = q[i + 1]
  OBVIOUS
<1>3. \A i \in 1..Len(d) : IF i <= Len(q) THEN d[i] = q[i] ELSE d[i].by = NoClient
  BY <1>1
<1>4. Splits(q, d, r)
  BY <1>1, <1>2, <1>3, SplitAt
<1>5. NoPads(q) => NoPads(d)
  BY <1>1 DEF NoPads
<1> QED
  BY <1>4, <1>5

\* The guest keeps the bytes of a reply as they are and adds the channel.
LEMMA SeenData ==
  ASSUME NEW d \in Seq(Byte), NEW ch \in Nat
  PROVE  /\ Seen(ch, d) \in Seq(SeenByte)
         /\ Els(Seen(ch, d)) = Els(d)
         /\ Ordered(d) => Ordered(Seen(ch, d))
         /\ NoPads(d) => NoPads(Seen(ch, d))
         /\ Len(Seen(ch, d)) = Len(d)
         /\ \A i \in 1..Len(d) : Seen(ch, d)[i].ch = ch /\ Seen(ch, d)[i].by = d[i].by
<1> DEFINE s == Seen(ch, d)
<1>1. DOMAIN d = 1..Len(d) /\ Len(d) \in Nat /\ \A i \in 1..Len(d) : d[i] \in Byte
  OBVIOUS
<1>2. s = [i \in 1..Len(d) |-> [ch |-> ch, by |-> d[i].by, n |-> d[i].n]]
  BY <1>1 DEF Seen
<1>3. \A i \in 1..Len(d) : [ch |-> ch, by |-> d[i].by, n |-> d[i].n] \in SeenByte
  BY <1>1 DEF Byte, SeenByte
<1>4. s \in [1..Len(d) -> SeenByte]
  BY <1>2, <1>3
<1>5. \A i \in 1..Len(d) : s[i].ch = ch /\ s[i].by = d[i].by /\ s[i].n = d[i].n
  BY <1>2
<1> HIDE DEF s
<1>6. s \in Seq(SeenByte) /\ Len(s) = Len(d) /\ DOMAIN s = 1..Len(d)
  BY <1>1, <1>4
<1>7. Els(s) = Els(d)
  BY <1>1, <1>5, <1>6 DEF Els
<1>8. Ordered(d) => Ordered(s)
  BY <1>1, <1>5, <1>6 DEF Ordered
<1>9. NoPads(d) => NoPads(s)
  BY <1>1, <1>5, <1>6 DEF NoPads
<1> QED
  BY <1>5, <1>6, <1>7, <1>8, <1>9 DEF s

\* What the inbound task reads: the next k bytes its client types.
Chunk(a, t, k) == [i \in 1..k |-> [by |-> a, n |-> t + i]]

LEMMA FreshChunk ==
  ASSUME NEW a \in Clients, NEW t \in Nat, NEW k \in Nat, NoClient \notin Clients
  PROVE  /\ Chunk(a, t, k) \in Seq(Byte)
         /\ Ordered(Chunk(a, t, k)) /\ NoPads(Chunk(a, t, k))
         /\ \A x \in Typed :
              x \in Els(Chunk(a, t, k)) <=> x.by = a /\ x.n \in (t + 1)..(t + k)
<1> DEFINE q == Chunk(a, t, k)
<1>0. q = [i \in 1..k |-> [by |-> a, n |-> t + i]]
  BY DEF Chunk
<1> HIDE DEF q
<1>1. \A i \in 1..k : [by |-> a, n |-> t + i] \in Byte
  BY DEF Byte
<1>2. q \in [1..k -> Byte]
  BY <1>0, <1>1
<1>3. q \in Seq(Byte) /\ DOMAIN q = 1..k
  BY <1>2
<1>4. \A i \in 1..k : q[i].by = a /\ q[i].n = t + i
  BY <1>0
<1>5. Ordered(q) /\ NoPads(q)
  BY <1>3, <1>4 DEF Ordered, NoPads
<1>6. ASSUME NEW x \in Typed, x.by = a, x.n \in (t + 1)..(t + k) PROVE x \in Els(q)
  <2>1. x.n - t \in 1..k /\ t + (x.n - t) = x.n
    BY <1>6
  <2>2. q[x.n - t].by = a /\ q[x.n - t].n = x.n
    BY <1>4, <2>1
  <2> QED
    BY <1>3, <1>6, <2>1, <2>2 DEF Els
<1>7. ASSUME NEW x \in Els(q) PROVE x.by = a /\ x.n \in (t + 1)..(t + k)
  <2>1. PICK i \in 1..k : q[i].by = x.by /\ q[i].n = x.n
    BY <1>3 DEF Els
  <2>2. x.by = a /\ x.n = t + i
    BY <1>4, <2>1
  <2> QED
    BY <2>2
<1> QED
  BY <1>3, <1>5, <1>6, <1>7 DEF q

----------------------------------------------------------------------------
(* Type correctness *)

LEMMA InitTypes == Init => TypeOK
<1> SUFFICES ASSUME Init PROVE TypeOK
  OBVIOUS
<1>1. <<>> \in Seq(Byte) /\ <<>> \in Seq(SeenByte)
  BY EmptySeq
<1>2. NoAsk \in Ask /\ NoReply \in Reply
  BY <1>1 DEF NoAsk, Ask, NoReply, Reply
<1> QED
  BY <1>1, <1>2 DEF Init, TypeOK, Inbounds, Links, Steps, SeenByte

\* An attached client's task keeps the types.
LEMMA ClientTypes ==
  ASSUME TypeOK, NEW a \in Clients, Client(a)
  PROVE  TypeOK'
<1>1. CASE HandleAttach(a)
  <2>1. PICK ch \in ClientChannels[a] : chan' = [chan EXCEPT ![a] = ch]
    BY <1>1 DEF HandleAttach
  <2>2. ch \in Nat
    BY OutboxAssumption
  <2>3. chan' \in [Clients -> Nat] /\ inbound' \in [Clients -> Inbounds]
    BY <1>1, <2>1, <2>2 DEF HandleAttach, TypeOK, Inbounds
  <2> QED
    BY <1>1, <2>3 DEF HandleAttach, TypeOK, guestVars
<1>2. CASE ReadChunk(a)
  <2>1. PICK k \in 1..MaxTyped :
          /\ inbuf' = [inbuf EXCEPT ![a] = [i \in 1..k |-> [by |-> a, n |-> taken[a] + i]]]
          /\ taken' = [taken EXCEPT ![a] = @ + k]
    BY <1>2 DEF ReadChunk
  <2>2. k \in Nat /\ taken[a] \in Nat
    BY OutboxAssumption DEF TypeOK
  <2>3. [i \in 1..k |-> [by |-> a, n |-> taken[a] + i]] \in Seq(Byte)
    <3>1. Chunk(a, taken[a], k) \in Seq(Byte)
      BY <2>2, FreshChunk, OutboxAssumption
    <3> QED
      BY <3>1 DEF Chunk
  <2>4. inbuf' \in [Clients -> Seq(Byte)]
    BY <2>1, <2>3 DEF TypeOK
  <2>5. taken' \in [Clients -> Nat]
    BY <2>1, <2>2 DEF TypeOK
  <2> QED
    BY <1>2, <2>4, <2>5 DEF ReadChunk, TypeOK, guestVars
<1>3. CASE SendToVserial(a)
  <2>1. inbuf[a] \in Seq(Byte)
    BY DEF TypeOK
  <2>2. outbox' \in [Channels -> Seq(Byte)]
    <3>1. CASE UNCHANGED outbox
      BY <3>1 DEF TypeOK
    <3>2. CASE chan[a] \in Channels /\ outbox' = [outbox EXCEPT ![chan[a]] = @ \o inbuf[a]]
      <4>1. outbox[chan[a]] \in Seq(Byte)
        BY <3>2 DEF TypeOK
      <4>2. outbox[chan[a]] \o inbuf[a] \in Seq(Byte)
        BY <2>1, <4>1
      <4> QED
        BY <3>2, <4>2 DEF TypeOK
    <3> QED
      BY <1>3, <3>1, <3>2 DEF SendToVserial
  <2>3. <<>> \in Seq(Byte)
    BY EmptySeq
  <2>4. inbuf' \in [Clients -> Seq(Byte)]
    BY <1>3, <2>3 DEF SendToVserial, TypeOK
  <2> QED
    BY <1>3, <2>2, <2>4 DEF SendToVserial, TypeOK, guestVars
<1>4. CASE InboundEof(a)
  BY <1>4 DEF InboundEof, TypeOK, guestVars, Inbounds
<1> QED
  BY <1>1, <1>2, <1>3, <1>4 DEF Client

\* The reply to SERREAD.
LEMMA SerReadReplyType ==
  ASSUME NEW c \in Channels, outbox[c] \in Seq(Byte), outbox[c] # <<>>
  PROVE  SerReadReply(c) \in Reply
<1>1. c \in Nat /\ MaxCount \in Nat
  BY OutboxAssumption DEF Channels
<1>2. Len(outbox[c]) \in Nat /\ <<Head(outbox[c])>> \in Seq(Byte) /\ <<>> \in Seq(Byte)
  OBVIOUS
<1>3. CASE Len(outbox[c]) < 3
  <2>1. SerReadReply(c) = [code |-> 1 + c, count |-> 0, data |-> <<Head(outbox[c])>>]
    BY <1>3 DEF SerReadReply
  <2> QED
    BY <1>1, <1>2, <2>1 DEF Reply
<1>4. CASE ~(Len(outbox[c]) < 3)
  <2> DEFINE k == IF Len(outbox[c]) < MaxCount THEN Len(outbox[c]) ELSE MaxCount
  <2>1. SerReadReply(c) = [code |-> 17 + c, data |-> <<>>, count |-> k]
    BY <1>4 DEF SerReadReply
  <2>2. k \in Nat
    BY <1>1, <1>2
  <2> QED
    BY <1>1, <1>2, <2>1, <2>2 DEF Reply
<1> QED
  BY <1>3, <1>4

\* A session keeps the types.
LEMMA SessionTypes ==
  ASSUME TypeOK, NEW g \in Guests, Session(g)
  PROVE  TypeOK'
<1>0. NoReply \in Reply /\ reply[g] \in Reply /\ reply[g].data \in Seq(Byte)
  <2>1. <<>> \in Seq(Byte)
    BY EmptySeq
  <2>2. reply[g] \in Reply
    BY DEF TypeOK
  <2> QED
    BY <2>1, <2>2 DEF NoReply, Reply
<1>1. CASE HandleSerRead(g)
  <2>1. CASE reply' = [reply EXCEPT ![g] = NoReply] /\ UNCHANGED outbox
    BY <1>0, <1>1, <2>1 DEF HandleSerRead, TypeOK, clientVars, Steps
  <2>2. CASE /\ Ready # {}
             /\ reply' = [reply EXCEPT ![g] = SerReadReply(First)]
             /\ outbox' = [outbox EXCEPT ![First] = IF Len(@) < 3 THEN Tail(@) ELSE @]
    <3>1. PICK c : c = First
      OBVIOUS
    <3>2. c \in Channels /\ outbox[c] # <<>> /\ outbox[c] \in Seq(Byte)
      BY <2>2, <3>1, FirstReady, OutboxAssumption DEF TypeOK
    <3>3. SerReadReply(c) \in Reply
      BY <3>2, SerReadReplyType
    <3>4. reply' \in [Guests -> Reply]
      BY <2>2, <3>1, <3>3 DEF TypeOK
    <3>5. (IF Len(outbox[c]) < 3 THEN Tail(outbox[c]) ELSE outbox[c]) \in Seq(Byte)
      BY <3>2
    <3>6. outbox' \in [Channels -> Seq(Byte)]
      BY <2>2, <3>1, <3>5 DEF TypeOK
    <3> QED
      BY <1>1, <3>4, <3>6 DEF HandleSerRead, TypeOK, clientVars, Steps
  <2> QED
    BY <1>1, <2>1, <2>2 DEF HandleSerRead
<1>2. CASE HandleSerReadM(g)
  <2> DEFINE ch    == ask[g].ch
             count == ask[g].count
             q     == IF ch \in Channels THEN outbox[ch] ELSE <<>>
             data  == [i \in 1..count |-> IF i <= Len(q) THEN q[i] ELSE Pad]
             rest  == SubSeq(q, count + 1, Len(q))
  <2>1. ch \in Nat /\ count \in Nat /\ q \in Seq(Byte)
    <3>1. ask[g] \in Ask
      BY DEF TypeOK
    <3>2. q \in Seq(Byte)
      BY EmptySeq DEF TypeOK
    <3> QED
      BY <3>1, <3>2 DEF Ask
  <2>2. /\ reply' = [reply EXCEPT ![g] = [code |-> 0, count |-> 0, data |-> data]]
        /\ outbox' = [outbox EXCEPT ![ch] = rest]
        /\ step' = [step EXCEPT ![g] = "writing"]
        /\ UNCHANGED <<holder, clientVars, link, ask, rcvd, lost>>
    BY <1>2 DEF HandleSerReadM
  <2> HIDE DEF ch, count, q
  <2>3. data \in Seq(Byte) /\ rest \in Seq(Byte)
    <3>1. data = Burst(q, count) /\ rest = Rest(q, count)
      BY DEF Burst, Rest
    <3>2. NoClient \notin Clients
      BY OutboxAssumption
    <3> HIDE DEF data, rest
    <3>3. Splits(q, Burst(q, count), Rest(q, count))
      BY <2>1, <3>2, BurstSplits
    <3> QED
      BY <3>1, <3>3 DEF Splits
  <2> HIDE DEF data, rest
  <2>4. [code |-> 0, count |-> 0, data |-> data] \in Reply
    BY <2>3 DEF Reply
  <2>5. reply' \in [Guests -> Reply]
    BY <2>2, <2>4 DEF TypeOK
  <2>6. outbox' \in [Channels -> Seq(Byte)]
    BY <2>2, <2>3 DEF TypeOK
  <2> QED
    BY <2>2, <2>5, <2>6 DEF TypeOK, clientVars, Steps
<1>3. CASE ReplyWritten(g)
  BY <1>3 DEF ReplyWritten, TypeOK, clientVars, Steps
<1>4. CASE SessionEnds(g)
  <2>1. lost' \subseteq Byte
    BY <1>0, <1>4 DEF SessionEnds, TypeOK
  <2> QED
    BY <1>0, <1>4, <2>1 DEF SessionEnds, TypeOK, clientVars, Steps
<1> QED
  BY <1>1, <1>2, <1>3, <1>4 DEF Session

\* A guest keeps the types.
LEMMA GuestTypes ==
  ASSUME TypeOK, NEW g \in Guests, Guest(g)
  PROVE  TypeOK'
<1>0. /\ NoReply \in Reply /\ NoAsk \in Ask
      /\ reply[g].data \in Seq(Byte) /\ reply[g].code \in Nat /\ reply[g].count \in Nat
      /\ rcvd[g] \in Seq(SeenByte) /\ ask[g].ch \in Nat
  <2>1. <<>> \in Seq(Byte)
    BY EmptySeq
  <2>2. reply[g] \in Reply /\ ask[g] \in Ask /\ rcvd[g] \in Seq(SeenByte)
    BY DEF TypeOK, SeenByte
  <2> QED
    BY <2>1, <2>2 DEF NoReply, NoAsk, Reply, Ask
<1>1. CASE Connect(g)
  BY <1>1 DEF Connect, TypeOK, clientVars, Links, Steps
<1>2. CASE HangUp(g)
  BY <1>2 DEF HangUp, TypeOK, clientVars, Links
<1>3. CASE GuestPoll(g)
  <2>1. [op |-> "SERREAD", ch |-> 0, count |-> 0] \in Ask
    BY DEF Ask
  <2> QED
    BY <1>3, <2>1 DEF GuestPoll, TypeOK, clientVars, Steps
<1>4. CASE GuestReadSerRead(g)
  <2>1. reply' \in [Guests -> Reply] /\ UNCHANGED <<outbox, holder, clientVars, link, lost>>
    BY <1>0, <1>4 DEF GuestReadSerRead, TypeOK
  <2>2. CASE /\ step' = [step EXCEPT ![g] = "idle"] /\ ask' = [ask EXCEPT ![g] = NoAsk]
             /\ UNCHANGED rcvd
    BY <1>0, <2>1, <2>2 DEF TypeOK, clientVars, Steps
  <2>3. CASE /\ reply[g].code \in 1..15
             /\ rcvd' = [rcvd EXCEPT ![g] = @ \o Seen(reply[g].code - 1, reply[g].data)]
             /\ step' = [step EXCEPT ![g] = "idle"] /\ ask' = [ask EXCEPT ![g] = NoAsk]
    <3>1. PICK ch \in Nat : ch = reply[g].code - 1
      BY <2>3
    <3>2. Seen(ch, reply[g].data) \in Seq(SeenByte)
      BY <1>0, SeenData
    <3>3. rcvd[g] \o Seen(ch, reply[g].data) \in Seq(SeenByte)
      BY <1>0, <3>2
    <3>4. rcvd' \in [Guests -> Seq(SeenByte)]
      BY <2>3, <3>1, <3>3 DEF TypeOK, SeenByte
    <3> QED
      BY <1>0, <2>1, <2>3, <3>4 DEF TypeOK, clientVars, Steps, SeenByte
  <2>4. CASE /\ reply[g].code \in 17..31
             /\ ask' = [ask EXCEPT ![g] = [op |-> "SERREADM", ch |-> reply[g].code - 17,
                                           count |-> reply[g].count]]
             /\ step' = [step EXCEPT ![g] = "asked"]
             /\ UNCHANGED rcvd
    <3>1. reply[g].code - 17 \in Nat
      BY <2>4
    <3>2. [op |-> "SERREADM", ch |-> reply[g].code - 17, count |-> reply[g].count] \in Ask
      BY <1>0, <3>1 DEF Ask
    <3> QED
      BY <2>1, <2>4, <3>2 DEF TypeOK, clientVars, Steps
  <2> QED
    BY <1>4, <2>2, <2>3, <2>4 DEF GuestReadSerRead
<1>5. CASE GuestReadSerReadM(g)
  <2>1. Seen(ask[g].ch, reply[g].data) \in Seq(SeenByte)
    BY <1>0, SeenData
  <2>2. rcvd[g] \o Seen(ask[g].ch, reply[g].data) \in Seq(SeenByte)
    BY <1>0, <2>1
  <2>3. rcvd' \in [Guests -> Seq(SeenByte)]
    BY <1>5, <2>2 DEF GuestReadSerReadM, TypeOK, SeenByte
  <2> QED
    BY <1>0, <1>5, <2>3 DEF GuestReadSerReadM, TypeOK, clientVars, Steps, SeenByte
<1> QED
  BY <1>1, <1>2, <1>3, <1>4, <1>5 DEF Guest

LEMMA StepTypes == TypeOK /\ [Next]_vars => TypeOK'
<1> SUFFICES ASSUME TypeOK, [Next]_vars PROVE TypeOK'
  OBVIOUS
<1>1. CASE UNCHANGED vars
  BY <1>1 DEF TypeOK, vars, clientVars, guestVars
<1> QED
  BY <1>1, ClientTypes, GuestTypes, SessionTypes DEF Next

\* The outbox, the replies and what the guests make of them are well formed in
\* every reachable state; in particular no guest computes a negative channel
\* number, whatever code it reads.
THEOREM OutboxTypes == Spec => []TypeOK
<1> QED
  BY InitTypes, StepTypes, PTL DEF Spec

----------------------------------------------------------------------------
(* Order: OrderInv is inductive *)

\* What Left holds, place by place.
LEMMA LeftIs ==
  /\ \A x : x \in Left <=> \/ \E g \in Guests : x \in Els(rcvd[g]) \/ x \in Els(reply[g].data)
                           \/ x \in lost /\ x \in Typed
  /\ Left \subseteq Typed
  BY DEF Left, Given, Els

LEMMA TypedIs ==
  /\ \A q : Els(q) \subseteq Typed
  /\ \A x \in Typed : x.by \in Clients /\ x.n \in Nat
  BY DEF Els, Typed

\* The steps of an exchange keep Exchange.
LEMMA ExchangeStep ==
  ASSUME TypeOK, Exchange, Next
  PROVE  Exchange'
<1>1. ASSUME NEW a \in Clients, Client(a) PROVE Exchange'
  BY <1>1 DEF Exchange, Client, HandleAttach, ReadChunk, SendToVserial, InboundEof, guestVars
<1>2. ASSUME NEW g \in Guests, Guest(g) \/ Session(g) PROVE Exchange'
  <2>1. CASE Connect(g)
    BY <2>1 DEF Connect, Exchange, TypeOK
  <2>2. CASE HangUp(g)
    BY <2>2 DEF HangUp, Exchange, TypeOK
  <2>3. CASE GuestPoll(g)
    BY <2>3 DEF GuestPoll, Exchange, TypeOK
  <2>4. CASE GuestReadSerRead(g)
    BY <2>4 DEF GuestReadSerRead, Exchange, TypeOK
  <2>5. CASE GuestReadSerReadM(g)
    BY <2>5 DEF GuestReadSerReadM, Exchange, TypeOK
  <2>6. CASE HandleSerRead(g)
    BY <2>6 DEF HandleSerRead, Exchange, TypeOK
  <2>7. CASE HandleSerReadM(g)
    BY <2>7 DEF HandleSerReadM, Exchange, TypeOK
  <2>8. CASE ReplyWritten(g)
    BY <2>8 DEF ReplyWritten, Exchange, TypeOK
  <2>9. CASE SessionEnds(g)
    BY <2>9 DEF SessionEnds, Exchange, TypeOK
  <2> QED
    BY <1>2, <2>1, <2>2, <2>3, <2>4, <2>5, <2>6, <2>7, <2>8, <2>9 DEF Guest, Session
<1> QED
  BY <1>1, <1>2 DEF Next

\* What InOrder follows from, without the types and the exchanges.
Places == QueuesOrdered /\ AllTyped /\ PlacesOrdered /\ Home

\* A step that moves no bytes.
LEMMA PlacesFrame ==
  ASSUME Places, UNCHANGED <<outbox, inbuf, taken, reply, rcvd, lost, chan, inbound>>
  PROVE  Places'
  BY DEF Places, QueuesOrdered, AllTyped, PlacesOrdered, Home, Ordered, Els, Below, Left, Given

\* The inbound task of a reads fresh bytes.
LEMMA ReadOrdered ==
  ASSUME TypeOK, Places, NEW a \in Clients, ReadChunk(a)
  PROVE  Places'
<1>1. PICK k \in 1..MaxTyped :
        /\ inbuf' = [inbuf EXCEPT ![a] = Chunk(a, taken[a], k)]
        /\ taken' = [taken EXCEPT ![a] = @ + k]
  BY DEF ReadChunk, Chunk
<1>2. k \in Nat /\ taken[a] \in Nat /\ taken \in [Clients -> Nat] /\ inbuf \in [Clients -> Seq(Byte)]
  BY OutboxAssumption DEF TypeOK
<1>3. PICK t \in Nat : t = taken[a]
  BY <1>2
<1>q. PICK q : q = Chunk(a, t, k)
  OBVIOUS
<1>4. /\ Ordered(q)
      /\ \A x \in Typed : x \in Els(q) <=> x.by = a /\ x.n \in (t + 1)..(t + k)
  <2>1. NoClient \notin Clients
    BY OutboxAssumption
  <2> QED
    BY <1>2, <1>q, <2>1, FreshChunk
<1>5. /\ inbuf' = [inbuf EXCEPT ![a] = q]
      /\ \A b \in Clients : taken[b] \in Nat /\ taken'[b] = IF b = a THEN t + k ELSE taken[b]
  BY <1>1, <1>2, <1>3, <1>q
<1>6. UNCHANGED <<outbox, reply, rcvd, lost, chan, inbound>> /\ inbound[a] = "read"
  BY DEF ReadChunk, guestVars
<1>7. Left' = Left
  BY <1>6 DEF Left, Given
<1>8. QueuesOrdered'
  BY <1>2, <1>4, <1>5, <1>6, TypedIs DEF Places, QueuesOrdered
<1>a. /\ \A b \in Clients : inbuf'[b] = IF b = a THEN q ELSE inbuf[b]
      /\ outbox' = outbox
  BY <1>2, <1>5, <1>6
<1>b. \A x \in Typed : x.n \in 1..taken[x.by] => x.n \in 1..taken'[x.by]
  <2> SUFFICES ASSUME NEW x \in Typed, x.n \in 1..taken[x.by] PROVE x.n \in 1..taken'[x.by]
    OBVIOUS
  <2>1. PICK b \in Clients : b = x.by
    BY TypedIs
  <2>2. x.n \in 1..taken[b]
    BY <2>1
  <2>3. taken[b] \in Nat /\ taken'[b] \in Nat /\ taken[b] <= taken'[b]
    <3>1. CASE b = a
      BY <1>2, <1>3, <1>5, <3>1
    <3>2. CASE b # a
      BY <1>5, <3>2
    <3> QED
      BY <3>1, <3>2
  <2>4. x.n \in 1..taken'[b]
    BY <2>2, <2>3
  <2> QED
    BY <2>1, <2>4
<1>9. AllTyped'
  <2>1. ASSUME NEW b \in Clients, NEW x \in Els(inbuf'[b]) PROVE x.n \in 1..taken'[x.by]
    <3>0. x \in Typed
      BY TypedIs
    <3>1. CASE b = a
      <4>1. x.by = a /\ x.n \in (t + 1)..(t + k)
        BY <1>4, <1>a, <3>0, <3>1
      <4> QED
        BY <1>2, <1>5, <4>1
    <3>2. CASE b # a
      BY <1>a, <1>b, <3>0, <3>2 DEF Places, AllTyped
    <3> QED
      BY <3>1, <3>2
  <2>2. ASSUME NEW c \in Channels, NEW x \in Els(outbox'[c]) PROVE x.n \in 1..taken'[x.by]
    BY <1>a, <1>b, TypedIs DEF Places, AllTyped
  <2>3. ASSUME NEW x \in Left PROVE x.n \in 1..taken'[x.by]
    BY <1>b, LeftIs DEF Places, AllTyped
  <2> QED
    BY <1>7, <2>1, <2>2, <2>3 DEF AllTyped
<1>c. \A y \in Els(q), x \in Typed : x.by = y.by /\ x.n \in 1..taken[x.by] => x.n < y.n
  <2> SUFFICES ASSUME NEW y \in Els(q), NEW x \in Typed, x.by = y.by, x.n \in 1..taken[x.by]
               PROVE  x.n < y.n
    OBVIOUS
  <2>1. y.by = a /\ y.n \in (t + 1)..(t + k)
    BY <1>4, TypedIs
  <2>2. x.n \in 1..t
    BY <1>3, <2>1
  <2> QED
    BY <1>2, <2>1, <2>2
<1>10. PlacesOrdered'
  <2>1. ASSUME NEW b \in Clients, NEW c \in Channels PROVE Below(Els(outbox[c]), Els(inbuf'[b]))
    <3>1. CASE b = a
      <4>1. \A x \in Els(outbox[c]) : x \in Typed /\ x.n \in 1..taken[x.by]
        BY TypedIs DEF Places, AllTyped
      <4> QED
        BY <1>a, <1>c, <3>1, <4>1 DEF Below
    <3>2. CASE b # a
      BY <1>a, <3>2 DEF Places, PlacesOrdered
    <3> QED
      BY <3>1, <3>2
  <2>2. ASSUME NEW b \in Clients PROVE Below(Left, Els(inbuf'[b]))
    <3>1. CASE b = a
      <4>1. \A x \in Left : x \in Typed /\ x.n \in 1..taken[x.by]
        BY LeftIs DEF Places, AllTyped
      <4> QED
        BY <1>a, <1>c, <3>1, <4>1 DEF Below
    <3>2. CASE b # a
      BY <1>a, <3>2 DEF Places, PlacesOrdered
    <3> QED
      BY <3>1, <3>2
  <2> QED
    BY <1>6, <1>7, <2>1, <2>2 DEF Places, PlacesOrdered
<1>11. Home'
  BY <1>1, <1>2, <1>6 DEF Places, Home
<1> QED
  BY <1>8, <1>9, <1>10, <1>11 DEF Places

\* The inbound task of a queues its bytes behind those of the channel.
LEMMA SendOrdered ==
  ASSUME TypeOK, Places, NEW a \in Clients, SendToVserial(a)
  PROVE  Places'
<1>1. inbuf' = [inbuf EXCEPT ![a] = <<>>] /\ UNCHANGED <<taken, chan, inbound, reply, rcvd, lost>>
  BY DEF SendToVserial, guestVars
<1>2. /\ inbuf \in [Clients -> Seq(Byte)] /\ outbox \in [Channels -> Seq(Byte)]
      /\ \A b \in Clients : inbuf'[b] = IF b = a THEN <<>> ELSE inbuf[b]
  BY <1>1 DEF TypeOK
<1>3. Left' = Left
  BY <1>1 DEF Left, Given
<1>4. PICK q \in Seq(Byte) : q = inbuf[a]
  BY <1>2
<1>5. Ordered(<<>>) /\ Els(<<>>) = {}
  BY ElsEmpty DEF Ordered
<1>6. CASE UNCHANGED outbox
  <2>1. QueuesOrdered'
    BY <1>1, <1>2, <1>5, <1>6 DEF Places, QueuesOrdered
  <2>2. AllTyped'
    BY <1>1, <1>2, <1>3, <1>5, <1>6 DEF Places, AllTyped
  <2>3. PlacesOrdered'
    BY <1>1, <1>2, <1>3, <1>5, <1>6 DEF Places, PlacesOrdered, Below
  <2>4. Home'
    BY <1>1, <1>6 DEF Places, Home
  <2> QED
    BY <2>1, <2>2, <2>3, <2>4 DEF Places
<1>7. CASE chan[a] \in Channels /\ outbox' = [outbox EXCEPT ![chan[a]] = @ \o inbuf[a]]
  <2>1. PICK c \in Channels, p \in Seq(Byte) : c = chan[a] /\ p = outbox[c]
    BY <1>2, <1>7
  <2>2. PICK r : r = p \o q
    OBVIOUS
  <2>3. \A e \in Channels : outbox'[e] = IF e = c THEN r ELSE outbox[e]
    BY <1>2, <1>4, <1>7, <2>1, <2>2
  <2>4. Ordered(p) /\ Ordered(q) /\ Below(Els(p), Els(q)) /\ \A x \in Els(q) : x.by = a
    BY <1>4, <2>1 DEF Places, QueuesOrdered, PlacesOrdered
  <2>5. Els(r) = Els(p) \cup Els(q) /\ Ordered(r)
    <3>1. p \in Seq(Any) /\ q \in Seq(Any)
      BY AnyTypes
    <3> QED
      BY <2>2, <2>4, <3>1, ElsConcat, OrderedConcat
  <2>6. QueuesOrdered'
    BY <1>1, <1>2, <1>5, <2>3, <2>5 DEF Places, QueuesOrdered
  <2>7. AllTyped'
    <3>1. \A e \in Channels : \A x \in Els(outbox'[e]) : x.n \in 1..taken[x.by]
      BY <1>4, <2>1, <2>3, <2>5 DEF Places, AllTyped
    <3> QED
      BY <1>1, <1>2, <1>3, <1>5, <3>1 DEF Places, AllTyped
  <2>8. PlacesOrdered'
    <3>1. ASSUME NEW b \in Clients, NEW e \in Channels PROVE Below(Els(outbox'[e]), Els(inbuf'[b]))
      <4>1. CASE b = a
        BY <1>2, <1>5, <4>1 DEF Below
      <4>2. CASE b # a /\ e # c
        BY <1>2, <2>3, <4>2 DEF Places, PlacesOrdered
      <4>3. CASE b # a /\ e = c
        <5>1. \A y \in Els(inbuf[b]) : y.by = b
          BY DEF Places, QueuesOrdered
        <5>2. Below(Els(p), Els(inbuf[b]))
          BY <2>1 DEF Places, PlacesOrdered
        <5> QED
          BY <1>2, <2>3, <2>4, <2>5, <4>3, <5>1, <5>2 DEF Below
      <4> QED
        BY <4>1, <4>2, <4>3
    <3>2. ASSUME NEW b \in Clients PROVE Below(Left, Els(inbuf'[b]))
      BY <1>2, <1>5 DEF Places, PlacesOrdered, Below
    <3>3. ASSUME NEW e \in Channels PROVE Below(Left, Els(outbox'[e]))
      <4>1. Below(Left, Els(p)) /\ Below(Left, Els(q)) /\ Below(Left, Els(outbox[e]))
        BY <1>4, <2>1 DEF Places, PlacesOrdered
      <4> QED
        BY <2>3, <2>5, <4>1 DEF Below
    <3> QED
      BY <1>1, <1>3, <3>1, <3>2, <3>3 DEF Places, PlacesOrdered
  <2>9. Home'
    <3>1. \A e \in Channels : \A x \in Els(outbox'[e]) : chan[x.by] = e
      BY <2>1, <2>3, <2>4, <2>5 DEF Places, Home
    <3> QED
      BY <1>1, <3>1 DEF Places, Home
  <2> QED
    BY <2>6, <2>7, <2>8, <2>9 DEF Places
<1> QED
  BY <1>6, <1>7 DEF SendToVserial

\* A session takes bytes from the head of a queue of the outbox.
LEMMA TakeOrdered ==
  ASSUME TypeOK, Places, NEW g \in Guests, NEW c \in Channels, NEW d, NEW r,
         Splits(outbox[c], d, r), reply[g].data = <<>>,
         reply'[g].data = d, \A h \in Guests : h # g => reply'[h] = reply[h],
         outbox' = [outbox EXCEPT ![c] = r],
         UNCHANGED <<inbuf, taken, chan, inbound, rcvd, lost>>
  PROVE  Places'
<1>1. PICK q : q = outbox[c]
  OBVIOUS
<1>2. \A e \in Channels : outbox'[e] = IF e = c THEN r ELSE outbox[e]
  BY DEF TypeOK
<1>3. Ordered(q)
  BY <1>1 DEF Places, QueuesOrdered
<1>4. Els(q) = Els(d) \cup Els(r) /\ Ordered(d) /\ Ordered(r) /\ Below(Els(d), Els(r))
  BY <1>1, <1>3 DEF Splits
<1>5. \A x \in Left' : x \in Left \/ x \in Els(d)
  BY DEF Left, Given
<1>6. \A e \in Channels : Els(outbox'[e]) \subseteq Els(outbox[e])
  BY <1>1, <1>2, <1>4
<1>7. QueuesOrdered'
  BY <1>2, <1>4 DEF Places, QueuesOrdered
<1>8. Els(d) \subseteq Els(outbox[c])
  BY <1>1, <1>4
<1>9. AllTyped'
  BY <1>5, <1>6, <1>8 DEF Places, AllTyped
<1>10. PlacesOrdered'
  <2>1. ASSUME NEW b \in Clients, NEW e \in Channels PROVE Below(Els(outbox'[e]), Els(inbuf[b]))
    BY <1>6 DEF Places, PlacesOrdered, Below
  <2>2. ASSUME NEW b \in Clients PROVE Below(Left', Els(inbuf[b]))
    BY <1>5, <1>8 DEF Places, PlacesOrdered, Below
  <2>3. ASSUME NEW e \in Channels PROVE Below(Left', Els(outbox'[e]))
    <3>1. Below(Left, Els(outbox'[e]))
      BY <1>6 DEF Places, PlacesOrdered, Below
    <3>2. Below(Els(d), Els(outbox'[e]))
      <4>1. CASE e = c
        BY <1>2, <1>4, <4>1
      <4>2. CASE e # c
        <5>1. \A x \in Els(d), y \in Els(outbox'[e]) : chan[x.by] = c /\ chan[y.by] = e
          BY <1>6, <1>8 DEF Places, Home
        <5> QED
          BY <4>2, <5>1 DEF Below
      <4> QED
        BY <4>1, <4>2
    <3> QED
      BY <1>5, <3>1, <3>2 DEF Below
  <2>4. ASSUME NEW h \in Guests PROVE Below(Els(rcvd[h]), Els(reply'[h].data))
    <3>1. CASE h = g
      <4>1. Els(rcvd[g]) \subseteq Left
        BY LeftIs
      <4>2. Below(Left, Els(outbox[c]))
        BY DEF Places, PlacesOrdered
      <4> QED
        BY <1>8, <3>1, <4>1, <4>2 DEF Below
    <3>2. CASE h # g
      BY <3>2 DEF Places, PlacesOrdered
    <3> QED
      BY <3>1, <3>2
  <2> QED
    BY <2>1, <2>2, <2>3, <2>4 DEF PlacesOrdered
<1>11. Home'
  BY <1>6 DEF Places, Home
<1> QED
  BY <1>7, <1>9, <1>10, <1>11 DEF Places

\* The answer of a session is received by its guest, or lost.
LEMMA DoneOrdered ==
  ASSUME TypeOK, Places, NEW g \in Guests,
         reply'[g].data = <<>>, \A h \in Guests : h # g => reply'[h] = reply[h],
         \A h \in Guests : h # g => rcvd'[h] = rcvd[h],
         Ordered(rcvd'[g]), Left' \subseteq Left,
         UNCHANGED <<outbox, inbuf, taken, chan, inbound>>
  PROVE  Places'
<1>1. Ordered(<<>>) /\ Els(<<>>) = {}
  BY ElsEmpty DEF Ordered
<1>2. QueuesOrdered'
  BY <1>1 DEF Places, QueuesOrdered
<1>3. AllTyped'
  BY DEF Places, AllTyped
<1>4. PlacesOrdered'
  <2>1. ASSUME NEW h \in Guests PROVE Below(Els(rcvd'[h]), Els(reply'[h].data))
    <3>1. CASE h = g
      BY <1>1, <3>1 DEF Below
    <3>2. CASE h # g
      BY <3>2 DEF Places, PlacesOrdered
    <3> QED
      BY <3>1, <3>2
  <2>2. ASSUME NEW b \in Clients PROVE Below(Left', Els(inbuf[b]))
    BY DEF Places, PlacesOrdered, Below
  <2>3. ASSUME NEW e \in Channels PROVE Below(Left', Els(outbox[e]))
    BY DEF Places, PlacesOrdered, Below
  <2> QED
    BY <2>1, <2>2, <2>3 DEF Places, PlacesOrdered
<1>5. Home'
  BY DEF Places, Home
<1> QED
  BY <1>2, <1>3, <1>4, <1>5 DEF Places

\* A session answers without a byte from the outbox.
LEMMA NothingOrdered ==
  ASSUME TypeOK, Places, NEW g \in Guests, NEW d, Els(d) = {}, Ordered(d),
         reply'[g].data = d, \A h \in Guests : h # g => reply'[h] = reply[h],
         UNCHANGED <<outbox, inbuf, taken, chan, inbound, rcvd, lost>>
  PROVE  Places'
<1>1. \A x \in Left' : x \in Left
  BY DEF Left, Given
<1>2. QueuesOrdered'
  BY DEF Places, QueuesOrdered
<1>3. AllTyped'
  BY <1>1 DEF Places, AllTyped
<1>4. PlacesOrdered'
  <2>1. ASSUME NEW h \in Guests PROVE Below(Els(rcvd[h]), Els(reply'[h].data))
    <3>1. CASE h = g
      BY <3>1 DEF Below
    <3>2. CASE h # g
      BY <3>2 DEF Places, PlacesOrdered
    <3> QED
      BY <3>1, <3>2
  <2>2. ASSUME NEW b \in Clients PROVE Below(Left', Els(inbuf[b]))
    BY <1>1 DEF Places, PlacesOrdered, Below
  <2>3. ASSUME NEW e \in Channels PROVE Below(Left', Els(outbox[e]))
    BY <1>1 DEF Places, PlacesOrdered, Below
  <2> QED
    BY <2>1, <2>2, <2>3 DEF Places, PlacesOrdered
<1>5. Home'
  BY DEF Places, Home
<1> QED
  BY <1>2, <1>3, <1>4, <1>5 DEF Places

\* What a handler does to the outbox and the answer: data d from channel c,
\* whose queue becomes r, or an answer d without bytes of a client.
Takes(g, c, d, r) ==
  /\ Splits(outbox[c], d, r)
  /\ reply'[g].data = d
  /\ \A h \in Guests : h # g => reply'[h] = reply[h]
  /\ outbox' = [outbox EXCEPT ![c] = r]

TakesNothing(g, d) ==
  /\ d \in Seq(Byte) /\ Els(d) = {} /\ Ordered(d)
  /\ reply'[g].data = d
  /\ \A h \in Guests : h # g => reply'[h] = reply[h]
  /\ UNCHANGED outbox

LEMMA EmptyQueue == Ordered(<<>>) /\ NoPads(<<>>) /\ Els(<<>>) = {} /\ <<>> \in Seq(Byte)
  BY ElsEmpty, EmptySeq DEF Ordered, NoPads

\* handle_serread takes at most the inline byte, which it announces with the
\* code of its channel.
LEMMA SerReadTakes ==
  ASSUME TypeOK, NEW g \in Guests, HandleSerRead(g)
  PROVE  \/ TakesNothing(g, <<>>)
         \/ \E c \in Channels : \E d, r : Takes(g, c, d, r) /\ reply'[g].code = 1 + c
<1>1. reply \in [Guests -> Reply] /\ outbox \in [Channels -> Seq(Byte)]
  BY DEF TypeOK
<1>2. CASE reply' = [reply EXCEPT ![g] = NoReply] /\ UNCHANGED outbox
  BY <1>1, <1>2, EmptyQueue DEF TakesNothing, NoReply
<1>3. CASE /\ Ready # {}
           /\ reply' = [reply EXCEPT ![g] = SerReadReply(First)]
           /\ outbox' = [outbox EXCEPT ![First] = IF Len(@) < 3 THEN Tail(@) ELSE @]
  <2>1. PICK c : c = First
    OBVIOUS
  <2>2. c \in Channels /\ outbox[c] # <<>> /\ outbox[c] \in Seq(Byte)
    BY <1>1, <1>3, <2>1, FirstReady, OutboxAssumption
  <2>3. reply'[g] = SerReadReply(c) /\ \A h \in Guests : h # g => reply'[h] = reply[h]
    BY <1>1, <1>3, <2>1
  <2>4. CASE Len(outbox[c]) < 3
    <3>1. PICK d, r : d = <<Head(outbox[c])>> /\ r = Tail(outbox[c])
      OBVIOUS
    <3>2. Splits(outbox[c], d, r)
      BY <2>2, <3>1, InlineSplits, OutboxAssumption
    <3>3. reply'[g].data = d /\ reply'[g].code = 1 + c
      BY <2>3, <2>4, <3>1 DEF SerReadReply
    <3>4. outbox' = [outbox EXCEPT ![c] = r]
      BY <1>3, <2>1, <2>4, <3>1
    <3>5. Takes(g, c, d, r)
      BY <2>3, <3>2, <3>3, <3>4 DEF Takes
    <3> QED
      BY <2>2, <3>3, <3>5
  <2>5. CASE ~(Len(outbox[c]) < 3)
    <3>1. reply'[g].data = <<>>
      BY <2>3, <2>5 DEF SerReadReply
    <3>2. outbox' = outbox
      BY <1>1, <1>3, <2>1, <2>5
    <3> QED
      BY <2>3, <3>1, <3>2, EmptyQueue DEF TakesNothing
  <2> QED
    BY <2>4, <2>5
<1> QED
  BY <1>2, <1>3 DEF HandleSerRead

\* handle_serreadm takes a burst from the channel it was asked for.
LEMMA SerReadMTakes ==
  ASSUME TypeOK, NEW g \in Guests, HandleSerReadM(g)
  PROVE  \/ \E d : TakesNothing(g, d)
         \/ \E d, r : ask[g].ch \in Channels /\ Takes(g, ask[g].ch, d, r)
<1> DEFINE ch    == ask[g].ch
           count == ask[g].count
           q     == IF ch \in Channels THEN outbox[ch] ELSE <<>>
<1>1. count \in Nat /\ q \in Seq(Byte) /\ (ch \in Channels => q = outbox[ch])
  <2>1. ask[g] \in Ask
    BY DEF TypeOK
  <2>2. q \in Seq(Byte)
    BY EmptySeq DEF TypeOK
  <2> QED
    BY <2>1, <2>2 DEF Ask
<1>2. /\ reply' = [reply EXCEPT ![g] = [code |-> 0, count |-> 0, data |-> Burst(q, count)]]
      /\ outbox' = [outbox EXCEPT ![ch] = Rest(q, count)]
  BY DEF HandleSerReadM, Burst, Rest
<1>q. ch \notin Channels => q = <<>>
  OBVIOUS
<1> HIDE DEF ch, count, q
<1>3. PICK d, r : d = Burst(q, count) /\ r = Rest(q, count)
  OBVIOUS
<1>4. Splits(q, d, r)
  <2>1. NoClient \notin Clients
    BY OutboxAssumption
  <2> QED
    BY <1>1, <1>3, <2>1, BurstSplits
<1>5. reply'[g].data = d /\ \A h \in Guests : h # g => reply'[h] = reply[h]
  BY <1>2, <1>3 DEF TypeOK
<1>6. CASE ch \in Channels
  <2>1. Takes(g, ch, d, r)
    BY <1>1, <1>2, <1>3, <1>4, <1>5, <1>6 DEF Takes
  <2> QED
    BY <1>6, <2>1 DEF ch
<1>7. CASE ch \notin Channels
  <2>1. q = <<>>
    BY <1>7, <1>q
  <2>2. Els(d) = {} /\ Ordered(d) /\ d \in Seq(Byte)
    BY <1>4, <2>1, EmptyQueue DEF Splits
  <2>3. outbox' = outbox
    BY <1>2, <1>7 DEF TypeOK
  <2>4. TakesNothing(g, d)
    BY <1>5, <2>2, <2>3 DEF TakesNothing
  <2> QED
    BY <2>4
<1> QED
  BY <1>6, <1>7

\* The guest g receives the data of its answer on channel ch.
Receives(g, ch) ==
  /\ rcvd' = [rcvd EXCEPT ![g] = @ \o Seen(ch, reply[g].data)]
  /\ reply' = [reply EXCEPT ![g] = NoReply]
  /\ UNCHANGED lost

LEMMA ReplyOf ==
  ASSUME TypeOK, NEW g \in Guests
  PROVE  /\ reply[g].data \in Seq(Byte) /\ reply[g].code \in Nat /\ reply[g].count \in Nat
         /\ rcvd[g] \in Seq(SeenByte) /\ ask[g].ch \in Nat /\ ask[g].count \in Nat
<1>1. reply[g] \in Reply /\ ask[g] \in Ask /\ rcvd[g] \in Seq(SeenByte)
  BY DEF TypeOK, SeenByte
<1> QED
  BY <1>1 DEF Reply, Ask

LEMMA ReceiveEls ==
  ASSUME TypeOK, Places, NEW g \in Guests, NEW ch \in Nat, Receives(g, ch)
  PROVE  /\ Ordered(rcvd'[g])
         /\ Els(rcvd'[g]) = Els(rcvd[g]) \cup Els(reply[g].data)
         /\ reply'[g].data = <<>>
         /\ \A h \in Guests : h # g => reply'[h] = reply[h] /\ rcvd'[h] = rcvd[h]
         /\ Left' = Left /\ \A h \in Guests : Given(h)' = Given(h)
<1>1. PICK d \in Seq(Byte), p \in Seq(SeenByte) : d = reply[g].data /\ p = rcvd[g]
  BY ReplyOf
<1>2. PICK s : s = Seen(ch, d)
  OBVIOUS
<1>3. rcvd'[g] = p \o s /\ reply'[g] = NoReply
  BY <1>1, <1>2 DEF Receives, TypeOK
<1>4. \A h \in Guests : h # g => reply'[h] = reply[h] /\ rcvd'[h] = rcvd[h]
  BY DEF Receives, TypeOK
<1>5. Ordered(p) /\ Ordered(d) /\ Below(Els(p), Els(d))
  BY <1>1 DEF Places, QueuesOrdered, PlacesOrdered
<1>6. s \in Seq(SeenByte) /\ Els(s) = Els(d) /\ Ordered(s)
  BY <1>2, <1>5, SeenData
<1>7. p \in Seq(Any) /\ s \in Seq(Any)
  BY <1>6, AnyTypes
<1>8. Ordered(p \o s) /\ Els(p \o s) = Els(p) \cup Els(d)
  BY <1>5, <1>6, <1>7, ElsConcat, OrderedConcat
<1>9. reply'[g].data = <<>>
  BY <1>3 DEF NoReply
<1>10. Left' = Left /\ \A h \in Guests : Given(h)' = Given(h)
  <2>1. lost' = lost
    BY DEF Receives
  <2>2. \A h \in Guests : Given(h)' = Given(h)
    <3> SUFFICES ASSUME NEW h \in Guests PROVE Els(rcvd'[h]) \cup Els(reply'[h].data) = Given(h)
      BY DEF Given
    <3>1. CASE h = g
      BY <1>1, <1>3, <1>8, <1>9, <3>1, ElsEmpty DEF Given
    <3>2. CASE h # g
      BY <1>4, <3>2 DEF Given
    <3> QED
      BY <3>1, <3>2
  <2> QED
    BY <2>1, <2>2 DEF Left
<1> QED
  BY <1>1, <1>3, <1>4, <1>8, <1>9, <1>10

\* What the reads of a guest do.
LEMMA SerReadReceives ==
  ASSUME TypeOK, NEW g \in Guests, GuestReadSerRead(g)
  PROVE  /\ UNCHANGED <<outbox, holder, clientVars, link, lost>>
         /\ reply' = [reply EXCEPT ![g] = NoReply]
         /\ \/ UNCHANGED rcvd /\ reply[g].code \notin 1..15
            \/ reply[g].code \in 1..15 /\ Receives(g, reply[g].code - 1)
<1>1. UNCHANGED <<outbox, holder, clientVars, link, lost>> /\ reply' = [reply EXCEPT ![g] = NoReply]
  BY DEF GuestReadSerRead
<1>2. \A c \in 17..31 : c \notin 1..15
  OBVIOUS
<1>3. CASE reply[g].code \notin 1..15 \cup 17..31 /\ UNCHANGED rcvd
  BY <1>1, <1>3
<1>4. CASE reply[g].code \in 17..31 /\ UNCHANGED rcvd
  BY <1>1, <1>2, <1>4
<1>5. CASE /\ reply[g].code \in 1..15
           /\ rcvd' = [rcvd EXCEPT ![g] = @ \o Seen(reply[g].code - 1, reply[g].data)]
  BY <1>1, <1>5 DEF Receives
<1> QED
  BY <1>3, <1>4, <1>5 DEF GuestReadSerRead

LEMMA SerReadMReceives ==
  ASSUME TypeOK, NEW g \in Guests, GuestReadSerReadM(g)
  PROVE  UNCHANGED <<outbox, holder, clientVars, link, lost>> /\ Receives(g, ask[g].ch)
  BY DEF GuestReadSerReadM, Receives

\* The bytes of an answer that a dead link drops are lost.
LEMMA EndsEls ==
  ASSUME TypeOK, NEW g \in Guests, SessionEnds(g)
  PROVE  /\ lost' \cap Typed = (lost \cap Typed) \cup Els(reply[g].data)
         /\ reply'[g].data = <<>> /\ UNCHANGED rcvd
         /\ \A h \in Guests : h # g => reply'[h] = reply[h]
         /\ Left' = Left
<1>1. PICK d \in Seq(Byte) : d = reply[g].data
  BY ReplyOf
<1>2. lost' = lost \cup {d[i] : i \in DOMAIN d} /\ UNCHANGED rcvd
  BY <1>1 DEF SessionEnds
<1>3. reply'[g].data = <<>> /\ \A h \in Guests : h # g => reply'[h] = reply[h]
  BY DEF SessionEnds, TypeOK, NoReply
<1>4. ASSUME NEW x \in Typed PROVE x \in {d[i] : i \in DOMAIN d} <=> x \in Els(d)
  <2>1. \A i \in DOMAIN d : d[i] \in Byte
    OBVIOUS
  <2>2. ASSUME NEW i \in DOMAIN d, d[i].by = x.by, d[i].n = x.n PROVE x = d[i]
    <3>1. x = [by |-> x.by, n |-> x.n]
      BY DEF Typed
    <3>2. d[i] = [by |-> d[i].by, n |-> d[i].n]
      BY <2>1 DEF Byte
    <3> QED
      BY <2>2, <3>1, <3>2
  <2>3. ASSUME x \in {d[i] : i \in DOMAIN d} PROVE x \in Els(d)
    BY <2>3 DEF Els
  <2>4. ASSUME x \in Els(d) PROVE x \in {d[i] : i \in DOMAIN d}
    BY <2>2, <2>4 DEF Els
  <2> QED
    BY <2>3, <2>4
<1>5. lost' \cap Typed = (lost \cap Typed) \cup Els(d)
  BY <1>2, <1>4, TypedIs
<1>6. \A h \in Guests : h # g => Given(h)' = Given(h)
  BY <1>2, <1>3 DEF Given
<1>7. Given(g)' = Els(rcvd[g]) /\ Given(g) = Els(rcvd[g]) \cup Els(d)
  <2>1. Els(rcvd'[g]) \cup Els(reply'[g].data) = Els(rcvd[g])
    BY <1>2, <1>3, ElsEmpty
  <2> QED
    BY <1>1, <2>1 DEF Given
<1>8. Left' = Left
  BY <1>5, <1>6, <1>7 DEF Left
<1> QED
  BY <1>1, <1>2, <1>3, <1>5, <1>8

\* An attached client keeps the order.
LEMMA ClientOrdered ==
  ASSUME TypeOK, Places, NEW a \in Clients, Client(a)
  PROVE  Places'
<1>1. CASE HandleAttach(a)
  <2>1. UNCHANGED <<outbox, inbuf, taken, reply, rcvd, lost>>
    BY <1>1 DEF HandleAttach, guestVars
  <2>2. \A b \in Clients : b # a => chan'[b] = chan[b] /\ inbound'[b] = inbound[b]
    BY <1>1 DEF HandleAttach, TypeOK
  <2>3. taken[a] = 0
    BY <1>1 DEF HandleAttach, Places, Home
  <2>4. QueuesOrdered' /\ AllTyped' /\ PlacesOrdered'
    BY <2>1 DEF Places, QueuesOrdered, AllTyped, PlacesOrdered, Ordered, Els, Below, Left, Given
  <2>5. ASSUME NEW c \in Channels, NEW x \in Els(outbox[c]) PROVE chan'[x.by] = c
    <3>1. x.by \in Clients /\ x.n \in 1..taken[x.by] /\ chan[x.by] = c
      BY TypedIs DEF Places, AllTyped, Home
    <3>2. x.by # a
      <4>1. 1..0 = {}
        OBVIOUS
      <4> QED
        BY <2>3, <3>1, <4>1
    <3> QED
      BY <2>2, <3>1, <3>2
  <2>6. Home'
    <3>1. inbound'[a] # "none"
      BY <1>1 DEF HandleAttach, TypeOK
    <3>2. ASSUME NEW b \in Clients, inbound'[b] = "none" PROVE taken'[b] = 0
      BY <2>1, <2>2, <3>1, <3>2 DEF Places, Home
    <3> QED
      BY <2>1, <2>5, <3>2 DEF Home
  <2> QED
    BY <2>4, <2>6 DEF Places
<1>2. CASE ReadChunk(a)
  BY <1>2, ReadOrdered
<1>3. CASE SendToVserial(a)
  BY <1>3, SendOrdered
<1>4. CASE InboundEof(a)
  <2>1. UNCHANGED <<outbox, inbuf, taken, reply, rcvd, lost, chan>>
    BY <1>4 DEF InboundEof, guestVars
  <2>2. QueuesOrdered' /\ AllTyped' /\ PlacesOrdered'
    BY <2>1 DEF Places, QueuesOrdered, AllTyped, PlacesOrdered, Ordered, Els, Below, Left, Given
  <2>3. \A b \in Clients : inbound'[b] = "none" => inbound[b] = "none"
    BY <1>4 DEF InboundEof, TypeOK
  <2>4. Home'
    BY <2>1, <2>3 DEF Places, Home
  <2> QED
    BY <2>2, <2>4 DEF Places
<1> QED
  BY <1>1, <1>2, <1>3, <1>4 DEF Client

\* So do a guest and its session.
LEMMA GuestOrdered ==
  ASSUME TypeOK, Places, Exchange, NEW g \in Guests, Guest(g) \/ Session(g)
  PROVE  Places'
<1>1. CASE Connect(g) \/ HangUp(g) \/ GuestPoll(g) \/ ReplyWritten(g)
  <2>1. UNCHANGED <<outbox, inbuf, taken, reply, rcvd, lost, chan, inbound>>
    BY <1>1 DEF Connect, HangUp, GuestPoll, ReplyWritten, clientVars
  <2> QED
    BY <2>1, PlacesFrame
<1>2. CASE GuestReadSerRead(g)
  <2>1. UNCHANGED <<outbox, inbuf, taken, chan, inbound, lost>>
    BY <1>2, SerReadReceives DEF clientVars
  <2>2. CASE UNCHANGED rcvd /\ reply' = [reply EXCEPT ![g] = NoReply]
    <3>1. reply'[g].data = <<>> /\ \A h \in Guests : h # g => reply'[h] = reply[h]
      BY <2>2 DEF TypeOK, NoReply
    <3>2. \A h \in Guests : h # g => rcvd'[h] = rcvd[h]
      BY <2>2
    <3>3. Ordered(rcvd'[g])
      BY <2>2 DEF Places, QueuesOrdered
    <3>4. Left' \subseteq Left
      BY <2>1, <2>2, <3>1, ElsEmpty DEF Left, Given
    <3> QED
      BY <2>1, <3>1, <3>2, <3>3, <3>4, DoneOrdered
  <2>3. CASE reply[g].code \in 1..15 /\ Receives(g, reply[g].code - 1)
    <3>1. PICK ch \in Nat : ch = reply[g].code - 1
      BY <2>3
    <3>2. Receives(g, ch)
      BY <2>3, <3>1
    <3> QED
      BY <2>1, <3>2, ReceiveEls, DoneOrdered
  <2> QED
    BY <1>2, <2>2, <2>3, SerReadReceives
<1>3. CASE GuestReadSerReadM(g)
  <2>1. UNCHANGED <<outbox, inbuf, taken, chan, inbound, lost>> /\ Receives(g, ask[g].ch)
    BY <1>3, SerReadMReceives DEF clientVars
  <2>2. ask[g].ch \in Nat
    BY ReplyOf
  <2> QED
    BY <2>1, <2>2, ReceiveEls, DoneOrdered
<1>4. CASE HandleSerRead(g)
  <2>1. UNCHANGED <<inbuf, taken, chan, inbound, rcvd, lost>> /\ reply[g].data = <<>>
    BY <1>4 DEF HandleSerRead, clientVars, Exchange, NoReply
  <2>2. CASE TakesNothing(g, <<>>)
    BY <2>1, <2>2, NothingOrdered DEF TakesNothing
  <2>3. ASSUME NEW c \in Channels, NEW d, NEW r, Takes(g, c, d, r) PROVE Places'
    BY <2>1, <2>3, TakeOrdered DEF Takes
  <2> QED
    BY <1>4, <2>2, <2>3, SerReadTakes
<1>5. CASE HandleSerReadM(g)
  <2>1. UNCHANGED <<inbuf, taken, chan, inbound, rcvd, lost>> /\ reply[g].data = <<>>
    BY <1>5 DEF HandleSerReadM, clientVars, Exchange, NoReply
  <2>2. ASSUME NEW d, TakesNothing(g, d) PROVE Places'
    BY <2>1, <2>2, NothingOrdered DEF TakesNothing
  <2>3. ASSUME NEW c \in Channels, NEW d, NEW r, Takes(g, c, d, r) PROVE Places'
    BY <2>1, <2>3, TakeOrdered DEF Takes
  <2> QED
    BY <1>5, <2>2, <2>3, SerReadMTakes
<1>6. CASE SessionEnds(g)
  <2>1. UNCHANGED <<outbox, inbuf, taken, chan, inbound, rcvd>>
    BY <1>6 DEF SessionEnds, clientVars
  <2>2. Ordered(rcvd'[g]) /\ \A h \in Guests : h # g => rcvd'[h] = rcvd[h]
    BY <2>1 DEF Places, QueuesOrdered
  <2> QED
    BY <1>6, <2>1, <2>2, EndsEls, DoneOrdered
<1> QED
  BY <1>1, <1>2, <1>3, <1>4, <1>5, <1>6 DEF Guest, Session

LEMMA InitOrdered == Init => OrderInv
<1> SUFFICES ASSUME Init PROVE OrderInv
  OBVIOUS
<1>1. /\ \A a \in Clients : inbuf[a] = <<>> /\ taken[a] = 0
      /\ \A c \in Channels : outbox[c] = <<>>
      /\ \A g \in Guests : reply[g] = NoReply /\ rcvd[g] = <<>> /\ reply[g].data = <<>>
      /\ lost = {}
  BY DEF Init, NoReply
<1>2. Left = {}
  BY <1>1, ElsEmpty DEF Left, Given
<1>3. QueuesOrdered
  BY <1>1, EmptyQueue DEF QueuesOrdered
<1>4. AllTyped
  BY <1>1, <1>2, ElsEmpty DEF AllTyped
<1>5. PlacesOrdered
  BY <1>1, <1>2, ElsEmpty DEF PlacesOrdered, Below
<1>6. Home
  BY <1>1, ElsEmpty DEF Home
<1>7. Exchange
  BY DEF Init, Exchange
<1> QED
  BY <1>3, <1>4, <1>5, <1>6, <1>7, InitTypes DEF OrderInv

LEMMA StepOrdered == OrderInv /\ [Next]_vars => OrderInv'
<1> SUFFICES ASSUME OrderInv, [Next]_vars PROVE OrderInv'
  OBVIOUS
<1>1. TypeOK /\ Places /\ Exchange
  BY DEF OrderInv, Places
<1>2. TypeOK'
  BY <1>1, StepTypes
<1>3. CASE Next
  <2>1. Exchange'
    BY <1>1, <1>3, ExchangeStep
  <2>2. Places'
    BY <1>1, <1>3, ClientOrdered, GuestOrdered DEF Next
  <2> QED
    BY <1>2, <2>1, <2>2 DEF OrderInv, Places
<1>4. CASE UNCHANGED vars
  <2>1. Places'
    BY <1>1, <1>4, PlacesFrame DEF vars, clientVars, guestVars
  <2>2. Exchange'
    BY <1>1, <1>4 DEF Exchange, vars, guestVars
  <2> QED
    BY <1>2, <2>1, <2>2 DEF OrderInv, Places
<1> QED
  BY <1>3, <1>4

LEMMA OrderInvariant == Spec => []OrderInv
<1> QED
  BY InitOrdered, StepOrdered, PTL DEF Spec

LEMMA OrderInvInOrder == OrderInv => InOrder
<1> SUFFICES ASSUME OrderInv, NEW g \in Guests, NEW a \in Clients, chan[a] \in Channels
             PROVE  Ordered(rcvd[g] \o reply[g].data \o outbox[chan[a]] \o inbuf[a])
  BY DEF InOrder
<1>1. TypeOK /\ QueuesOrdered /\ PlacesOrdered
  BY DEF OrderInv
<1>2. PICK p, q, r, s \in Seq(Any) :
        p = rcvd[g] /\ q = reply[g].data /\ r = outbox[chan[a]] /\ s = inbuf[a]
  <2>1. rcvd[g] \in Seq(SeenByte) /\ reply[g].data \in Seq(Byte)
    BY <1>1, ReplyOf
  <2>2. outbox[chan[a]] \in Seq(Byte) /\ inbuf[a] \in Seq(Byte)
    BY <1>1 DEF TypeOK
  <2> QED
    BY <2>1, <2>2, AnyTypes
<1>3. Ordered(p) /\ Ordered(q) /\ Ordered(r) /\ Ordered(s)
  BY <1>1, <1>2 DEF QueuesOrdered
<1>4. Els(p) \subseteq Left /\ Els(q) \subseteq Left
  BY <1>2, LeftIs
<1>5. /\ Below(Els(p), Els(q))
      /\ Below(Els(p) \cup Els(q), Els(r))
      /\ Below(Els(p) \cup Els(q) \cup Els(r), Els(s))
  <2>1. Below(Els(p), Els(q)) /\ Below(Left, Els(r)) /\ Below(Left, Els(s)) /\ Below(Els(r), Els(s))
    BY <1>1, <1>2 DEF PlacesOrdered
  <2> QED
    BY <1>4, <2>1 DEF Below
<1>6. PICK t \in Seq(Any) : t = p \o q /\ Ordered(t) /\ Els(t) = Els(p) \cup Els(q)
  BY <1>3, <1>5, ElsConcat, OrderedConcat
<1>7. PICK u \in Seq(Any) : u = t \o r /\ Ordered(u) /\ Els(u) = Els(t) \cup Els(r)
  <2>1. Below(Els(t), Els(r))
    BY <1>5, <1>6
  <2>2. Ordered(t) /\ Ordered(r)
    BY <1>3, <1>6
  <2> QED
    BY <2>1, <2>2, ElsConcat, OrderedConcat
<1>8. Ordered(u \o s)
  BY <1>3, <1>5, <1>6, <1>7, OrderedConcat
<1> QED
  BY <1>2, <1>6, <1>7, <1>8

\* Each guest receives what a client types in the order typed, for any number
\* of guests, clients, channels and bytes, whatever they interleave and
\* whichever links die: received, on its way, queued and still in the inbound
\* task form one ordered sequence.
THEOREM TypedInOrder == Spec => []InOrder
<1> QED
  BY OrderInvariant, OrderInvInOrder, PTL

----------------------------------------------------------------------------
(* Padding *)

LEMMA NoPadsConcat ==
  ASSUME NEW p \in Seq(Any), NEW q \in Seq(Any), NoPads(p), NoPads(q)
  PROVE  NoPads(p \o q)
<1> DEFINE m == Len(p)
           k == Len(q)
           r == p \o q
<1>1. m \in Nat /\ k \in Nat /\ DOMAIN p = 1..m /\ DOMAIN q = 1..k /\ DOMAIN r = 1..(m + k)
  OBVIOUS
<1>2. /\ \A i \in 1..m : r[i] = p[i]
      /\ \A i \in 1..(m + k) : i \in 1..m \/ (i - m \in 1..k /\ r[i] = q[i - m])
  OBVIOUS
<1> HIDE DEF m, k, r
<1>3. NoPads(r)
  BY <1>1, <1>2 DEF NoPads
<1> QED
  BY <1>3 DEF r

\* No step puts padding into a queue on the server's side.
LEMMA QueuesRealStep ==
  ASSUME TypeOK, QueuesReal, Next
  PROVE  QueuesReal'
<1>1. inbuf \in [Clients -> Seq(Byte)] /\ outbox \in [Channels -> Seq(Byte)]
  BY DEF TypeOK
<1>2. ASSUME NEW a \in Clients, Client(a) PROVE QueuesReal'
  <2>1. CASE HandleAttach(a) \/ InboundEof(a)
    BY <2>1 DEF HandleAttach, InboundEof, QueuesReal
  <2>2. CASE ReadChunk(a)
    <3>1. PICK k \in 1..MaxTyped :
            inbuf' = [inbuf EXCEPT ![a] = Chunk(a, taken[a], k)] /\ outbox' = outbox
      BY <2>2 DEF ReadChunk, Chunk
    <3>2. k \in Nat /\ taken[a] \in Nat /\ NoClient \notin Clients
      BY OutboxAssumption DEF TypeOK
    <3>3. NoPads(Chunk(a, taken[a], k))
      BY <3>2, FreshChunk
    <3> QED
      BY <1>1, <3>1, <3>3 DEF QueuesReal
  <2>3. CASE SendToVserial(a)
    <3>1. inbuf' = [inbuf EXCEPT ![a] = <<>>]
      BY <2>3 DEF SendToVserial
    <3>2. \A b \in Clients : NoPads(inbuf'[b])
      BY <1>1, <3>1, EmptyQueue DEF QueuesReal
    <3>3. CASE UNCHANGED outbox
      BY <3>2, <3>3 DEF QueuesReal
    <3>4. CASE chan[a] \in Channels /\ outbox' = [outbox EXCEPT ![chan[a]] = @ \o inbuf[a]]
      <4>1. PICK p, q \in Seq(Any) : p = outbox[chan[a]] /\ q = inbuf[a]
        BY <1>1, <3>4, AnyTypes
      <4>2. NoPads(p \o q)
        BY <3>4, <4>1, NoPadsConcat DEF QueuesReal
      <4>3. \A c \in Channels : NoPads(outbox'[c])
        BY <1>1, <3>4, <4>1, <4>2 DEF QueuesReal
      <4> QED
        BY <3>2, <4>3 DEF QueuesReal
    <3> QED
      BY <2>3, <3>3, <3>4 DEF SendToVserial
  <2> QED
    BY <1>2, <2>1, <2>2, <2>3 DEF Client
<1>3. ASSUME NEW g \in Guests, Guest(g) \/ Session(g) PROVE QueuesReal'
  <2>1. inbuf' = inbuf
    BY <1>3 DEF Guest, Session, Connect, HangUp, GuestPoll, GuestReadSerRead, GuestReadSerReadM,
                HandleSerRead, HandleSerReadM, ReplyWritten, SessionEnds, clientVars
  <2>2. CASE outbox' = outbox
    BY <2>1, <2>2 DEF QueuesReal
  <2>3. ASSUME NEW c \in Channels, NEW d, NEW r, Takes(g, c, d, r) PROVE QueuesReal'
    <3>1. NoPads(r) /\ outbox' = [outbox EXCEPT ![c] = r]
      BY <2>3 DEF Takes, Splits, QueuesReal
    <3> QED
      BY <1>1, <2>1, <3>1 DEF QueuesReal
  <2>4. CASE HandleSerRead(g)
    BY <2>2, <2>3, <2>4, SerReadTakes DEF TakesNothing
  <2>5. CASE HandleSerReadM(g)
    BY <2>2, <2>3, <2>5, SerReadMTakes DEF TakesNothing
  <2>6. CASE Guest(g) \/ ReplyWritten(g) \/ SessionEnds(g)
    BY <2>2, <2>6 DEF Guest, Connect, HangUp, GuestPoll, GuestReadSerRead, GuestReadSerReadM,
                ReplyWritten, SessionEnds
  <2> QED
    BY <1>3, <2>4, <2>5, <2>6 DEF Session
<1> QED
  BY <1>2, <1>3 DEF Next

\* While a guest is alone only it and the clients take steps.
LEMMA AloneStep ==
  ASSUME TypeOK, Exchange, NEW g \in Guests, Next, Alone(g)'
  PROVE  Alone(g) /\ ((\E a \in Clients : Client(a)) \/ Guest(g) \/ Session(g))
<1>1. ASSUME NEW h \in Guests, h # g PROVE link[h] = "none" /\ ~Guest(h) /\ ~Session(h)
  <2>1. link'[h] = "none"
    BY <1>1 DEF Alone
  <2>2. link[h] = "none"
    <3>1. ASSUME NEW a \in Clients, Client(a) PROVE link' = link
      BY <3>1 DEF Client, HandleAttach, ReadChunk, SendToVserial, InboundEof, guestVars
    <3>2. ASSUME NEW f \in Guests, Session(f) PROVE link' = link
      BY <3>2 DEF Session, HandleSerRead, HandleSerReadM, ReplyWritten, SessionEnds
    <3>3. ASSUME NEW f \in Guests, Guest(f) PROVE link[h] = "none"
      BY <2>1, <3>3 DEF Guest, Connect, HangUp, GuestPoll, GuestReadSerRead, GuestReadSerReadM, TypeOK
    <3> QED
      BY <2>1, <3>1, <3>2, <3>3 DEF Next
  <2>3. step[h] = "none"
    BY <2>2 DEF Exchange
  <2>4. ~Session(h)
    BY <2>3 DEF Session, HandleSerRead, HandleSerReadM, ReplyWritten, SessionEnds
  <2>5. ~Guest(h)
    BY <2>1, <2>2, <2>3 DEF Guest, Connect, HangUp, GuestPoll, GuestReadSerRead, GuestReadSerReadM, TypeOK
  <2> QED
    BY <2>2, <2>4, <2>5
<1> QED
  BY <1>1 DEF Next, Alone

\* Clients only make queues longer.
LEMMA LoneClient ==
  ASSUME TypeOK, NEW g \in Guests, LoneReal(g), NEW a \in Clients, Client(a)
  PROVE  LoneReal(g)'
<1>1. UNCHANGED <<link, step, ask, reply, rcvd>>
  BY DEF Client, HandleAttach, ReadChunk, SendToVserial, InboundEof, guestVars
<1>2. ASSUME NEW c \in Channels
      PROVE  Len(outbox[c]) \in Nat /\ Len(outbox'[c]) \in Nat /\ Len(outbox[c]) <= Len(outbox'[c])
  <2>1. outbox \in [Channels -> Seq(Byte)] /\ inbuf[a] \in Seq(Byte)
    BY DEF TypeOK
  <2>2. CASE UNCHANGED outbox
    BY <2>1, <2>2
  <2>3. CASE chan[a] \in Channels /\ outbox' = [outbox EXCEPT ![chan[a]] = @ \o inbuf[a]]
    <3>1. PICK p \in Seq(Byte), q \in Seq(Byte) : p = outbox[c] /\ q = inbuf[a]
      BY <2>1
    <3>2. Len(p \o q) \in Nat /\ Len(p) \in Nat /\ Len(p) <= Len(p \o q)
      OBVIOUS
    <3>3. outbox'[c] = p \o q \/ outbox'[c] = p
      BY <2>1, <2>3, <3>1
    <3>4. CASE outbox'[c] = p \o q
      BY <3>1, <3>2, <3>4, Zenon
    <3>5. CASE outbox'[c] = p
      BY <3>1, <3>5
    <3> QED
      BY <3>3, <3>4, <3>5
  <2> QED
    BY <2>2, <2>3 DEF Client, HandleAttach, ReadChunk, SendToVserial, InboundEof
<1>3. ASSUME NEW c, NEW k \in Nat, Covered(c, k) PROVE k = 0 \/ (c \in Channels /\ k <= Len(outbox'[c]))
  BY <1>2, <1>3 DEF Covered
<1>4. reply[g].count \in Nat /\ ask[g].count \in Nat
  BY ReplyOf
<1>5. CountKept(g)'
  BY <1>1, <1>3, <1>4 DEF LoneReal, CountKept, Covered
<1> QED
  BY <1>1, <1>5 DEF LoneReal

\* SERREAD announces no more than is queued, and takes only queued bytes.
LEMMA LoneSerRead ==
  ASSUME TypeOK, QueuesReal, NEW g \in Guests, LoneReal(g), HandleSerRead(g)
  PROVE  LoneReal(g)'
<1>1. reply \in [Guests -> Reply] /\ outbox \in [Channels -> Seq(Byte)] /\ step \in [Guests -> Steps]
  BY DEF TypeOK
<1>2. UNCHANGED <<ask, rcvd>> /\ step'[g] = "writing"
  BY <1>1 DEF HandleSerRead
<1>3. CASE reply' = [reply EXCEPT ![g] = NoReply] /\ UNCHANGED outbox
  <2>1. reply'[g].data = <<>> /\ reply'[g].count = 0
    BY <1>1, <1>3 DEF NoReply
  <2>2. CountKept(g)'
    BY <1>2, <2>1 DEF CountKept, Covered
  <2> QED
    BY <1>2, <2>1, <2>2, EmptyQueue DEF LoneReal
<1>4. CASE /\ Ready # {}
           /\ reply' = [reply EXCEPT ![g] = SerReadReply(First)]
           /\ outbox' = [outbox EXCEPT ![First] = IF Len(@) < 3 THEN Tail(@) ELSE @]
  <2>1. PICK c : c = First
    OBVIOUS
  <2>2. c \in Channels /\ outbox[c] # <<>> /\ outbox[c] \in Seq(Byte)
    BY <1>1, <1>4, <2>1, FirstReady, OutboxAssumption
  <2>3. reply'[g] = SerReadReply(c)
    BY <1>1, <1>4, <2>1
  <2>4. CASE Len(outbox[c]) < 3
    <3>1. PICK d, r : d = <<Head(outbox[c])>> /\ r = Tail(outbox[c])
      OBVIOUS
    <3>2. NoPads(d)
      BY <2>2, <3>1, InlineSplits, OutboxAssumption DEF QueuesReal
    <3>3. reply'[g].data = d /\ reply'[g].count = 0
      BY <2>3, <2>4, <3>1 DEF SerReadReply
    <3>4. CountKept(g)'
      BY <1>2, <3>3 DEF CountKept, Covered
    <3> QED
      BY <1>2, <3>2, <3>3, <3>4 DEF LoneReal
  <2>5. CASE ~(Len(outbox[c]) < 3)
    <3>1. /\ reply'[g].data = <<>>
          /\ reply'[g].code = 17 + c
          /\ reply'[g].count = IF Len(outbox[c]) < MaxCount THEN Len(outbox[c]) ELSE MaxCount
      BY <2>3, <2>5 DEF SerReadReply
    <3>2. outbox' = outbox
      BY <1>1, <1>4, <2>1, <2>5
    <3>3. Len(outbox[c]) \in Nat /\ MaxCount \in Nat /\ c \in Nat
      BY <2>2, OutboxAssumption DEF Channels
    <3>4. reply'[g].count <= Len(outbox'[c]) /\ reply'[g].code - 17 = c
      BY <3>1, <3>2, <3>3
    <3>5. CountKept(g)'
      BY <1>2, <2>2, <3>4 DEF CountKept, Covered
    <3> QED
      BY <1>2, <3>1, <3>5, EmptyQueue DEF LoneReal
  <2> QED
    BY <2>4, <2>5
<1> QED
  BY <1>3, <1>4 DEF HandleSerRead

\* A SERREADM that asks for no more than is queued gets no padding.
LEMMA LoneSerReadM ==
  ASSUME TypeOK, QueuesReal, NEW g \in Guests, LoneReal(g), HandleSerReadM(g)
  PROVE  LoneReal(g)'
<1> DEFINE ch    == ask[g].ch
           count == ask[g].count
           q     == IF ch \in Channels THEN outbox[ch] ELSE <<>>
<1>1. count \in Nat /\ q \in Seq(Byte) /\ NoPads(q) /\ (ch \in Channels => q = outbox[ch])
  <2>1. q \in Seq(Byte) /\ NoPads(q)
    BY EmptyQueue DEF TypeOK, QueuesReal
  <2> QED
    BY <2>1, ReplyOf
<1>2. reply' = [reply EXCEPT ![g] = [code |-> 0, count |-> 0, data |-> Burst(q, count)]]
  BY DEF HandleSerReadM, Burst
<1>3. /\ UNCHANGED <<ask, rcvd>> /\ step'[g] = "writing"
      /\ step[g] = "asked" /\ ask[g].op = "SERREADM"
  BY DEF HandleSerReadM, TypeOK
<1>4. count = 0 \/ (ch \in Channels /\ count <= Len(outbox[ch]))
  BY <1>3 DEF LoneReal, CountKept, Covered
<1> HIDE DEF ch, count, q
<1>5. NoPads(Burst(q, count))
  <2>1. NoClient \notin Clients
    BY OutboxAssumption
  <2>2. count = 0 \/ count <= Len(q)
    BY <1>1, <1>4
  <2> QED
    BY <1>1, <2>1, <2>2, BurstSplits
<1>6. reply'[g].data = Burst(q, count) /\ reply'[g].count = 0
  BY <1>2 DEF TypeOK
<1>7. CountKept(g)'
  BY <1>3, <1>6 DEF CountKept, Covered
<1> QED
  BY <1>3, <1>5, <1>6, <1>7 DEF LoneReal

\* The guest receives what it was sent.
LEMMA LoneReceives ==
  ASSUME TypeOK, NEW g \in Guests, LoneReal(g), NEW ch \in Nat, Receives(g, ch),
         step'[g] = "idle"
  PROVE  LoneReal(g)'
<1>1. PICK d \in Seq(Byte), p \in Seq(SeenByte) : d = reply[g].data /\ p = rcvd[g]
  BY ReplyOf
<1>2. PICK s : s = Seen(ch, d)
  OBVIOUS
<1>3. rcvd'[g] = p \o s /\ reply'[g] = NoReply
  BY <1>1, <1>2 DEF Receives, TypeOK
<1>4. s \in Seq(SeenByte) /\ NoPads(s) /\ NoPads(p)
  BY <1>1, <1>2, SeenData DEF LoneReal
<1>5. NoPads(p \o s)
  BY <1>4, AnyTypes, NoPadsConcat
<1>6. reply'[g].data = <<>>
  BY <1>3 DEF NoReply
<1>7. CountKept(g)'
  BY DEF CountKept
<1> QED
  BY <1>3, <1>5, <1>6, <1>7, EmptyQueue DEF LoneReal

\* The other steps of the guest and its session.
LEMMA LoneOthers ==
  ASSUME TypeOK, NEW g \in Guests, LoneReal(g),
         \/ Connect(g) \/ HangUp(g) \/ GuestPoll(g) \/ ReplyWritten(g) \/ SessionEnds(g)
         \/ GuestReadSerRead(g) \/ GuestReadSerReadM(g)
  PROVE  LoneReal(g)'
<1>1. /\ reply \in [Guests -> Reply] /\ step \in [Guests -> Steps] /\ ask \in [Guests -> Ask]
      /\ rcvd \in [Guests -> Seq(SeenByte)]
  BY DEF TypeOK, SeenByte
<1>2. CASE Connect(g) \/ GuestPoll(g)
  <2>1. UNCHANGED <<reply, rcvd>> /\ (step'[g] = "idle" \/ (step'[g] = "asked" /\ ask'[g].op = "SERREAD"))
    BY <1>1, <1>2 DEF Connect, GuestPoll
  <2>2. CountKept(g)'
    BY <2>1 DEF CountKept
  <2> QED
    BY <2>1, <2>2 DEF LoneReal
<1>3. CASE HangUp(g) \/ ReplyWritten(g)
  <2>1. /\ UNCHANGED <<outbox, reply, rcvd, ask>>
        /\ step'[g] = step[g] \/ (step'[g] = "sent" /\ step[g] = "writing")
    BY <1>1, <1>3 DEF HangUp, ReplyWritten
  <2>2. CountKept(g)'
    BY <2>1 DEF LoneReal, CountKept, Covered
  <2> QED
    BY <2>1, <2>2 DEF LoneReal
<1>4. CASE SessionEnds(g)
  <2>1. reply'[g].data = <<>> /\ UNCHANGED rcvd /\ step'[g] = "ended"
    BY <1>1, <1>4 DEF SessionEnds, NoReply
  <2>2. CountKept(g)'
    BY <2>1 DEF CountKept
  <2> QED
    BY <2>1, <2>2, EmptyQueue DEF LoneReal
<1>5. CASE GuestReadSerReadM(g)
  <2>1. Receives(g, ask[g].ch) /\ step'[g] = "idle"
    BY <1>1, <1>5, SerReadMReceives DEF GuestReadSerReadM
  <2> QED
    BY <2>1, ReplyOf, LoneReceives
<1>6. CASE GuestReadSerRead(g)
  <2>0. /\ UNCHANGED outbox /\ reply'[g].data = <<>>
        /\ step[g] = "sent" /\ ask[g].op = "SERREAD"
    BY <1>1, <1>6 DEF GuestReadSerRead, NoReply
  <2>1. CASE UNCHANGED rcvd /\ step' = [step EXCEPT ![g] = "idle"]
    <3>1. step'[g] = "idle"
      BY <1>1, <2>1
    <3>2. CountKept(g)'
      BY <3>1 DEF CountKept
    <3> QED
      BY <2>0, <2>1, <3>2, EmptyQueue DEF LoneReal
  <2>2. CASE /\ reply[g].code \in 1..15
             /\ rcvd' = [rcvd EXCEPT ![g] = @ \o Seen(reply[g].code - 1, reply[g].data)]
             /\ step' = [step EXCEPT ![g] = "idle"]
    <3>1. PICK ch \in Nat : ch = reply[g].code - 1
      BY <2>2
    <3>2. Receives(g, ch) /\ step'[g] = "idle"
      BY <1>1, <1>6, <2>2, <3>1 DEF GuestReadSerRead, Receives
    <3> QED
      BY <3>2, LoneReceives
  <2>3. CASE /\ reply[g].code \in 17..31
             /\ ask' = [ask EXCEPT ![g] = [op |-> "SERREADM", ch |-> reply[g].code - 17,
                                           count |-> reply[g].count]]
             /\ step' = [step EXCEPT ![g] = "asked"]
             /\ UNCHANGED rcvd
    <3>1. step'[g] = "asked" /\ ask'[g].ch = reply[g].code - 17 /\ ask'[g].count = reply[g].count
      BY <1>1, <2>3
    <3>2. reply[g].code >= 17
      BY <2>3
    <3>3. Covered(reply[g].code - 17, reply[g].count)
      BY <2>0, <3>2 DEF LoneReal, CountKept
    <3>4. CountKept(g)'
      BY <2>0, <3>1, <3>3 DEF CountKept, Covered
    <3> QED
      BY <2>0, <2>3, <3>4, EmptyQueue DEF LoneReal
  <2> QED
    BY <1>6, <2>1, <2>2, <2>3 DEF GuestReadSerRead
<1> QED
  BY <1>2, <1>3, <1>4, <1>5, <1>6

LEMMA PadStep == TypeOK /\ Exchange /\ PadInv /\ [Next]_vars => PadInv'
<1> SUFFICES ASSUME TypeOK, Exchange, PadInv, [Next]_vars PROVE PadInv'
  OBVIOUS
<1>1. CASE UNCHANGED vars
  BY <1>1 DEF PadInv, QueuesReal, LoneReal, CountKept, Covered, NoPads, Alone,
              vars, clientVars, guestVars
<1>2. CASE Next
  <2>1. QueuesReal'
    BY <1>2, QueuesRealStep DEF PadInv
  <2>2. ASSUME NEW g \in Guests, Alone(g)' PROVE LoneReal(g)'
    <3>1. LoneReal(g) /\ QueuesReal /\ ((\E a \in Clients : Client(a)) \/ Guest(g) \/ Session(g))
      BY <1>2, <2>2, AloneStep DEF PadInv
    <3>2. CASE \E a \in Clients : Client(a)
      BY <3>1, <3>2, LoneClient
    <3>3. CASE Guest(g)
      BY <3>1, <3>3, LoneOthers DEF Guest
    <3>4. CASE Session(g)
      BY <3>1, <3>4, LoneOthers, LoneSerRead, LoneSerReadM DEF Session
    <3> QED
      BY <3>1, <3>2, <3>3, <3>4
  <2> QED
    BY <2>1, <2>2 DEF PadInv
<1> QED
  BY <1>1, <1>2

LEMMA PadInit == Init => PadInv
<1> SUFFICES ASSUME Init PROVE PadInv
  OBVIOUS
<1>1. QueuesReal
  BY EmptyQueue DEF Init, QueuesReal
<1>2. ASSUME NEW g \in Guests PROVE LoneReal(g)
  <2>1. reply[g].data = <<>> /\ rcvd[g] = <<>> /\ step[g] = "none"
    BY DEF Init, NoReply
  <2> QED
    BY <2>1, EmptyQueue DEF LoneReal, CountKept
<1> QED
  BY <1>1, <1>2 DEF PadInv

\* A guest that has been alone on the server never takes a padding zero for
\* data, however many bytes the clients queue between the count SERREAD
\* announces and the SERREADM that fetches them.
THEOREM NoPaddingAlone == Spec => []NoPadding
<1>1. OrderInv => TypeOK /\ Exchange
  BY DEF OrderInv
<1>2. PadInv => NoPadding
  BY DEF PadInv, LoneReal, NoPads, Alone, NoPadding
<1> QED
  BY <1>1, <1>2, OrderInvariant, PadInit, PadStep, PTL DEF Spec

----------------------------------------------------------------------------
(* Every byte in exactly one place *)

\* A step of a guest or its session keeps every byte where it is, takes bytes
\* from the outbox into the answer, or ends the session.
Kept ==
  /\ \A h \in Guests : Given(h)' = Given(h)
  /\ Left' = Left
  /\ UNCHANGED <<outbox, lost>>

Fetches(g) ==
  /\ Els(reply[g].data) = {}
  /\ \E c \in Channels : \E d, r : Takes(g, c, d, r)
  /\ UNCHANGED <<rcvd, lost>>

\* SERREAD's inline byte is never one whose code the guest does not read.
LEMMA InlineRead ==
  ASSUME Announced, RightChannel, NEW g \in Guests, ask[g].op = "SERREAD",
         reply[g].code \notin 1..15
  PROVE  Els(reply[g].data) = {}
<1> SUFFICES ASSUME NEW x \in Els(reply[g].data) PROVE FALSE
  OBVIOUS
<1>1. reply[g].code = 1 + chan[x.by] /\ chan[x.by] \in Channels
  BY DEF RightChannel, ReplyChannel
<1>2. x.by \in Clients
  BY TypedIs
<1>3. chan[x.by] \in ClientChannels[x.by] \cup {0}
  BY <1>2 DEF RightChannel
<1>4. chan[x.by] \in 0..14
  BY <1>1, <1>2, <1>3 DEF Announced
<1> QED
  BY <1>1, <1>4

LEMMA GuestEffect ==
  ASSUME Announced, OrderInv, RightChannel, NEW g \in Guests, Guest(g) \/ Session(g)
  PROVE  UNCHANGED clientVars /\ (Kept \/ Fetches(g) \/ SessionEnds(g))
<1>0. TypeOK /\ Places /\ Exchange
  BY DEF OrderInv, Places
<1>1. UNCHANGED clientVars
  BY DEF Guest, Session, Connect, HangUp, GuestPoll, GuestReadSerRead, GuestReadSerReadM,
         HandleSerRead, HandleSerReadM, ReplyWritten, SessionEnds
<1>2. CASE Connect(g) \/ HangUp(g) \/ GuestPoll(g) \/ ReplyWritten(g)
  <2>1. UNCHANGED <<outbox, lost, reply, rcvd>>
    BY <1>2 DEF Connect, HangUp, GuestPoll, ReplyWritten
  <2> QED
    BY <1>1, <2>1 DEF Kept, Given, Left
<1>3. ASSUME NEW d, TakesNothing(g, d), Els(reply[g].data) = {}, UNCHANGED <<rcvd, lost>>
      PROVE  Kept
  <2>1. \A h \in Guests : Els(rcvd'[h]) \cup Els(reply'[h].data) = Given(h)
    BY <1>3 DEF TakesNothing, Given
  <2>2. \A h \in Guests : Given(h)' = Given(h)
    BY <2>1 DEF Given
  <2> QED
    BY <1>3, <2>2 DEF Kept, Left, TakesNothing
<1>4. CASE HandleSerRead(g)
  <2>1. UNCHANGED <<rcvd, lost>> /\ Els(reply[g].data) = {}
    BY <1>0, <1>4, ElsEmpty DEF HandleSerRead, Exchange, NoReply
  <2> QED
    BY <1>0, <1>1, <1>3, <1>4, <2>1, SerReadTakes DEF Fetches
<1>5. CASE HandleSerReadM(g)
  <2>1. UNCHANGED <<rcvd, lost>> /\ Els(reply[g].data) = {}
    BY <1>0, <1>5, ElsEmpty DEF HandleSerReadM, Exchange, NoReply
  <2> QED
    BY <1>0, <1>1, <1>3, <1>5, <2>1, SerReadMTakes DEF Fetches
<1>6. ASSUME NEW ch \in Nat, Receives(g, ch), UNCHANGED outbox PROVE Kept
  BY <1>0, <1>6, ReceiveEls DEF Kept, Receives
<1>7. CASE GuestReadSerRead(g)
  <2>1. UNCHANGED <<outbox, lost>>
    BY <1>0, <1>7, SerReadReceives
  <2>2. CASE UNCHANGED rcvd /\ reply[g].code \notin 1..15 /\ reply' = [reply EXCEPT ![g] = NoReply]
    <3>1. Els(reply[g].data) = {}
      BY <1>7, <2>2, InlineRead DEF GuestReadSerRead
    <3>2. Els(reply'[g].data) = {} /\ \A h \in Guests : h # g => reply'[h] = reply[h]
      BY <1>0, <2>2, ElsEmpty DEF TypeOK, NoReply
    <3>3. \A h \in Guests : Els(rcvd'[h]) \cup Els(reply'[h].data) = Given(h)
      BY <2>2, <3>1, <3>2 DEF Given
    <3>4. \A h \in Guests : Given(h)' = Given(h)
      BY <3>3 DEF Given
    <3> QED
      BY <1>1, <2>1, <3>4 DEF Kept, Left
  <2>3. CASE reply[g].code \in 1..15 /\ Receives(g, reply[g].code - 1)
    <3>1. PICK ch \in Nat : ch = reply[g].code - 1
      BY <2>3
    <3> QED
      BY <1>1, <1>6, <2>1, <2>3, <3>1
  <2> QED
    BY <1>0, <1>7, <2>2, <2>3, SerReadReceives
<1>8. CASE GuestReadSerReadM(g)
  BY <1>0, <1>1, <1>6, <1>8, SerReadMReceives, ReplyOf
<1>9. CASE SessionEnds(g)
  BY <1>1, <1>9
<1> QED
  BY <1>2, <1>4, <1>5, <1>7, <1>8, <1>9 DEF Guest, Session

\* What a step that fetches does to the places.
LEMMA FetchEls ==
  ASSUME OrderInv, NEW g \in Guests, Fetches(g)
  PROVE  \E c \in Channels : \E d, r :
           /\ Els(outbox[c]) = Els(d) \cup Els(r)
           /\ \A e \in Channels : Els(outbox'[e]) = IF e = c THEN Els(r) ELSE Els(outbox[e])
           /\ Given(g)' = Given(g) \cup Els(d)
           /\ \A h \in Guests : h # g => Given(h)' = Given(h)
           /\ Left' = Left \cup Els(d)
           /\ Els(d) \cap Left = {}
           /\ UNCHANGED lost
<1>1. PICK c, d, r : c \in Channels /\ Takes(g, c, d, r)
  BY DEF Fetches
<1>2. Els(outbox[c]) = Els(d) \cup Els(r)
  BY <1>1 DEF Takes, Splits
<1>3. \A e \in Channels : Els(outbox'[e]) = IF e = c THEN Els(r) ELSE Els(outbox[e])
  BY <1>1 DEF Takes, OrderInv, TypeOK
<1>4. Els(rcvd'[g]) \cup Els(reply'[g].data) = Given(g) \cup Els(d)
  BY <1>1 DEF Fetches, Takes, Given
<1>5. Given(g)' = Given(g) \cup Els(d)
  BY <1>4 DEF Given
<1>6. \A h \in Guests : h # g => Given(h)' = Given(h)
  BY <1>1 DEF Fetches, Takes, Given
<1>7. lost' = lost
  BY DEF Fetches
<1>8. Left' = Left \cup Els(d)
  BY <1>5, <1>6, <1>7 DEF Left
<1>9. Els(d) \cap Left = {}
  <2> SUFFICES ASSUME NEW x \in Els(d), x \in Left PROVE FALSE
    OBVIOUS
  <2>1. x.n < x.n
    BY <1>1, <1>2 DEF OrderInv, PlacesOrdered, Below
  <2>2. x.n \in Nat
    BY TypedIs
  <2> QED
    BY <2>1, <2>2
<1> QED
  BY <1>1, <1>2, <1>3, <1>5, <1>6, <1>7, <1>8, <1>9

\* No step puts a byte in two places.
LEMMA ApartStep ==
  ASSUME Announced, OrderInv, Apart, RightChannel, Next
  PROVE  Apart'
<1>1. CASE (\A h \in Guests : Given(h)' = Given(h)) /\ UNCHANGED lost
  BY <1>1 DEF Apart
<1>2. ASSUME NEW a \in Clients, Client(a) PROVE Apart'
  <2>1. UNCHANGED <<reply, rcvd, lost>>
    BY <1>2 DEF Client, HandleAttach, ReadChunk, SendToVserial, InboundEof, guestVars
  <2> QED
    BY <1>1, <2>1 DEF Given
<1>3. ASSUME NEW g \in Guests, Fetches(g) PROVE Apart'
  <2>1. PICK d : /\ Given(g)' = Given(g) \cup Els(d)
                 /\ \A h \in Guests : h # g => Given(h)' = Given(h)
                 /\ Els(d) \cap Left = {} /\ UNCHANGED lost
    BY <1>3, FetchEls
  <2>2. \A h \in Guests : Els(d) \cap Given(h) = {}
    BY <2>1 DEF Left
  <2>3. Els(d) \cap lost = {}
    BY <2>1, TypedIs DEF Left
  <2>4. \A f, h \in Guests : f # h => Given(f)' \cap Given(h)' = {}
    BY <2>1, <2>2 DEF Apart
  <2>5. \A f \in Guests : Given(f)' \cap lost' = {}
    BY <2>1, <2>3 DEF Apart
  <2> QED
    BY <2>4, <2>5 DEF Apart
<1>4. ASSUME NEW g \in Guests, SessionEnds(g) PROVE Apart'
  <2>0. TypeOK
    BY DEF OrderInv
  <2>1. /\ lost' \cap Typed = (lost \cap Typed) \cup Els(reply[g].data)
        /\ reply'[g].data = <<>> /\ UNCHANGED rcvd
        /\ \A h \in Guests : h # g => reply'[h] = reply[h]
    BY <1>4, <2>0, EndsEls
  <2>2. \A h \in Guests : h # g => Given(h)' = Given(h)
    BY <2>1 DEF Given
  <2>3. Given(g)' = Els(rcvd[g])
    <3>1. Els(rcvd'[g]) \cup Els(reply'[g].data) = Els(rcvd[g])
      BY <2>1, ElsEmpty
    <3> QED
      BY <3>1 DEF Given
  <2>4. Els(rcvd[g]) \subseteq Given(g) /\ Els(reply[g].data) \subseteq Given(g)
    BY DEF Given
  <2>5. \A h \in Guests : Given(h)' \subseteq Given(h)
    BY <2>2, <2>3, <2>4
  <2>6. \A f, h \in Guests : f # h => Given(f)' \cap Given(h)' = {}
    BY <2>5 DEF Apart
  <2>7. Els(rcvd[g]) \cap Els(reply[g].data) = {}
    <3> SUFFICES ASSUME NEW x \in Els(rcvd[g]), x \in Els(reply[g].data) PROVE FALSE
      OBVIOUS
    <3>1. x.n < x.n
      BY DEF OrderInv, PlacesOrdered, Below
    <3>2. x.n \in Nat
      BY TypedIs
    <3> QED
      BY <3>1, <3>2
  <2>8. ASSUME NEW f \in Guests PROVE Given(f)' \cap lost' = {}
    <3>1. Given(f)' \subseteq Typed
      BY <2>5, TypedIs DEF Given
    <3>2. Given(f)' \cap lost = {}
      BY <2>5 DEF Apart
    <3>3. Given(f)' \cap Els(reply[g].data) = {}
      <4>1. CASE f = g
        BY <2>3, <2>7, <4>1
      <4>2. CASE f # g
        BY <2>2, <2>4, <4>2 DEF Apart
      <4> QED
        BY <4>1, <4>2
    <3> QED
      BY <2>1, <3>1, <3>2, <3>3
  <2> QED
    BY <2>6, <2>8 DEF Apart
<1>5. ASSUME NEW g \in Guests, Guest(g) \/ Session(g) PROVE Apart'
  BY <1>1, <1>3, <1>4, <1>5, GuestEffect DEF Kept
<1> QED
  BY <1>2, <1>5 DEF Next

\* No step drops a byte typed on a channel.
LEMMA MissingStep ==
  ASSUME Announced, OrderInv, NoneMissing, RightChannel, Next
  PROVE  NoneMissing'
<1>0. TypeOK /\ Places
  BY DEF OrderInv, Places
<1>1. SUFFICES ASSUME NEW b \in Clients, chan'[b] \in Channels, NEW x \in Typed,
                      x.by = b, x.n \in 1..taken'[b]
               PROVE  x \in Els(inbuf'[b]) \/ x \in Els(outbox'[chan'[b]]) \/ x \in Left'
  BY DEF NoneMissing
<1>2. ASSUME chan[b] \in Channels, x.n \in 1..taken[b]
      PROVE  x \in Els(inbuf[b]) \/ x \in Els(outbox[chan[b]]) \/ x \in Left
  BY <1>1, <1>2 DEF NoneMissing
<1>3. ASSUME NEW a \in Clients, Client(a)
      PROVE  x \in Els(inbuf'[b]) \/ x \in Els(outbox'[chan'[b]]) \/ x \in Left'
  <2>1. Left' = Left
    <3>1. UNCHANGED <<reply, rcvd, lost>>
      BY <1>3 DEF Client, HandleAttach, ReadChunk, SendToVserial, InboundEof, guestVars
    <3> QED
      BY <3>1 DEF Left, Given
  <2>2. CASE HandleAttach(a)
    <3>1. UNCHANGED <<taken, inbuf, outbox>> /\ (b # a => chan'[b] = chan[b])
      BY <1>0, <2>2 DEF HandleAttach, TypeOK
    <3>2. b # a
      <4>1. taken[a] = 0
        BY <1>0, <2>2 DEF HandleAttach, Places, Home
      <4>2. 1..0 = {}
        OBVIOUS
      <4> QED
        BY <1>1, <3>1, <4>1, <4>2
    <3> QED
      BY <1>1, <1>2, <2>1, <3>1, <3>2
  <2>3. CASE InboundEof(a)
    BY <1>1, <1>2, <2>1, <2>3 DEF InboundEof
  <2>4. CASE ReadChunk(a)
    <3>1. PICK k \in 1..MaxTyped :
            /\ inbuf' = [inbuf EXCEPT ![a] = Chunk(a, taken[a], k)]
            /\ taken' = [taken EXCEPT ![a] = @ + k]
            /\ UNCHANGED <<outbox, chan>> /\ inbuf[a] = <<>>
      BY <2>4 DEF ReadChunk, Chunk
    <3>2. PICK t \in Nat : t = taken[a]
      BY <1>0 DEF TypeOK
    <3>3. k \in Nat /\ NoClient \notin Clients
      BY OutboxAssumption
    <3>4. CASE b # a
      BY <1>0, <1>1, <1>2, <2>1, <3>1, <3>4 DEF TypeOK
    <3>5. CASE b = a
      <4>1. inbuf'[b] = Chunk(a, t, k) /\ taken'[b] = t + k
        BY <1>0, <3>1, <3>2, <3>5 DEF TypeOK
      <4>2. x.n \in 1..t \/ x.n \in (t + 1)..(t + k)
        BY <1>1, <3>3, <4>1
      <4>3. CASE x.n \in 1..t
        BY <1>1, <1>2, <2>1, <3>1, <3>2, <3>5, <4>3, ElsEmpty
      <4>4. CASE x.n \in (t + 1)..(t + k)
        BY <1>1, <3>3, <3>5, <4>1, <4>4, FreshChunk
      <4> QED
        BY <4>2, <4>3, <4>4
    <3> QED
      BY <3>4, <3>5
  <2>5. CASE SendToVserial(a)
    <3>1. /\ inbuf' = [inbuf EXCEPT ![a] = <<>>] /\ UNCHANGED <<taken, chan>>
          /\ \/ chan[a] \in Channels /\ outbox' = [outbox EXCEPT ![chan[a]] = @ \o inbuf[a]]
             \/ chan[a] \notin Channels /\ UNCHANGED outbox
      BY <2>5 DEF SendToVserial
    <3>2. chan[b] \in Channels /\ (x \in Els(inbuf[b]) \/ x \in Els(outbox[chan[b]]) \/ x \in Left)
      BY <1>1, <1>2, <3>1
    <3>3. CASE chan[a] \notin Channels
      BY <1>0, <2>1, <3>1, <3>2, <3>3 DEF TypeOK
    <3>4. CASE chan[a] \in Channels /\ outbox' = [outbox EXCEPT ![chan[a]] = @ \o inbuf[a]]
      <4>1. PICK p, q \in Seq(Any) : p = outbox[chan[a]] /\ q = inbuf[a]
        BY <1>0, <3>4, AnyTypes DEF TypeOK
      <4>2. Els(p \o q) = Els(p) \cup Els(q)
        BY ElsConcat
      <4>3. outbox'[chan[a]] = p \o q /\ \A c \in Channels : c # chan[a] => outbox'[c] = outbox[c]
        BY <1>0, <3>4, <4>1 DEF TypeOK
      <4>4. \A c \in Channels : Els(outbox[c]) \subseteq Els(outbox'[c])
        BY <4>1, <4>2, <4>3
      <4>5. CASE b = a
        BY <2>1, <3>1, <3>2, <4>1, <4>2, <4>3, <4>5
      <4>6. CASE b # a
        <5>1. inbuf'[b] = inbuf[b]
          BY <1>0, <3>1, <4>6 DEF TypeOK
        <5> QED
          BY <2>1, <3>1, <3>2, <4>4, <5>1
      <4> QED
        BY <4>5, <4>6
    <3> QED
      BY <3>1, <3>3, <3>4
  <2> QED
    BY <1>3, <2>2, <2>3, <2>4, <2>5 DEF Client
<1>4. ASSUME NEW g \in Guests, Guest(g) \/ Session(g)
      PROVE  x \in Els(inbuf'[b]) \/ x \in Els(outbox'[chan'[b]]) \/ x \in Left'
  <2>1. UNCHANGED clientVars /\ (Kept \/ Fetches(g) \/ SessionEnds(g))
    BY <1>4, GuestEffect
  <2>2. UNCHANGED <<chan, taken, inbuf>>
    BY <2>1 DEF clientVars
  <2>3. chan[b] \in Channels /\ (x \in Els(inbuf[b]) \/ x \in Els(outbox[chan[b]]) \/ x \in Left)
    BY <1>1, <1>2, <2>2
  <2>4. CASE Kept
    BY <2>2, <2>3, <2>4 DEF Kept
  <2>5. CASE SessionEnds(g)
    <3>1. outbox' = outbox /\ Left' = Left
      BY <1>0, <2>5, EndsEls DEF SessionEnds
    <3> QED
      BY <2>2, <2>3, <3>1
  <2>6. CASE Fetches(g)
    <3>1. PICK c, d, r :
            /\ c \in Channels
            /\ Els(outbox[c]) = Els(d) \cup Els(r)
            /\ \A e \in Channels : Els(outbox'[e]) = IF e = c THEN Els(r) ELSE Els(outbox[e])
            /\ Left' = Left \cup Els(d)
      BY <2>6, FetchEls
    <3> QED
      BY <2>2, <2>3, <3>1
  <2> QED
    BY <2>1, <2>4, <2>5, <2>6
<1> QED
  BY <1>3, <1>4 DEF Next

\* A guest that reads an answer sees it on the channel it is for.
LEMMA SeenStep ==
  ASSUME TypeOK, NEW g \in Guests, SeenChannel(rcvd[g]), NEW ch \in Nat, Receives(g, ch),
         \A x \in Els(reply[g].data) : ch = chan[x.by]
  PROVE  SeenChannel(rcvd'[g])
<1>1. PICK d \in Seq(Byte), p \in Seq(SeenByte) : d = reply[g].data /\ p = rcvd[g]
  BY ReplyOf
<1>2. PICK s : s = Seen(ch, d)
  OBVIOUS
<1>3. rcvd'[g] = p \o s
  BY <1>1, <1>2 DEF Receives, TypeOK
<1>4. /\ s \in Seq(SeenByte) /\ Len(s) = Len(d)
      /\ \A i \in 1..Len(d) : s[i].ch = ch /\ s[i].by = d[i].by
  BY <1>2, SeenData
<1>5. ASSUME NEW i \in 1..Len(s), s[i].by \in Clients PROVE s[i].ch = chan[s[i].by]
  <2>1. i \in 1..Len(d) /\ d[i].by \in Clients /\ s[i].ch = ch /\ s[i].by = d[i].by
    BY <1>4, <1>5
  <2>2. [by |-> d[i].by, n |-> d[i].n] \in Els(d)
    BY <2>1, AnyTypes, ElsOf
  <2> QED
    BY <1>1, <2>1, <2>2
<1>6. \A i \in 1..Len(p) : p[i].by \in Clients => p[i].ch = chan[p[i].by]
  BY <1>1 DEF SeenChannel
<1> DEFINE m == Len(p)
           k == Len(s)
           q == p \o s
<1>s. s \in Seq(SeenByte)
  BY <1>4
<1>7. m \in Nat /\ k \in Nat /\ DOMAIN q = 1..(m + k)
  BY <1>s
<1>8. /\ \A i \in 1..m : q[i] = p[i]
      /\ \A i \in 1..(m + k) : i \in 1..m \/ (i - m \in 1..k /\ q[i] = s[i - m])
  BY <1>s
<1>9. (\A i \in 1..m : p[i].by \in Clients => p[i].ch = chan[p[i].by])
      /\ (\A i \in 1..k : s[i].by \in Clients => s[i].ch = chan[s[i].by])
  BY <1>5, <1>6
<1> HIDE DEF m, k, q
<1>10. SeenChannel(q)
  BY <1>7, <1>8, <1>9 DEF SeenChannel
<1> QED
  BY <1>3, <1>10 DEF q

\* Bytes stay on the channel of their client.
LEMMA ChannelStep ==
  ASSUME Announced, OrderInv, RightChannel, Next
  PROVE  RightChannel'
<1>0. TypeOK /\ Places /\ Exchange
  BY DEF OrderInv, Places
<1>1. ASSUME NEW a \in Clients, Client(a) PROVE RightChannel'
  <2>1. UNCHANGED <<ask, reply, rcvd>>
    BY <1>1 DEF Client, HandleAttach, ReadChunk, SendToVserial, InboundEof, guestVars
  <2>2. CASE UNCHANGED chan
    BY <2>1, <2>2 DEF RightChannel, ReplyChannel, SeenChannel
  <2>3. CASE HandleAttach(a)
    <3>1. chan'[a] \in ClientChannels[a] /\ \A b \in Clients : b # a => chan'[b] = chan[b]
      BY <1>0, <2>3 DEF HandleAttach, TypeOK
    <3>2. ASSUME NEW x \in Left PROVE x.by # a
      <4>1. taken[a] = 0 /\ x.n \in 1..taken[x.by]
        BY <1>0, <2>3 DEF HandleAttach, Places, Home, AllTyped
      <4>2. 1..0 = {}
        OBVIOUS
      <4> QED
        BY <4>1, <4>2
    <3>3. ASSUME NEW g \in Guests PROVE ReplyChannel(g)'
      <4>1. ASSUME NEW x \in Els(reply[g].data) PROVE chan'[x.by] = chan[x.by]
        BY <3>1, <3>2, LeftIs, TypedIs
      <4> QED
        BY <2>1, <4>1 DEF RightChannel, ReplyChannel
    <3>4. ASSUME NEW g \in Guests PROVE SeenChannel(rcvd[g])'
      <4>1. PICK q \in Seq(SeenByte) : q = rcvd[g]
        BY <1>0, ReplyOf
      <4>2. ASSUME NEW i \in 1..Len(q), q[i].by \in Clients PROVE chan'[q[i].by] = chan[q[i].by]
        <5>1. [by |-> q[i].by, n |-> q[i].n] \in Els(q)
          BY <4>2, AnyTypes, ElsOf
        <5>2. [by |-> q[i].by, n |-> q[i].n] \in Left
          BY <4>1, <5>1, LeftIs
        <5>3. q[i].by # a
          BY <3>2, <5>2
        <5> QED
          BY <3>1, <4>2, <5>3
      <4>3. \A i \in 1..Len(q) : q[i].by \in Clients => q[i].ch = chan[q[i].by]
        BY <4>1 DEF RightChannel, SeenChannel
      <4>4. \A i \in 1..Len(q) : q[i].by \in Clients => q[i].ch = chan'[q[i].by]
        BY <4>2, <4>3
      <4>5. DOMAIN q = 1..Len(q) /\ rcvd'[g] = q
        BY <2>1, <4>1
      <4> QED
        BY <4>4, <4>5 DEF SeenChannel
    <3>5. \A b \in Clients : chan'[b] \in ClientChannels[b] \cup {0}
      BY <3>1 DEF RightChannel
    <3> QED
      BY <3>3, <3>4, <3>5 DEF RightChannel
  <2> QED
    BY <1>1, <2>2, <2>3 DEF Client, ReadChunk, SendToVserial, InboundEof
<1>2. ASSUME NEW g \in Guests, Guest(g) \/ Session(g) PROVE RightChannel'
  <2>1. UNCHANGED chan
    BY <1>2, GuestEffect DEF clientVars
  <2>2. ASSUME NEW h \in Guests, h # g
        PROVE  reply'[h] = reply[h] /\ ask'[h] = ask[h] /\ rcvd'[h] = rcvd[h]
    BY <1>0, <1>2, <2>2 DEF Guest, Session, Connect, HangUp, GuestPoll, GuestReadSerRead,
         GuestReadSerReadM, HandleSerRead, HandleSerReadM, ReplyWritten, SessionEnds, TypeOK
  <2>3. SUFFICES ReplyChannel(g)' /\ SeenChannel(rcvd'[g])
    <3>1. ASSUME NEW h \in Guests, h # g PROVE ReplyChannel(h)' /\ SeenChannel(rcvd[h])'
      BY <2>1, <2>2, <3>1 DEF RightChannel, ReplyChannel, SeenChannel
    <3>2. SeenChannel(rcvd[g])'
      BY <2>1, <2>3 DEF SeenChannel
    <3> QED
      BY <2>1, <2>3, <3>1, <3>2 DEF RightChannel
  <2>4. ReplyChannel(g) /\ SeenChannel(rcvd[g])
    BY DEF RightChannel
  <2>5. ASSUME Els(reply'[g].data) = {} PROVE ReplyChannel(g)'
    BY <2>5 DEF ReplyChannel
  <2>6. CASE Connect(g) \/ HangUp(g) \/ ReplyWritten(g)
    <3>1. UNCHANGED <<ask, reply, rcvd>>
      BY <2>6 DEF Connect, HangUp, ReplyWritten
    <3> QED
      BY <2>1, <2>4, <3>1 DEF ReplyChannel, SeenChannel
  <2>7. CASE GuestPoll(g)
    <3>1. UNCHANGED <<reply, rcvd>> /\ reply[g].data = <<>>
      BY <1>0, <2>7 DEF GuestPoll, Exchange, NoReply
    <3> QED
      BY <2>4, <2>5, <3>1, ElsEmpty
  <2>8. CASE SessionEnds(g)
    BY <1>0, <2>4, <2>5, <2>8, ElsEmpty, EndsEls
  <2>9. CASE HandleSerRead(g)
    <3>1. UNCHANGED <<rcvd, ask>> /\ ask[g].op = "SERREAD"
      BY <2>9 DEF HandleSerRead
    <3>2. CASE TakesNothing(g, <<>>)
      BY <2>4, <2>5, <3>1, <3>2 DEF TakesNothing
    <3>3. ASSUME NEW c \in Channels, NEW d, NEW r, Takes(g, c, d, r), reply'[g].code = 1 + c
          PROVE  ReplyChannel(g)' /\ SeenChannel(rcvd'[g])
      <4>1. \A x \in Els(reply'[g].data) : chan[x.by] = c
        BY <1>0, <3>3 DEF Takes, Splits, Places, Home
      <4>2. ReplyChannel(g)'
        BY <2>1, <3>1, <3>3, <4>1 DEF ReplyChannel
      <4> QED
        BY <2>4, <3>1, <4>2
    <3> QED
      BY <1>0, <2>9, <3>2, <3>3, SerReadTakes
  <2>10. CASE HandleSerReadM(g)
    <3>1. UNCHANGED <<rcvd, ask>> /\ ask[g].op = "SERREADM"
      BY <2>10 DEF HandleSerReadM
    <3>2. ASSUME NEW d, TakesNothing(g, d) PROVE ReplyChannel(g)' /\ SeenChannel(rcvd'[g])
      BY <2>4, <2>5, <3>1, <3>2 DEF TakesNothing
    <3>3. ASSUME NEW c \in Channels, NEW d, NEW r, Takes(g, c, d, r), ask[g].ch = c
          PROVE  ReplyChannel(g)' /\ SeenChannel(rcvd'[g])
      <4>1. \A x \in Els(reply'[g].data) : chan[x.by] = c
        BY <1>0, <3>3 DEF Takes, Splits, Places, Home
      <4>2. ReplyChannel(g)'
        BY <2>1, <3>1, <3>3, <4>1 DEF ReplyChannel
      <4> QED
        BY <2>4, <3>1, <4>2
    <3> QED
      BY <1>0, <2>10, <3>2, <3>3, SerReadMTakes
  <2>11. ASSUME NEW ch \in Nat, Receives(g, ch), \A x \in Els(reply[g].data) : ch = chan[x.by]
         PROVE  ReplyChannel(g)' /\ SeenChannel(rcvd'[g])
    <3>1. SeenChannel(rcvd'[g])
      BY <1>0, <2>4, <2>11, SeenStep
    <3>2. reply'[g].data = <<>>
      BY <1>0, <2>11 DEF Receives, TypeOK, NoReply
    <3> QED
      BY <2>5, <3>1, <3>2, ElsEmpty
  <2>12. CASE GuestReadSerRead(g)
    <3>1. ask[g].op = "SERREAD"
      BY <2>12 DEF GuestReadSerRead
    <3>2. CASE UNCHANGED rcvd /\ reply' = [reply EXCEPT ![g] = NoReply]
      <4>1. reply'[g].data = <<>>
        BY <1>0, <3>2 DEF TypeOK, NoReply
      <4> QED
        BY <2>4, <2>5, <3>2, <4>1, ElsEmpty
    <3>3. CASE reply[g].code \in 1..15 /\ Receives(g, reply[g].code - 1)
      <4>1. PICK ch \in Nat : ch = reply[g].code - 1
        BY <3>3
      <4>2. ASSUME NEW x \in Els(reply[g].data) PROVE ch = chan[x.by]
        <5>1. reply[g].code = 1 + chan[x.by] /\ chan[x.by] \in Channels
          BY <2>4, <3>1 DEF ReplyChannel
        <5>2. chan[x.by] \in Int
          BY <5>1, OutboxAssumption DEF Channels
        <5> QED
          BY <4>1, <5>1, <5>2
      <4> QED
        BY <2>11, <3>3, <4>1, <4>2
    <3> QED
      BY <1>0, <2>12, <3>2, <3>3, SerReadReceives
  <2>13. CASE GuestReadSerReadM(g)
    <3>1. ask[g].op = "SERREADM" /\ Receives(g, ask[g].ch) /\ ask[g].ch \in Nat
      BY <1>0, <2>13, SerReadMReceives, ReplyOf DEF GuestReadSerReadM
    <3>2. \A x \in Els(reply[g].data) : ask[g].ch = chan[x.by]
      BY <2>4, <3>1 DEF ReplyChannel
    <3> QED
      BY <2>11, <3>1, <3>2
  <2> QED
    BY <1>2, <2>6, <2>7, <2>8, <2>9, <2>10, <2>12, <2>13 DEF Guest, Session
<1> QED
  BY <1>1, <1>2 DEF Next

LEMMA PlaceStep == Announced /\ OrderInv /\ PlaceInv /\ [Next]_vars => PlaceInv'
<1> SUFFICES ASSUME Announced, OrderInv, PlaceInv, [Next]_vars PROVE PlaceInv'
  OBVIOUS
<1>1. CASE Next
  BY <1>1, ApartStep, ChannelStep, MissingStep DEF PlaceInv
<1>2. CASE UNCHANGED vars
  <2>1. UNCHANGED <<outbox, chan, taken, inbuf, ask, reply, rcvd, lost>>
    BY <1>2 DEF vars, clientVars, guestVars
  <2>2. Left' = Left /\ \A h \in Guests : Given(h)' = Given(h)
    BY <2>1 DEF Left, Given
  <2>3. Apart'
    BY <2>1, <2>2 DEF PlaceInv, Apart
  <2>4. RightChannel'
    BY <2>1 DEF PlaceInv, RightChannel, ReplyChannel, SeenChannel
  <2>5. NoneMissing'
    BY <2>1, <2>2 DEF PlaceInv, NoneMissing
  <2> QED
    BY <2>3, <2>4, <2>5 DEF PlaceInv
<1> QED
  BY <1>1, <1>2

LEMMA PlaceInit == Init => PlaceInv
<1> SUFFICES ASSUME Init PROVE PlaceInv
  OBVIOUS
<1>1. /\ \A a \in Clients : taken[a] = 0 /\ chan[a] = 0
      /\ \A g \in Guests : rcvd[g] = <<>> /\ reply[g].data = <<>>
      /\ lost = {}
  BY DEF Init, NoReply
<1>2. \A g \in Guests : Given(g) = {}
  BY <1>1, ElsEmpty DEF Given
<1>3. Apart
  BY <1>1, <1>2 DEF Apart
<1>4. RightChannel
  BY <1>1, ElsEmpty DEF RightChannel, ReplyChannel, SeenChannel
<1>5. NoneMissing
  <2>1. 1..0 = {}
    OBVIOUS
  <2> QED
    BY <1>1, <2>1 DEF NoneMissing
<1> QED
  BY <1>3, <1>4, <1>5 DEF PlaceInv

\* A queue in order holds a byte at most once.
LEMMA OncePerQueue ==
  ASSUME NEW q \in Seq(Any), Ordered(q), NEW x \in Typed, NoClient \notin Clients
  PROVE  /\ x \in Els(q) => \E i \in DOMAIN q : \A j \in DOMAIN q :
                              q[j].by = x.by /\ q[j].n = x.n <=> j = i
         /\ x \notin Els(q) => \A j \in DOMAIN q : ~(q[j].by = x.by /\ q[j].n = x.n)
<1>1. DOMAIN q \subseteq Int /\ x.by \in Clients /\ x.n \in Nat
  BY TypedIs
<1>2. ASSUME x \in Els(q)
      PROVE  \E i \in DOMAIN q : \A j \in DOMAIN q : q[j].by = x.by /\ q[j].n = x.n <=> j = i
  <2>1. PICK i \in DOMAIN q : q[i].by = x.by /\ q[i].n = x.n
    BY <1>2 DEF Els
  <2>2. ASSUME NEW j \in DOMAIN q, q[j].by = x.by, q[j].n = x.n PROVE j = i
    <3>1. ~(i < j) /\ ~(j < i)
      <4>1. x.by # NoClient /\ ~(x.n < x.n)
        BY <1>1
      <4> QED
        BY <2>1, <2>2, <4>1 DEF Ordered
    <3> QED
      BY <1>1, <3>1
  <2> QED
    BY <2>1, <2>2
<1>3. ASSUME x \notin Els(q) PROVE \A j \in DOMAIN q : ~(q[j].by = x.by /\ q[j].n = x.n)
  BY <1>3 DEF Els
<1> QED
  BY <1>2, <1>3

LEMMA TimesIs ==
  ASSUME NEW q \in Seq(Any), Ordered(q), NEW x \in Typed, NoClient \notin Clients
  PROVE  Times(q, x.by, x.n) = IF x \in Els(q) THEN 1 ELSE 0
<1> DEFINE S == {j \in DOMAIN q : q[j].by = x.by /\ q[j].n = x.n}
<1>1. CASE x \in Els(q)
  <2>1. PICK i \in DOMAIN q : \A j \in DOMAIN q : q[j].by = x.by /\ q[j].n = x.n <=> j = i
    BY <1>1, OncePerQueue
  <2>2. S = {i}
    BY <2>1
  <2> QED
    BY <1>1, <2>2, FS_Singleton DEF Times
<1>2. CASE x \notin Els(q)
  <2>1. S = {}
    BY <1>2, OncePerQueue
  <2> QED
    BY <1>2, <2>1, FS_EmptySet DEF Times
<1> QED
  BY <1>1, <1>2

\* A byte is on its way to at most one guest, once.
LEMMA InReplyIs ==
  ASSUME OrderInv, Apart, NEW x \in Typed
  PROVE  TimesInReply(x.by, x.n) = IF \E g \in Guests : x \in Els(reply[g].data) THEN 1 ELSE 0
<1> DEFINE At(g) == {<<g, i>> : i \in {i \in DOMAIN reply[g].data :
                       reply[g].data[i] = [by |-> x.by, n |-> x.n]}}
           S == UNION {At(g) : g \in Guests}
<1>0. TypeOK /\ NoClient \notin Clients
  BY OutboxAssumption DEF OrderInv
<1>1. TimesInReply(x.by, x.n) = Cardinality(S)
  BY DEF TimesInReply
<1>2. ASSUME NEW g \in Guests
      PROVE  /\ Ordered(reply[g].data) /\ reply[g].data \in Seq(Any)
             /\ \A i \in DOMAIN reply[g].data :
                  reply[g].data[i] = [by |-> x.by, n |-> x.n]
                    <=> reply[g].data[i].by = x.by /\ reply[g].data[i].n = x.n
  <2>1. PICK d \in Seq(Byte) : d = reply[g].data
    BY <1>0, ReplyOf
  <2>2. \A i \in DOMAIN d : d[i] \in Byte
    OBVIOUS
  <2>3. ASSUME NEW i \in DOMAIN d PROVE d[i] = [by |-> d[i].by, n |-> d[i].n]
    BY <2>2 DEF Byte
  <2>4. \A i \in DOMAIN d : d[i] = [by |-> x.by, n |-> x.n] <=> d[i].by = x.by /\ d[i].n = x.n
    BY <2>3
  <2>5. Ordered(d) /\ d \in Seq(Any)
    BY <2>1, AnyTypes DEF OrderInv, QueuesOrdered
  <2> QED
    BY <2>1, <2>4, <2>5
<1>3. ASSUME NEW g \in Guests, x \notin Els(reply[g].data) PROVE At(g) = {}
  <2>1. \A j \in DOMAIN reply[g].data : ~(reply[g].data[j].by = x.by /\ reply[g].data[j].n = x.n)
    BY <1>0, <1>2, <1>3, OncePerQueue
  <2> QED
    BY <1>2, <2>1
<1>4. ASSUME NEW g \in Guests, x \in Els(reply[g].data) PROVE \E i : S = {<<g, i>>}
  <2>1. PICK i \in DOMAIN reply[g].data : \A j \in DOMAIN reply[g].data :
          reply[g].data[j].by = x.by /\ reply[g].data[j].n = x.n <=> j = i
    BY <1>0, <1>2, <1>4, OncePerQueue
  <2>2. At(g) = {<<g, i>>}
    BY <1>2, <2>1
  <2>3. \A h \in Guests : h # g => x \notin Els(reply[h].data)
    BY <1>4 DEF Apart, Given
  <2>4. \A h \in Guests : h # g => At(h) = {}
    BY <1>3, <2>3
  <2> HIDE DEF At
  <2>5. S = {<<g, i>>}
    BY <2>2, <2>4
  <2> QED
    BY <2>5
<1>5. (\A g \in Guests : x \notin Els(reply[g].data)) => S = {}
  <2> HIDE DEF At
  <2> QED
    BY <1>3
<1> HIDE DEF S
<1> QED
  BY <1>1, <1>4, <1>5, FS_Singleton, FS_EmptySet

\* At most one guest has received a byte, once, and on the right channel.
LEMMA ReceivedIs ==
  ASSUME OrderInv, PlaceInv, NEW x \in Typed
  PROVE  TimesReceived(x.by, x.n) = IF \E g \in Guests : x \in Els(rcvd[g]) THEN 1 ELSE 0
<1> DEFINE At(g) == {<<g, i>> : i \in {i \in DOMAIN rcvd[g] :
                       rcvd[g][i] = [ch |-> chan[x.by], by |-> x.by, n |-> x.n]}}
           S == UNION {At(g) : g \in Guests}
<1>0. TypeOK /\ NoClient \notin Clients /\ x.by \in Clients
  BY OutboxAssumption, TypedIs DEF OrderInv
<1>1. TimesReceived(x.by, x.n) = Cardinality(S)
  BY DEF TimesReceived
<1>2. ASSUME NEW g \in Guests
      PROVE  /\ Ordered(rcvd[g]) /\ rcvd[g] \in Seq(Any)
             /\ \A i \in DOMAIN rcvd[g] :
                  rcvd[g][i] = [ch |-> chan[x.by], by |-> x.by, n |-> x.n]
                    <=> rcvd[g][i].by = x.by /\ rcvd[g][i].n = x.n
  <2>1. PICK q \in Seq(SeenByte) : q = rcvd[g]
    BY <1>0, ReplyOf
  <2>2. \A i \in DOMAIN q : q[i] \in SeenByte
    OBVIOUS
  <2>3. ASSUME NEW i \in DOMAIN q PROVE q[i] = [ch |-> q[i].ch, by |-> q[i].by, n |-> q[i].n]
    BY <2>2 DEF SeenByte
  <2>4. \A i \in DOMAIN q : q[i].by \in Clients => q[i].ch = chan[q[i].by]
    BY <2>1 DEF PlaceInv, RightChannel, SeenChannel
  <2>5. ASSUME NEW i \in DOMAIN q
        PROVE  q[i] = [ch |-> chan[x.by], by |-> x.by, n |-> x.n] <=> q[i].by = x.by /\ q[i].n = x.n
    BY <1>0, <2>3, <2>4
  <2>6. Ordered(q) /\ q \in Seq(Any)
    BY <2>1, AnyTypes DEF OrderInv, QueuesOrdered
  <2> QED
    BY <2>1, <2>5, <2>6
<1>3. ASSUME NEW g \in Guests, x \notin Els(rcvd[g]) PROVE At(g) = {}
  <2>1. \A j \in DOMAIN rcvd[g] : ~(rcvd[g][j].by = x.by /\ rcvd[g][j].n = x.n)
    BY <1>0, <1>2, <1>3, OncePerQueue
  <2> QED
    BY <1>2, <2>1
<1>4. ASSUME NEW g \in Guests, x \in Els(rcvd[g]) PROVE \E i : S = {<<g, i>>}
  <2>1. PICK i \in DOMAIN rcvd[g] : \A j \in DOMAIN rcvd[g] :
          rcvd[g][j].by = x.by /\ rcvd[g][j].n = x.n <=> j = i
    BY <1>0, <1>2, <1>4, OncePerQueue
  <2>2. At(g) = {<<g, i>>}
    BY <1>2, <2>1
  <2>3. \A h \in Guests : h # g => x \notin Els(rcvd[h])
    BY <1>4 DEF PlaceInv, Apart, Given
  <2>4. \A h \in Guests : h # g => At(h) = {}
    BY <1>3, <2>3
  <2> HIDE DEF At
  <2>5. S = {<<g, i>>}
    BY <2>2, <2>4
  <2> QED
    BY <2>5
<1>5. (\A g \in Guests : x \notin Els(rcvd[g])) => S = {}
  <2> HIDE DEF At
  <2> QED
    BY <1>3
<1> HIDE DEF S
<1> QED
  BY <1>1, <1>4, <1>5, FS_Singleton, FS_EmptySet

LEMMA PlacesExclude ==
  ASSUME OrderInv, PlaceInv, NEW a \in Clients, chan[a] \in Channels,
         NEW n \in 1..taken[a]
  PROVE  Times(inbuf[a], a, n) + Times(outbox[chan[a]], a, n) + TimesInReply(a, n)
           + TimesReceived(a, n) + (IF [by |-> a, n |-> n] \in lost THEN 1 ELSE 0) = 1
<1>0. TypeOK /\ NoClient \notin Clients /\ Places
  BY OutboxAssumption DEF OrderInv, Places
<1>1. PICK x \in Typed : x = [by |-> a, n |-> n] /\ x.by = a /\ x.n = n
  <2>1. taken[a] \in Nat
    BY <1>0 DEF TypeOK
  <2>2. n \in Nat
    BY <2>1
  <2>3. [by |-> a, n |-> n] \in Typed
    BY <2>2 DEF Typed
  <2> QED
    BY <2>3
<1>2. x.n \in Nat
  BY TypedIs
<1> DEFINE A == x \in Els(inbuf[a])
           B == x \in Els(outbox[chan[a]])
           C == \E g \in Guests : x \in Els(reply[g].data)
           D == \E g \in Guests : x \in Els(rcvd[g])
           E == x \in lost
<1>3. A \/ B \/ C \/ D \/ E
  <2>1. A \/ B \/ x \in Left
    BY <1>1 DEF PlaceInv, NoneMissing
  <2> QED
    BY <2>1, LeftIs
<1>4. C \/ D \/ E => x \in Left
  BY LeftIs
<1>5. ~(A /\ B) /\ (x \in Left => ~A /\ ~B)
  <2>1. ~(x.n < x.n)
    BY <1>2
  <2> QED
    BY <2>1 DEF OrderInv, PlacesOrdered, Below
<1>6. ~(C /\ D)
  <2> SUFFICES ASSUME NEW g \in Guests, NEW h \in Guests, x \in Els(reply[g].data), x \in Els(rcvd[h])
               PROVE  FALSE
    OBVIOUS
  <2>1. g = h
    BY DEF PlaceInv, Apart, Given
  <2>2. ~(x.n < x.n)
    BY <1>2
  <2> QED
    BY <2>1, <2>2 DEF OrderInv, PlacesOrdered, Below
<1>7. C \/ D => ~E
  BY DEF PlaceInv, Apart, Given
<1>8. /\ Times(inbuf[a], a, n) = IF A THEN 1 ELSE 0
      /\ Times(outbox[chan[a]], a, n) = IF B THEN 1 ELSE 0
  <2>1. PICK p, q \in Seq(Any) : p = inbuf[a] /\ q = outbox[chan[a]]
    BY <1>0, AnyTypes DEF TypeOK
  <2>2. Ordered(p) /\ Ordered(q)
    BY <2>1 DEF OrderInv, QueuesOrdered
  <2>3. Times(p, x.by, x.n) = IF x \in Els(p) THEN 1 ELSE 0
    BY <1>0, <2>2, TimesIs
  <2>4. Times(q, x.by, x.n) = IF x \in Els(q) THEN 1 ELSE 0
    BY <1>0, <2>2, TimesIs
  <2> QED
    BY <1>1, <2>1, <2>3, <2>4
<1>9. TimesInReply(a, n) = IF C THEN 1 ELSE 0
  <2>1. TimesInReply(x.by, x.n) = IF C THEN 1 ELSE 0
    BY InReplyIs DEF PlaceInv
  <2> QED
    BY <1>1, <2>1
<1>10. TimesReceived(a, n) = IF D THEN 1 ELSE 0
  <2>1. TimesReceived(x.by, x.n) = IF D THEN 1 ELSE 0
    BY ReceivedIs
  <2> QED
    BY <1>1, <2>1
<1>11. (IF [by |-> a, n |-> n] \in lost THEN 1 ELSE 0) = IF E THEN 1 ELSE 0
  BY <1>1
<1> HIDE DEF A, B, C, D, E
<1> QED
  BY <1>3, <1>4, <1>5, <1>6, <1>7, <1>8, <1>9, <1>10, <1>11

\* Every byte typed on a channel that SERREAD can announce is in exactly one
\* place: no byte is repeated, dropped or put on another channel between the
\* inbound task and the guest that receives it, other than with a link that
\* dies.
THEOREM TypedExactlyOnce ==
  ASSUME Announced
  PROVE  Spec => []ExactlyOnce
<1>1. OrderInv /\ PlaceInv => ExactlyOnce
  BY PlacesExclude DEF ExactlyOnce
<1>2. PlaceInv /\ OrderInv /\ [Next]_vars => PlaceInv'
  BY PlaceStep
<1> QED
  BY <1>1, <1>2, OrderInvariant, PlaceInit, PTL DEF Spec
=============================================================================
