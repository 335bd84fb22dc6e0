---------------------------- MODULE SerialProofs ----------------------------
(***************************************************************************)
(* Proofs about Serial, for every buffer size, every set of read sizes and *)
(* write lengths, and every amount of traffic: the port is a byte stream   *)
(* (Serial implements ByteStream), and no byte written is unaccounted  *)
(* for or sent twice on its way through the writer thread.                 *)
(***************************************************************************)
EXTENDS Serial, SequenceTheorems, FiniteSetTheorems, TLAPS

----------------------------------------------------------------------------
(* The inductive invariant *)

\* The byte before the first one of queue q, whose last one is "to".
Ahead(q, to) == IF q = <<>> THEN to ELSE q[1].lo - 1

\* q holds all bytes behind Ahead(q, to) up to "to", in order, each in one
\* chunk, and no empty chunk.
Queue(q, to) ==
  /\ \A i \in 1..Len(q) : q[i].lo <= q[i].hi /\ q[i].hi <= to
  /\ \A i, j \in 1..Len(q) : i < j => q[i].hi < q[j].lo
  /\ \A i \in 1..(Len(q) - 1) : q[i + 1].lo = q[i].hi + 1
  /\ q # <<>> => q[Len(q)].hi = to
  /\ \A n \in (Ahead(q, to) + 1)..to : \E i \in 1..Len(q) : n \in q[i].lo..q[i].hi

\* What poll_read has delivered, the leftover and the chunks of rx make up the
\* bytes reader_loop has passed on, in their order.
Inbound ==
  /\ \A i \in 1..Len(got) : got[i] = i
  /\ Queue(rx, taken)
  /\ \/ leftover = Nothing /\ Len(got) = Ahead(rx, taken)
     \/ /\ leftover.lo <= leftover.hi
        /\ leftover.lo = Len(got) + 1
        /\ leftover.hi = Ahead(rx, taken)

\* Each write_all is marked by its end: a chunk starts behind one, stops at
\* one and has none in its middle. So does what is left of a chunk, except
\* that it may start behind the last byte written.
WriteEnds ==
  /\ \A e \in ends : e <= accepted
  /\ accepted \in ends \cup {0}
  /\ \A i \in 1..Len(tx) :
       /\ tx[i].lo - 1 \in ends \cup {0}
       /\ \A e \in ends : e \notin tx[i].lo..(tx[i].hi - 1)
  /\ remaining # Nothing =>
       /\ remaining.lo - 1 \in ends \cup {Stream!LastOut}
       /\ \A e \in ends : e \notin remaining.lo..(remaining.hi - 1)

\* The last byte that writer_loop is done with.
Done == IF remaining = Nothing THEN Ahead(tx, accepted) ELSE remaining.lo - 1

\* Of the bytes writer_loop is done with each is on the line once or has been
\* dropped; the line is in order.
Outbound ==
  /\ Queue(tx, accepted)
  /\ remaining = Nothing \/ (remaining.lo <= remaining.hi /\ remaining.hi = Ahead(tx, accepted))
  /\ \A i \in 1..Len(line) : line[i] \in 1..Done /\ line[i] \notin dropped
  /\ \A i, j \in 1..Len(line) : i < j => line[i] < line[j]
  /\ \A n \in dropped : n \in 1..Done
  /\ \A n \in 1..Done : n \in dropped \/ \E i \in 1..Len(line) : line[i] = n

\* A program that has met the end of the stream is done with the port.
EofEnds == verdict = "eof" => mode = "ended"

IInv == TypeOK /\ Inbound /\ WriteEnds /\ Outbound /\ EofEnds

----------------------------------------------------------------------------
(* Chunks and queues of chunks *)

\* The first k bytes of a chunk, and what is left of it.
LEMMA ChunkSplit ==
  ASSUME NEW c \in Chunk, c.lo <= c.hi, NEW k \in 1..Size(c)
  PROVE  /\ Bytes(Front(c, k)) = [i \in 1..k |-> c.lo + i - 1]
         /\ Bytes(Front(c, k)) \in Seq(Nat)
         /\ Len(Bytes(Front(c, k))) = k
         /\ c.lo + k - 1 <= c.hi
         /\ Rest(c, k) \in Chunk
         /\ k = Size(c) => Rest(c, k) = Nothing /\ c.lo + k - 1 = c.hi
         /\ k # Size(c) => /\ Rest(c, k) # Nothing
                           /\ Rest(c, k).lo = c.lo + k
                           /\ Rest(c, k).hi = c.hi
                           /\ Rest(c, k).lo <= Rest(c, k).hi
<1>1. c.lo \in Nat \ {0} /\ c.hi \in Nat /\ Size(c) = c.hi + 1 - c.lo /\ k \in Nat
  BY DEF Chunk, Size
<1>2. Size(Front(c, k)) = k /\ Front(c, k).lo = c.lo
  BY <1>1 DEF Front, Size
<1>3. Bytes(Front(c, k)) = [i \in 1..k |-> c.lo + i - 1]
  BY <1>2 DEF Bytes
<1> DEFINE b == [i \in 1..k |-> c.lo + i - 1]
<1>4. b \in [1..k -> Nat]
  BY <1>1
<1> HIDE DEF b
<1>5. b \in Seq(Nat) /\ Len(b) = k
  BY <1>1, <1>4
<1>6. c.lo + k - 1 <= c.hi
  BY <1>1
<1>7. CASE k = Size(c)
  <2>1. Rest(c, k) = Nothing /\ Nothing \in Chunk
    BY <1>7 DEF Rest, Nothing, Chunk
  <2>2. c.lo + k - 1 = c.hi
    BY <1>1, <1>7
  <2> QED
    BY <1>3, <1>5, <1>6, <1>7, <2>1, <2>2 DEF b
<1>8. CASE k # Size(c)
  <2>1. Rest(c, k) = [lo |-> c.lo + k, hi |-> c.hi]
    BY <1>8 DEF Rest
  <2>2. c.lo + k <= c.hi /\ c.lo + k \in Nat \ {0} /\ c.hi # 0
    BY <1>1, <1>8
  <2>3. Rest(c, k) # Nothing
    BY <2>1, <2>2 DEF Nothing
  <2>4. Rest(c, k) \in Chunk
    BY <1>1, <2>1, <2>2 DEF Chunk
  <2> QED
    BY <1>1, <1>3, <1>5, <1>6, <1>8, <2>1, <2>2, <2>3, <2>4 DEF b
<1> QED
  BY <1>7, <1>8

\* An empty queue.
LEMMA QueueEmpty ==
  ASSUME NEW to \in Nat
  PROVE  Queue(<<>>, to) /\ Ahead(<<>>, to) = to
  BY DEF Queue, Ahead

\* Nothing is queued behind the last byte.
LEMMA AheadType ==
  ASSUME NEW to \in Nat, NEW q \in Seq(Chunk), Queue(q, to)
  PROVE  Ahead(q, to) \in 0..to
<1>1. CASE q = <<>>
  BY <1>1 DEF Ahead
<1>2. CASE q # <<>>
  <2>1. 1 \in 1..Len(q) /\ q[1] \in Chunk
    BY <1>2
  <2>2. q[1].lo \in Nat \ {0} /\ q[1].hi \in Nat
    BY <2>1 DEF Chunk
  <2> QED
    BY <1>2, <2>1, <2>2 DEF Ahead, Queue
<1> QED
  BY <1>1, <1>2

\* A chunk at the end of a queue does not change where the queue starts.
LEMMA AheadAppend ==
  ASSUME NEW to \in Nat, NEW q \in Seq(Chunk),
         NEW c \in Chunk, c.lo = to + 1,
         NEW r, r = Append(q, c)
  PROVE  Ahead(r, c.hi) = Ahead(q, to)
<1>1. r # <<>> /\ Len(q) \in Nat /\ Len(r) = Len(q) + 1
  OBVIOUS
<1>2. CASE q = <<>>
  <2>1. r[1] = c
    BY <1>2
  <2> QED
    BY <1>1, <1>2, <2>1 DEF Ahead
<1>3. CASE q # <<>>
  <2>1. r[1] = q[1]
    BY <1>3
  <2> QED
    BY <1>1, <1>3, <2>1 DEF Ahead
<1> QED
  BY <1>2, <1>3

\* A chunk with the next k bytes goes to the end of a queue.
LEMMA QueueAppend ==
  ASSUME NEW to \in Nat, NEW q \in Seq(Chunk), Queue(q, to),
         NEW c \in Chunk, c.lo = to + 1, c.lo <= c.hi,
         NEW r, r = Append(q, c)
  PROVE  /\ r \in Seq(Chunk)
         /\ Queue(r, c.hi)
         /\ Ahead(r, c.hi) = Ahead(q, to)
         /\ Len(r) = Len(q) + 1
         /\ \A i \in 1..Len(q) : r[i] = q[i]
         /\ r[Len(q) + 1] = c
<1> DEFINE L == Len(q)
<1>1. c.hi \in Nat
  BY DEF Chunk
<1>2. PICK k \in Nat \ {0} : c.hi = to + k /\ c.lo = to + 1
  <2>1. c.hi - to \in Nat \ {0} /\ c.hi = to + (c.hi - to)
    BY <1>1
  <2> QED
    BY <2>1
<1>4. r \in Seq(Chunk) /\ Len(r) = Len(q) + 1 /\ Len(q) \in Nat
  OBVIOUS
<1>5. \A i \in 1..Len(q) : r[i] = q[i]
  OBVIOUS
<1>6. r[Len(q) + 1] = c
  OBVIOUS
<1>7. \A i \in 1..L : q[i] \in Chunk
  OBVIOUS
<1>8. \A i \in 1..L : q[i].lo \in Nat /\ q[i].hi \in Nat
  BY <1>7 DEF Chunk
<1>9. L \in Nat /\ Len(r) = L + 1 /\ r # <<>> /\ (q = <<>> => L = 0) /\ (q # <<>> => L > 0)
  BY <1>4
<1>10. Ahead(r, c.hi) = Ahead(q, to)
  <2>1. CASE q = <<>>
    BY <1>2, <1>6, <1>9, <2>1 DEF Ahead
  <2>2. CASE q # <<>>
    BY <1>5, <1>9, <2>2 DEF Ahead
  <2> QED
    BY <2>1, <2>2
<1> HIDE DEF L
<1>11. /\ \A i \in 1..L : q[i].lo <= q[i].hi /\ q[i].hi <= to
       /\ \A i, j \in 1..L : i < j => q[i].hi < q[j].lo
       /\ \A i \in 1..(L - 1) : q[i + 1].lo = q[i].hi + 1
       /\ q # <<>> => q[L].hi = to
       /\ \A n \in (Ahead(q, to) + 1)..to : \E i \in 1..L : n \in q[i].lo..q[i].hi
  BY DEF Queue, L
<1>12. /\ \A i \in 1..L : r[i] = q[i]
       /\ r[L + 1] = c
  BY <1>5, <1>6 DEF L
<1>13. \A i \in 1..(L + 1) : i \in 1..L \/ i = L + 1
  BY <1>9
<1>14. \A i \in 1..Len(r) : r[i].lo <= r[i].hi /\ r[i].hi <= c.hi
  BY <1>2, <1>8, <1>9, <1>11, <1>12, <1>13
<1>15. \A i, j \in 1..Len(r) : i < j => r[i].hi < r[j].lo
  <2> SUFFICES ASSUME NEW i \in 1..(L + 1), NEW j \in 1..(L + 1), i < j PROVE r[i].hi < r[j].lo
    BY <1>9
  <2>1. i \in 1..L
    BY <1>9
  <2>2. CASE j \in 1..L
    BY <1>11, <1>12, <2>1, <2>2
  <2>3. CASE j = L + 1
    <3>1. r[i].hi <= to /\ r[i].hi \in Nat
      BY <1>8, <1>11, <1>12, <2>1
    <3>2. r[j].lo = to + 1
      BY <1>2, <1>12, <2>3
    <3>3. \A a \in Nat : a <= to => a < to + 1
      OBVIOUS
    <3> QED
      BY <3>1, <3>2, <3>3
  <2> QED
    BY <1>13, <2>2, <2>3
<1>16. \A i \in 1..(Len(r) - 1) : r[i + 1].lo = r[i].hi + 1
  <2> SUFFICES ASSUME NEW i \in 1..L PROVE r[i + 1].lo = r[i].hi + 1
    BY <1>9
  <2>1. CASE i = L
    BY <1>2, <1>9, <1>11, <1>12, <2>1
  <2>2. CASE i # L
    <3>1. i \in 1..(L - 1) /\ i + 1 \in 1..L
      BY <1>9, <2>2
    <3> QED
      BY <1>11, <1>12, <3>1
  <2> QED
    BY <2>1, <2>2
<1>17. r[Len(r)].hi = c.hi
  BY <1>2, <1>9, <1>12
<1>18. \A n \in (Ahead(r, c.hi) + 1)..c.hi : \E i \in 1..Len(r) : n \in r[i].lo..r[i].hi
  <2> SUFFICES ASSUME NEW n \in (Ahead(q, to) + 1)..(to + k)
               PROVE  \E i \in 1..(L + 1) : n \in r[i].lo..r[i].hi
    BY <1>2, <1>9, <1>10
  <2>1. n \in Int /\ Ahead(q, to) \in Nat
    BY AheadType
  <2>2. CASE n <= to
    <3>1. PICK i \in 1..L : n \in q[i].lo..q[i].hi
      BY <1>11, <2>1, <2>2
    <3> QED
      BY <1>9, <1>12, <3>1
  <2>3. CASE n > to
    <3>1. r[L + 1].lo = to + 1 /\ r[L + 1].hi = to + k
      BY <1>2, <1>12
    <3>4. n \in (to + 1)..(to + k)
      BY <2>1, <2>3
    <3>2. n \in r[L + 1].lo..r[L + 1].hi
      BY <3>1, <3>4
    <3>3. L + 1 \in 1..(L + 1)
      BY <1>9
    <3> QED
      BY <3>2, <3>3
  <2>4. n <= to \/ n > to
    BY <2>1
  <2> QED
    BY <2>2, <2>3, <2>4
<1> QED
  BY <1>2, <1>4, <1>5, <1>6, <1>10, <1>14, <1>15, <1>16, <1>17, <1>18 DEF Queue

\* The first chunk leaves a queue.
LEMMA QueueTail ==
  ASSUME NEW to \in Nat, NEW q \in Seq(Chunk), Queue(q, to), q # <<>>,
         NEW r, r = Tail(q)
  PROVE  /\ r \in Seq(Chunk)
         /\ Queue(r, to)
         /\ Head(q) \in Chunk /\ Head(q) = q[1]
         /\ q[1].lo <= q[1].hi
         /\ Ahead(q, to) = q[1].lo - 1
         /\ Ahead(r, to) = q[1].hi
         /\ Len(r) = Len(q) - 1
         /\ \A i \in 1..Len(r) : i + 1 \in 1..Len(q) /\ r[i] = q[i + 1]
<1> DEFINE L == Len(q)
<1>1. r \in Seq(Chunk) /\ Len(r) = L - 1 /\ Head(q) = q[1] /\ L \in Nat \ {0}
  OBVIOUS
<1>2. \A i \in 1..(L - 1) : r[i] = q[i + 1]
  BY HeadTailProperties
<1>3. \A i \in 1..L : q[i] \in Chunk
  OBVIOUS
<1>4. \A i \in 1..L : q[i].lo \in Nat \ {0} /\ q[i].hi \in Nat
  BY <1>3 DEF Chunk
<1> HIDE DEF L
<1>5. /\ \A i \in 1..L : q[i].lo <= q[i].hi /\ q[i].hi <= to
      /\ \A i, j \in 1..L : i < j => q[i].hi < q[j].lo
      /\ \A i \in 1..(L - 1) : q[i + 1].lo = q[i].hi + 1
      /\ q[L].hi = to
      /\ \A n \in (Ahead(q, to) + 1)..to : \E i \in 1..L : n \in q[i].lo..q[i].hi
  BY DEF Queue, L
<1>6. 1 \in 1..L /\ L \in 1..L
  BY <1>1
<1>7. Ahead(q, to) = q[1].lo - 1
  BY DEF Ahead
<1>8. Ahead(r, to) = q[1].hi
  <2>1. CASE L = 1
    <3>1. r = <<>>
      BY <1>1, <2>1
    <3> QED
      BY <1>5, <2>1, <3>1 DEF Ahead
  <2>2. CASE L # 1
    <3>1. 1 \in 1..(L - 1) /\ Len(r) # 0
      BY <1>1, <2>2
    <3>3. r # <<>>
      BY <3>1
    <3>2. r[1].lo = q[1].hi + 1
      BY <1>2, <1>5, <3>1
    <3>4. \A a, b : b \in Nat /\ a = b + 1 => a - 1 = b
      OBVIOUS
    <3>5. r[1].lo - 1 = q[1].hi
      BY <1>4, <1>6, <3>2, <3>4
    <3> QED
      BY <3>3, <3>5 DEF Ahead
  <2> QED
    BY <2>1, <2>2
<1>9. \A i \in 1..(L - 1) : i + 1 \in 1..L
  BY <1>1
<1>10. \A i \in 1..Len(r) : r[i].lo <= r[i].hi /\ r[i].hi <= to
  BY <1>1, <1>2, <1>5, <1>9
<1>11. \A i, j \in 1..Len(r) : i < j => r[i].hi < r[j].lo
  BY <1>1, <1>2, <1>5, <1>9
<1>12. \A i \in 1..(Len(r) - 1) : r[i + 1].lo = r[i].hi + 1
  <2> SUFFICES ASSUME NEW i \in 1..(L - 2) PROVE r[i + 1].lo = r[i].hi + 1
    BY <1>1
  <2>1. i \in 1..(L - 1) /\ i + 1 \in 1..(L - 1)
    BY <1>1
  <2> QED
    BY <1>2, <1>5, <2>1
<1>13. r # <<>> => r[Len(r)].hi = to
  <2> HAVE r # <<>>
  <2>1. L - 1 \in 1..(L - 1)
    BY <1>1
  <2> QED
    BY <1>1, <1>2, <1>5, <2>1
<1>14. \A n \in (Ahead(r, to) + 1)..to : \E i \in 1..Len(r) : n \in r[i].lo..r[i].hi
  <2> SUFFICES ASSUME NEW n \in (q[1].hi + 1)..to
               PROVE  \E i \in 1..(L - 1) : n \in r[i].lo..r[i].hi
    BY <1>1, <1>8
  <2>1. n \in (Ahead(q, to) + 1)..to
    BY <1>4, <1>5, <1>6, <1>7
  <2>2. PICK j \in 1..L : n \in q[j].lo..q[j].hi
    BY <1>5, <2>1
  <2>3. j # 1
    BY <1>4, <1>6, <2>2
  <2>4. j - 1 \in 1..(L - 1) /\ (j - 1) + 1 = j
    BY <1>1, <2>3
  <2>5. r[j - 1] = q[j]
    BY <1>2, <2>4
  <2> QED
    BY <2>2, <2>4, <2>5
<1>15. Queue(r, to)
  BY <1>10, <1>11, <1>12, <1>13, <1>14 DEF Queue
<1> QED
  BY <1>1, <1>2, <1>3, <1>5, <1>6, <1>7, <1>8, <1>9, <1>15 DEF L

----------------------------------------------------------------------------
(* The side the guest sends on *)

\* poll_read hands over the next bytes, as many as there is room for or fewer,
\* and the rest stays in order.
LEMMA PollReadNext ==
  ASSUME IInv, NEW room \in Nat \ {0}, PollRead(room), UNCHANGED taken
  PROVE  /\ rx' \in Seq(Chunk) /\ leftover' \in Chunk /\ got' \in Seq(Nat)
         /\ Inbound'
         /\ \E k \in 1..(taken - Len(got)) : got' = got \o [i \in 1..k |-> Len(got) + i]
<1> DEFINE c == IF Size(leftover) > 0 THEN leftover ELSE Head(rx)
           n == IF Size(c) < room THEN Size(c) ELSE room
           L == Len(got)
           b == Bytes(Front(c, n))
<1>1. /\ taken \in Nat /\ rx \in Seq(Chunk) /\ leftover \in Chunk /\ got \in Seq(Nat)
      /\ L \in Nat
  <2>1. got \in Seq(Nat) /\ rx \in Seq(Chunk) /\ leftover \in Chunk
    BY DEF IInv, TypeOK
  <2>2. arrived \in 0..MaxIn /\ taken \in 0..arrived
    BY DEF IInv, TypeOK
  <2>3. taken \in Nat
    BY <2>2
  <2> QED
    BY <2>1, <2>3
<1>2. /\ Size(leftover) > 0 \/ rx # <<>>
      /\ got' = got \o b
      /\ leftover' = Rest(c, n)
      /\ rx' = IF Size(leftover) > 0 THEN rx ELSE Tail(rx)
  BY DEF PollRead
<1>3. Queue(rx, taken) /\ \A i \in 1..L : got[i] = i
  BY DEF IInv, Inbound
\* Either way the chunk starts with the next byte and ends before those of rx'.
<1>4. /\ c \in Chunk /\ c.lo <= c.hi /\ c.lo = L + 1
      /\ rx' \in Seq(Chunk) /\ Queue(rx', taken) /\ c.hi = Ahead(rx', taken)
  <2>1. CASE Size(leftover) > 0
    <3>1. leftover # Nothing
      BY <2>1 DEF Size, Nothing
    <3>2. rx' = rx /\ c = leftover
      BY <1>2, <2>1
    <3> QED
      BY <1>1, <1>3, <3>1, <3>2 DEF IInv, Inbound
  <2>2. CASE ~(Size(leftover) > 0)
    <3>1. ~(leftover.lo <= leftover.hi)
      BY <1>1, <2>2 DEF Size, Chunk
    <3>2. L = Ahead(rx, taken)
      BY <3>1 DEF IInv, Inbound
    <3>3. rx # <<>> /\ rx' = Tail(rx) /\ c = Head(rx)
      BY <1>2, <2>2
    <3> HIDE DEF c
    <3>6. /\ rx' \in Seq(Chunk) /\ Queue(rx', taken)
          /\ Head(rx) \in Chunk /\ Head(rx) = rx[1] /\ rx[1].lo <= rx[1].hi
          /\ Ahead(rx, taken) = rx[1].lo - 1
          /\ Ahead(rx', taken) = rx[1].hi
      <4>1. taken \in Nat /\ rx \in Seq(Chunk) /\ Queue(rx, taken) /\ rx # <<>> /\ rx' = Tail(rx)
        BY <1>1, <1>3, <3>3
      <4> QED
        BY <4>1, QueueTail, Zenon
    <3>4. /\ c \in Chunk /\ c = rx[1] /\ c.lo <= c.hi
          /\ Ahead(rx, taken) = c.lo - 1
          /\ c.hi = Ahead(rx', taken)
      BY <3>3, <3>6, Zenon
    <3>5. c.lo \in Nat
      BY <3>4 DEF Chunk
    <3> QED
      BY <1>1, <3>2, <3>4, <3>5, <3>6
  <2> QED
    BY <2>1, <2>2
<1> HIDE DEF c
<1>5. c.lo \in Nat /\ c.hi \in Nat /\ Size(c) \in Nat \ {0} /\ Size(c) = c.hi + 1 - c.lo
  BY <1>4 DEF Chunk, Size
<1>6. n \in 1..Size(c)
  BY <1>5
<1> HIDE DEF n
<1>7. /\ b = [i \in 1..n |-> c.lo + i - 1] /\ b \in Seq(Nat) /\ Len(b) = n
      /\ leftover' \in Chunk
      /\ n = Size(c) => leftover' = Nothing /\ c.lo + n - 1 = c.hi
      /\ n # Size(c) => /\ leftover'.lo = c.lo + n
                        /\ leftover'.hi = c.hi
                        /\ leftover'.lo <= leftover'.hi
  BY <1>2, <1>4, <1>6, ChunkSplit
<1> HIDE DEF b
<1>8. /\ got' \in Seq(Nat) /\ Len(got') = L + n
      /\ \A i \in 1..(L + n) : got'[i] = IF i <= L THEN got[i] ELSE b[i - L]
  <2>1. /\ got \o b \in Seq(Nat) /\ Len(got \o b) = L + Len(b)
        /\ \A i \in 1..(L + Len(b)) : (got \o b)[i] = IF i <= L THEN got[i] ELSE b[i - L]
    BY <1>1, <1>7, ConcatProperties
  <2>2. Len(b) = n
    BY <1>7
  <2> QED
    BY <1>2, <2>1, <2>2
<1>9. n \in Nat \ {0}
  BY <1>5, <1>6
<1>10. \A i \in 1..Len(got') : got'[i] = i
  <2> SUFFICES ASSUME NEW i \in 1..(L + n) PROVE got'[i] = i
    BY <1>8
  <2>1. CASE i <= L
    BY <1>1, <1>3, <1>8, <2>1
  <2>2. CASE ~(i <= L)
    <3>1. i - L \in 1..n
      BY <1>1, <1>9, <2>2
    <3>2. b[i - L] = c.lo + (i - L) - 1
      BY <1>7, <3>1
    <3>3. c.lo + (i - L) - 1 = i
      BY <1>1, <1>4, <1>9
    <3> QED
      BY <1>8, <2>2, <3>2, <3>3
  <2> QED
    BY <2>1, <2>2
<1>11. Ahead(rx, taken)' = Ahead(rx', taken) /\ Queue(rx, taken)' = Queue(rx', taken)
  BY DEF Ahead, Queue
<1>12. Inbound'
  <2>1. CASE n = Size(c)
    <3>1. Len(got') = Ahead(rx', taken)
      BY <1>1, <1>4, <1>5, <1>7, <1>8, <2>1
    <3>2. leftover' = Nothing'
      BY <1>7, <2>1 DEF Nothing
    <3> QED
      BY <1>4, <1>10, <1>11, <3>1, <3>2 DEF Inbound
  <2>2. CASE n # Size(c)
    <3>1. leftover'.lo = Len(got') + 1
      BY <1>1, <1>4, <1>7, <1>8, <1>9, <2>2
    <3> QED
      BY <1>4, <1>7, <1>10, <1>11, <2>2, <3>1 DEF Inbound
  <2> QED
    BY <2>1, <2>2
<1>13. n \in 1..(taken - L)
  <2>1. Ahead(rx', taken) \in 0..taken
    BY <1>1, <1>4, AheadType
  <2>2. c.hi <= taken
    BY <1>1, <1>4, <2>1
  <2> QED
    BY <1>1, <1>4, <1>5, <1>6, <2>2
<1>14. b = [i \in 1..n |-> L + i]
  <2>1. \A i \in 1..n : c.lo + i - 1 = L + i
    BY <1>1, <1>4
  <2> QED
    BY <1>7, <2>1
<1>15. \E k \in 1..(taken - L) : got' = got \o [i \in 1..k |-> L + i]
  BY <1>2, <1>13, <1>14
<1> QED
  BY <1>4, <1>7, <1>8, <1>12, <1>15

\* Nothing else disturbs what is on its way to the session.
LEMMA InboundKept ==
  ASSUME Inbound, UNCHANGED <<taken, rx, leftover, got>>
  PROVE  Inbound'
  BY DEF Inbound, Queue, Ahead, Nothing

----------------------------------------------------------------------------
(* The side the writes go out on *)

\* Nothing but the session's writes and the writer thread disturbs what goes out.
LEMMA OutboundKept ==
  ASSUME WriteEnds, Outbound, UNCHANGED <<tx, remaining, accepted, ends, line, dropped>>
  PROVE  WriteEnds' /\ Outbound'
<1>1. WriteEnds'
  BY DEF WriteEnds, Nothing, Stream!LastOut
<1>2. Done' = Done
  BY DEF Done, Ahead, Nothing
<1>3. Outbound'
  BY <1>2 DEF Outbound, Queue, Ahead, Nothing
<1> QED
  BY <1>1, <1>3

\* The types the steps below rely on.
LEMMA OutTypes ==
  ASSUME IInv
  PROVE  /\ tx \in Seq(Chunk) /\ remaining \in Chunk /\ line \in Seq(Nat) /\ Len(line) \in Nat
         /\ Len(tx) \in Nat
         /\ accepted \in Nat /\ ends \subseteq Nat \ {0} /\ dropped \subseteq Nat \ {0}
         /\ remaining.lo \in Nat \ {0} /\ remaining.hi \in Nat
         /\ Ahead(tx, accepted) \in 0..accepted
         /\ Done \in 0..accepted
<1>1. tx \in Seq(Chunk) /\ remaining \in Chunk /\ line \in Seq(Nat)
  BY DEF IInv, TypeOK
<1>2. accepted \in 0..MaxOut /\ ends \subseteq 1..MaxOut /\ dropped \subseteq 1..MaxOut
  BY DEF IInv, TypeOK
<1>3. accepted \in Nat /\ ends \subseteq Nat \ {0} /\ dropped \subseteq Nat \ {0}
  BY <1>2
<1>4. remaining.lo \in Nat \ {0} /\ remaining.hi \in Nat
  BY <1>1 DEF Chunk
<1>5. Queue(tx, accepted)
  BY DEF IInv, Outbound
<1>6. Ahead(tx, accepted) \in 0..accepted
  BY <1>1, <1>3, <1>5, AheadType
<1>7. Done \in 0..accepted
  <2>1. CASE remaining = Nothing
    BY <1>6, <2>1 DEF Done
  <2>2. CASE remaining # Nothing
    <3>1. remaining.lo <= remaining.hi /\ remaining.hi = Ahead(tx, accepted)
      BY <2>2 DEF IInv, Outbound
    <3>2. Done = remaining.lo - 1
      BY <2>2 DEF Done
    <3> QED
      BY <1>3, <1>4, <1>6, <3>1, <3>2
  <2> QED
    BY <2>1, <2>2
<1> QED
  BY <1>1, <1>3, <1>4, <1>6, <1>7

\* What one write_all wrote goes to the end of tx as a chunk of its own.
LEMMA PollWriteQueues ==
  ASSUME IInv, NEW k \in Nat \ {0}, PollWrite(k)
  PROVE  /\ tx' \in Seq(Chunk)
         /\ accepted' \in 0..MaxOut /\ ends' \subseteq 1..MaxOut
         /\ WriteEnds' /\ Outbound'
<1>1. /\ accepted + k <= MaxOut
      /\ tx' = Append(tx, [lo |-> accepted + 1, hi |-> accepted + k])
      /\ accepted' = accepted + k
      /\ ends' = ends \cup {accepted + k}
      /\ UNCHANGED <<remaining, writer, line, dropped>>
  BY DEF PollWrite
<1>2. /\ tx \in Seq(Chunk) /\ accepted \in Nat /\ Len(tx) \in Nat /\ ends \subseteq Nat \ {0}
      /\ Ahead(tx, accepted) \in 0..accepted
  BY OutTypes
<1>3. Queue(tx, accepted)
  BY DEF IInv, Outbound
<1>4. /\ tx' \in Seq(Chunk)
      /\ Queue(tx', accepted')
      /\ Ahead(tx', accepted') = Ahead(tx, accepted)
      /\ Len(tx') = Len(tx) + 1
      /\ \A i \in 1..Len(tx) : tx'[i] = tx[i]
      /\ tx'[Len(tx) + 1].lo = accepted + 1 /\ tx'[Len(tx) + 1].hi = accepted + k
  <2>1. /\ tx' \in Seq(Chunk)
        /\ Queue(tx', accepted + k)
        /\ Ahead(tx', accepted + k) = Ahead(tx, accepted)
        /\ Len(tx') = Len(tx) + 1
        /\ \A i \in 1..Len(tx) : tx'[i] = tx[i]
        /\ tx'[Len(tx) + 1].lo = accepted + 1 /\ tx'[Len(tx) + 1].hi = accepted + k
    <3>1. PICK c : c = [lo |-> accepted + 1, hi |-> accepted + k]
      OBVIOUS
    <3>2. accepted \in Nat /\ tx \in Seq(Chunk) /\ tx' = Append(tx, c)
      BY <1>1, <1>2, <3>1
    <3>3. c \in Chunk /\ c.lo = accepted + 1 /\ c.lo <= c.hi
      BY <1>2, <3>1 DEF Chunk
    <3>4. Queue(tx', c.hi)
      BY <1>3, <3>2, <3>3, QueueAppend, Zenon
    <3>6. /\ tx' \in Seq(Chunk)
          /\ Len(tx') = Len(tx) + 1
          /\ \A i \in 1..Len(tx) : tx'[i] = tx[i]
          /\ tx'[Len(tx) + 1] = c
      BY <3>2, <3>3
    <3>7. Ahead(tx', c.hi) = Ahead(tx, accepted)
      BY <3>2, <3>3, AheadAppend
    <3>5. c.lo = accepted + 1 /\ c.hi = accepted + k
      BY <3>1
    <3> QED
      BY <3>4, <3>5, <3>6, <3>7
  <2> QED
    BY <1>1, <2>1
<1>5. accepted' \in 0..MaxOut /\ ends' \subseteq 1..MaxOut
  <2>1. ends \subseteq 1..MaxOut /\ MaxOut \in Nat
    BY SerialAssumption DEF IInv, TypeOK
  <2> QED
    BY <1>1, <1>2, <2>1
<1>6. Done' = Done
  <2>1. Ahead(tx, accepted)' = Ahead(tx', accepted')
    BY DEF Ahead
  <2> QED
    BY <1>1, <1>4, <2>1 DEF Done, Nothing
<1>7. Outbound'
  <2>1. Queue(tx, accepted)' = Queue(tx', accepted')
    BY DEF Queue, Ahead
  <2>2. Ahead(tx, accepted)' = Ahead(tx', accepted')
    BY DEF Ahead
  <2> QED
    BY <1>1, <1>4, <1>6, <2>1, <2>2 DEF IInv, Outbound, Nothing
<1>8. WriteEnds'
  <2>1. \A e \in ends' : e <= accepted'
    BY <1>1, <1>2 DEF IInv, WriteEnds
  <2>2. accepted' \in ends' \cup {0}
    BY <1>1
  <2>3. \A e \in ends : e <= accepted /\ e \in Nat
    BY <1>2 DEF IInv, WriteEnds
  <2>4. ASSUME NEW i \in 1..Len(tx')
        PROVE  /\ tx'[i].lo - 1 \in ends' \cup {0}
               /\ \A e \in ends' : e \notin tx'[i].lo..(tx'[i].hi - 1)
    <3>1. CASE i \in 1..Len(tx)
      <4>1. tx'[i] = tx[i]
        BY <1>4, <3>1
      <4>2. tx[i].lo - 1 \in ends \cup {0} /\ \A e \in ends : e \notin tx[i].lo..(tx[i].hi - 1)
        BY <3>1 DEF IInv, WriteEnds
      <4>3. tx[i].hi <= accepted /\ tx[i] \in Chunk
        BY <1>2, <1>3, <3>1 DEF Queue
      <4>4. tx[i].hi \in Nat /\ tx[i].lo \in Nat
        BY <4>3 DEF Chunk
      <4>5. accepted + k \notin tx[i].lo..(tx[i].hi - 1)
        BY <1>2, <4>3, <4>4
      <4> QED
        BY <1>1, <4>1, <4>2, <4>5
    <3>2. CASE i = Len(tx) + 1
      <4>1. tx'[i].lo = accepted + 1 /\ tx'[i].hi = accepted + k
        BY <1>4, <3>2
      <4>2. tx'[i].lo - 1 = accepted
        BY <1>2, <4>1
      <4>3. accepted \in ends \cup {0}
        BY DEF IInv, WriteEnds
      <4>4. \A e \in ends : e \notin (accepted + 1)..(accepted + k - 1)
        BY <1>2, <2>3
      <4>5. accepted + k \notin (accepted + 1)..(accepted + k - 1)
        BY <1>2
      <4>6. \A e \in ends' : e \notin (accepted + 1)..(accepted + k - 1)
        BY <1>1, <4>4, <4>5
      <4>7. tx'[i].lo - 1 \in ends' \cup {0}
        BY <1>1, <4>2, <4>3
      <4>8. ASSUME NEW e \in ends' PROVE e \notin tx'[i].lo..(tx'[i].hi - 1)
        <5>1. tx'[i].hi - 1 = accepted + k - 1
          BY <1>2, <4>1
        <5>2. e \notin (accepted + 1)..(accepted + k - 1)
          BY <4>6
        <5> QED
          BY <4>1, <5>1, <5>2, Zenon
      <4> QED
        BY <4>7, <4>8
    <3> QED
      BY <1>2, <1>4, <3>1, <3>2
  <2>5. remaining' # Nothing =>
          /\ remaining'.lo - 1 \in ends' \cup {Stream!LastOut'}
          /\ \A e \in ends' : e \notin remaining'.lo..(remaining'.hi - 1)
    <3> HAVE remaining' # Nothing
    <3>1. remaining' = remaining /\ Stream!LastOut' = Stream!LastOut
      BY <1>1 DEF Stream!LastOut
    <3>2. /\ remaining.lo - 1 \in ends \cup {Stream!LastOut}
          /\ \A e \in ends : e \notin remaining.lo..(remaining.hi - 1)
      BY <3>1 DEF IInv, WriteEnds
    <3>3. remaining.hi = Ahead(tx, accepted) /\ remaining.lo \in Nat /\ remaining.hi \in Nat
      BY <3>1, OutTypes DEF IInv, Outbound
    <3>4. remaining.hi <= accepted
      BY <1>2, <3>3
    <3>5. accepted + k \notin remaining.lo..(remaining.hi - 1)
      BY <1>2, <3>3, <3>4
    <3> QED
      BY <1>1, <3>1, <3>2, <3>5
  <2>6. Nothing' = Nothing
    BY DEF Nothing
  <2> QED
    BY <2>1, <2>2, <2>4, <2>5, <2>6 DEF WriteEnds
<1> QED
  BY <1>4, <1>5, <1>7, <1>8

\* The byte written last is one writer_loop is done with; 0 stands for none.
LEMMA LastOutDone ==
  ASSUME IInv
  PROVE  /\ Stream!LastOut \in 0..Done
         /\ Stream!LastOut = 0 <=> line = <<>>
<1>1. line \in Seq(Nat) /\ Done \in Nat
  BY OutTypes
<1>2. CASE line = <<>>
  BY <1>1, <1>2 DEF Stream!LastOut
<1>3. CASE line # <<>>
  <2>1. Len(line) \in 1..Len(line)
    BY <1>1, <1>3
  <2>2. line[Len(line)] \in 1..Done
    BY <2>1 DEF IInv, Outbound
  <2> QED
    BY <1>1, <1>3, <2>2 DEF Stream!LastOut
<1> QED
  BY <1>2, <1>3

\* writer_loop takes the next chunk: all bytes before it are dealt with.
LEMMA WriterRecvKeeps ==
  ASSUME IInv, WriterRecv
  PROVE  /\ tx' \in Seq(Chunk) /\ remaining' \in Chunk
         /\ WriteEnds' /\ Outbound'
<1>1. UNCHANGED <<accepted, ends, line, dropped>>
  BY DEF WriterRecv
<1>2. /\ tx \in Seq(Chunk) /\ remaining \in Chunk /\ accepted \in Nat /\ Len(tx) \in Nat
      /\ remaining.lo \in Nat \ {0} /\ remaining.hi \in Nat
  BY OutTypes
<1>3. CASE tx = <<>>
  <2>1. UNCHANGED <<remaining, tx>>
    BY <1>3 DEF WriterRecv
  <2> QED
    BY <1>1, <1>2, <2>1, OutboundKept DEF IInv
<1>4. CASE tx # <<>>
  <2>1. remaining' = Head(tx) /\ tx' = Tail(tx) /\ Size(remaining) = 0
    BY <1>4 DEF WriterRecv
  <2>2. Queue(tx, accepted)
    BY DEF IInv, Outbound
  <2>3. /\ tx' \in Seq(Chunk) /\ Queue(tx', accepted)
        /\ Head(tx) \in Chunk /\ Head(tx) = tx[1] /\ tx[1].lo <= tx[1].hi
        /\ Ahead(tx, accepted) = tx[1].lo - 1
        /\ Ahead(tx', accepted) = tx[1].hi
    <3>1. tx \in Seq(Chunk) /\ accepted \in Nat /\ tx' = Tail(tx)
      BY <1>2, <2>1
    <3> QED
      BY <1>4, <2>2, <3>1, QueueTail, Zenon
  <2>4. /\ Len(tx') = Len(tx) - 1
        /\ \A i \in 1..Len(tx') : i + 1 \in 1..Len(tx) /\ tx'[i] = tx[i + 1]
    BY <1>2, <1>4, <2>1, <2>2, QueueTail
  <2>5. remaining = Nothing
    <3>1. ~(remaining.lo <= remaining.hi)
      BY <1>2, <2>1 DEF Size
    <3> QED
      BY <3>1 DEF IInv, Outbound
  <2>6. remaining'.lo \in Nat \ {0} /\ remaining'.hi \in Nat /\ remaining' = tx[1]
    BY <2>1, <2>3 DEF Chunk
  <2>7. remaining' # Nothing /\ remaining'.lo <= remaining'.hi
    BY <2>3, <2>6 DEF Nothing
  <2>8. Done' = remaining'.lo - 1
    BY <2>7 DEF Done, Nothing
  <2>9. Done = remaining'.lo - 1
    BY <2>3, <2>5, <2>6 DEF Done
  <2>10. Outbound'
    <3>1. Queue(tx, accepted)' /\ Ahead(tx, accepted)' = tx[1].hi
      BY <1>1, <2>3 DEF Queue, Ahead
    <3>2. remaining'.lo <= remaining'.hi /\ remaining'.hi = Ahead(tx, accepted)'
      BY <2>6, <2>7, <3>1
    <3>3. Done' = Done
      BY <2>8, <2>9
    <3> QED
      BY <1>1, <3>1, <3>2, <3>3 DEF IInv, Outbound
  <2>11. WriteEnds'
    <3>1. \A i \in 1..Len(tx') :
            /\ tx'[i].lo - 1 \in ends \cup {0}
            /\ \A e \in ends : e \notin tx'[i].lo..(tx'[i].hi - 1)
      BY <2>4 DEF IInv, WriteEnds
    <3>2. 1 \in 1..Len(tx)
      BY <1>2, <1>4
    <3>3. /\ remaining'.lo - 1 \in ends \cup {0}
          /\ \A e \in ends : e \notin remaining'.lo..(remaining'.hi - 1)
      BY <2>6, <3>2 DEF IInv, WriteEnds
    <3>4. remaining'.lo - 1 \in ends \cup {Stream!LastOut}
      <4>1. CASE remaining'.lo - 1 \in ends
        BY <4>1
      <4>2. CASE remaining'.lo - 1 = 0
        BY <2>9, <4>2, LastOutDone
      <4> QED
        BY <3>3, <4>1, <4>2
    <3>5. Stream!LastOut' = Stream!LastOut
      BY <1>1 DEF Stream!LastOut
    <3>6. \A e \in ends' : e <= accepted'
      BY <1>1 DEF IInv, WriteEnds
    <3>7. accepted' \in ends' \cup {0}
      BY <1>1 DEF IInv, WriteEnds
    <3> QED
      BY <1>1, <3>1, <3>3, <3>4, <3>5, <3>6, <3>7 DEF WriteEnds
  <2> QED
    BY <2>1, <2>3, <2>10, <2>11
<1> QED
  BY <1>3, <1>4

\* write() takes n bytes: they follow on the line, and the rest of the chunk
\* starts behind the last of them.
LEMMA WriterWriteKeeps ==
  ASSUME IInv, WriterWrite
  PROVE  /\ remaining' \in Chunk /\ line' \in Seq(Nat)
         /\ WriteEnds' /\ Outbound'
         /\ Stream!Transmit
<1>1. PICK n \in 1..Size(remaining) :
        /\ line' = line \o Bytes(Front(remaining, n))
        /\ remaining' = Rest(remaining, n)
  BY DEF WriterWrite
<1>2. UNCHANGED <<inVars, tx, accepted, ends, dropped, userVars>>
  BY DEF WriterWrite
<1>3. /\ remaining \in Chunk /\ line \in Seq(Nat) /\ Len(line) \in Nat /\ accepted \in Nat
      /\ remaining.lo \in Nat \ {0} /\ remaining.hi \in Nat
      /\ Ahead(tx, accepted) \in 0..accepted
      /\ ends \subseteq Nat \ {0} /\ dropped \subseteq Nat \ {0}
  BY OutTypes
<1>4. Size(remaining) = remaining.hi + 1 - remaining.lo /\ n \in Nat \ {0} /\ n <= Size(remaining)
  <2>1. Size(remaining) = remaining.hi + 1 - remaining.lo
    <3>1. remaining.lo \in Nat /\ remaining.hi \in Nat
      BY <1>3
    <3> QED
      BY <3>1 DEF Size
  <2>2. Size(remaining) \in Int
    BY <1>3, <2>1
  <2> QED
    BY <2>1, <2>2
<1>5. remaining # Nothing
  BY <1>1 DEF Size, Nothing
<1>6. remaining.lo <= remaining.hi /\ remaining.hi = Ahead(tx, accepted)
  BY <1>5 DEF IInv, Outbound
<1> DEFINE b  == Bytes(Front(remaining, n))
           lo == remaining.lo
           L  == Len(line)
<1>7. /\ b = [i \in 1..n |-> lo + i - 1] /\ b \in Seq(Nat) /\ Len(b) = n
      /\ lo + n - 1 <= remaining.hi
      /\ remaining' \in Chunk
      /\ n = Size(remaining) => remaining' = Nothing /\ lo + n - 1 = remaining.hi
      /\ n # Size(remaining) => /\ remaining' # Nothing
                                /\ remaining'.lo = lo + n
                                /\ remaining'.hi = remaining.hi
                                /\ remaining'.lo <= remaining'.hi
  BY <1>1, <1>3, <1>6, ChunkSplit
<1>8. line' = line \o b
  BY <1>1
<1> HIDE DEF b
<1>9. /\ line' \in Seq(Nat) /\ Len(line') = L + n
      /\ \A i \in 1..(L + n) : line'[i] = IF i <= L THEN line[i] ELSE b[i - L]
  <2>1. /\ line \o b \in Seq(Nat) /\ Len(line \o b) = L + Len(b)
        /\ \A i \in 1..(L + Len(b)) : (line \o b)[i] = IF i <= L THEN line[i] ELSE b[i - L]
    BY <1>3, <1>7, ConcatProperties
  <2>2. Len(b) = n
    BY <1>7
  <2> QED
    BY <1>8, <2>1, <2>2
<1>10. /\ \A i \in 1..L : line'[i] = line[i] /\ line[i] \in Nat
       /\ \A i \in (L + 1)..(L + n) : line'[i] = lo + (i - L) - 1
       /\ \A i \in 1..(L + n) : i \in 1..L \/ i \in (L + 1)..(L + n)
  <2>1. ASSUME NEW i \in 1..L PROVE line'[i] = line[i] /\ line[i] \in Nat
    <3>1. i \in 1..(L + n) /\ i <= L
      BY <1>3, <1>4
    <3>2. line'[i] = line[i]
      BY <1>9, <3>1
    <3>3. line[i] \in Nat
      BY <1>3
    <3> QED
      BY <3>2, <3>3
  <2>2. ASSUME NEW i \in (L + 1)..(L + n) PROVE line'[i] = lo + (i - L) - 1
    <3>1. i \in 1..(L + n) /\ ~(i <= L) /\ i - L \in 1..n
      BY <1>3, <1>4
    <3>2. line'[i] = b[i - L]
      BY <1>9, <3>1
    <3> QED
      BY <1>7, <3>1, <3>2
  <2>3. \A i \in 1..(L + n) : i \in 1..L \/ i \in (L + 1)..(L + n)
    BY <1>3, <1>4
  <2> QED
    BY <2>1, <2>2, <2>3
<1> DEFINE last == lo + n - 1
<1>11. last \in Nat /\ lo \in Nat \ {0} /\ L \in Nat /\ last >= lo
  BY <1>3, <1>4
<1>12. Done = lo - 1
  BY <1>5 DEF Done
<1>13. Done' = last
  <2>1. Ahead(tx, accepted)' = Ahead(tx, accepted)
    BY <1>2 DEF Ahead
  <2>2. CASE n = Size(remaining)
    BY <1>6, <1>7, <2>1, <2>2 DEF Done, Nothing
  <2>3. CASE n # Size(remaining)
    <3>1. Done' = remaining'.lo - 1
      BY <1>7, <2>3 DEF Done, Nothing
    <3>2. remaining'.lo - 1 = last
      BY <1>4, <1>7, <1>11, <2>3
    <3> QED
      BY <3>1, <3>2
  <2> QED
    BY <2>2, <2>3
<1>14. Stream!LastOut' = last
  <2>1. L + n \in (L + 1)..(L + n) /\ Len(line') # 0
    BY <1>4, <1>9, <1>11
  <2>2. line' # <<>>
    BY <2>1
  <2>3. line'[L + n] = lo + ((L + n) - L) - 1
    BY <1>10, <2>1
  <2>4. lo + ((L + n) - L) - 1 = last
    BY <1>4, <1>11
  <2> QED
    BY <1>9, <2>2, <2>3, <2>4 DEF Stream!LastOut
<1> HIDE DEF last, lo, L
<1>15. /\ \A i \in 1..L : line[i] \in 1..(lo - 1) /\ line[i] \notin dropped
       /\ \A i, j \in 1..L : i < j => line[i] < line[j]
       /\ \A m \in dropped : m \in 1..(lo - 1)
       /\ \A m \in 1..(lo - 1) : m \in dropped \/ \E i \in 1..L : line[i] = m
  BY <1>12 DEF IInv, Outbound, L
<1>16. ASSUME NEW i \in (L + 1)..(L + n) PROVE line'[i] \in lo..last
  <2>1. line'[i] = lo + (i - L) - 1
    BY <1>10
  <2>2. lo + (i - L) - 1 \in lo..last
    BY <1>4, <1>11 DEF last
  <2> QED
    BY <2>1, <2>2
<1>17. Outbound'
  <2>1. Queue(tx, accepted)' /\ Ahead(tx, accepted)' = Ahead(tx, accepted)
    BY <1>2 DEF IInv, Outbound, Queue, Ahead
  <2>2. remaining' = Nothing \/ (remaining'.lo <= remaining'.hi /\ remaining'.hi = Ahead(tx, accepted))
    BY <1>6, <1>7
  <2>3. ASSUME NEW i \in 1..(L + n) PROVE line'[i] \in 1..last /\ line'[i] \notin dropped
    <3>1. CASE i \in 1..L
      <4>1. line'[i] \in 1..(lo - 1) /\ line'[i] \notin dropped
        BY <1>10, <1>15, <3>1
      <4> QED
        BY <1>11, <4>1
    <3>2. CASE i \in (L + 1)..(L + n)
      <4>1. line'[i] \in lo..last
        BY <1>16, <3>2
      <4>2. \A m \in dropped : m \notin lo..last
        BY <1>11, <1>15
      <4>3. line'[i] \in 1..last
        BY <1>11, <4>1
      <4> QED
        BY <4>1, <4>2, <4>3
    <3> QED
      BY <1>10, <3>1, <3>2
  <2>4. ASSUME NEW i \in 1..(L + n), NEW j \in 1..(L + n), i < j PROVE line'[i] < line'[j]
    <3>1. CASE j \in 1..L
      <4>1. i \in 1..L
        BY <1>4, <1>11, <2>4, <3>1
      <4>2. line[i] < line[j]
        BY <1>15, <2>4, <3>1, <4>1
      <4> QED
        BY <1>10, <3>1, <4>1, <4>2
    <3>2. CASE i \in 1..L /\ j \in (L + 1)..(L + n)
      <4>1. line'[i] \in 1..(lo - 1)
        BY <1>10, <1>15, <3>2
      <4>2. line'[j] \in lo..last
        BY <1>16, <3>2
      <4> QED
        BY <1>11, <4>1, <4>2
    <3>3. CASE i \in (L + 1)..(L + n) /\ j \in (L + 1)..(L + n)
      <4>1. line'[i] = lo + (i - L) - 1 /\ line'[j] = lo + (j - L) - 1
        BY <1>10, <3>3
      <4>2. lo + (i - L) - 1 < lo + (j - L) - 1
        BY <1>4, <1>11, <2>4
      <4> QED
        BY <4>1, <4>2
    <3>4. i \in 1..L \/ j \notin 1..L
      BY <1>4, <1>11, <2>4
    <3> QED
      BY <1>10, <3>1, <3>2, <3>3, <3>4
  <2>5. \A m \in dropped : m \in 1..last
    BY <1>11, <1>15
  <2>6. ASSUME NEW m \in 1..last
        PROVE  m \in dropped \/ \E i \in 1..(L + n) : line'[i] = m
    <3>1. CASE m \in 1..(lo - 1)
      <4>1. CASE m \in dropped
        BY <4>1
      <4>2. CASE m \notin dropped
        <5>1. PICK i \in 1..L : line[i] = m
          BY <1>15, <3>1, <4>2
        <5>2. i \in 1..(L + n)
          BY <1>4, <1>11
        <5> QED
          BY <1>10, <5>1, <5>2
      <4> QED
        BY <4>1, <4>2
    <3>2. CASE m \in lo..last
      <4>1. PICK i \in Nat : i = L + m - lo + 1
        BY <1>11, <3>2
      <4>2. i \in (L + 1)..(L + n) /\ i \in 1..(L + n)
        BY <1>4, <1>11, <3>2, <4>1 DEF last
      <4>3. line'[i] = lo + (i - L) - 1
        BY <1>10, <4>2
      <4>4. lo + (i - L) - 1 = m
        BY <1>11, <3>2, <4>1
      <4> QED
        BY <4>2, <4>3, <4>4
    <3>3. m \in 1..(lo - 1) \/ m \in lo..last
      BY <1>11
    <3> QED
      BY <3>1, <3>2, <3>3
  <2>7. dropped' = dropped /\ Len(line') = L + n /\ Nothing' = Nothing
    BY <1>2, <1>9 DEF L, Nothing
  <2> QED
    BY <1>13, <2>1, <2>2, <2>3, <2>4, <2>5, <2>6, <2>7 DEF Outbound
<1>18. \A e \in ends : e \notin lo..(remaining.hi - 1)
  BY <1>5 DEF IInv, WriteEnds, lo
<1>19. WriteEnds'
  <2>1. remaining' # Nothing =>
          /\ remaining'.lo - 1 \in ends \cup {last}
          /\ \A e \in ends : e \notin remaining'.lo..(remaining'.hi - 1)
    <3> HAVE remaining' # Nothing
    <3>1. remaining'.lo = lo + n /\ remaining'.hi = remaining.hi
      BY <1>7 DEF lo
    <3>2. lo + n - 1 = last
      BY DEF last
    <3>3. \A e \in ends : e \notin (lo + n)..(remaining.hi - 1)
      BY <1>3, <1>4, <1>11, <1>18
    <3>4. remaining'.lo - 1 = last
      BY <1>4, <1>11, <3>1, <3>2
    <3>5. ASSUME NEW e \in ends PROVE e \notin remaining'.lo..(remaining'.hi - 1)
      BY <3>1, <3>3, Zenon
    <3> QED
      BY <3>4, <3>5
  <2>2. Nothing' = Nothing
    BY DEF Nothing
  <2> QED
    BY <1>2, <1>14, <2>1, <2>2 DEF IInv, WriteEnds
<1>20. Stream!Transmit
  <2>1. lo \in (Stream!LastOut + 1)..accepted
    <3>1. Stream!LastOut \in 0..(lo - 1)
      BY <1>12, LastOutDone
    <3>2. lo <= accepted
      BY <1>3, <1>6 DEF lo
    <3> QED
      BY <1>3, <1>11, <3>1, <3>2
  <2>2. lo - 1 \in ends \cup {Stream!LastOut}
    BY <1>5 DEF IInv, WriteEnds, lo
  <2>3. n \in 1..(accepted - lo + 1)
    BY <1>3, <1>4, <1>6, <1>7, <1>11 DEF lo
  <2>4. \A e \in ends : e \notin lo..(lo + n - 2)
    <3>1. lo + n - 1 <= remaining.hi
      BY <1>7 DEF lo
    <3> QED
      BY <1>3, <1>4, <1>11, <1>18, <3>1
  <2>5. line' = line \o [i \in 1..n |-> lo + i - 1]
    BY <1>7, <1>8 DEF lo
  <2>6. UNCHANGED <<taken, reader = "done", got, verdict = "eof", accepted, ends>>
    BY <1>2 DEF inVars, userVars
  <2> QED
    BY <2>1, <2>2, <2>3, <2>4, <2>5, <2>6 DEF Stream!Transmit
<1> QED
  BY <1>7, <1>9, <1>17, <1>19, <1>20

\* A failed write: the rest of the chunk is dealt with by dropping it.
LEMMA WriterFailsKeeps ==
  ASSUME IInv, WriterFails
  PROVE  /\ remaining' \in Chunk /\ dropped' \subseteq 1..MaxOut
         /\ WriteEnds' /\ Outbound'
<1>1. /\ Size(remaining) > 0
      /\ dropped' = dropped \cup remaining.lo..remaining.hi
      /\ remaining' = Nothing
      /\ UNCHANGED <<tx, accepted, ends, line>>
  BY DEF WriterFails
<1>2. /\ accepted \in Nat /\ remaining.lo \in Nat \ {0} /\ remaining.hi \in Nat
      /\ Ahead(tx, accepted) \in 0..accepted
  BY OutTypes
<1>3. remaining # Nothing
  BY <1>1 DEF Size, Nothing
<1>4. remaining.lo <= remaining.hi /\ remaining.hi = Ahead(tx, accepted)
  BY <1>3 DEF IInv, Outbound
<1>5. remaining' \in Chunk /\ remaining' = Nothing'
  BY <1>1 DEF Chunk, Nothing
<1>6. dropped' \subseteq 1..MaxOut
  <2>1. dropped \subseteq 1..MaxOut /\ accepted \in 0..MaxOut /\ MaxOut \in Nat
    BY SerialAssumption DEF IInv, TypeOK
  <2>2. remaining.hi <= MaxOut
    BY <1>2, <1>4, <2>1
  <2>3. remaining.lo..remaining.hi \subseteq 1..MaxOut
    BY <1>2, <2>1, <2>2
  <2> QED
    BY <1>1, <2>1, <2>3
<1>7. WriteEnds'
  BY <1>1, <1>5 DEF IInv, WriteEnds
<1>8. Done = remaining.lo - 1
  BY <1>3 DEF Done
<1>9. Ahead(tx, accepted)' = Ahead(tx, accepted) /\ Queue(tx, accepted)'
  BY <1>1 DEF IInv, Outbound, Queue, Ahead
<1>10. Done' = remaining.hi
  BY <1>4, <1>5, <1>9 DEF Done
<1> DEFINE lo == remaining.lo
           hi == remaining.hi
<1>11. /\ \A i \in 1..Len(line) : line[i] \in 1..(lo - 1) /\ line[i] \notin dropped
       /\ \A i, j \in 1..Len(line) : i < j => line[i] < line[j]
       /\ \A n \in dropped : n \in 1..(lo - 1)
       /\ \A n \in 1..(lo - 1) : n \in dropped \/ \E i \in 1..Len(line) : line[i] = n
  BY <1>8 DEF IInv, Outbound
<1>12. lo \in Nat \ {0} /\ hi \in Nat /\ lo <= hi /\ dropped' = dropped \cup lo..hi
  BY <1>1, <1>2, <1>4
<1> HIDE DEF lo, hi
<1>13. ASSUME NEW i \in 1..Len(line) PROVE line[i] \in 1..hi /\ line[i] \notin dropped'
  <2>1. line[i] \in 1..(lo - 1) /\ line[i] \notin dropped
    BY <1>11
  <2> QED
    BY <1>12, <2>1
<1>14. \A n \in dropped' : n \in 1..hi
  BY <1>11, <1>12
<1>15. ASSUME NEW n \in 1..hi PROVE n \in dropped' \/ \E i \in 1..Len(line) : line[i] = n
  <2>1. CASE n \in 1..(lo - 1)
    BY <1>11, <1>12, <2>1
  <2>2. CASE n \in lo..hi
    BY <1>12, <2>2
  <2>3. n \in 1..(lo - 1) \/ n \in lo..hi
    BY <1>12
  <2> QED
    BY <2>1, <2>2, <2>3
<1>16. Done' = hi /\ line' = line
  BY <1>1, <1>10 DEF hi
<1>17. Outbound'
  BY <1>5, <1>9, <1>11, <1>13, <1>14, <1>15, <1>16 DEF Outbound
<1> QED
  BY <1>5, <1>6, <1>7, <1>17

----------------------------------------------------------------------------
(* All steps *)

\* reader_loop's chunk is the next one, behind those of rx.
LEMMA ReaderLoopKeeps ==
  ASSUME IInv, ReaderLoop
  PROVE  /\ rx' \in Seq(Chunk) /\ taken' \in 0..arrived /\ reader' \in {"running", "done"}
         /\ Inbound'
<1>1. PICK n \in 1..ReadBuf :
        /\ taken + n <= arrived
        /\ \/ /\ PortOpen
              /\ rx' = Append(rx, [lo |-> taken + 1, hi |-> taken + n])
              /\ taken' = taken + n
              /\ UNCHANGED reader
           \/ /\ ~PortOpen
              /\ reader' = "done"
              /\ UNCHANGED <<rx, taken>>
  BY DEF ReaderLoop
<1>2. UNCHANGED <<leftover, got>>
  BY DEF ReaderLoop
<1>3. rx \in Seq(Chunk) /\ arrived \in 0..MaxIn /\ taken \in 0..arrived /\ reader \in {"running", "done"}
  BY DEF IInv, TypeOK
<1>4. arrived \in Nat /\ taken \in Nat /\ n \in Nat \ {0}
  BY <1>3, SerialAssumption
<1>5. CASE UNCHANGED <<rx, taken>> /\ reader' = "done"
  BY <1>2, <1>3, <1>5, InboundKept DEF IInv
<1>6. CASE rx' = Append(rx, [lo |-> taken + 1, hi |-> taken + n]) /\ taken' = taken + n /\ UNCHANGED reader
  <2>1. PICK c : c = [lo |-> taken + 1, hi |-> taken + n]
    OBVIOUS
  <2>2. taken \in Nat /\ rx \in Seq(Chunk) /\ rx' = Append(rx, c)
    BY <1>3, <1>4, <1>6, <2>1
  <2>3. c \in Chunk /\ c.lo = taken + 1 /\ c.lo <= c.hi
    BY <1>4, <2>1 DEF Chunk
  <2>4. Queue(rx, taken)
    BY DEF IInv, Inbound
  <2>5. Queue(rx', c.hi)
    BY <2>2, <2>3, <2>4, QueueAppend, Zenon
  <2>6. Ahead(rx', c.hi) = Ahead(rx, taken)
    BY <2>2, <2>3, AheadAppend
  <2>7. c.hi = taken'
    BY <1>6, <2>1
  <2>8. Queue(rx, taken)' /\ Ahead(rx, taken)' = Ahead(rx, taken)
    BY <2>5, <2>6, <2>7 DEF Queue, Ahead
  <2>9. Inbound'
    BY <1>2, <2>8 DEF IInv, Inbound, Nothing
  <2>10. rx' \in Seq(Chunk)
    BY <2>2, <2>3
  <2>11. taken' \in 0..arrived
    BY <1>1, <1>4, <1>6
  <2> QED
    BY <1>3, <1>6, <2>9, <2>10, <2>11
<1> QED
  BY <1>1, <1>5, <1>6

\* A port that has just been opened.
LEMMA InitIInv == Init => IInv
<1> SUFFICES ASSUME Init PROVE IInv
  OBVIOUS
<1>1. Nothing \in Chunk
  BY DEF Chunk, Nothing
<1>2. <<>> \in Seq(Chunk) /\ <<>> \in Seq(Nat)
  BY EmptySeq
<1>3. /\ arrived = 0 /\ taken = 0 /\ rx = <<>> /\ leftover = Nothing /\ got = <<>> /\ skipped = 0
      /\ tx = <<>> /\ remaining = Nothing /\ accepted = 0 /\ ends = {} /\ line = <<>> /\ dropped = {}
  BY DEF Init
<1>4. reader = "running" /\ writer = "running" /\ verdict = "none" /\ alive = TRUE
  BY DEF Init
<1>5. mode \in {"drain", "session", "probe drain", "first", "driver", "answer", "ended"}
  BY DEF Init
<1>6. 0 \in 0..MaxIn /\ 0 \in 0..MaxOut /\ 0 \in 0..0
  BY SerialAssumption
<1>7. TypeOK
  BY <1>1, <1>2, <1>3, <1>4, <1>5, <1>6 DEF TypeOK
<1>8. Queue(<<>>, 0) /\ Ahead(<<>>, 0) = 0 /\ Len(<<>>) = 0
  BY QueueEmpty
<1>9. Inbound
  BY <1>3, <1>8 DEF Inbound
<1>10. WriteEnds
  BY <1>3, <1>8 DEF WriteEnds
<1>11. Done = 0
  BY <1>3, <1>8 DEF Done
<1>12. Outbound
  BY <1>3, <1>8, <1>11 DEF Outbound
<1> QED
  BY <1>4, <1>7, <1>9, <1>10, <1>12 DEF IInv, EofEnds

\* The threads keep the invariant.
LEMMA ThreadIInv ==
  ASSUME IInv, LineDelivers \/ Thread
  PROVE  IInv'
<1>0. TypeOK /\ EofEnds
  BY DEF IInv
<1>1. CASE LineDelivers
  <2> USE <1>1 DEF LineDelivers, inVars, outVars, userVars
  <2>1. Inbound' /\ WriteEnds' /\ Outbound'
    BY InboundKept, OutboundKept DEF IInv
  <2>2. arrived' \in 0..MaxIn /\ taken' \in 0..arrived'
    <3>1. arrived \in 0..MaxIn /\ taken \in 0..arrived
      BY <1>0 DEF TypeOK
    <3>2. arrived' = arrived + 1 /\ taken' = taken /\ arrived < MaxIn
      OBVIOUS
    <3> QED
      BY <3>1, <3>2, SerialAssumption
  <2>3. TypeOK'
    BY <1>0, <2>2 DEF TypeOK
  <2> QED
    BY <1>0, <2>1, <2>3 DEF IInv, EofEnds
<1>2. CASE ReaderLoop
  <2>1. /\ rx' \in Seq(Chunk) /\ taken' \in 0..arrived /\ reader' \in {"running", "done"}
        /\ Inbound'
    BY <1>2, ReaderLoopKeeps
  <2> USE <1>2 DEF ReaderLoop, inVars, outVars, userVars
  <2>2. WriteEnds' /\ Outbound'
    BY OutboundKept DEF IInv
  <2>3. TypeOK'
    BY <1>0, <2>1 DEF TypeOK
  <2> QED
    BY <1>0, <2>1, <2>2, <2>3 DEF IInv, EofEnds
<1>3. CASE ReaderFails
  <2> USE <1>3 DEF ReaderFails, inVars, outVars, userVars
  <2>1. Inbound' /\ WriteEnds' /\ Outbound'
    BY InboundKept, OutboundKept DEF IInv
  <2>2. TypeOK'
    BY <1>0 DEF TypeOK
  <2> QED
    BY <1>0, <2>1, <2>2 DEF IInv, EofEnds
<1>4. CASE WriterRecv
  <2>1. tx' \in Seq(Chunk) /\ remaining' \in Chunk /\ WriteEnds' /\ Outbound'
    BY <1>4, WriterRecvKeeps
  <2>2. writer' \in {"running", "done"}
    BY <1>0, <1>4 DEF WriterRecv, TypeOK
  <2>3. UNCHANGED <<inVars, accepted, ends, line, dropped, userVars>>
    BY <1>4 DEF WriterRecv
  <2>4. Inbound'
    BY <2>3, InboundKept DEF IInv, inVars
  <2>5. TypeOK'
    BY <1>0, <2>1, <2>2, <2>3 DEF TypeOK, inVars, userVars
  <2> QED
    BY <1>0, <2>1, <2>3, <2>4, <2>5 DEF IInv, EofEnds, userVars
<1>5. CASE WriterWrite
  <2>1. remaining' \in Chunk /\ line' \in Seq(Nat) /\ WriteEnds' /\ Outbound'
    BY <1>5, WriterWriteKeeps
  <2>2. UNCHANGED <<inVars, tx, writer, accepted, ends, dropped, userVars>>
    BY <1>5 DEF WriterWrite
  <2>3. Inbound'
    BY <2>2, InboundKept DEF IInv, inVars
  <2>4. TypeOK'
    BY <1>0, <2>1, <2>2 DEF TypeOK, inVars, userVars
  <2> QED
    BY <1>0, <2>1, <2>2, <2>3, <2>4 DEF IInv, EofEnds, userVars
<1>6. CASE WriterFails
  <2>1. remaining' \in Chunk /\ dropped' \subseteq 1..MaxOut /\ WriteEnds' /\ Outbound'
    BY <1>6, WriterFailsKeeps
  <2>2. UNCHANGED <<inVars, tx, writer, accepted, ends, line, userVars>>
    BY <1>6 DEF WriterFails
  <2>3. Inbound'
    BY <2>2, InboundKept DEF IInv, inVars
  <2>4. TypeOK'
    BY <1>0, <2>1, <2>2 DEF TypeOK, inVars, userVars
  <2> QED
    BY <1>0, <2>1, <2>2, <2>3, <2>4 DEF IInv, EofEnds, userVars
<1> QED
  BY <1>1, <1>2, <1>3, <1>4, <1>5, <1>6 DEF Thread

\* A step that reads: what it leaves alone besides the inbound side.
LEMMA ReadIInv ==
  ASSUME IInv, NEW room \in Nat \ {0}, PollRead(room),
         UNCHANGED <<arrived, taken, reader, outVars>>,
         skipped' \in Nat,
         mode' \in {"drain", "session", "probe drain", "first", "driver", "answer", "ended"},
         verdict' \in {"none", "eof", "opcode", "noise", "silent", "complete"},
         alive' \in BOOLEAN, verdict' = "eof" => mode' = "ended"
  PROVE  IInv'
<1>1. /\ rx' \in Seq(Chunk) /\ leftover' \in Chunk /\ got' \in Seq(Nat)
      /\ Inbound'
  BY PollReadNext
<1>2. WriteEnds' /\ Outbound'
  BY OutboundKept DEF IInv, outVars
<1>3. TypeOK
  BY DEF IInv
<1>4. TypeOK'
  BY <1>1, <1>3 DEF TypeOK, outVars
<1> QED
  BY <1>1, <1>2, <1>4 DEF IInv, EofEnds

\* A step that writes.
LEMMA WriteIInv ==
  ASSUME IInv, NEW k \in Nat \ {0}, PollWrite(k), UNCHANGED inVars,
         mode' \in {"drain", "session", "probe drain", "first", "driver", "answer", "ended"},
         verdict' \in {"none", "eof", "opcode", "noise", "silent", "complete"},
         alive' \in BOOLEAN, verdict' = "eof" => mode' = "ended"
  PROVE  IInv'
<1>1. /\ tx' \in Seq(Chunk) /\ accepted' \in 0..MaxOut /\ ends' \subseteq 1..MaxOut
      /\ WriteEnds' /\ Outbound'
  BY PollWriteQueues
<1>2. UNCHANGED <<remaining, writer, line, dropped>>
  BY DEF PollWrite
<1>3. Inbound'
  BY InboundKept DEF IInv, inVars
<1>4. TypeOK
  BY DEF IInv
<1>5. TypeOK'
  BY <1>1, <1>2, <1>4 DEF TypeOK, inVars
<1> QED
  BY <1>1, <1>3, <1>5 DEF IInv, EofEnds

\* A step that only decides what the program does next.
LEMMA DecideIInv ==
  ASSUME IInv, UNCHANGED <<inVars, outVars>>,
         mode' \in {"drain", "session", "probe drain", "first", "driver", "answer", "ended"},
         verdict' \in {"none", "eof", "opcode", "noise", "silent", "complete"},
         alive' \in BOOLEAN, verdict' = "eof" => mode' = "ended"
  PROVE  IInv'
<1>1. TypeOK
  BY DEF IInv
<1>2. TypeOK'
  BY <1>1 DEF TypeOK, inVars, outVars
<1>3. Inbound' /\ WriteEnds' /\ Outbound'
  BY InboundKept, OutboundKept DEF IInv, inVars, outVars
<1> QED
  BY <1>2, <1>3 DEF IInv, EofEnds

\* The programs keep the invariant.
LEMMA UserIInv ==
  ASSUME IInv, User
  PROVE  IInv'
<1>0. /\ TypeOK /\ EofEnds /\ skipped \in Nat /\ alive \in BOOLEAN
      /\ mode \in {"drain", "session", "probe drain", "first", "driver", "answer", "ended"}
      /\ verdict \in {"none", "eof", "opcode", "noise", "silent", "complete"}
      /\ verdict = "eof" => mode = "ended"
  BY DEF IInv, TypeOK, EofEnds
<1>1. CASE DrainSerial
  <2>1. DrainBuf \in Nat \ {0} /\ PollRead(DrainBuf) /\ UNCHANGED <<arrived, taken, reader, outVars, userVars>>
    BY <1>1, SerialAssumption DEF DrainSerial
  <2>2. got' \in Seq(Nat) /\ skipped' = Len(got')
    BY <1>1, <2>1, PollReadNext DEF DrainSerial
  <2>3. skipped' \in Nat
    BY <2>2
  <2> QED
    BY <1>0, <2>1, <2>3, ReadIInv DEF userVars
<1>2. CASE DrainEnds
  BY <1>0, <1>2, DecideIInv DEF DrainEnds
<1>3. CASE SessionReads
  <2>1. PICK room \in Rooms : PollRead(room)
    BY <1>3 DEF SessionReads
  <2>2. room \in Nat \ {0}
    BY SerialAssumption
  <2>3. UNCHANGED <<arrived, taken, reader, skipped, outVars, userVars>>
    BY <1>3 DEF SessionReads
  <2> QED
    BY <1>0, <2>1, <2>2, <2>3, ReadIInv DEF userVars
<1>4. CASE SessionWrites
  <2>1. PICK k \in WriteLens : PollWrite(k)
    BY <1>4 DEF SessionWrites
  <2>2. k \in Nat \ {0}
    BY SerialAssumption
  <2>3. UNCHANGED <<inVars, userVars>>
    BY <1>4 DEF SessionWrites
  <2> QED
    BY <1>0, <2>1, <2>2, <2>3, WriteIInv DEF userVars
<1>5. CASE UserEof
  BY <1>0, <1>5, DecideIInv DEF UserEof, Stop
<1>6. CASE ProbeFirst
  <2>1. 1 \in Nat \ {0} /\ PollRead(1) /\ UNCHANGED <<arrived, taken, reader, skipped, outVars>>
    BY <1>6 DEF ProbeFirst
  <2>2. CASE mode' = "driver" /\ UNCHANGED <<verdict, alive>>
    BY <1>0, <1>6, <2>1, <2>2, ReadIInv DEF ProbeFirst
  <2>3. CASE \E v \in {"opcode", "noise"} : Stop(v)
    BY <1>0, <2>1, <2>3, ReadIInv DEF Stop
  <2> QED
    BY <1>6, <2>2, <2>3 DEF ProbeFirst
<1>7. CASE ProbeTimeout
  BY <1>0, <1>7, DecideIInv DEF ProbeTimeout, Stop
<1>8. CASE ProbeDriver
  <2>1. 1 \in Nat \ {0} /\ PollRead(1)
    BY <1>8 DEF ProbeDriver
  <2>2. UNCHANGED <<arrived, taken, reader, skipped, outVars, verdict, alive>> /\ mode' = "answer" /\ mode = "driver"
    BY <1>8 DEF ProbeDriver
  <2> QED
    BY <1>0, <2>1, <2>2, ReadIInv
<1>9. CASE ProbeAnswers
  <2>1. 1 \in Nat \ {0} /\ PollWrite(1) /\ Stop("complete") /\ UNCHANGED inVars
    BY <1>9 DEF ProbeAnswers
  <2> QED
    BY <1>0, <2>1, WriteIInv DEF Stop
<1>10. CASE ProcessExits
  BY <1>0, <1>10, DecideIInv DEF ProcessExits
<1> QED
  BY <1>1, <1>2, <1>3, <1>4, <1>5, <1>6, <1>7, <1>8, <1>9, <1>10 DEF User

\* Every step keeps the invariant.
LEMMA StepIInv == IInv /\ [Next]_vars => IInv'
<1> SUFFICES ASSUME IInv, [Next]_vars PROVE IInv'
  OBVIOUS
<1>1. CASE LineDelivers \/ Thread
  BY <1>1, ThreadIInv
<1>2. CASE User
  BY <1>2, UserIInv
<1>3. CASE UNCHANGED vars
  <2>1. UNCHANGED <<inVars, outVars>> /\ UNCHANGED <<mode, verdict, alive>>
    BY <1>3 DEF vars, userVars
  <2>2. /\ mode \in {"drain", "session", "probe drain", "first", "driver", "answer", "ended"}
        /\ verdict \in {"none", "eof", "opcode", "noise", "silent", "complete"}
        /\ alive \in BOOLEAN /\ (verdict = "eof" => mode = "ended")
    BY DEF IInv, TypeOK, EofEnds
  <2> QED
    BY <2>1, <2>2, DecideIInv
<1> QED
  BY <1>1, <1>2, <1>3 DEF Next

\* The inductive invariant holds of every port.
THEOREM SerialInvariant == Spec => []IInv
<1> QED
  BY InitIInv, StepIInv, PTL DEF Spec

\* Chunks and counters of the serial transport are well formed in every
\* reachable state: no chunk names a byte that was never read or accepted.
THEOREM SerialTypes == Spec => []TypeOK
<1>1. IInv => TypeOK
  BY DEF IInv
<1> QED
  BY <1>1, SerialInvariant, PTL

----------------------------------------------------------------------------
(* The refinement *)

\* A thread's step is a step of the byte stream, or none.
LEMMA ThreadRefines ==
  ASSUME IInv, LineDelivers \/ Thread
  PROVE  [Stream!Next]_(Stream!vars)
<1>1. CASE LineDelivers
  BY <1>1 DEF LineDelivers, outVars, userVars, Stream!vars
<1>2. CASE ReaderLoop
  <2>1. UNCHANGED <<got, accepted, ends, line, verdict>>
    BY <1>2 DEF ReaderLoop, outVars, userVars
  <2>2. reader = "running"
    BY <1>2 DEF ReaderLoop
  <2>3. CASE UNCHANGED taken /\ reader' = "done"
    BY <2>1, <2>3 DEF Stream!Break, Stream!Next
  <2>4. CASE UNCHANGED reader
    <3>1. PICK n \in 1..ReadBuf : taken' = taken + n
      BY <1>2, <2>2, <2>4 DEF ReaderLoop
    <3>2. taken \in Nat /\ n \in Nat \ {0}
      <4>1. arrived \in 0..MaxIn /\ taken \in 0..arrived
        BY DEF IInv, TypeOK
      <4> QED
        BY <4>1, SerialAssumption
    <3>3. taken' \in Nat /\ taken' > taken
      BY <3>1, <3>2
    <3> QED
      BY <2>1, <2>2, <2>4, <3>3 DEF Stream!Receive, Stream!Next
  <2> QED
    BY <1>2, <2>3, <2>4 DEF ReaderLoop
<1>3. CASE ReaderFails
  BY <1>3 DEF ReaderFails, outVars, userVars, Stream!Break, Stream!Next
<1>4. CASE WriterRecv
  BY <1>4 DEF WriterRecv, inVars, userVars, Stream!vars
<1>5. CASE WriterWrite
  BY <1>5, WriterWriteKeeps DEF Stream!Next
<1>6. CASE WriterFails
  BY <1>6 DEF WriterFails, inVars, userVars, Stream!vars
<1> QED
  BY <1>1, <1>2, <1>3, <1>4, <1>5, <1>6 DEF Thread

\* A step that reads is the stream's Read.
LEMMA ReadRefines ==
  ASSUME IInv, NEW room \in Nat \ {0}, PollRead(room),
         UNCHANGED <<taken, reader, outVars>>, UNCHANGED (verdict = "eof")
  PROVE  Stream!Read
<1>1. \E k \in 1..(taken - Len(got)) : got' = got \o [i \in 1..k |-> Len(got) + i]
  BY PollReadNext
<1>2. UNCHANGED <<taken, reader = "done", verdict = "eof", accepted, ends, line>>
  BY DEF outVars
<1> QED
  BY <1>1, <1>2 DEF Stream!Read

\* A step that writes is the stream's Write.
LEMMA WriteRefines ==
  ASSUME IInv, NEW k \in Nat \ {0}, PollWrite(k), UNCHANGED inVars,
         verdict # "eof", verdict' # "eof"
  PROVE  Stream!Write
<1>1. accepted \in Nat /\ accepted' = accepted + k /\ ends' = ends \cup {accepted'}
  BY OutTypes DEF PollWrite
<1>2. accepted' \in Nat /\ accepted' > accepted
  BY <1>1
<1>3. UNCHANGED <<taken, reader = "done", got, verdict = "eof", line>>
  BY DEF PollWrite, inVars
<1> QED
  BY <1>1, <1>2, <1>3 DEF Stream!Write

\* poll_read reports the end of the stream only behind the last byte.
LEMMA EofBehindAll ==
  ASSUME IInv, AtEof
  PROVE  Len(got) = taken
<1>1. leftover.lo \in Nat /\ leftover.hi \in Nat /\ leftover \in Chunk
  BY DEF IInv, TypeOK, Chunk
<1>2. ~(leftover.lo <= leftover.hi)
  BY <1>1 DEF AtEof, Size
<1>3. Len(got) = Ahead(rx, taken)
  BY <1>2 DEF IInv, Inbound
<1> QED
  BY <1>3 DEF AtEof, Ahead

\* A program's step is a step of the byte stream, or none.
LEMMA UserRefines ==
  ASSUME IInv, User
  PROVE  [Stream!Next]_(Stream!vars)
<1>0. mode # "ended" => verdict # "eof"
  BY DEF IInv, EofEnds
<1>1. CASE DrainSerial
  <2>1. DrainBuf \in Nat \ {0}
    BY SerialAssumption
  <2>2. PollRead(DrainBuf) /\ UNCHANGED <<taken, reader, outVars>> /\ UNCHANGED (verdict = "eof")
    BY <1>1 DEF DrainSerial, userVars
  <2> QED
    BY <2>1, <2>2, ReadRefines DEF Stream!Next
<1>2. CASE DrainEnds
  BY <1>2 DEF DrainEnds, inVars, outVars, Stream!vars
<1>3. CASE SessionReads
  <2>1. PICK room \in Rooms : PollRead(room)
    BY <1>3 DEF SessionReads
  <2>2. room \in Nat \ {0}
    BY SerialAssumption
  <2>3. UNCHANGED <<taken, reader, outVars>> /\ UNCHANGED (verdict = "eof")
    BY <1>3 DEF SessionReads, userVars
  <2> QED
    BY <2>1, <2>2, <2>3, ReadRefines DEF Stream!Next
<1>4. CASE SessionWrites
  <2>1. PICK k \in WriteLens : PollWrite(k)
    BY <1>4 DEF SessionWrites
  <2>2. k \in Nat \ {0}
    BY SerialAssumption
  <2>3. UNCHANGED inVars /\ verdict # "eof" /\ verdict' # "eof"
    BY <1>0, <1>4 DEF SessionWrites, userVars
  <2> QED
    BY <2>1, <2>2, <2>3, WriteRefines DEF Stream!Next
<1>5. CASE UserEof
  <2>1. AtEof /\ verdict' = "eof" /\ UNCHANGED <<inVars, outVars>>
    BY <1>5 DEF UserEof, Stop
  <2>2. Len(got) = taken /\ reader = "done"
    BY <2>1, EofBehindAll DEF AtEof
  <2> QED
    BY <2>1, <2>2 DEF Stream!Eof, Stream!Next, inVars, outVars
<1>6. CASE ProbeFirst
  <2>1. 1 \in Nat \ {0} /\ PollRead(1) /\ UNCHANGED <<taken, reader, outVars>> /\ verdict # "eof"
    BY <1>0, <1>6 DEF ProbeFirst
  <2>2. verdict' # "eof"
    BY <1>6, <2>1 DEF ProbeFirst, Stop
  <2> QED
    BY <2>1, <2>2, ReadRefines DEF Stream!Next
<1>7. CASE ProbeTimeout
  <2>1. verdict # "eof" /\ verdict' # "eof" /\ UNCHANGED <<inVars, outVars>>
    BY <1>0, <1>7 DEF ProbeTimeout, Stop
  <2> QED
    BY <2>1 DEF inVars, outVars, Stream!vars
<1>8. CASE ProbeDriver
  <2>1. 1 \in Nat \ {0} /\ PollRead(1) /\ UNCHANGED <<taken, reader, outVars>> /\ UNCHANGED (verdict = "eof")
    BY <1>8 DEF ProbeDriver
  <2> QED
    BY <2>1, ReadRefines DEF Stream!Next
<1>9. CASE ProbeAnswers
  <2>1. /\ 1 \in Nat \ {0} /\ PollWrite(1) /\ UNCHANGED inVars
        /\ verdict # "eof" /\ verdict' # "eof"
    BY <1>0, <1>9 DEF ProbeAnswers, Stop
  <2> QED
    BY <2>1, WriteRefines DEF Stream!Next
<1>10. CASE ProcessExits
  BY <1>10 DEF ProcessExits, inVars, outVars, Stream!vars
<1> QED
  BY <1>1, <1>2, <1>3, <1>4, <1>5, <1>6, <1>7, <1>8, <1>9, <1>10 DEF User

\* BlockingSerial and the programs on top of it are a byte stream: whatever
\* the sizes of reads, buffers and writes, and however the two threads
\* interleave with the program, the guest's bytes are delivered in order and
\* once, the end is reported behind the last one, and a failing line costs the
\* guest only the end of what one write_all wrote.
THEOREM SerialIsByteStream == Spec => IsByteStream
<1>1. Init => Stream!Init
  BY DEF Init, Stream!Init
<1>2. IInv /\ [Next]_vars => [Stream!Next]_(Stream!vars)
  <2> SUFFICES ASSUME IInv, [Next]_vars PROVE [Stream!Next]_(Stream!vars)
    OBVIOUS
  <2>1. CASE UNCHANGED vars
    BY <2>1 DEF vars, inVars, outVars, userVars, Stream!vars
  <2> QED
    BY <2>1, ThreadRefines, UserRefines DEF Next
<1> QED
  BY <1>1, <1>2, SerialInvariant, PTL DEF Spec, IsByteStream, Stream!Spec

----------------------------------------------------------------------------
(* Where the written bytes are *)

\* A byte on the line is there at one index only.
LEMMA OnceOnTheLine ==
  ASSUME IInv, NEW n \in Nat
  PROVE  /\ (\E i \in 1..Len(line) : line[i] = n) =>
              Cardinality({i \in DOMAIN line : line[i] = n}) = 1
         /\ ~(\E i \in 1..Len(line) : line[i] = n) =>
              Cardinality({i \in DOMAIN line : line[i] = n}) = 0
<1>1. line \in Seq(Nat) /\ Len(line) \in Nat
  BY OutTypes
<1>2. DOMAIN line = 1..Len(line)
  BY <1>1
<1>3. \A i, j \in 1..Len(line) : i < j => line[i] < line[j]
  BY DEF IInv, Outbound
<1>4. ASSUME NEW i \in 1..Len(line), line[i] = n
      PROVE  {j \in DOMAIN line : line[j] = n} = {i}
  <2>1. ASSUME NEW j \in 1..Len(line), line[j] = n PROVE j = i
    <3>1. i < j \/ j < i \/ i = j
      OBVIOUS
    <3>2. ~(line[i] < line[j]) /\ ~(line[j] < line[i])
      BY <1>4, <2>1
    <3> QED
      BY <1>3, <3>1, <3>2
  <2> QED
    BY <1>2, <1>4, <2>1
<1>5. ~(\E i \in 1..Len(line) : line[i] = n) => {i \in DOMAIN line : line[i] = n} = {}
  BY <1>2
<1> QED
  BY <1>4, <1>5, FS_Singleton, FS_EmptySet

\* A byte queued in tx is in one chunk only.
LEMMA OnceQueued ==
  ASSUME IInv, NEW n \in 1..accepted
  PROVE  /\ n > Ahead(tx, accepted) =>
              Cardinality({i \in DOMAIN tx : n \in tx[i].lo..tx[i].hi}) = 1
         /\ n <= Ahead(tx, accepted) =>
              Cardinality({i \in DOMAIN tx : n \in tx[i].lo..tx[i].hi}) = 0
<1>1. /\ tx \in Seq(Chunk) /\ accepted \in Nat /\ Len(tx) \in Nat
      /\ Ahead(tx, accepted) \in 0..accepted /\ n \in Nat
  BY OutTypes
<1>2. DOMAIN tx = 1..Len(tx)
  BY <1>1
<1>3. /\ \A i \in 1..Len(tx) : tx[i].lo <= tx[i].hi
      /\ \A i, j \in 1..Len(tx) : i < j => tx[i].hi < tx[j].lo
      /\ \A m \in (Ahead(tx, accepted) + 1)..accepted :
           \E i \in 1..Len(tx) : m \in tx[i].lo..tx[i].hi
  BY DEF IInv, Outbound, Queue
<1>4. \A i \in 1..Len(tx) : tx[i].lo \in Nat /\ tx[i].hi \in Nat
  <2>1. \A i \in 1..Len(tx) : tx[i] \in Chunk
    BY <1>1
  <2> QED
    BY <2>1 DEF Chunk
<1> DEFINE In == {i \in DOMAIN tx : n \in tx[i].lo..tx[i].hi}
<1>5. CASE n > Ahead(tx, accepted)
  <2>1. n \in (Ahead(tx, accepted) + 1)..accepted
    BY <1>1, <1>5
  <2>2. PICK i \in 1..Len(tx) : n \in tx[i].lo..tx[i].hi
    BY <1>3, <2>1
  <2>3. ASSUME NEW j \in 1..Len(tx), n \in tx[j].lo..tx[j].hi PROVE j = i
    <3>1. i < j \/ j < i \/ i = j
      OBVIOUS
    <3>2. ~(tx[i].hi < tx[j].lo) /\ ~(tx[j].hi < tx[i].lo)
      BY <1>4, <2>2, <2>3
    <3> QED
      BY <1>3, <3>1, <3>2
  <2>4. In = {i}
    BY <1>2, <2>2, <2>3
  <2>5. Cardinality(In) = 1
    BY <2>4, FS_Singleton
  <2>6. ~(n <= Ahead(tx, accepted))
    BY <1>1, <1>5
  <2> QED
    BY <2>5, <2>6
<1>6. CASE n <= Ahead(tx, accepted)
  <2>1. ASSUME NEW i \in 1..Len(tx) PROVE n \notin tx[i].lo..tx[i].hi
    <3>1. 1 \in 1..Len(tx) /\ tx # <<>> /\ (i = 1 \/ 1 < i)
      BY <1>1
    <3>2. Ahead(tx, accepted) = tx[1].lo - 1
      BY <3>1 DEF Ahead
    <3>3. tx[1].lo <= tx[i].lo
      <4>1. CASE i = 1
        BY <1>4, <4>1
      <4>2. CASE 1 < i
        <5>1. tx[1].lo <= tx[1].hi /\ tx[1].hi < tx[i].lo
          BY <1>3, <3>1, <4>2
        <5> QED
          BY <1>4, <3>1, <5>1
      <4> QED
        BY <3>1, <4>1, <4>2
    <3>4. tx[1].lo \in Nat /\ tx[i].lo \in Nat /\ tx[i].hi \in Nat
      BY <1>4, <3>1
    <3> QED
      BY <1>1, <1>6, <3>2, <3>3, <3>4
  <2>2. In = {}
    BY <1>2, <2>1
  <2>3. Cardinality(In) = 0
    BY <2>2, FS_EmptySet
  <2>4. ~(n > Ahead(tx, accepted))
    BY <1>1, <1>6
  <2> QED
    BY <2>3, <2>4
<1> QED
  BY <1>1, <1>5, <1>6

\* The invariant accounts for every byte.
LEMMA IInvAccounts == IInv => Accounted
<1> SUFFICES ASSUME IInv, NEW n \in 1..accepted PROVE Places(n) = 1
  BY DEF Accounted
<1> DEFINE onLine == Cardinality({i \in DOMAIN line : line[i] = n})
           queued == Cardinality({i \in DOMAIN tx : n \in tx[i].lo..tx[i].hi})
           drop   == IF n \in dropped THEN 1 ELSE 0
           cur    == IF n \in remaining.lo..remaining.hi THEN 1 ELSE 0
<1>1. /\ accepted \in Nat /\ n \in Nat \ {0} /\ Ahead(tx, accepted) \in 0..accepted
      /\ remaining.lo \in Nat \ {0} /\ remaining.hi \in Nat /\ Done \in 0..accepted
  BY OutTypes
<1>2. /\ \A i \in 1..Len(line) : line[i] \in 1..Done /\ line[i] \notin dropped
      /\ \A m \in dropped : m \in 1..Done
      /\ \A m \in 1..Done : m \in dropped \/ \E i \in 1..Len(line) : line[i] = m
  BY DEF IInv, Outbound
<1>3. Places(n) = onLine + drop + cur + queued
  BY DEF Places
<1>4. remaining = Nothing => Done = Ahead(tx, accepted) /\ remaining.lo = 1 /\ remaining.hi = 0
  BY DEF Done, Nothing
<1>5. remaining # Nothing => /\ Done = remaining.lo - 1
                             /\ remaining.lo <= remaining.hi
                             /\ remaining.hi = Ahead(tx, accepted)
  BY DEF Done, IInv, Outbound
<1>6. CASE n <= Done
  <2>1. cur = 0
    BY <1>1, <1>4, <1>5, <1>6
  <2>2. n <= Ahead(tx, accepted)
    BY <1>1, <1>4, <1>5, <1>6
  <2>3. queued = 0
    BY <2>2, OnceQueued
  <2>4. n \in 1..Done
    BY <1>1, <1>6
  <2>5. CASE n \in dropped
    <3>1. ~(\E i \in 1..Len(line) : line[i] = n)
      BY <1>2, <2>5
    <3>2. onLine = 0
      BY <1>1, <3>1, OnceOnTheLine
    <3> QED
      BY <1>3, <2>1, <2>3, <2>5, <3>2
  <2>6. CASE n \notin dropped
    <3>1. \E i \in 1..Len(line) : line[i] = n
      BY <1>2, <2>4, <2>6
    <3>2. onLine = 1
      BY <1>1, <3>1, OnceOnTheLine
    <3> QED
      BY <1>3, <2>1, <2>3, <2>6, <3>2
  <2> QED
    BY <2>5, <2>6
<1>7. CASE n > Done
  <2>1. n \notin 1..Done
    BY <1>1, <1>7
  <2>2. drop = 0
    BY <1>2, <2>1
  <2>3. ~(\E i \in 1..Len(line) : line[i] = n)
    BY <1>2, <2>1
  <2>4. onLine = 0
    BY <1>1, <2>3, OnceOnTheLine
  <2>5. CASE n <= Ahead(tx, accepted)
    <3>1. queued = 0
      BY <2>5, OnceQueued
    <3>2. cur = 1
      BY <1>1, <1>4, <1>5, <1>7, <2>5
    <3> QED
      BY <1>3, <2>2, <2>4, <3>1, <3>2
  <2>6. CASE n > Ahead(tx, accepted)
    <3>1. queued = 1
      BY <2>6, OnceQueued
    <3>2. cur = 0
      BY <1>1, <1>4, <1>5, <2>6
    <3> QED
      BY <1>3, <2>2, <2>4, <3>1, <3>2
  <2> QED
    BY <1>1, <2>5, <2>6
<1> QED
  BY <1>1, <1>6, <1>7

\* Every byte that poll_write has accepted is queued, being written, on the
\* line or dropped: exactly one of them, exactly once.
THEOREM WritesAccounted == Spec => []Accounted
<1> QED
  BY IInvAccounts, SerialInvariant, PTL
=============================================================================
