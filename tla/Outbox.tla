------------------------------- MODULE Outbox -------------------------------
(***************************************************************************)
(* The host-to-guest direction of the virtual serial channels of           *)
(* drivewire-server: the inbound task of every attached client             *)
(* (handle_attach) queues what the client types on the channel's outbox,   *)
(* and guests poll it out with SERREAD and SERREADM over their own         *)
(* transport, each served by one Server::run task.                         *)
(*                                                                         *)
(* handle_serread keeps the outbox mutex until write_all has returned;     *)
(* handle_serreadm releases it before it writes. The guest is the polling  *)
(* loop of echo-guest.rs, which decodes replies the way a DW4 driver does. *)
(* A byte is the client that typed it and its number in the order typed.   *)
(***************************************************************************)
EXTENDS Integers, Sequences, FiniteSets, Functions

CONSTANTS
  Guests,           \* guest connections, each with its Server::run task
  Clients,          \* attach connections, each one call of handle_attach
  NoGuest,          \* "no guest": the outbox mutex is free
  NoClient,         \* the author of a padding byte
  VserialChannels,  \* VSERIAL_CHANNELS (16)
  ClientChannels,   \* client -> channel bytes it may attach with
  MaxCount,         \* largest count SERREAD announces (255)
  MaxTyped          \* bound: bytes the clients type in all

Channels == 0..(VserialChannels - 1)

ASSUME OutboxAssumption ==
  /\ NoGuest \notin Guests
  /\ NoClient \notin Clients
  /\ VserialChannels \in Nat
  /\ ClientChannels \in [Clients -> SUBSET Nat]
  /\ MaxCount \in Nat \ {0}
  /\ MaxTyped \in Nat

VARIABLES
  outbox,   \* vserial_outbox: channel -> queued bytes, oldest first
  holder,   \* session that holds the outbox mutex across an await
  chan,     \* client -> channel byte it sent when it connected
  taken,    \* client -> bytes its inbound task has read from the socket
  inbuf,    \* client -> bytes its inbound task has read and not yet queued
  inbound,  \* client -> state of its inbound task
  link,     \* guest -> state of its transport
  step,     \* guest -> where the exchange with its session is
  ask,      \* guest -> the request it has outstanding
  reply,    \* guest -> the answer its session is writing or has written
  rcvd,     \* guest -> bytes it has received, with the channel it saw
  lost      \* history: bytes that left the outbox and a dead link dropped

clientVars == <<chan, taken, inbuf, inbound>>
guestVars  == <<link, step, ask, reply, rcvd>>
vars       == <<outbox, holder, clientVars, guestVars, lost>>

----------------------------------------------------------------------------
Byte  == [by : Clients \cup {NoClient}, n : Nat]
Pad   == [by |-> NoClient, n |-> 0]

Ask   == [op : {"none", "SERREAD", "SERREADM"}, ch : Nat, count : Nat]
Reply == [code : Nat, count : Nat, data : Seq(Byte)]

NoAsk   == [op |-> "none", ch |-> 0, count |-> 0]
NoReply == [code |-> 0, count |-> 0, data |-> <<>>]

\* Channels with bytes for the guest, and the one handle_serread's scan
\* stops at.
Ready   == {c \in Channels : outbox[c] # <<>>}
First   == CHOOSE c \in Ready : \A d \in Ready : c <= d

Init ==
  /\ outbox  = [c \in Channels |-> <<>>]
  /\ holder  = NoGuest
  /\ chan    = [a \in Clients |-> 0]
  /\ taken   = [a \in Clients |-> 0]
  /\ inbuf   = [a \in Clients |-> <<>>]
  /\ inbound = [a \in Clients |-> "none"]
  /\ link    = [g \in Guests |-> "none"]
  /\ step    = [g \in Guests |-> "none"]
  /\ ask     = [g \in Guests |-> NoAsk]
  /\ reply   = [g \in Guests |-> NoReply]
  /\ rcvd    = [g \in Guests |-> <<>>]
  /\ lost    = {}

----------------------------------------------------------------------------
(* Attached clients *)

\* run_attach_listener accepts a client and its channel byte; handle_attach
\* spawns the inbound task.
HandleAttach(a) ==
  /\ inbound[a] = "none"
  /\ \E ch \in ClientChannels[a] : chan' = [chan EXCEPT ![a] = ch]
  /\ inbound' = [inbound EXCEPT ![a] = "read"]
  /\ UNCHANGED <<outbox, holder, taken, inbuf, guestVars, lost>>

\* reader.read returns what the client has typed since the last read.
ReadChunk(a) ==
  /\ inbound[a] = "read"
  /\ inbuf[a] = <<>>
  /\ \E k \in 1..MaxTyped :
       /\ inbuf' = [inbuf EXCEPT ![a] = [i \in 1..k |-> [by |-> a, n |-> taken[a] + i]]]
       /\ taken' = [taken EXCEPT ![a] = @ + k]
  /\ SumFunction(taken') <= MaxTyped
  /\ UNCHANGED <<outbox, holder, chan, inbound, guestVars, lost>>

\* The inbound task reads end-of-file, or an error, and ends.
InboundEof(a) ==
  /\ inbound[a] = "read"
  /\ inbuf[a] = <<>>
  /\ inbound' = [inbound EXCEPT ![a] = "done"]
  /\ UNCHANGED <<outbox, holder, chan, taken, inbuf, guestVars, lost>>

\* Faulty variant of SendToVserial: queues the chunk at the front.
SendToFront(a) ==
  /\ inbuf[a] # <<>>
  /\ chan[a] \in Channels /\ holder = NoGuest
  /\ outbox' = [outbox EXCEPT ![chan[a]] = inbuf[a] \o @]
  /\ inbuf' = [inbuf EXCEPT ![a] = <<>>]
  /\ UNCHANGED <<holder, chan, taken, inbound, guestVars, lost>>

\* send_to_vserial: queue the chunk under the outbox mutex. An out-of-range
\* channel drops it without taking the mutex.
SendToVserial(a) ==
  /\ inbuf[a] # <<>>
  /\ \/ /\ chan[a] \in Channels
        /\ holder = NoGuest
        /\ outbox' = [outbox EXCEPT ![chan[a]] = @ \o inbuf[a]]
     \/ /\ chan[a] \notin Channels
        /\ UNCHANGED outbox
  /\ inbuf' = [inbuf EXCEPT ![a] = <<>>]
  /\ UNCHANGED <<holder, chan, taken, inbound, guestVars, lost>>

----------------------------------------------------------------------------
(* Guests and their sessions *)

Connect(g) ==
  /\ link[g] = "none"
  /\ link' = [link EXCEPT ![g] = "up"]
  /\ step' = [step EXCEPT ![g] = "idle"]
  /\ UNCHANGED <<outbox, holder, clientVars, ask, reply, rcvd, lost>>

\* The guest powers off, resets its link or is unplugged, at any moment.
HangUp(g) ==
  /\ link[g] = "up"
  /\ link' = [link EXCEPT ![g] = "down"]
  /\ UNCHANGED <<outbox, holder, clientVars, step, ask, reply, rcvd, lost>>

\* The guest sends OP_SERREAD.
GuestPoll(g) ==
  /\ link[g] = "up"
  /\ step[g] = "idle"
  /\ ask' = [ask EXCEPT ![g] = [op |-> "SERREAD", ch |-> 0, count |-> 0]]
  /\ step' = [step EXCEPT ![g] = "asked"]
  /\ UNCHANGED <<outbox, holder, clientVars, link, reply, rcvd, lost>>

\* The reply handle_serread sends for channel c, whose queue is not empty.
SerReadReply(c) ==
  IF Len(outbox[c]) < 3
    THEN [code |-> 1 + c, count |-> 0, data |-> <<Head(outbox[c])>>]
    ELSE [code |-> 17 + c, data |-> <<>>,
          count |-> IF Len(outbox[c]) < MaxCount THEN Len(outbox[c]) ELSE MaxCount]

\* Faulty variants of HandleSerRead: the byte is left in the queue, and a
\* multi-byte reply takes the bytes it announces.
PeekSerRead(g) ==
  /\ step[g] = "asked"
  /\ ask[g].op = "SERREAD"
  /\ holder = NoGuest
  /\ holder' = g
  /\ step' = [step EXCEPT ![g] = "writing"]
  /\ reply' = [reply EXCEPT ![g] = IF Ready = {} THEN NoReply ELSE SerReadReply(First)]
  /\ UNCHANGED <<outbox, clientVars, link, ask, rcvd, lost>>

StaleSerRead(g) ==
  /\ step[g] = "asked"
  /\ ask[g].op = "SERREAD"
  /\ holder = NoGuest
  /\ holder' = g
  /\ step' = [step EXCEPT ![g] = "writing"]
  /\ \/ /\ Ready = {}
        /\ reply' = [reply EXCEPT ![g] = NoReply]
        /\ UNCHANGED outbox
     \/ /\ Ready # {}
        /\ reply' = [reply EXCEPT ![g] = SerReadReply(First)]
        /\ outbox' = [outbox EXCEPT ![First] =
             SubSeq(@, 1 + (IF Len(@) < 3 THEN 1 ELSE SerReadReply(First).count), Len(@))]
  /\ UNCHANGED <<clientVars, link, ask, rcvd, lost>>

\* handle_serread up to the write: serve the lowest channel that has bytes,
\* one byte inline if it has one or two, else the count for a SERREADM.
HandleSerRead(g) ==
  /\ step[g] = "asked"
  /\ ask[g].op = "SERREAD"
  /\ holder = NoGuest
  /\ holder' = g
  /\ step' = [step EXCEPT ![g] = "writing"]
  /\ \/ /\ Ready = {}
        /\ reply' = [reply EXCEPT ![g] = NoReply]
        /\ UNCHANGED outbox
     \/ /\ Ready # {}
        /\ reply' = [reply EXCEPT ![g] = SerReadReply(First)]
        /\ outbox' = [outbox EXCEPT ![First] = IF Len(@) < 3 THEN Tail(@) ELSE @]
  /\ UNCHANGED <<clientVars, link, ask, rcvd, lost>>

\* handle_serreadm up to the write: take count bytes, padded with zeros; an
\* unknown channel is treated as empty. The mutex is released before the
\* write.
HandleSerReadM(g) ==
  LET ch    == ask[g].ch
      count == ask[g].count
      q     == IF ch \in Channels THEN outbox[ch] ELSE <<>>
  IN
  /\ step[g] = "asked"
  /\ ask[g].op = "SERREADM"
  /\ ch \in Channels => holder = NoGuest
  /\ reply' = [reply EXCEPT ![g] =
                 [code |-> 0, count |-> 0,
                  data |-> [i \in 1..count |-> IF i <= Len(q) THEN q[i] ELSE Pad]]]
  /\ outbox' = [outbox EXCEPT ![ch] = SubSeq(q, count + 1, Len(q))]
  /\ step' = [step EXCEPT ![g] = "writing"]
  /\ UNCHANGED <<holder, clientVars, link, ask, rcvd, lost>>

\* Faulty variant of ReplyWritten: the mutex is kept.
ReplyWrittenLeak(g) ==
  /\ step[g] = "writing"
  /\ link[g] = "up"
  /\ step' = [step EXCEPT ![g] = "sent"]
  /\ UNCHANGED <<outbox, holder, clientVars, link, ask, reply, rcvd, lost>>

\* write_all returns and, with the handler, the mutex guard is dropped.
ReplyWritten(g) ==
  /\ step[g] = "writing"
  /\ link[g] = "up"
  /\ step' = [step EXCEPT ![g] = "sent"]
  /\ holder' = IF holder = g THEN NoGuest ELSE holder
  /\ UNCHANGED <<outbox, clientVars, link, ask, reply, rcvd, lost>>

\* The session ends with an error: reading the next opcode or writing the
\* reply fails on a dead link. Bytes it has taken from the outbox are gone.
SessionEnds(g) ==
  /\ link[g] = "down"
  /\ step[g] \in {"idle", "asked", "writing", "sent"}
  /\ step' = [step EXCEPT ![g] = "ended"]
  /\ holder' = IF holder = g THEN NoGuest ELSE holder
  /\ lost' = lost \cup {reply[g].data[i] : i \in DOMAIN reply[g].data}
  /\ reply' = [reply EXCEPT ![g] = NoReply]
  /\ UNCHANGED <<outbox, clientVars, link, ask, rcvd>>

\* What the guest makes of the bytes of a reply that belong to channel ch.
Seen(ch, data) == [i \in DOMAIN data |-> [ch |-> ch, by |-> data[i].by, n |-> data[i].n]]

\* Faulty variant of GuestReadSerRead: one base for both kinds of reply.
GuestReadSerReadBase(g) ==
  LET code == reply[g].code IN
  /\ link[g] = "up"
  /\ step[g] = "sent"
  /\ ask[g].op = "SERREAD"
  /\ code \in 1..15
  /\ rcvd' = [rcvd EXCEPT ![g] = @ \o Seen(code - 17, reply[g].data)]
  /\ step' = [step EXCEPT ![g] = "idle"]
  /\ ask' = [ask EXCEPT ![g] = NoAsk]
  /\ reply' = [reply EXCEPT ![g] = NoReply]
  /\ UNCHANGED <<outbox, holder, clientVars, link, lost>>

\* The guest reads the two bytes of a SERREAD reply. A code it does not know,
\* 0x00 (nothing ready) and 0x10 ("channel closing") end the exchange.
GuestReadSerRead(g) ==
  LET code == reply[g].code IN
  /\ link[g] = "up"
  /\ step[g] = "sent"
  /\ ask[g].op = "SERREAD"
  /\ \/ /\ code \notin 1..15 \cup 17..31
        /\ step' = [step EXCEPT ![g] = "idle"]
        /\ ask' = [ask EXCEPT ![g] = NoAsk]
        /\ UNCHANGED rcvd
     \/ /\ code \in 1..15
        /\ rcvd' = [rcvd EXCEPT ![g] = @ \o Seen(code - 1, reply[g].data)]
        /\ step' = [step EXCEPT ![g] = "idle"]
        /\ ask' = [ask EXCEPT ![g] = NoAsk]
     \/ /\ code \in 17..31
        /\ ask' = [ask EXCEPT ![g] = [op |-> "SERREADM", ch |-> code - 17,
                                      count |-> reply[g].count]]
        /\ step' = [step EXCEPT ![g] = "asked"]
        /\ UNCHANGED rcvd
  /\ reply' = [reply EXCEPT ![g] = NoReply]
  /\ UNCHANGED <<outbox, holder, clientVars, link, lost>>

\* The guest reads the bytes of a SERREADM reply.
GuestReadSerReadM(g) ==
  /\ link[g] = "up"
  /\ step[g] = "sent"
  /\ ask[g].op = "SERREADM"
  /\ rcvd' = [rcvd EXCEPT ![g] = @ \o Seen(ask[g].ch, reply[g].data)]
  /\ step' = [step EXCEPT ![g] = "idle"]
  /\ ask' = [ask EXCEPT ![g] = NoAsk]
  /\ reply' = [reply EXCEPT ![g] = NoReply]
  /\ UNCHANGED <<outbox, holder, clientVars, link, lost>>

----------------------------------------------------------------------------
Client(a) ==
  \/ HandleAttach(a)
  \/ ReadChunk(a)
  \/ SendToVserial(a)
  \/ InboundEof(a)

Guest(g) ==
  \/ Connect(g)
  \/ HangUp(g)
  \/ GuestPoll(g)
  \/ GuestReadSerRead(g)
  \/ GuestReadSerReadM(g)

Session(g) ==
  \/ HandleSerRead(g)
  \/ HandleSerReadM(g)
  \/ ReplyWritten(g)
  \/ SessionEnds(g)

Next ==
  \/ \E a \in Clients : Client(a)
  \/ \E g \in Guests : Guest(g) \/ Session(g)

Spec == Init /\ [][Next]_vars

\* Ready tasks are polled (weak fairness), the mutex is FIFO (strong fairness
\* for the steps that take it), and a connected guest keeps polling and
\* reading, as echo-guest does. Nothing obliges a client or a guest to come,
\* type or hang up.
Fairness ==
  /\ \A a \in Clients : SF_vars(SendToVserial(a))
  /\ \A g \in Guests :
       /\ SF_vars(HandleSerRead(g) \/ HandleSerReadM(g))
       /\ WF_vars(\/ GuestPoll(g) \/ GuestReadSerRead(g) \/ GuestReadSerReadM(g)
                  \/ ReplyWritten(g) \/ SessionEnds(g))

FairSpec == Spec /\ Fairness

----------------------------------------------------------------------------
(* Properties *)

Inbounds == {"none", "read", "done"}
Links    == {"none", "up", "down"}
Steps    == {"none", "idle", "asked", "writing", "sent", "ended"}

\* The outbox, the mutex and the exchange of every guest are well formed; in
\* particular a guest only ever sees a channel number it can have.
TypeOK ==
  /\ outbox  \in [Channels -> Seq(Byte)]
  /\ holder  \in Guests \cup {NoGuest}
  /\ chan    \in [Clients -> Nat]
  /\ taken   \in [Clients -> Nat]
  /\ inbuf   \in [Clients -> Seq(Byte)]
  /\ inbound \in [Clients -> Inbounds]
  /\ link    \in [Guests -> Links]
  /\ step    \in [Guests -> Steps]
  /\ ask     \in [Guests -> Ask]
  /\ reply   \in [Guests -> Reply]
  /\ rcvd    \in [Guests -> Seq([ch : Nat, by : Clients \cup {NoClient}, n : Nat])]
  /\ lost    \subseteq Byte

\* How often byte n of client a is in the queue q.
Times(q, a, n) == Cardinality({i \in DOMAIN q : q[i].by = a /\ q[i].n = n})

\* How often byte n of client a is on its way to a guest, and how often a
\* guest has received it on the channel the client is attached to.
TimesInReply(a, n) ==
  Cardinality(UNION {{<<g, i>> : i \in {i \in DOMAIN reply[g].data :
     reply[g].data[i] = [by |-> a, n |-> n]}} : g \in Guests})

TimesReceived(a, n) ==
  Cardinality(UNION {{<<g, i>> : i \in {i \in DOMAIN rcvd[g] :
     rcvd[g][i] = [ch |-> chan[a], by |-> a, n |-> n]}} : g \in Guests})

\* Every byte a client has sent to a channel is in exactly one place: in its
\* inbound task, queued, in one reply, received once and on the right
\* channel, or lost with the link it was travelling on. Neither the inline
\* byte of SERREAD nor a burst of SERREADM repeats or drops one.
ExactlyOnce ==
  \A a \in Clients : chan[a] \in Channels =>
    \A n \in 1..taken[a] :
      Times(inbuf[a], a, n) + Times(outbox[chan[a]], a, n) + TimesInReply(a, n)
        + TimesReceived(a, n) + (IF [by |-> a, n |-> n] \in lost THEN 1 ELSE 0) = 1

\* The bytes of one client appear in q in the order they were typed.
Ordered(q) ==
  \A i, j \in DOMAIN q :
    i < j /\ q[i].by = q[j].by /\ q[i].by # NoClient => q[i].n < q[j].n

\* Each guest receives what a client types in order: received, on its way,
\* queued and still in the inbound task, in that order.
InOrder ==
  \A g \in Guests, a \in Clients : chan[a] \in Channels =>
    Ordered(rcvd[g] \o reply[g].data \o outbox[chan[a]] \o inbuf[a])

\* A guest that has been alone on the server never receives a padding zero as
\* data: the count SERREAD announced is still there when its SERREADM is
\* served, whatever clients queue in between.
NoPadding ==
  \A g \in Guests : (\A h \in Guests \ {g} : link[h] = "none") =>
    \A i \in DOMAIN rcvd[g] : rcvd[g][i].by # NoClient

Received(a, n) ==
  \E g \in Guests : \E i \in DOMAIN rcvd[g] : rcvd[g][i].by = a /\ rcvd[g][i].n = n

\* As long as a guest stays connected, everything the clients have typed on a
\* channel gets to a guest, unless it was on its way to one that hung up
\* (send_to_vserial: "The guest will pick these up via OP_SERREAD /
\* OP_SERREADM").
PolledOut ==
  (\E g \in Guests : link[g] = "up")
    ~> \/ \A a \in Clients : chan[a] \in Channels =>
            \A n \in 1..taken[a] : Received(a, n) \/ [by |-> a, n |-> n] \in lost
       \/ \A g \in Guests : link[g] # "up"
=============================================================================
