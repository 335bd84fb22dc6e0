------------------------------- MODULE Inbox -------------------------------
(***************************************************************************)
(* The guest-to-host direction of the virtual serial channels of           *)
(* drivewire-server: guest sessions (Server::run) append bytes to the      *)
(* per-channel inbox, and the outbound task of every attached client       *)
(* (handle_attach) drains the inbox into its stream, parking on the        *)
(* channel's Notify while there is nothing to drain.                       *)
(*                                                                         *)
(* A step is what one task does between two points where another thread of *)
(* the runtime can observe it: a mutex-protected section with no await in  *)
(* it is one step; appending to the inbox and calling notify_one() are two.*)
(* A byte is its number in the order the guest wrote it to its channel,    *)
(* tagged with the operation that queued it (a history the code does not   *)
(* keep; no guard reads it).                                               *)
(***************************************************************************)
EXTENDS Naturals, Sequences, FiniteSets

CONSTANTS
  Sessions,     \* guest transports, each driven by one Server::run task
  Clients,      \* attach connections, each one call of handle_attach
  Channels,     \* channel ids below VSERIAL_CHANNELS
  BadChannels,  \* channel bytes at or above VSERIAL_CHANNELS
  NoChannel,    \* "no channel": not yet attached, nothing to notify
  GuestWrites,  \* the write operations the guest's driver uses
  MaxBytes,     \* bound: bytes the guest writes to one channel
  MaxBurst      \* bound: longest SERWRITEM payload (255 in the code)

ASSUME InboxAssumption ==
  /\ Channels \cap BadChannels = {}
  /\ NoChannel \notin Channels \cup BadChannels
  /\ GuestWrites \subseteq {"FastWrite", "SerWrite", "SerWriteM"}
  /\ MaxBytes \in Nat
  /\ MaxBurst \in Nat

VARIABLES
  inbox,      \* vserial_inbox: channel -> queued bytes, oldest first
  written,    \* history: how many bytes the guest has written to a channel
  inboxHeld,  \* the inbox mutex is held across an await (vserial_summary)
  notifying,  \* session -> channel it has appended to and not yet notified
  permit,     \* vserial_inbox_notify: the permit notify_one() may store
  waiters,    \* vserial_inbox_notify: tasks parked in notified(), oldest first
  peer,       \* client -> state of the client's end of the socket
  chan,       \* client -> channel byte it sent when it connected
  inbound,    \* client -> state of the inbound (client to guest) task
  outbound,   \* client -> state of the outbound (guest to client) task
  buf,        \* client -> bytes drained by its outbound task, not yet written
  got,        \* client -> bytes written to its stream so far
  lost        \* history: channel -> numbers of the bytes a failed write dropped

sharedVars == <<inbox, written, inboxHeld, notifying, permit, waiters>>
clientVars == <<peer, chan, inbound, outbound, buf, got, lost>>
vars       == <<sharedVars, clientVars>>

----------------------------------------------------------------------------
Byte  == [n : Nat \ {0}, via : {"push", "burst"}]

Peers == {"absent", "open", "closed"}

\* Where an inbound and an outbound task of handle_attach can be.
Inbounds  == {"none", "read", "done"}
Outbounds == {"none", "drain", "write", "wait", "parked", "done"}

\* tokio::select! in handle_attach returns as soon as one of the two tasks
\* has ended. It drops both JoinHandles, which detaches the other task and
\* leaves it running: returning changes no state of its own.
Returned(a) == inbound[a] = "done" \/ outbound[a] = "done"

\* The client is connected and was accepted on channel c.
Attached(a, c) == peer[a] = "open" /\ chan[a] = c

Listening(c) == \E a \in Clients : Attached(a, c)

Init ==
  /\ inbox     = [c \in Channels |-> <<>>]
  /\ written   = [c \in Channels |-> 0]
  /\ inboxHeld = FALSE
  /\ notifying = [s \in Sessions |-> NoChannel]
  /\ permit    = [c \in Channels |-> FALSE]
  /\ waiters   = [c \in Channels |-> <<>>]
  /\ peer      = [a \in Clients |-> "absent"]
  /\ chan      = [a \in Clients |-> NoChannel]
  /\ inbound   = [a \in Clients |-> "none"]
  /\ outbound  = [a \in Clients |-> "none"]
  /\ buf       = [a \in Clients |-> <<>>]
  /\ got       = [a \in Clients |-> <<>>]
  /\ lost      = [c \in Channels |-> {}]

----------------------------------------------------------------------------
(* Guest sessions *)

\* Faulty variant of Enqueue: queues at the front (push_front).
EnqueueFront(c, k, via) ==
  /\ ~inboxHeld
  /\ written[c] + k <= MaxBytes
  /\ inbox' = [inbox EXCEPT ![c] =
                 [i \in 1..k |-> [n |-> written[c] + i, via |-> via]] \o @]
  /\ written' = [written EXCEPT ![c] = @ + k]

\* Queue k bytes on channel c under the inbox mutex.
Enqueue(c, k, via) ==
  /\ ~inboxHeld
  /\ written[c] + k <= MaxBytes
  /\ inbox' = [inbox EXCEPT ![c] =
                 @ \o [i \in 1..k |-> [n |-> written[c] + i, via |-> via]]]
  /\ written' = [written EXCEPT ![c] = @ + k]

\* Faulty variants of PushVserial: the range check guards the queue but not
\* the notification, and the notification is forgotten.
PushVserialUnchecked(s, ch) ==
  /\ notifying[s] = NoChannel
  /\ notifying' = [notifying EXCEPT ![s] = ch]
  /\ \/ /\ ch \in Channels
        /\ Enqueue(ch, 1, "push")
     \/ /\ ch \notin Channels
        /\ UNCHANGED <<inbox, written>>
  /\ UNCHANGED <<inboxHeld, permit, waiters, clientVars>>

PushVserialSilent(s, ch) ==
  /\ notifying[s] = NoChannel
  /\ ch \in Channels
  /\ Enqueue(ch, 1, "push")
  /\ UNCHANGED <<inboxHeld, notifying, permit, waiters, clientVars>>

\* push_vserial up to the release of the inbox mutex; an out-of-range
\* channel is dropped.
PushVserial(s, ch) ==
  /\ notifying[s] = NoChannel
  /\ \/ /\ ch \in Channels
        /\ Enqueue(ch, 1, "push")
        /\ notifying' = [notifying EXCEPT ![s] = ch]
     \/ /\ ch \notin Channels
        /\ UNCHANGED <<inbox, written, notifying>>
  /\ UNCHANGED <<inboxHeld, permit, waiters, clientVars>>

\* Faulty variant of NotifyOne: calls notify_waiters(), which wakes every
\* parked task and stores no permit.
NotifyWaiters(s) ==
  LET c == notifying[s] IN
  /\ c # NoChannel
  /\ notifying' = [notifying EXCEPT ![s] = NoChannel]
  /\ waiters' = [waiters EXCEPT ![c] = <<>>]
  /\ outbound' = [a \in Clients |->
                    IF \E i \in DOMAIN waiters[c] : waiters[c][i] = a
                      THEN "drain" ELSE outbound[a]]
  /\ UNCHANGED <<inbox, written, inboxHeld, permit,
                 peer, chan, inbound, buf, got, lost>>

\* The tail of push_vserial, after the mutex is released.
NotifyOne(s) ==
  LET c == notifying[s] IN
  /\ c # NoChannel
  /\ notifying' = [notifying EXCEPT ![s] = NoChannel]
  /\ \/ /\ waiters[c] # <<>>
        /\ waiters' = [waiters EXCEPT ![c] = Tail(@)]
        /\ outbound' = [outbound EXCEPT ![Head(waiters[c])] = "drain"]
        /\ UNCHANGED permit
     \/ /\ waiters[c] = <<>>
        /\ permit' = [permit EXCEPT ![c] = TRUE]
        /\ UNCHANGED <<waiters, outbound>>
  /\ UNCHANGED <<inbox, written, inboxHeld, peer, chan, inbound, buf, got, lost>>

\* OP_FASTWRITE0..15: the channel is the opcode's low nibble, so in range.
HandleFastWrite(s) ==
  /\ "FastWrite" \in GuestWrites
  /\ \E c \in Channels : PushVserial(s, c)

\* OP_SERWRITE: any channel byte.
SerWrite(s) ==
  /\ "SerWrite" \in GuestWrites
  /\ \E ch \in Channels \cup BadChannels : PushVserial(s, ch)

\* OP_SERWRITEM: queue the whole payload; unlike push_vserial it never
\* notifies.
HandleSerWriteM(s) ==
  /\ "SerWriteM" \in GuestWrites
  /\ notifying[s] = NoChannel
  /\ \E ch \in Channels \cup BadChannels, k \in 0..MaxBurst :
       \/ /\ ch \in Channels
          /\ Enqueue(ch, k, "burst")
       \/ /\ ch \notin Channels
          /\ UNCHANGED <<inbox, written>>
  /\ UNCHANGED <<inboxHeld, notifying, permit, waiters, clientVars>>

----------------------------------------------------------------------------
(* Attached clients *)

\* run_attach_listener accepts a client, reads its channel byte (any byte)
\* and calls handle_attach, which spawns the two tasks. A client that hangs
\* up before sending the byte starts nothing.
HandleAttach(a, ch) ==
  /\ peer[a] = "absent"
  /\ peer'     = [peer EXCEPT ![a] = "open"]
  /\ chan'     = [chan EXCEPT ![a] = ch]
  /\ inbound'  = [inbound EXCEPT ![a] = "read"]
  /\ outbound' = [outbound EXCEPT ![a] = "drain"]
  /\ UNCHANGED <<sharedVars, buf, got, lost>>

\* The client process exits or loses its connection.
Disconnect(a) ==
  /\ peer[a] = "open"
  /\ peer' = [peer EXCEPT ![a] = "closed"]
  /\ UNCHANGED <<sharedVars, chan, inbound, outbound, buf, got, lost>>

\* The inbound task reads end-of-file (or an error) and ends.
InboundEof(a) ==
  /\ inbound[a] = "read"
  /\ peer[a] = "closed"
  /\ inbound' = [inbound EXCEPT ![a] = "done"]
  /\ UNCHANGED <<sharedVars, peer, chan, outbound, buf, got, lost>>

\* Faulty variant of DrainVserial: copies the queue without emptying it.
CopyVserial(a) ==
  LET c == chan[a] IN
  /\ outbound[a] = "drain"
  /\ \/ /\ c \in Channels
        /\ ~inboxHeld
        /\ inbox[c] # <<>>
        /\ buf' = [buf EXCEPT ![a] = inbox[c]]
        /\ outbound' = [outbound EXCEPT ![a] = "write"]
     \/ /\ c \in Channels => ~inboxHeld /\ inbox[c] = <<>>
        /\ outbound' = [outbound EXCEPT ![a] = "wait"]
        /\ UNCHANGED buf
  /\ UNCHANGED <<inbox, written, inboxHeld, notifying, permit, waiters,
                 peer, chan, inbound, got, lost>>

\* drain_vserial, and the branch handle_attach takes on its result. An
\* out-of-range channel drains nothing and does not touch the mutex.
DrainVserial(a) ==
  LET c == chan[a] IN
  /\ outbound[a] = "drain"
  /\ \/ /\ c \in Channels
        /\ ~inboxHeld
        /\ inbox[c] # <<>>
        /\ buf' = [buf EXCEPT ![a] = inbox[c]]
        /\ inbox' = [inbox EXCEPT ![c] = <<>>]
        /\ outbound' = [outbound EXCEPT ![a] = "write"]
     \/ /\ c \in Channels => ~inboxHeld /\ inbox[c] = <<>>
        /\ outbound' = [outbound EXCEPT ![a] = "wait"]
        /\ UNCHANGED <<inbox, buf>>
  /\ UNCHANGED <<written, inboxHeld, notifying, permit, waiters,
                 peer, chan, inbound, got, lost>>

\* Faulty variant of WaitVserialInbox: instead of refusing a channel out of
\* range it wraps it around, and waits on another channel's Notify.
WaitVserialInboxWrapped(a) ==
  LET c == IF chan[a] \in Channels THEN chan[a] ELSE CHOOSE d \in Channels : TRUE IN
  /\ outbound[a] = "wait"
  /\ \/ /\ permit[c]
        /\ permit' = [permit EXCEPT ![c] = FALSE]
        /\ outbound' = [outbound EXCEPT ![a] = "drain"]
        /\ UNCHANGED waiters
     \/ /\ ~permit[c]
        /\ waiters' = [waiters EXCEPT ![c] = Append(@, a)]
        /\ outbound' = [outbound EXCEPT ![a] = "parked"]
        /\ UNCHANGED permit
  /\ UNCHANGED <<inbox, written, inboxHeld, notifying,
                 peer, chan, inbound, buf, got, lost>>

\* wait_vserial_inbox: take the stored permit, or park in the Notify's
\* queue. On an out-of-range channel it is pending forever.
WaitVserialInbox(a) ==
  LET c == chan[a] IN
  /\ outbound[a] = "wait"
  /\ \/ /\ c \in Channels
        /\ permit[c]
        /\ permit' = [permit EXCEPT ![c] = FALSE]
        /\ outbound' = [outbound EXCEPT ![a] = "drain"]
        /\ UNCHANGED waiters
     \/ /\ c \in Channels
        /\ ~permit[c]
        /\ waiters' = [waiters EXCEPT ![c] = Append(@, a)]
        /\ outbound' = [outbound EXCEPT ![a] = "parked"]
        /\ UNCHANGED permit
     \/ /\ c \notin Channels
        /\ outbound' = [outbound EXCEPT ![a] = "parked"]
        /\ UNCHANGED <<permit, waiters>>
  /\ UNCHANGED <<inbox, written, inboxHeld, notifying,
                 peer, chan, inbound, buf, got, lost>>

\* Faulty variant of WriteAll: a failed write does not end the task.
WriteAllContinue(a) ==
  /\ outbound[a] = "write"
  /\ got' = [got EXCEPT ![a] = IF peer[a] = "open" THEN @ \o buf[a] ELSE @]
  /\ lost' = [lost EXCEPT ![chan[a]] = IF peer[a] = "open" THEN @
                                         ELSE @ \cup {buf[a][i].n : i \in DOMAIN buf[a]}]
  /\ outbound' = [outbound EXCEPT ![a] = "drain"]
  /\ buf' = [buf EXCEPT ![a] = <<>>]
  /\ UNCHANGED <<sharedVars, peer, chan, inbound>>

\* writer.write_all: succeeds into an open stream and loops back to the
\* drain; fails once the peer is gone, which drops the drained bytes and
\* ends the task.
WriteAll(a) ==
  /\ outbound[a] = "write"
  /\ \/ /\ peer[a] = "open"
        /\ got' = [got EXCEPT ![a] = @ \o buf[a]]
        /\ outbound' = [outbound EXCEPT ![a] = "drain"]
        /\ UNCHANGED lost
     \/ /\ peer[a] = "closed"
        /\ lost' = [lost EXCEPT ![chan[a]] =
                      @ \cup {buf[a][i].n : i \in DOMAIN buf[a]}]
        /\ outbound' = [outbound EXCEPT ![a] = "done"]
        /\ UNCHANGED got
  /\ buf' = [buf EXCEPT ![a] = <<>>]
  /\ UNCHANGED <<sharedVars, peer, chan, inbound>>

----------------------------------------------------------------------------
(* STATUS: vserial_summary takes the inbox mutex and then awaits the       *)
(* outbox mutex, so it can hold the first across an await.                 *)

SummaryLock ==
  /\ ~inboxHeld
  /\ inboxHeld' = TRUE
  /\ UNCHANGED <<inbox, written, notifying, permit, waiters, clientVars>>

SummaryUnlock ==
  /\ inboxHeld
  /\ inboxHeld' = FALSE
  /\ UNCHANGED <<inbox, written, notifying, permit, waiters, clientVars>>

----------------------------------------------------------------------------
Session(s) ==
  \/ HandleFastWrite(s)
  \/ SerWrite(s)
  \/ HandleSerWriteM(s)
  \/ NotifyOne(s)

Client(a) ==
  \/ \E ch \in Channels \cup BadChannels : HandleAttach(a, ch)
  \/ Disconnect(a)
  \/ InboundEof(a)
  \/ DrainVserial(a)
  \/ WaitVserialInbox(a)
  \/ WriteAll(a)

Next ==
  \/ \E s \in Sessions : Session(s)
  \/ \E a \in Clients : Client(a)
  \/ SummaryLock
  \/ SummaryUnlock

Spec == Init /\ [][Next]_vars

\* The runtime keeps polling a task that is ready (weak fairness), tokio's
\* mutex queues its waiters in FIFO order, so that the drain is not starved
\* by status requests (strong fairness), and the client keeps reading its
\* socket. Nothing obliges a guest to write or a client to come or go.
Fairness ==
  /\ \A s \in Sessions : WF_vars(NotifyOne(s))
  /\ \A a \in Clients :
       /\ WF_vars(InboundEof(a))
       /\ SF_vars(DrainVserial(a))
       /\ WF_vars(WaitVserialInbox(a))
       /\ WF_vars(WriteAll(a))
  /\ WF_vars(SummaryUnlock)

FairSpec == Spec /\ Fairness

----------------------------------------------------------------------------
(* Properties *)

\* The queues, the Notify state and the tasks of handle_attach are well formed;
\* in particular a session only ever notifies a channel that exists.
TypeOK ==
  /\ inbox     \in [Channels -> Seq(Byte)]
  /\ written   \in [Channels -> Nat]
  /\ inboxHeld \in BOOLEAN
  /\ notifying \in [Sessions -> Channels \cup {NoChannel}]
  /\ permit    \in [Channels -> BOOLEAN]
  /\ waiters   \in [Channels -> Seq(Clients)]
  /\ peer      \in [Clients -> Peers]
  /\ chan      \in [Clients -> Channels \cup BadChannels \cup {NoChannel}]
  /\ inbound   \in [Clients -> Inbounds]
  /\ outbound  \in [Clients -> Outbounds]
  /\ buf       \in [Clients -> Seq(Byte)]
  /\ got       \in [Clients -> Seq(Byte)]
  /\ lost      \in [Channels -> SUBSET (Nat \ {0})]

\* A drain of channel c is still to come: a task on c is about to drain, a
\* session is about to notify c, or the permit waits for the next task that
\* would park.
DrainPending(c) ==
  \/ permit[c]
  \/ \E s \in Sessions : notifying[s] = c
  \/ \E a \in Clients : chan[a] = c /\ outbound[a] = "drain"

\* No lost wakeup: while a byte queued by push_vserial (FASTWRITE or
\* SERWRITE) sits in the inbox, a drain of that channel is still to come,
\* whatever the interleaving of push, notify_one, drain and wait.
NoLostWakeup ==
  \A c \in Channels :
    (\E i \in 1..Len(inbox[c]) : inbox[c][i].via = "push") => DrainPending(c)

\* The Notify's queue of channel c holds exactly the tasks that serve c and
\* are parked, each once: the one wakeup of a push_vserial on c goes to a task
\* that will drain c and never to the task of a client on another channel, or
\* on none, and no parked task of c is out of its reach.
WaitersParked ==
  \A c \in Channels :
    /\ \A i \in 1..Len(waiters[c]) :
         /\ chan[waiters[c][i]] = c
         /\ outbound[waiters[c][i]] = "parked"
    /\ \A i, j \in 1..Len(waiters[c]) : waiters[c][i] = waiters[c][j] => i = j
    /\ \A a \in Clients :
         chan[a] = c /\ outbound[a] = "parked" =>
           \E i \in 1..Len(waiters[c]) : waiters[c][i] = a

Numbers(q) == {q[i].n : i \in DOMAIN q}

\* Where byte number n of channel c is.
Holders(c, n) ==
  {h \in {<<"inbox", c>>, <<"lost", c>>} \cup
         ({"buf", "got"} \X {a \in Clients : chan[a] = c}) :
     n \in CASE h[1] = "inbox" -> Numbers(inbox[c])
            [] h[1] = "lost"  -> lost[c]
            [] h[1] = "buf"   -> Numbers(buf[h[2]])
            [] h[1] = "got"   -> Numbers(got[h[2]])}

\* Every byte the guest wrote is in exactly one place: still queued, being
\* written by one task, delivered to one client, or dropped by one failed
\* write. Concurrent drains of one channel neither duplicate a byte nor let
\* one vanish.
ExactlyOnce ==
  \A c \in Channels :
    \A n \in 1..written[c] : Cardinality(Holders(c, n)) = 1

Increasing(q) == \A i, j \in 1..Len(q) : i < j => q[i].n < q[j].n

\* Bytes reach each client in the order the guest wrote them: what it has
\* received and is being sent is in order, and whatever is still queued on
\* its channel is later than all of it.
InOrder ==
  \A a \in Clients :
    /\ Increasing(got[a] \o buf[a])
    /\ chan[a] \in Channels => Increasing(got[a] \o buf[a] \o inbox[chan[a]])

\* While a client stays attached to a channel, what the guest has queued
\* there does not stay there (handle_attach: "bytes the guest writes into
\* the inbox are written out to the stream").
InboxDrains ==
  \A c \in Channels :
    (inbox[c] # <<>> /\ Listening(c)) ~> (inbox[c] = <<>> \/ ~Listening(c))

\* While a client stays attached to a channel, a byte queued there by SERWRITE
\* or FASTWRITE does not stay there, also when bursts, other clients, departed
\* clients' tasks and STATUS come in between. (SERWRITEM wakes nobody, which is
\* what InboxDrains is about.)
PushesDrain ==
  \A c \in Channels :
    ((\E i \in 1..Len(inbox[c]) : inbox[c][i].via = "push") /\ Listening(c))
      ~> (inbox[c] = <<>> \/ ~Listening(c))

\* Once handle_attach has returned for client a, its pipe takes no byte that
\* the guest queues for a client still attached to the channel.
ReturnedTakesNothing ==
  [][\A a, b \in Clients :
       (Returned(a) /\ chan[a] \in Channels /\ Attached(b, chan[a]))
         => (buf'[a] = buf[a] \/ buf'[a] = <<>>)]_vars

\* A pipe that outlives its client costs the channel at most one batch: the
\* bytes lost to failed writes are no more runs of consecutive bytes than
\* there are outbound tasks that have ended over one.
OneBatchLost ==
  \A c \in Channels :
    Cardinality({n \in lost[c] : n - 1 \notin lost[c]})
      <= Cardinality({a \in Clients : chan[a] = c /\ outbound[a] = "done"})
=============================================================================
