---------------------------- MODULE InboxProofs ----------------------------
(***************************************************************************)
(* Proofs about Inbox, for every set of sessions, clients and channels and *)
(* without the bounds TLC needs.                                           *)
(***************************************************************************)
EXTENDS Inbox, SequenceTheorems, FiniteSetTheorems, TLAPS

\* What a session appends to a queue is a sequence of bytes.
LEMMA BurstType ==
  ASSUME NEW w \in Nat, NEW k \in Nat, NEW via \in {"push", "burst"}
  PROVE  [i \in 1..k |-> [n |-> w + i, via |-> via]] \in Seq(Byte)
<1> DEFINE f == [i \in 1..k |-> [n |-> w + i, via |-> via]]
<1>1. \A i \in 1..k : w + i \in Nat \ {0}
  OBVIOUS
<1>2. \A i \in 1..k : [n |-> w + i, via |-> via] \in Byte
  BY <1>1 DEF Byte
<1>3. f \in [1..k -> Byte]
  BY <1>2
<1> HIDE DEF f
<1>4. f \in Seq(Byte)
  BY <1>3
<1> QED
  BY <1>4 DEF f

\* Enqueue keeps the queues and the counters well-typed.
LEMMA EnqueueType ==
  ASSUME TypeOK, NEW c \in Channels, NEW k \in Nat,
         NEW via \in {"push", "burst"}, Enqueue(c, k, via)
  PROVE  /\ inbox' \in [Channels -> Seq(Byte)]
         /\ written' \in [Channels -> Nat]
<1>1. written[c] \in Nat /\ inbox[c] \in Seq(Byte)
  BY DEF TypeOK
<1> DEFINE new == [i \in 1..k |-> [n |-> written[c] + i, via |-> via]]
<1>2. new \in Seq(Byte)
  BY <1>1, BurstType
<1>3. inbox' = [inbox EXCEPT ![c] = @ \o new]
  BY DEF Enqueue
<1> HIDE DEF new
<1>4. inbox[c] \o new \in Seq(Byte)
  BY <1>1, <1>2
<1>5. inbox' \in [Channels -> Seq(Byte)]
  BY <1>3, <1>4 DEF TypeOK
<1>6. written' \in [Channels -> Nat]
  BY <1>1 DEF TypeOK, Enqueue
<1> QED
  BY <1>5, <1>6

\* A task that moves on from one stage of its loop to another is at a stage.
LEMMA OutboundMoves ==
  ASSUME outbound \in [Clients -> Outbounds], NEW a \in Clients,
         NEW t \in Outbounds, outbound' = [outbound EXCEPT ![a] = t]
  PROVE  outbound' \in [Clients -> Outbounds]
  OBVIOUS

\* A fresh Server with no client attached is well typed.
LEMMA TypeInit == Init => TypeOK
<1> SUFFICES ASSUME Init PROVE TypeOK
  OBVIOUS
<1>1. <<>> \in Seq(Byte) /\ <<>> \in Seq(Clients)
  BY EmptySeq
<1>2. inbox \in [Channels -> Seq(Byte)] /\ waiters \in [Channels -> Seq(Clients)]
  BY <1>1 DEF Init
<1>3. buf \in [Clients -> Seq(Byte)] /\ got \in [Clients -> Seq(Byte)]
  BY <1>1 DEF Init
<1>4. permit \in [Channels -> BOOLEAN] /\ inboxHeld \in BOOLEAN
  BY DEF Init
<1> QED
  BY <1>2, <1>3, <1>4 DEF Init, TypeOK, Peers, Inbounds, Outbounds

\* No step of a session, a client or STATUS leaves the types.
LEMMA TypeStep == TypeOK /\ [Next]_vars => TypeOK'
<1> SUFFICES ASSUME TypeOK, [Next]_vars PROVE TypeOK'
  OBVIOUS
<1> USE InboxAssumption
<1>p. ASSUME NEW s \in Sessions, NEW ch \in Channels \cup BadChannels,
             PushVserial(s, ch)
      PROVE  TypeOK'
  <2>1. CASE ch \in Channels /\ Enqueue(ch, 1, "push")
             /\ notifying' = [notifying EXCEPT ![s] = ch]
    <3>1. inbox' \in [Channels -> Seq(Byte)] /\ written' \in [Channels -> Nat]
      BY <2>1, EnqueueType
    <3> QED
      BY <1>p, <2>1, <3>1 DEF TypeOK, PushVserial, clientVars
  <2>2. CASE UNCHANGED <<inbox, written, notifying>>
    BY <1>p, <2>2 DEF TypeOK, PushVserial, clientVars
  <2> QED
    BY <1>p, <2>1, <2>2 DEF PushVserial
<1>1. ASSUME NEW s \in Sessions, Session(s) PROVE TypeOK'
  <2>1. CASE HandleFastWrite(s)
    BY <2>1, <1>p DEF HandleFastWrite
  <2>2. CASE SerWrite(s)
    BY <2>2, <1>p DEF SerWrite
  <2>3. CASE HandleSerWriteM(s)
    <3>1. /\ inbox' \in [Channels -> Seq(Byte)]
          /\ written' \in [Channels -> Nat]
      <4>1. PICK ch \in Channels \cup BadChannels, k \in 0..MaxBurst :
              \/ ch \in Channels /\ Enqueue(ch, k, "burst")
              \/ UNCHANGED <<inbox, written>>
        BY <2>3 DEF HandleSerWriteM
      <4>2. k \in Nat
        OBVIOUS
      <4>3. CASE ch \in Channels /\ Enqueue(ch, k, "burst")
        BY <4>2, <4>3, EnqueueType
      <4>4. CASE UNCHANGED <<inbox, written>>
        BY <4>4 DEF TypeOK
      <4> QED
        BY <4>1, <4>3, <4>4
    <3> QED
      BY <2>3, <3>1 DEF TypeOK, HandleSerWriteM, clientVars
  <2>4. CASE NotifyOne(s)
    <3> DEFINE c == notifying[s]
    <3>1. c \in Channels
      BY <2>4 DEF NotifyOne, TypeOK
    <3>2. CASE /\ waiters[c] # <<>>
               /\ waiters' = [waiters EXCEPT ![c] = Tail(@)]
               /\ outbound' = [outbound EXCEPT ![Head(waiters[c])] = "drain"]
               /\ UNCHANGED permit
      <4>1. Tail(waiters[c]) \in Seq(Clients)
        BY <3>1, <3>2, HeadTailProperties DEF TypeOK
      <4>2. waiters' \in [Channels -> Seq(Clients)]
        BY <3>2, <4>1 DEF TypeOK
      <4>3. outbound' \in [Clients -> Outbounds]
        BY <3>2 DEF TypeOK, Outbounds
      <4> QED
        BY <2>4, <3>2, <4>2, <4>3 DEF TypeOK, NotifyOne
    <3>3. CASE /\ permit' = [permit EXCEPT ![c] = TRUE]
               /\ UNCHANGED <<waiters, outbound>>
      BY <2>4, <3>3 DEF TypeOK, NotifyOne
    <3> QED
      BY <2>4, <3>2, <3>3 DEF NotifyOne
  <2> QED
    BY <1>1, <2>1, <2>2, <2>3, <2>4 DEF Session
<1>2. ASSUME NEW a \in Clients, Client(a) PROVE TypeOK'
  <2>1. CASE \E ch \in Channels \cup BadChannels : HandleAttach(a, ch)
    BY <2>1 DEF TypeOK, HandleAttach, sharedVars, Peers, Inbounds, Outbounds
  <2>2. CASE Disconnect(a)
    BY <2>2 DEF TypeOK, Disconnect, sharedVars, Peers
  <2>3. CASE InboundEof(a)
    BY <2>3 DEF TypeOK, InboundEof, sharedVars, Inbounds
  <2>4. CASE DrainVserial(a)
    <3>1. <<>> \in Seq(Byte)
      BY EmptySeq
    <3> DEFINE c == chan[a]
    <3>2. inbox' \in [Channels -> Seq(Byte)] /\ buf' \in [Clients -> Seq(Byte)]
      <4>1. CASE /\ c \in Channels
                 /\ buf' = [buf EXCEPT ![a] = inbox[c]]
                 /\ inbox' = [inbox EXCEPT ![c] = <<>>]
        <5>1. inbox[c] \in Seq(Byte)
          BY <4>1 DEF TypeOK
        <5> QED
          BY <3>1, <4>1, <5>1 DEF TypeOK
      <4>2. CASE UNCHANGED <<inbox, buf>>
        BY <4>2 DEF TypeOK
      <4> QED
        BY <2>4, <4>1, <4>2 DEF DrainVserial
    <3>3. outbound' \in [Clients -> Outbounds]
      <4>1. outbound \in [Clients -> Outbounds]
        BY DEF TypeOK
      <4>2. "write" \in Outbounds /\ "wait" \in Outbounds
        BY DEF Outbounds
      <4>3. \/ outbound' = [outbound EXCEPT ![a] = "write"]
            \/ outbound' = [outbound EXCEPT ![a] = "wait"]
        BY <2>4 DEF DrainVserial
      <4> QED
        BY <4>1, <4>2, <4>3, OutboundMoves
    <3> QED
      BY <2>4, <3>2, <3>3 DEF TypeOK, DrainVserial
  <2>5. CASE WaitVserialInbox(a)
    <3>1. outbound' \in [Clients -> Outbounds]
      <4>1. outbound \in [Clients -> Outbounds]
        BY DEF TypeOK
      <4>2. "drain" \in Outbounds /\ "parked" \in Outbounds
        BY DEF Outbounds
      <4>3. \/ outbound' = [outbound EXCEPT ![a] = "drain"]
            \/ outbound' = [outbound EXCEPT ![a] = "parked"]
        BY <2>5 DEF WaitVserialInbox
      <4> QED
        BY <4>1, <4>2, <4>3, OutboundMoves
    <3>2. \A c \in Channels : Append(waiters[c], a) \in Seq(Clients)
      BY DEF TypeOK
    <3>3. waiters' \in [Channels -> Seq(Clients)]
      <4>1. CASE UNCHANGED waiters
        BY <4>1 DEF TypeOK
      <4>2. CASE /\ chan[a] \in Channels
                 /\ waiters' = [waiters EXCEPT ![chan[a]] = Append(@, a)]
        BY <3>2, <4>2 DEF TypeOK
      <4> QED
        BY <2>5, <4>1, <4>2 DEF WaitVserialInbox
    <3>4. permit' \in [Channels -> BOOLEAN]
      BY <2>5 DEF TypeOK, WaitVserialInbox
    <3> QED
      BY <2>5, <3>1, <3>3, <3>4 DEF TypeOK, WaitVserialInbox
  <2>6. CASE WriteAll(a)
    <3>1. buf' \in [Clients -> Seq(Byte)]
      BY <2>6, EmptySeq DEF TypeOK, WriteAll
    <3>2. got[a] \o buf[a] \in Seq(Byte)
      BY DEF TypeOK
    <3>3. got' \in [Clients -> Seq(Byte)]
      BY <2>6, <3>2 DEF TypeOK, WriteAll
    <3>4. \A i \in DOMAIN buf[a] : buf[a][i].n \in Nat \ {0}
      <4>1. buf[a] \in Seq(Byte)
        BY DEF TypeOK
      <4>2. \A i \in DOMAIN buf[a] : buf[a][i] \in Byte
        BY <4>1, LenProperties, ElementOfSeq
      <4> QED
        BY <4>2 DEF Byte
    <3>5. \A c \in Channels : lost[c] \cup {buf[a][i].n : i \in DOMAIN buf[a]}
                                \in SUBSET (Nat \ {0})
      BY <3>4 DEF TypeOK
    <3>6. lost' \in [Channels -> SUBSET (Nat \ {0})]
      <4> DEFINE dropped == {buf[a][i].n : i \in DOMAIN buf[a]}
      <4>1. lost \in [Channels -> SUBSET (Nat \ {0})]
        BY DEF TypeOK
      <4>2. \/ lost' = [lost EXCEPT ![chan[a]] = @ \cup dropped]
            \/ lost' = lost
        BY <2>6 DEF WriteAll
      <4> HIDE DEF dropped
      <4>3. \A c \in Channels : lost[c] \cup dropped \in SUBSET (Nat \ {0})
        BY <3>5 DEF dropped
      <4> QED
        BY <4>1, <4>2, <4>3
    <3>7. outbound' \in [Clients -> Outbounds]
      <4>1. outbound \in [Clients -> Outbounds]
        BY DEF TypeOK
      <4>2. "drain" \in Outbounds /\ "done" \in Outbounds
        BY DEF Outbounds
      <4>3. \/ outbound' = [outbound EXCEPT ![a] = "drain"]
            \/ outbound' = [outbound EXCEPT ![a] = "done"]
        BY <2>6 DEF WriteAll
      <4> QED
        BY <4>1, <4>2, <4>3, OutboundMoves
    <3> QED
      BY <2>6, <3>1, <3>3, <3>6, <3>7 DEF TypeOK, WriteAll, sharedVars
  <2> QED
    BY <1>2, <2>1, <2>2, <2>3, <2>4, <2>5, <2>6 DEF Client
<1>3. CASE SummaryLock
  BY <1>3 DEF TypeOK, SummaryLock, clientVars
<1>4. CASE SummaryUnlock
  BY <1>4 DEF TypeOK, SummaryUnlock, clientVars
<1>5. CASE UNCHANGED vars
  BY <1>5 DEF TypeOK, vars, sharedVars, clientVars
<1> QED
  BY <1>1, <1>2, <1>3, <1>4, <1>5 DEF Next

\* Every reachable state is well-typed: in particular no session ever
\* notifies an index outside vserial_inbox_notify (push_vserial's range
\* check), and only drained bytes are written.
THEOREM TypeCorrect == Spec => []TypeOK
<1>1. Init => TypeOK
  BY TypeInit
<1>2. TypeOK /\ [Next]_vars => TypeOK'
  BY TypeStep
<1> QED
  BY <1>1, <1>2, PTL DEF Spec

----------------------------------------------------------------------------
(* No lost wakeup. NoLostWakeup is not inductive by itself: that the task  *)
(* notify_one() wakes will drain the right channel rests on the Notify's   *)
(* queue (WaitersParked), and a client's channel must not change under a   *)
(* task that is about to drain (AbsentIdle).                               *)

\* A Notify stores a permit only while nobody is parked in it: an auxiliary fact
\* about tokio's Notify, not about the code that calls it.
PermitOrWaiters ==
  \A c \in Channels : permit[c] => waiters[c] = <<>>

AbsentIdle == \A a \in Clients : peer[a] = "absent" => outbound[a] = "none"

WakeInv ==
  /\ TypeOK
  /\ AbsentIdle
  /\ WaitersParked
  /\ PermitOrWaiters
  /\ NoLostWakeup

\* A fresh Server has nothing queued and nobody parked.
LEMMA WakeInit == Init => WakeInv
<1> SUFFICES ASSUME Init PROVE WakeInv
  OBVIOUS
<1>1. TypeOK
  BY TypeInit
<1>2. \A c \in Channels : /\ waiters[c] = <<>> /\ inbox[c] = <<>>
                          /\ Len(waiters[c]) = 0 /\ Len(inbox[c]) = 0
  BY DEF Init
<1>3. AbsentIdle /\ NoLostWakeup /\ PermitOrWaiters
  BY <1>2 DEF Init, AbsentIdle, NoLostWakeup, PermitOrWaiters
<1>4. \A a \in Clients : outbound[a] = "none"
  BY DEF Init
<1>5. WaitersParked
  BY <1>2, <1>4 DEF WaitersParked
<1> QED
  BY <1>1, <1>3, <1>5 DEF WakeInv

\* A step that leaves the Notify, the tasks and their channels alone keeps
\* the Notify's queue right.
LEMMA WaitersFrame ==
  ASSUME WaitersParked, PermitOrWaiters,
         UNCHANGED <<permit, waiters, chan, outbound>>
  PROVE  WaitersParked' /\ PermitOrWaiters'
  BY DEF WaitersParked, PermitOrWaiters

\* A task that is not parked is in no Notify's queue, so moving it between
\* states other than "parked" keeps the queue right.
LEMMA WaitersMove ==
  ASSUME TypeOK, WaitersParked, NEW a \in Clients, NEW st,
         st # "parked", outbound[a] # "parked",
         outbound' = [outbound EXCEPT ![a] = st],
         UNCHANGED waiters,
         \A b \in Clients : b # a => chan'[b] = chan[b]
  PROVE  WaitersParked'
<1> SUFFICES ASSUME NEW c \in Channels
             PROVE  /\ \A i \in 1..Len(waiters[c]) :
                         /\ chan'[waiters[c][i]] = c
                         /\ outbound'[waiters[c][i]] = "parked"
                    /\ \A i, j \in 1..Len(waiters[c]) :
                         waiters[c][i] = waiters[c][j] => i = j
                    /\ \A b \in Clients :
                         chan'[b] = c /\ outbound'[b] = "parked" =>
                           \E i \in 1..Len(waiters[c]) : waiters[c][i] = b
  BY DEF WaitersParked
<1>1. waiters[c] \in Seq(Clients) /\ outbound \in [Clients -> Outbounds]
  BY DEF TypeOK
<1>2. ASSUME NEW i \in 1..Len(waiters[c])
      PROVE  /\ waiters[c][i] \in Clients
             /\ waiters[c][i] # a
             /\ chan[waiters[c][i]] = c
             /\ outbound[waiters[c][i]] = "parked"
  BY <1>1, ElementOfSeq DEF WaitersParked
<1>3. \A i \in 1..Len(waiters[c]) :
        chan'[waiters[c][i]] = c /\ outbound'[waiters[c][i]] = "parked"
  BY <1>1, <1>2
<1>4. ASSUME NEW b \in Clients, chan'[b] = c, outbound'[b] = "parked"
      PROVE  chan[b] = c /\ outbound[b] = "parked"
  BY <1>1, <1>4
<1> QED
  BY <1>3, <1>4 DEF WaitersParked

\* Queueing on channel c adds no byte of push_vserial to another channel,
\* and none at all if the bytes come from a burst.
LEMMA EnqueuePushes ==
  ASSUME TypeOK, NEW c \in Channels, NEW k \in Nat,
         NEW via \in {"push", "burst"}, Enqueue(c, k, via),
         NEW d \in Channels, d # c \/ via = "burst",
         NEW i \in 1..Len(inbox'[d]), inbox'[d][i].via = "push"
  PROVE  \E j \in 1..Len(inbox[d]) : inbox[d][j].via = "push"
<1>1. CASE d # c
  BY <1>1 DEF Enqueue, TypeOK
<1>2. CASE d = c
  <2>1. written[c] \in Nat /\ inbox[c] \in Seq(Byte)
    BY DEF TypeOK
  <2> DEFINE new == [m \in 1..k |-> [n |-> written[c] + m, via |-> via]]
  <2>2. new \in Seq(Byte)
    BY <2>1, BurstType
  <2>3. inbox'[c] = inbox[c] \o new
    BY DEF Enqueue, TypeOK
  <2>4. Len(new) = k /\ \A m \in 1..k : new[m].via = via
    <3>1. DOMAIN new = 1..k
      OBVIOUS
    <3>2. DOMAIN new = 1..Len(new) /\ Len(new) \in Nat
      BY <2>2, LenProperties
    <3>3. Len(new) = k
      BY <3>1, <3>2
    <3> QED
      BY <3>3
  <2> HIDE DEF new
  <2>5. CASE i <= Len(inbox[c])
    <3>1. inbox'[c][i] = inbox[c][i] /\ i \in 1..Len(inbox[c])
      BY <1>2, <2>1, <2>2, <2>3, <2>5, ConcatProperties
    <3> QED
      BY <1>2, <3>1
  <2>6. CASE ~(i <= Len(inbox[c]))
    <3>1. /\ i - Len(inbox[c]) \in 1..k
          /\ inbox'[c][i] = new[i - Len(inbox[c])]
      BY <1>2, <2>1, <2>2, <2>3, <2>4, <2>6, ConcatProperties
    <3>2. inbox'[c][i].via = "burst"
      BY <1>2, <2>4, <3>1
    <3> QED
      BY <1>2, <3>2
  <2> QED
    BY <2>5, <2>6
<1> QED
  BY <1>1, <1>2

\* Every step of push_vserial, handle_attach and STATUS keeps the wakeup
\* invariant; one step per action.
LEMMA WakeStep == WakeInv /\ [Next]_vars => WakeInv'
<1> SUFFICES ASSUME WakeInv, [Next]_vars PROVE WakeInv'
  OBVIOUS
<1> USE InboxAssumption
<1>t. TypeOK /\ TypeOK'
  BY TypeStep DEF WakeInv
<1>w. AbsentIdle /\ WaitersParked /\ PermitOrWaiters /\ NoLostWakeup
  BY DEF WakeInv
<1>p. ASSUME NEW s \in Sessions, NEW ch \in Channels \cup BadChannels,
             PushVserial(s, ch)
      PROVE  WakeInv'
  <2>1. WaitersParked' /\ PermitOrWaiters'
    BY <1>p, <1>w, WaitersFrame DEF PushVserial, clientVars
  <2>2. AbsentIdle'
    BY <1>p, <1>w DEF PushVserial, clientVars, AbsentIdle
  <2>3. NoLostWakeup'
    <3>1. CASE ch \in Channels /\ Enqueue(ch, 1, "push")
               /\ notifying' = [notifying EXCEPT ![s] = ch]
      <4> SUFFICES ASSUME NEW d \in Channels, NEW i \in 1..Len(inbox'[d]),
                          inbox'[d][i].via = "push"
                   PROVE  DrainPending(d)'
        BY DEF NoLostWakeup
      <4>1. CASE d = ch
        BY <3>1, <4>1, <1>t DEF DrainPending, TypeOK
      <4>2. CASE d # ch
        <5>1. \E j \in 1..Len(inbox[d]) : inbox[d][j].via = "push"
          BY <1>t, <3>1, <4>2, EnqueuePushes
        <5>2. DrainPending(d)
          BY <5>1, <1>w DEF NoLostWakeup
        <5>3. notifying[s] = NoChannel
          BY <1>p DEF PushVserial
        <5>4. \A r \in Sessions : notifying[r] = d => notifying'[r] = d
          BY <3>1, <4>2, <5>3, <1>t DEF TypeOK
        <5> QED
          BY <1>p, <5>2, <5>4 DEF DrainPending, PushVserial, clientVars
      <4> QED
        BY <4>1, <4>2
    <3>2. CASE UNCHANGED <<inbox, written, notifying>>
      BY <1>p, <1>w, <3>2 DEF PushVserial, clientVars, NoLostWakeup, DrainPending
    <3> QED
      BY <1>p, <3>1, <3>2 DEF PushVserial
  <2> QED
    BY <1>t, <2>1, <2>2, <2>3 DEF WakeInv
<1>1. ASSUME NEW s \in Sessions, HandleFastWrite(s) PROVE WakeInv'
  BY <1>1, <1>p DEF HandleFastWrite
<1>2. ASSUME NEW s \in Sessions, SerWrite(s) PROVE WakeInv'
  BY <1>2, <1>p DEF SerWrite
<1>3. ASSUME NEW s \in Sessions, HandleSerWriteM(s) PROVE WakeInv'
  <2>1. WaitersParked' /\ PermitOrWaiters'
    BY <1>3, <1>w, WaitersFrame DEF HandleSerWriteM, clientVars
  <2>2. AbsentIdle'
    BY <1>3, <1>w DEF HandleSerWriteM, clientVars, AbsentIdle
  <2>3. NoLostWakeup'
    <3>1. PICK ch \in Channels \cup BadChannels, k \in 0..MaxBurst :
            \/ ch \in Channels /\ Enqueue(ch, k, "burst")
            \/ UNCHANGED <<inbox, written>>
      BY <1>3 DEF HandleSerWriteM
    <3>2. k \in Nat
      OBVIOUS
    <3> SUFFICES ASSUME NEW d \in Channels, NEW i \in 1..Len(inbox'[d]),
                        inbox'[d][i].via = "push"
                 PROVE  DrainPending(d)'
      BY DEF NoLostWakeup
    <3>3. \E j \in 1..Len(inbox[d]) : inbox[d][j].via = "push"
      <4>1. CASE ch \in Channels /\ Enqueue(ch, k, "burst")
        BY <1>t, <3>2, <4>1, EnqueuePushes
      <4>2. CASE UNCHANGED <<inbox, written>>
        BY <4>2
      <4> QED
        BY <3>1, <4>1, <4>2
    <3>4. DrainPending(d)
      BY <3>3, <1>w DEF NoLostWakeup
    <3> QED
      BY <1>3, <3>4 DEF DrainPending, HandleSerWriteM, clientVars
  <2> QED
    BY <1>t, <2>1, <2>2, <2>3 DEF WakeInv
<1>4. ASSUME NEW s \in Sessions, NotifyOne(s) PROVE WakeInv'
  <2> DEFINE c == notifying[s]
  <2>1. c \in Channels
    BY <1>4, <1>t DEF NotifyOne, TypeOK
  <2>2. UNCHANGED <<inbox, peer, chan>>
    BY <1>4 DEF NotifyOne
  <2>3. \A r \in Sessions : notifying[r] # c => notifying'[r] = notifying[r]
    BY <1>4, <1>t DEF NotifyOne, TypeOK
  <2>4. CASE /\ waiters[c] # <<>>
             /\ waiters' = [waiters EXCEPT ![c] = Tail(@)]
             /\ outbound' = [outbound EXCEPT ![Head(waiters[c])] = "drain"]
             /\ UNCHANGED permit
    <3> DEFINE h == Head(waiters[c])
    <3>1. waiters[c] \in Seq(Clients)
      BY <2>1, <1>t DEF TypeOK
    <3>2. 1 \in 1..Len(waiters[c]) /\ h = waiters[c][1]
      BY <2>4, <3>1, EmptySeq
    <3>3. h \in Clients /\ chan[h] = c /\ outbound[h] = "parked"
      BY <2>1, <3>1, <3>2, <1>w, ElementOfSeq DEF WaitersParked
    <3>4. waiters'[c] = Tail(waiters[c])
      BY <2>1, <2>4, <1>t DEF TypeOK
    <3>5. /\ Len(waiters'[c]) = Len(waiters[c]) - 1
          /\ \A i \in 1..Len(waiters'[c]) : waiters'[c][i] = waiters[c][i + 1]
      <4> DEFINE q == waiters[c]
      <4>1. q \in Seq(Clients) /\ q # <<>>
        BY <2>4, <3>1
      <4>2. waiters'[c] = Tail(q)
        BY <3>4
      <4> HIDE DEF q
      <4>3. /\ Len(Tail(q)) = Len(q) - 1
            /\ \A i \in 1..Len(Tail(q)) : Tail(q)[i] = q[i + 1]
        BY <4>1, HeadTailProperties
      <4> QED
        BY <4>2, <4>3 DEF q
    <3>6. \A d \in Channels : d # c => waiters'[d] = waiters[d]
      BY <2>4, <1>t DEF TypeOK
    <3>7. outbound'[h] = "drain"
          /\ \A a \in Clients : a # h => outbound'[a] = outbound[a]
      BY <2>4, <3>3, <1>t DEF TypeOK
    <3> HIDE DEF h
    <3>8. WaitersParked'
      <4> SUFFICES ASSUME NEW d \in Channels
                   PROVE  /\ \A i \in 1..Len(waiters'[d]) :
                               /\ chan'[waiters'[d][i]] = d
                               /\ outbound'[waiters'[d][i]] = "parked"
                          /\ \A i, j \in 1..Len(waiters'[d]) :
                               waiters'[d][i] = waiters'[d][j] => i = j
                          /\ \A a \in Clients :
                               chan'[a] = d /\ outbound'[a] = "parked" =>
                                 \E i \in 1..Len(waiters'[d]) :
                                   waiters'[d][i] = a
        BY DEF WaitersParked
      <4>1. CASE d # c
        <5>1. waiters'[d] = waiters[d] /\ waiters[d] \in Seq(Clients)
          BY <3>6, <4>1, <1>t DEF TypeOK
        <5>2. ASSUME NEW i \in 1..Len(waiters[d])
              PROVE  /\ chan[waiters[d][i]] = d
                     /\ outbound'[waiters[d][i]] = "parked"
          <6>1. waiters[d][i] \in Clients
            BY <5>1, ElementOfSeq
          <6>2. chan[waiters[d][i]] = d /\ outbound[waiters[d][i]] = "parked"
            BY <1>w DEF WaitersParked
          <6>3. waiters[d][i] # h
            BY <3>3, <4>1, <6>2
          <6> QED
            BY <3>7, <6>1, <6>2, <6>3
        <5>3. ASSUME NEW a \in Clients, chan[a] = d, outbound'[a] = "parked"
              PROVE  outbound[a] = "parked"
          BY <3>7, <5>3
        <5>4. /\ \A i, j \in 1..Len(waiters[d]) :
                   waiters[d][i] = waiters[d][j] => i = j
              /\ \A a \in Clients :
                   chan[a] = d /\ outbound'[a] = "parked" =>
                     \E i \in 1..Len(waiters[d]) : waiters[d][i] = a
          BY <5>3, <1>w DEF WaitersParked
        <5> QED
          BY <2>2, <5>1, <5>2, <5>4
      <4>2. CASE d = c
        <5>1. ASSUME NEW i \in 1..Len(waiters'[c])
              PROVE  /\ i + 1 \in 1..Len(waiters[c])
                     /\ waiters'[c][i] = waiters[c][i + 1]
                     /\ i + 1 # 1
          BY <3>1, <3>5, LenProperties
        <5>2. ASSUME NEW i \in 1..Len(waiters'[c])
              PROVE  /\ chan[waiters'[c][i]] = c
                     /\ outbound'[waiters'[c][i]] = "parked"
          <6>1. /\ chan[waiters'[c][i]] = c
                /\ outbound[waiters'[c][i]] = "parked"
            BY <2>1, <5>1, <1>w DEF WaitersParked
          <6>2. waiters'[c][i] \in Clients
            BY <3>1, <5>1, ElementOfSeq
          <6>3. waiters'[c][i] # h
            BY <2>1, <3>2, <5>1, <1>w DEF WaitersParked
          <6> QED
            BY <3>7, <6>1, <6>2, <6>3
        <5>3. ASSUME NEW i \in 1..Len(waiters'[c]),
                     NEW j \in 1..Len(waiters'[c]),
                     waiters'[c][i] = waiters'[c][j]
              PROVE  i = j
          <6>1. \A m, n \in 1..Len(waiters[c]) :
                  waiters[c][m] = waiters[c][n] => m = n
            BY <2>1, <1>w DEF WaitersParked
          <6>2. /\ i + 1 \in 1..Len(waiters[c]) /\ j + 1 \in 1..Len(waiters[c])
                /\ waiters[c][i + 1] = waiters[c][j + 1]
            BY <5>1, <5>3
          <6>3. i + 1 = j + 1
            BY <6>1, <6>2
          <6> QED
            BY <6>3
        <5>4. ASSUME NEW a \in Clients, chan[a] = c, outbound'[a] = "parked"
              PROVE  \E i \in 1..Len(waiters'[c]) : waiters'[c][i] = a
          <6>1. a # h /\ outbound[a] = "parked"
            BY <3>7, <5>4
          <6>2. PICK i \in 1..Len(waiters[c]) : waiters[c][i] = a
            BY <2>1, <5>4, <6>1, <1>w DEF WaitersParked
          <6>3. i # 1
            BY <3>2, <6>1, <6>2
          <6>4. i - 1 \in 1..Len(waiters'[c])
            BY <3>1, <3>5, <6>3, LenProperties
          <6>5. waiters'[c][i - 1] = a
            BY <3>5, <6>2, <6>4
          <6> QED
            BY <6>4, <6>5
        <5> QED
          BY <2>2, <4>2, <5>2, <5>3, <5>4
      <4> QED
        BY <4>1, <4>2
    <3>9. PermitOrWaiters'
      BY <2>1, <2>4, <3>6, <1>w DEF PermitOrWaiters
    <3>10. AbsentIdle'
      BY <2>2, <3>3, <3>7, <1>w DEF AbsentIdle
    <3>11. \A d \in Channels : DrainPending(d) => DrainPending(d)'
      <4> SUFFICES ASSUME NEW d \in Channels, DrainPending(d)
                   PROVE  DrainPending(d)'
        OBVIOUS
      <4>1. CASE d = c
        BY <2>2, <3>3, <3>7, <4>1 DEF DrainPending
      <4>2. CASE d # c
        <5>1. \A a \in Clients : outbound[a] = "drain" => outbound'[a] = "drain"
          BY <3>7
        <5> QED
          BY <2>2, <2>3, <2>4, <4>2, <5>1 DEF DrainPending
      <4> QED
        BY <4>1, <4>2
    <3>12. NoLostWakeup'
      BY <2>2, <3>11, <1>w DEF NoLostWakeup
    <3> QED
      BY <1>t, <3>8, <3>9, <3>10, <3>12 DEF WakeInv
  <2>5. CASE /\ waiters[c] = <<>>
             /\ permit' = [permit EXCEPT ![c] = TRUE]
             /\ UNCHANGED <<waiters, outbound>>
    <3>1. permit'[c] /\ \A d \in Channels : d # c => permit'[d] = permit[d]
      BY <2>1, <2>5, <1>t DEF TypeOK
    <3>2. WaitersParked'
      BY <2>2, <2>5, <1>w DEF WaitersParked
    <3>3. PermitOrWaiters'
      BY <2>5, <3>1, <1>w DEF PermitOrWaiters
    <3>4. AbsentIdle'
      BY <2>2, <2>5, <1>w DEF AbsentIdle
    <3>5. \A d \in Channels : DrainPending(d) => DrainPending(d)'
      BY <2>2, <2>3, <2>5, <3>1 DEF DrainPending
    <3>6. NoLostWakeup'
      BY <2>2, <3>5, <1>w DEF NoLostWakeup
    <3> QED
      BY <1>t, <3>2, <3>3, <3>4, <3>6 DEF WakeInv
  <2> QED
    BY <1>4, <2>4, <2>5 DEF NotifyOne
<1>5. ASSUME NEW a \in Clients, NEW ch \in Channels \cup BadChannels,
             HandleAttach(a, ch)
      PROVE  WakeInv'
  <2>1. outbound[a] = "none" /\ outbound'[a] = "drain"
    BY <1>5, <1>t, <1>w DEF HandleAttach, AbsentIdle, TypeOK
  <2>2. \A b \in Clients : b # a => /\ chan'[b] = chan[b]
                                    /\ outbound'[b] = outbound[b]
                                    /\ peer'[b] = peer[b]
    BY <1>5, <1>t DEF HandleAttach, TypeOK
  <2>3. WaitersParked'
    BY <1>5, <1>t, <1>w, <2>1, <2>2, WaitersMove DEF HandleAttach, sharedVars
  <2>4. PermitOrWaiters'
    BY <1>5, <1>w DEF HandleAttach, sharedVars, PermitOrWaiters
  <2>5. AbsentIdle'
    <3>1. peer'[a] = "open"
      BY <1>5, <1>t DEF HandleAttach, TypeOK
    <3> QED
      BY <2>2, <3>1, <1>w DEF AbsentIdle
  <2>6. \A d \in Channels : DrainPending(d) => DrainPending(d)'
    <3>1. \A b \in Clients, d \in Channels :
            chan[b] = d /\ outbound[b] = "drain" =>
            chan'[b] = d /\ outbound'[b] = "drain"
      BY <2>1, <2>2
    <3> QED
      BY <1>5, <3>1 DEF DrainPending, HandleAttach, sharedVars
  <2>7. NoLostWakeup'
    BY <1>5, <2>6, <1>w DEF HandleAttach, sharedVars, NoLostWakeup
  <2> QED
    BY <1>t, <2>3, <2>4, <2>5, <2>7 DEF WakeInv
<1>6. ASSUME NEW a \in Clients, Disconnect(a) PROVE WakeInv'
  <2>1. WaitersParked' /\ PermitOrWaiters'
    BY <1>6, <1>w, WaitersFrame DEF Disconnect, sharedVars
  <2>2. AbsentIdle'
    BY <1>6, <1>t, <1>w DEF Disconnect, AbsentIdle, TypeOK
  <2>3. NoLostWakeup'
    BY <1>6, <1>w DEF Disconnect, sharedVars, NoLostWakeup, DrainPending
  <2> QED
    BY <1>t, <2>1, <2>2, <2>3 DEF WakeInv
<1>7. ASSUME NEW a \in Clients, InboundEof(a) PROVE WakeInv'
  <2>1. WaitersParked' /\ PermitOrWaiters'
    BY <1>7, <1>w, WaitersFrame DEF InboundEof, sharedVars
  <2>2. AbsentIdle' /\ NoLostWakeup'
    BY <1>7, <1>w DEF InboundEof, sharedVars, AbsentIdle, NoLostWakeup, DrainPending
  <2> QED
    BY <1>t, <2>1, <2>2 DEF WakeInv
<1>8. ASSUME NEW a \in Clients, DrainVserial(a) PROVE WakeInv'
  <2> DEFINE c == chan[a]
  <2>1. outbound[a] = "drain" /\ UNCHANGED <<notifying, permit, waiters, peer, chan>>
    BY <1>8 DEF DrainVserial
  <2>2. PICK st \in {"write", "wait"} : outbound' = [outbound EXCEPT ![a] = st]
    BY <1>8 DEF DrainVserial
  <2>3. \A b \in Clients : b # a => outbound'[b] = outbound[b]
    BY <2>2, <1>t DEF TypeOK
  <2>4. WaitersParked'
    BY <2>1, <2>2, <1>t, <1>w, WaitersMove
  <2>5. PermitOrWaiters'
    BY <2>1, <1>w DEF PermitOrWaiters
  <2>6. AbsentIdle'
    BY <2>1, <2>3, <1>w DEF AbsentIdle
  <2>7. c \in Channels => inbox'[c] = <<>>
    BY <1>8, <1>t DEF DrainVserial, TypeOK
  <2>8. \A d \in Channels : d # c => inbox'[d] = inbox[d]
    BY <1>8, <1>t DEF DrainVserial, TypeOK
  <2>9. NoLostWakeup'
    <3> SUFFICES ASSUME NEW d \in Channels, NEW i \in 1..Len(inbox'[d]),
                        inbox'[d][i].via = "push"
                 PROVE  DrainPending(d)'
      BY DEF NoLostWakeup
    <3>1. d # c
      <4>1. Len(<<>>) = 0
        OBVIOUS
      <4>2. inbox'[d] # <<>>
        BY <4>1
      <4> QED
        BY <2>7, <4>2
    <3>2. DrainPending(d)
      BY <2>8, <3>1, <1>w DEF NoLostWakeup
    <3> QED
      BY <2>1, <2>3, <3>1, <3>2 DEF DrainPending
  <2> QED
    BY <1>t, <2>4, <2>5, <2>6, <2>9 DEF WakeInv
<1>9. ASSUME NEW a \in Clients, WaitVserialInbox(a) PROVE WakeInv'
  <2> DEFINE c == chan[a]
  <2>1. outbound[a] = "wait" /\ UNCHANGED <<inbox, notifying, peer, chan>>
    BY <1>9 DEF WaitVserialInbox
  <2>2. PICK st \in {"drain", "parked"} : outbound' = [outbound EXCEPT ![a] = st]
    BY <1>9 DEF WaitVserialInbox
  <2>3. outbound'[a] = st /\ \A b \in Clients : b # a => outbound'[b] = outbound[b]
    BY <2>2, <1>t DEF TypeOK
  <2>4. AbsentIdle'
    BY <2>1, <2>3, <1>w DEF AbsentIdle
  <2>5. \A d \in Channels : permit[d] => permit'[d] \/ (d = c /\ outbound'[a] = "drain")
    BY <1>9, <1>t DEF WaitVserialInbox, TypeOK
  <2>6. \A d \in Channels : DrainPending(d) => DrainPending(d)'
    <3>1. \A b \in Clients : outbound[b] = "drain" => outbound'[b] = "drain"
      BY <2>1, <2>3
    <3> QED
      BY <2>1, <2>5, <3>1 DEF DrainPending
  <2>7. NoLostWakeup'
    BY <2>1, <2>6, <1>w DEF NoLostWakeup
  <2>8. WaitersParked' /\ PermitOrWaiters'
    <3>1. CASE /\ c \in Channels /\ permit[c]
               /\ permit' = [permit EXCEPT ![c] = FALSE]
               /\ outbound' = [outbound EXCEPT ![a] = "drain"]
               /\ UNCHANGED waiters
      <4>1. WaitersParked'
        BY <2>1, <3>1, <1>t, <1>w, WaitersMove
      <4>2. \A d \in Channels : permit'[d] => permit[d]
        BY <3>1, <1>t DEF TypeOK
      <4>3. PermitOrWaiters'
        BY <3>1, <4>2, <1>w DEF PermitOrWaiters
      <4> QED
        BY <4>1, <4>3
    <3>2. CASE /\ c \in Channels /\ ~permit[c]
               /\ waiters' = [waiters EXCEPT ![c] = Append(@, a)]
               /\ outbound' = [outbound EXCEPT ![a] = "parked"]
               /\ UNCHANGED permit
      <4>1. \A d \in Channels : waiters[d] \in Seq(Clients)
        BY <1>t DEF TypeOK
      <4>2. waiters'[c] = Append(waiters[c], a)
            /\ \A d \in Channels : d # c => waiters'[d] = waiters[d]
        BY <3>2, <1>t DEF TypeOK
      <4>3. PermitOrWaiters'
        BY <3>2, <4>2, <1>w DEF PermitOrWaiters
      <4>4. \A d \in Channels : \A i \in 1..Len(waiters[d]) :
              /\ waiters[d][i] \in Clients
              /\ waiters[d][i] # a
              /\ chan[waiters[d][i]] = d
              /\ outbound'[waiters[d][i]] = "parked"
        BY <2>1, <2>3, <4>1, <1>w, ElementOfSeq DEF WaitersParked
      <4>5. \A b \in Clients : b # a /\ outbound'[b] = "parked" =>
                                 outbound[b] = "parked"
        BY <2>3
      <4>6. /\ Len(waiters'[c]) = Len(waiters[c]) + 1
            /\ \A i \in 1..Len(waiters[c]) : waiters'[c][i] = waiters[c][i]
            /\ waiters'[c][Len(waiters[c]) + 1] = a
            /\ Len(waiters[c]) \in Nat
        BY <3>2, <4>1, <4>2
      <4>7. outbound'[a] = "parked"
        BY <3>2, <1>t DEF TypeOK
      <4>8. ASSUME NEW d \in Channels
            PROVE  /\ \A i \in 1..Len(waiters'[d]) :
                        /\ chan[waiters'[d][i]] = d
                        /\ outbound'[waiters'[d][i]] = "parked"
                   /\ \A i, j \in 1..Len(waiters'[d]) :
                        waiters'[d][i] = waiters'[d][j] => i = j
                   /\ \A b \in Clients :
                        chan[b] = d /\ outbound'[b] = "parked" =>
                          \E i \in 1..Len(waiters'[d]) : waiters'[d][i] = b
        <5>1. CASE d # c
          <6>1. /\ \A i, j \in 1..Len(waiters[d]) :
                     waiters[d][i] = waiters[d][j] => i = j
                /\ \A b \in Clients :
                     chan[b] = d /\ outbound'[b] = "parked" =>
                       \E i \in 1..Len(waiters[d]) : waiters[d][i] = b
            BY <4>5, <5>1, <1>w DEF WaitersParked
          <6>2. waiters'[d] = waiters[d]
            BY <4>2, <5>1
          <6>3. \A i \in 1..Len(waiters[d]) :
                  /\ chan[waiters[d][i]] = d
                  /\ outbound'[waiters[d][i]] = "parked"
            BY <4>4
          <6> QED
            BY <6>1, <6>2, <6>3, Zenon
        <5>2. CASE d = c
          <6>1. \A i \in 1..Len(waiters'[c]) :
                  /\ chan[waiters'[c][i]] = c
                  /\ outbound'[waiters'[c][i]] = "parked"
            BY <3>2, <4>4, <4>6, <4>7
          <6>2. ASSUME NEW i \in 1..Len(waiters'[c]),
                       NEW j \in 1..Len(waiters'[c]),
                       waiters'[c][i] = waiters'[c][j]
                PROVE  i = j
            <7>1. \A m, n \in 1..Len(waiters[c]) :
                    waiters[c][m] = waiters[c][n] => m = n
              BY <3>2, <1>w DEF WaitersParked
            <7> QED
              BY <3>2, <4>4, <4>6, <6>2, <7>1
          <6>3. ASSUME NEW b \in Clients, chan[b] = c, outbound'[b] = "parked"
                PROVE  \E i \in 1..Len(waiters'[c]) : waiters'[c][i] = b
            <7>1. CASE b = a
              BY <4>6, <7>1
            <7>2. CASE b # a
              <8>1. PICK i \in 1..Len(waiters[c]) : waiters[c][i] = b
                BY <3>2, <4>5, <6>3, <7>2, <1>w DEF WaitersParked
              <8> QED
                BY <4>6, <8>1
            <7> QED
              BY <7>1, <7>2
          <6> QED
            BY <5>2, <6>1, <6>2, <6>3
        <5> QED
          BY <5>1, <5>2
      <4>9. WaitersParked'
        BY <2>1, <4>8 DEF WaitersParked
      <4> QED
        BY <4>3, <4>9
    <3>3. CASE /\ c \notin Channels
               /\ outbound' = [outbound EXCEPT ![a] = "parked"]
               /\ UNCHANGED <<permit, waiters>>
      <4>1. \A d \in Channels : waiters[d] \in Seq(Clients)
        BY <1>t DEF TypeOK
      <4>2. \A b \in Clients : outbound[b] = "parked" => outbound'[b] = "parked"
        BY <2>1, <2>3
      <4>3. \A d \in Channels : \A i \in 1..Len(waiters[d]) :
              /\ chan[waiters[d][i]] = d
              /\ outbound'[waiters[d][i]] = "parked"
        BY <4>1, <4>2, <1>w, ElementOfSeq DEF WaitersParked
      <4>4. \A b \in Clients : chan[b] \in Channels /\ outbound'[b] = "parked"
                                 => outbound[b] = "parked"
        BY <2>3, <3>3
      <4>5. WaitersParked'
        BY <2>1, <3>3, <4>3, <4>4, <1>w DEF WaitersParked
      <4>6. PermitOrWaiters'
        BY <3>3, <1>w DEF PermitOrWaiters
      <4> QED
        BY <4>5, <4>6
    <3> QED
      BY <1>9, <3>1, <3>2, <3>3 DEF WaitVserialInbox
  <2> QED
    BY <1>t, <2>4, <2>7, <2>8 DEF WakeInv
<1>10. ASSUME NEW a \in Clients, WriteAll(a) PROVE WakeInv'
  <2>1. /\ outbound[a] = "write"
        /\ UNCHANGED <<inbox, notifying, permit, waiters, peer, chan>>
    BY <1>10 DEF WriteAll, sharedVars
  <2>2. PICK st \in {"drain", "done"} : outbound' = [outbound EXCEPT ![a] = st]
    BY <1>10 DEF WriteAll
  <2>3. \A b \in Clients : b # a => outbound'[b] = outbound[b]
    BY <2>2, <1>t DEF TypeOK
  <2>4. WaitersParked'
    BY <2>1, <2>2, <1>t, <1>w, WaitersMove
  <2>5. PermitOrWaiters'
    BY <2>1, <1>w DEF PermitOrWaiters
  <2>6. AbsentIdle'
    BY <2>1, <2>3, <1>w DEF AbsentIdle
  <2>7. \A b \in Clients : outbound[b] = "drain" => outbound'[b] = "drain"
    BY <2>1, <2>3
  <2>8. NoLostWakeup'
    BY <2>1, <2>7, <1>w DEF NoLostWakeup, DrainPending
  <2> QED
    BY <1>t, <2>4, <2>5, <2>6, <2>8 DEF WakeInv
<1>11. ASSUME SummaryLock \/ SummaryUnlock PROVE WakeInv'
  <2>1. UNCHANGED <<inbox, notifying, permit, waiters, peer, chan, outbound>>
    BY <1>11 DEF SummaryLock, SummaryUnlock, clientVars
  <2>2. WaitersParked' /\ PermitOrWaiters'
    BY <2>1, <1>w, WaitersFrame
  <2>3. AbsentIdle' /\ NoLostWakeup'
    BY <2>1, <1>w DEF AbsentIdle, NoLostWakeup, DrainPending
  <2> QED
    BY <1>t, <2>2, <2>3 DEF WakeInv
<1>12. CASE UNCHANGED vars
  <2>1. WaitersParked' /\ PermitOrWaiters'
    BY <1>12, <1>w, WaitersFrame DEF vars, sharedVars, clientVars
  <2>2. AbsentIdle' /\ NoLostWakeup'
    BY <1>12, <1>w DEF vars, sharedVars, clientVars, AbsentIdle, NoLostWakeup,
                       DrainPending
  <2> QED
    BY <1>t, <2>1, <2>2 DEF WakeInv
<1> QED
  BY <1>1, <1>2, <1>3, <1>4, <1>5, <1>6, <1>7, <1>8, <1>9, <1>10, <1>11, <1>12
     DEF Next, Session, Client

\* The whole invariant of the wakeup protocol holds in every reachable state.
THEOREM WakeInvariant == Spec => []WakeInv
<1>1. Init => WakeInv
  BY WakeInit
<1>2. WakeInv /\ [Next]_vars => WakeInv'
  BY WakeStep
<1> QED
  BY <1>1, <1>2, PTL DEF Spec

\* No byte queued by push_vserial is ever left in the inbox with no drain of
\* its channel to come: the check in drain_vserial, the wait on the Notify
\* and the notify_one() that follows the push can interleave in any way, with
\* any number of sessions and clients on the channel.
THEOREM WakeupNeverLost == Spec => []NoLostWakeup
<1>1. WakeInv => NoLostWakeup
  BY DEF WakeInv
<1> QED
  BY <1>1, WakeInvariant, PTL

\* The queue of a channel's Notify holds exactly the parked outbound tasks of
\* clients on that channel, each once: wait_vserial_inbox parks a task nowhere
\* else, and an out-of-range channel's task in no queue at all.
THEOREM NotifyQueueExact == Spec => []WaitersParked
<1>1. WakeInv => WaitersParked
  BY DEF WakeInv
<1> QED
  BY <1>1, WakeInvariant, PTL

----------------------------------------------------------------------------
(* Order. InOrder speaks of concatenations; the induction is carried out   *)
(* on its parts (OrderInv): every queue is increasing, each one lies below *)
(* the next, and all of them lie at or below the count of bytes written.   *)

Below(p, q) == \A i \in 1..Len(p), j \in 1..Len(q) : p[i].n < q[j].n

AtMost(p, w) == \A i \in 1..Len(p) : p[i].n <= w

QueueOrdered(c) == Increasing(inbox[c]) /\ AtMost(inbox[c], written[c])

ClientOrdered(a) ==
  /\ Increasing(got[a])
  /\ Increasing(buf[a])
  /\ Below(got[a], buf[a])
  /\ \A c \in Channels : chan[a] = c =>
       /\ Below(got[a], inbox[c])
       /\ Below(buf[a], inbox[c])
       /\ AtMost(got[a], written[c])
       /\ AtMost(buf[a], written[c])

\* A task holds drained bytes only while it is writing them.
BufStage ==
  \A a \in Clients :
    /\ peer[a] = "absent" => outbound[a] = "none" /\ got[a] = <<>>
    /\ outbound[a] # "write" => buf[a] = <<>>

OrderInv ==
  /\ TypeOK
  /\ BufStage
  /\ \A c \in Channels : QueueOrdered(c)
  /\ \A a \in Clients : ClientOrdered(a)

\* The empty queue is in order with everything.
LEMMA EmptyOrdered ==
  /\ Increasing(<<>>)
  /\ \A q : Below(<<>>, q) /\ Below(q, <<>>)
  /\ \A w : AtMost(<<>>, w)
<1>1. Len(<<>>) = 0
  OBVIOUS
<1> QED
  BY <1>1 DEF Increasing, Below, AtMost

\* A byte of a queue has a number.
LEMMA ByteNumber ==
  ASSUME NEW q \in Seq(Byte), NEW i \in 1..Len(q)
  PROVE  q[i].n \in Nat
<1>1. q[i] \in Byte
  BY ElementOfSeq
<1> QED
  BY <1>1 DEF Byte

\* An element of a concatenation is an element of one of its parts.
LEMMA ConcatElement ==
  ASSUME NEW p \in Seq(Byte), NEW q \in Seq(Byte), NEW i \in 1..Len(p \o q)
  PROVE  \/ i \in 1..Len(p) /\ (p \o q)[i] = p[i]
         \/ /\ i - Len(p) \in 1..Len(q)
            /\ i > Len(p)
            /\ (p \o q)[i] = q[i - Len(p)]
  BY ConcatProperties, LenProperties

\* Two increasing queues, the first below the second, are one when joined.
LEMMA IncreasingConcat ==
  ASSUME NEW p \in Seq(Byte), NEW q \in Seq(Byte),
         Increasing(p), Increasing(q), Below(p, q)
  PROVE  Increasing(p \o q)
<1> SUFFICES ASSUME NEW i \in 1..Len(p \o q), NEW j \in 1..Len(p \o q), i < j
             PROVE  (p \o q)[i].n < (p \o q)[j].n
  BY DEF Increasing
<1>1. Len(p) \in Nat /\ Len(q) \in Nat
  BY LenProperties
<1>2. CASE j \in 1..Len(p) /\ (p \o q)[j] = p[j]
  <2>1. i \in 1..Len(p) /\ (p \o q)[i] = p[i]
    BY <1>1, <1>2, ConcatElement
  <2> QED
    BY <1>2, <2>1 DEF Increasing
<1>3. CASE /\ j - Len(p) \in 1..Len(q) /\ j > Len(p)
           /\ (p \o q)[j] = q[j - Len(p)]
  <2>1. CASE i \in 1..Len(p) /\ (p \o q)[i] = p[i]
    BY <1>3, <2>1 DEF Below
  <2>2. CASE /\ i - Len(p) \in 1..Len(q) /\ i > Len(p)
             /\ (p \o q)[i] = q[i - Len(p)]
    <3>1. i - Len(p) < j - Len(p)
      BY <1>1
    <3> QED
      BY <1>3, <2>2, <3>1 DEF Increasing
  <2> QED
    BY <2>1, <2>2, ConcatElement
<1> QED
  BY <1>2, <1>3, ConcatElement

\* A joined queue is below what both of its parts are below.
LEMMA BelowConcat ==
  ASSUME NEW p \in Seq(Byte), NEW q \in Seq(Byte), NEW r \in Seq(Byte)
  PROVE  /\ Below(p, r) /\ Below(q, r) => Below(p \o q, r)
         /\ Below(p, q) /\ Below(p, r) => Below(p, q \o r)
<1>1. ASSUME Below(p, r), Below(q, r),
             NEW i \in 1..Len(p \o q), NEW j \in 1..Len(r)
      PROVE  (p \o q)[i].n < r[j].n
  <2>1. CASE i \in 1..Len(p) /\ (p \o q)[i] = p[i]
    BY <1>1, <2>1 DEF Below
  <2>2. CASE i - Len(p) \in 1..Len(q) /\ (p \o q)[i] = q[i - Len(p)]
    BY <1>1, <2>2 DEF Below
  <2> QED
    BY <2>1, <2>2, ConcatElement
<1>2. ASSUME Below(p, q), Below(p, r),
             NEW i \in 1..Len(p), NEW j \in 1..Len(q \o r)
      PROVE  p[i].n < (q \o r)[j].n
  <2>1. CASE j \in 1..Len(q) /\ (q \o r)[j] = q[j]
    BY <1>2, <2>1 DEF Below
  <2>2. CASE j - Len(q) \in 1..Len(r) /\ (q \o r)[j] = r[j - Len(q)]
    BY <1>2, <2>2 DEF Below
  <2> QED
    BY <2>1, <2>2, ConcatElement
<1> QED
  BY <1>1, <1>2 DEF Below

\* A joined queue has the bound of its parts.
LEMMA AtMostConcat ==
  ASSUME NEW p \in Seq(Byte), NEW q \in Seq(Byte), NEW w,
         AtMost(p, w), AtMost(q, w)
  PROVE  AtMost(p \o q, w)
  BY ConcatElement DEF AtMost

\* A bound can be raised: the guest only ever writes more.
LEMMA AtMostMonotone ==
  ASSUME NEW p \in Seq(Byte), NEW v \in Nat, NEW w \in Nat, v <= w, AtMost(p, v)
  PROVE  AtMost(p, w)
  BY ByteNumber DEF AtMost

\* The bytes a session queues are numbered upwards from written[c] + 1.
LEMMA BurstOrdered ==
  ASSUME NEW v \in Nat, NEW k \in Nat, NEW via \in {"push", "burst"},
         NEW p \in Seq(Byte), AtMost(p, v)
  PROVE  LET new == [i \in 1..k |-> [n |-> v + i, via |-> via]]
         IN  Increasing(new) /\ Below(p, new) /\ AtMost(new, v + k)
<1> DEFINE new == [i \in 1..k |-> [n |-> v + i, via |-> via]]
<1>1. new \in Seq(Byte)
  BY BurstType
<1>2. DOMAIN new = 1..Len(new) /\ Len(new) \in Nat
  BY <1>1, LenProperties
<1>3. DOMAIN new = 1..k
  OBVIOUS
<1>4. Len(new) = k
  BY <1>2, <1>3
<1>5. \A i \in 1..Len(new) : new[i].n = v + i
  BY <1>4
<1> HIDE DEF new
<1>6. Increasing(new) /\ AtMost(new, v + k)
  BY <1>4, <1>5 DEF Increasing, AtMost
<1>7. Below(p, new)
  <2> SUFFICES ASSUME NEW i \in 1..Len(p), NEW j \in 1..Len(new)
               PROVE  p[i].n < new[j].n
    BY DEF Below
  <2>1. p[i].n \in Nat /\ p[i].n <= v
    BY ByteNumber DEF AtMost
  <2> QED
    BY <1>4, <1>5, <2>1
<1> QED
  BY <1>6, <1>7 DEF new

\* A fresh Server's queues are empty, so in order.
LEMMA OrderInit == Init => OrderInv
<1> SUFFICES ASSUME Init PROVE OrderInv
  OBVIOUS
<1>1. TypeOK
  BY TypeInit
<1>2. BufStage
  BY DEF Init, BufStage
<1>3. \A c \in Channels : QueueOrdered(c)
  BY EmptyOrdered DEF Init, QueueOrdered
<1>4. \A a \in Clients : got[a] = <<>> /\ buf[a] = <<>>
  BY DEF Init
<1>5. \A a \in Clients : ClientOrdered(a)
  BY <1>4, EmptyOrdered DEF ClientOrdered
<1> QED
  BY <1>1, <1>2, <1>3, <1>5 DEF OrderInv

\* A step of a session: queueing keeps every order, whatever the session does
\* besides.
LEMMA OrderEnqueue ==
  ASSUME OrderInv, NEW c \in Channels, NEW k \in Nat,
         NEW via \in {"push", "burst"}, Enqueue(c, k, via),
         UNCHANGED <<chan, got, buf>>
  PROVE  /\ \A d \in Channels : QueueOrdered(d)'
         /\ \A a \in Clients : ClientOrdered(a)'
<1>t. TypeOK
  BY DEF OrderInv
<1> DEFINE new == [i \in 1..k |-> [n |-> written[c] + i, via |-> via]]
<1>1. /\ inbox[c] \in Seq(Byte) /\ written[c] \in Nat
      /\ \A a \in Clients : got[a] \in Seq(Byte) /\ buf[a] \in Seq(Byte)
  BY <1>t DEF TypeOK
<1>2. new \in Seq(Byte)
  BY <1>1, BurstType
<1>3. /\ inbox'[c] = inbox[c] \o new
      /\ written'[c] = written[c] + k
      /\ \A d \in Channels : d # c => /\ inbox'[d] = inbox[d]
                                      /\ written'[d] = written[d]
  BY <1>t DEF Enqueue, TypeOK
<1>4. ASSUME NEW p \in Seq(Byte), AtMost(p, written[c])
      PROVE  Increasing(new) /\ Below(p, new) /\ AtMost(new, written[c] + k)
  BY <1>1, <1>4, BurstOrdered
<1> HIDE DEF new
<1>5. QueueOrdered(c) /\ Increasing(inbox[c]) /\ AtMost(inbox[c], written[c])
  BY DEF OrderInv, QueueOrdered
<1>6. QueueOrdered(c)'
  <2>1. Increasing(inbox[c] \o new)
    BY <1>1, <1>2, <1>4, <1>5, IncreasingConcat
  <2>2. AtMost(inbox[c], written[c] + k)
    BY <1>1, <1>5, AtMostMonotone
  <2>3. AtMost(inbox[c] \o new, written[c] + k)
    BY <1>1, <1>2, <1>4, <1>5, <2>2, AtMostConcat
  <2> QED
    BY <1>3, <2>1, <2>3 DEF QueueOrdered
<1>7. \A d \in Channels : QueueOrdered(d)'
  BY <1>3, <1>6 DEF OrderInv, QueueOrdered
<1>8. ASSUME NEW a \in Clients PROVE ClientOrdered(a)'
  <2>1. ClientOrdered(a)
    BY DEF OrderInv
  <2>2. CASE chan[a] # c
    BY <1>3, <2>1, <2>2 DEF ClientOrdered
  <2>3. CASE chan[a] = c
    <3>1. /\ Below(got[a], inbox[c]) /\ Below(buf[a], inbox[c])
          /\ AtMost(got[a], written[c]) /\ AtMost(buf[a], written[c])
      BY <2>1, <2>3 DEF ClientOrdered
    <3>2. Below(got[a], inbox[c] \o new) /\ Below(buf[a], inbox[c] \o new)
      BY <1>1, <1>2, <1>4, <3>1, BelowConcat
    <3>3. AtMost(got[a], written[c] + k) /\ AtMost(buf[a], written[c] + k)
      BY <1>1, <3>1, AtMostMonotone
    <3> QED
      BY <1>3, <2>1, <2>3, <3>2, <3>3 DEF ClientOrdered
  <2> QED
    BY <2>2, <2>3
<1> QED
  BY <1>7, <1>8

\* A step that leaves the queues and the clients' data alone keeps the order.
LEMMA OrderFrame ==
  ASSUME OrderInv, UNCHANGED <<inbox, written, chan, got, buf>>
  PROVE  /\ \A d \in Channels : QueueOrdered(d)'
         /\ \A a \in Clients : ClientOrdered(a)'
  BY DEF OrderInv, QueueOrdered, ClientOrdered

\* A session only appends bytes later than all it wrote before.
LEMMA OrderSession ==
  ASSUME OrderInv, NEW s \in Sessions, Session(s), WakeInv
  PROVE  OrderInv'
<1> USE InboxAssumption
<1>t. TypeOK /\ TypeOK' /\ BufStage
  BY TypeStep DEF OrderInv, Next
<1>1. CASE NotifyOne(s)
  <2>1. UNCHANGED <<inbox, written, peer, chan, got, buf>>
    BY <1>1 DEF NotifyOne
  <2>2. \/ UNCHANGED outbound
        \/ \E h \in Clients : /\ outbound[h] = "parked"
                              /\ outbound' = [outbound EXCEPT ![h] = "drain"]
    <3> DEFINE c == notifying[s]
    <3>1. c \in Channels
      BY <1>1, <1>t DEF NotifyOne, TypeOK
    <3>2. waiters[c] \in Seq(Clients)
      BY <3>1, <1>t DEF TypeOK
    <3>3. CASE waiters[c] # <<>>
      <4>1. 1 \in 1..Len(waiters[c]) /\ Head(waiters[c]) = waiters[c][1]
        BY <3>2, <3>3, EmptySeq
      <4>2. outbound[waiters[c][1]] = "parked" /\ waiters[c][1] \in Clients
        BY <3>1, <3>2, <4>1, ElementOfSeq DEF WakeInv, WaitersParked
      <4> QED
        BY <1>1, <3>3, <4>1, <4>2 DEF NotifyOne
    <3>4. CASE waiters[c] = <<>>
      BY <1>1, <3>4 DEF NotifyOne
    <3> QED
      BY <3>3, <3>4
  <2>3. BufStage'
    <3>1. \A a \in Clients :
            /\ outbound'[a] # "write" => outbound[a] # "write"
            /\ outbound[a] = "none" => outbound'[a] = "none"
      BY <2>2, <1>t DEF TypeOK
    <3> QED
      BY <2>1, <3>1, <1>t DEF BufStage
  <2> QED
    BY <1>t, <2>1, <2>3, OrderFrame DEF OrderInv
<1>2. CASE ~NotifyOne(s)
  <2>1. UNCHANGED <<peer, chan, outbound, got, buf>>
    BY <1>2 DEF Session, HandleFastWrite, SerWrite, HandleSerWriteM, PushVserial,
                clientVars
  <2>2. \/ \E c \in Channels, k \in Nat, via \in {"push", "burst"} :
             Enqueue(c, k, via)
        \/ UNCHANGED <<inbox, written>>
    <3>1. ASSUME NEW ch, PushVserial(s, ch)
          PROVE  \/ ch \in Channels /\ Enqueue(ch, 1, "push")
                 \/ UNCHANGED <<inbox, written>>
      BY <3>1 DEF PushVserial
    <3>2. CASE HandleFastWrite(s) \/ SerWrite(s)
      BY <3>1, <3>2 DEF HandleFastWrite, SerWrite
    <3>3. CASE HandleSerWriteM(s)
      BY <3>3 DEF HandleSerWriteM
    <3> QED
      BY <1>2, <3>2, <3>3 DEF Session
  <2>3. BufStage'
    BY <2>1, <1>t DEF BufStage
  <2>4. /\ \A d \in Channels : QueueOrdered(d)'
        /\ \A a \in Clients : ClientOrdered(a)'
    <3>1. CASE UNCHANGED <<inbox, written>>
      BY <2>1, <3>1, OrderFrame
    <3>2. CASE \E c \in Channels, k \in Nat, via \in {"push", "burst"} :
                 Enqueue(c, k, via)
      BY <2>1, <3>2, OrderEnqueue
    <3> QED
      BY <2>2, <3>1, <3>2
  <2> QED
    BY <1>t, <2>3, <2>4 DEF OrderInv
<1> QED
  BY <1>1, <1>2

\* Draining moves the whole queue to a task that holds nothing, and writing
\* moves that to the end of what the client has received.
LEMMA OrderClient ==
  ASSUME OrderInv, NEW a \in Clients, Client(a)
  PROVE  OrderInv'
<1> USE InboxAssumption
<1>t. TypeOK /\ TypeOK' /\ BufStage
  BY TypeStep DEF OrderInv, Next
<1>o. /\ \A c \in Channels : QueueOrdered(c)
      /\ \A b \in Clients : ClientOrdered(b)
  BY DEF OrderInv
<1>1. ASSUME NEW ch \in Channels \cup BadChannels, HandleAttach(a, ch)
      PROVE  OrderInv'
  <2>1. UNCHANGED <<inbox, written, got, buf>>
    BY <1>1 DEF HandleAttach, sharedVars
  <2>2. /\ peer'[a] = "open" /\ outbound'[a] = "drain"
        /\ \A b \in Clients : b # a => /\ chan'[b] = chan[b]
                                       /\ outbound'[b] = outbound[b]
                                       /\ peer'[b] = peer[b]
    BY <1>1, <1>t DEF HandleAttach, TypeOK
  <2>3. got[a] = <<>> /\ buf[a] = <<>>
    BY <1>1, <1>t DEF HandleAttach, BufStage
  <2>4. BufStage'
    BY <2>1, <2>2, <2>3, <1>t DEF BufStage
  <2>5. \A c \in Channels : QueueOrdered(c)'
    BY <2>1, <1>o DEF QueueOrdered
  <2>6. ClientOrdered(a)'
    BY <2>1, <2>3, EmptyOrdered DEF ClientOrdered
  <2>7. \A b \in Clients : ClientOrdered(b)'
    BY <2>1, <2>2, <2>6, <1>o DEF ClientOrdered
  <2> QED
    BY <1>t, <2>4, <2>5, <2>7 DEF OrderInv
<1>2. CASE Disconnect(a)
  <2>1. UNCHANGED <<inbox, written, chan, outbound, got, buf>>
    BY <1>2 DEF Disconnect, sharedVars
  <2>2. \A b \in Clients : peer'[b] = "absent" => peer[b] = "absent"
    BY <1>2, <1>t DEF Disconnect, TypeOK
  <2>3. BufStage'
    BY <2>1, <2>2, <1>t DEF BufStage
  <2> QED
    BY <1>t, <2>1, <2>3, OrderFrame DEF OrderInv
<1>3. CASE InboundEof(a)
  <2>1. UNCHANGED <<inbox, written, peer, chan, outbound, got, buf>>
    BY <1>3 DEF InboundEof, sharedVars
  <2>2. BufStage'
    BY <2>1, <1>t DEF BufStage
  <2> QED
    BY <1>t, <2>1, <2>2, OrderFrame DEF OrderInv
<1>4. CASE DrainVserial(a)
  <2> DEFINE c == chan[a]
  <2>1. /\ outbound[a] = "drain" /\ buf[a] = <<>>
        /\ UNCHANGED <<written, peer, chan, got>>
    BY <1>4, <1>t DEF DrainVserial, BufStage
  <2>2. CASE /\ c \in Channels
             /\ buf' = [buf EXCEPT ![a] = inbox[c]]
             /\ inbox' = [inbox EXCEPT ![c] = <<>>]
             /\ outbound' = [outbound EXCEPT ![a] = "write"]
    <3>1. /\ buf'[a] = inbox[c] /\ inbox'[c] = <<>> /\ outbound'[a] = "write"
          /\ \A b \in Clients : b # a => /\ buf'[b] = buf[b]
                                         /\ outbound'[b] = outbound[b]
          /\ \A d \in Channels : d # c => inbox'[d] = inbox[d]
      BY <2>2, <1>t DEF TypeOK
    <3>2. BufStage'
      BY <2>1, <3>1, <1>t DEF BufStage
    <3>3. \A d \in Channels : QueueOrdered(d)'
      BY <2>1, <3>1, <1>o, EmptyOrdered DEF QueueOrdered
    <3>4. ClientOrdered(a)'
      <4>1. Increasing(inbox[c]) /\ AtMost(inbox[c], written[c])
        BY <2>2, <1>o DEF QueueOrdered
      <4>2. /\ Increasing(got[a]) /\ Below(got[a], inbox[c])
            /\ AtMost(got[a], written[c])
        BY <2>2, <1>o DEF ClientOrdered
      <4> QED
        BY <2>1, <3>1, <4>1, <4>2, EmptyOrdered DEF ClientOrdered
    <3>5. ASSUME NEW b \in Clients, b # a PROVE ClientOrdered(b)'
      <4>1. ClientOrdered(b) /\ buf'[b] = buf[b]
        BY <3>1, <3>5, <1>o
      <4>2. \A d \in Channels : /\ Below(got[b], inbox[d]) => Below(got[b], inbox'[d])
                                /\ Below(buf[b], inbox[d]) => Below(buf[b], inbox'[d])
        BY <3>1, EmptyOrdered
      <4> QED
        BY <2>1, <4>1, <4>2 DEF ClientOrdered
    <3> QED
      BY <1>t, <3>2, <3>3, <3>4, <3>5 DEF OrderInv
  <2>3. CASE /\ outbound' = [outbound EXCEPT ![a] = "wait"]
             /\ UNCHANGED <<inbox, buf>>
    <3>1. /\ outbound'[a] = "wait"
          /\ \A b \in Clients : b # a => outbound'[b] = outbound[b]
      BY <2>3, <1>t DEF TypeOK
    <3>2. BufStage'
      BY <2>1, <2>3, <3>1, <1>t DEF BufStage
    <3> QED
      BY <1>t, <2>1, <2>3, <3>2, OrderFrame DEF OrderInv
  <2> QED
    BY <1>4, <2>2, <2>3 DEF DrainVserial
<1>5. CASE WaitVserialInbox(a)
  <2>1. /\ outbound[a] = "wait"
        /\ UNCHANGED <<inbox, written, peer, chan, got, buf>>
    BY <1>5 DEF WaitVserialInbox
  <2>2. PICK st \in {"drain", "parked"} : outbound' = [outbound EXCEPT ![a] = st]
    BY <1>5 DEF WaitVserialInbox
  <2>3. outbound'[a] = st /\ \A b \in Clients : b # a => outbound'[b] = outbound[b]
    BY <2>2, <1>t DEF TypeOK
  <2>4. BufStage'
    BY <2>1, <2>3, <1>t DEF BufStage
  <2> QED
    BY <1>t, <2>1, <2>4, OrderFrame DEF OrderInv
<1>6. CASE WriteAll(a)
  <2>1. /\ outbound[a] = "write"
        /\ buf' = [buf EXCEPT ![a] = <<>>]
        /\ UNCHANGED <<inbox, written, peer, chan>>
    BY <1>6 DEF WriteAll, sharedVars
  <2>2. /\ buf'[a] = <<>> /\ outbound'[a] # "write"
        /\ \A b \in Clients : b # a => /\ buf'[b] = buf[b]
                                       /\ got'[b] = got[b]
                                       /\ outbound'[b] = outbound[b]
    BY <1>6, <2>1, <1>t DEF WriteAll, TypeOK
  <2>3. peer[a] # "absent"
    BY <2>1, <1>t DEF BufStage
  <2>4. BufStage'
    BY <2>1, <2>2, <2>3, <1>t DEF BufStage
  <2>5. \A d \in Channels : QueueOrdered(d)'
    BY <2>1, <1>o DEF QueueOrdered
  <2>6. ClientOrdered(a)'
    <3>1. CASE got'[a] = got[a] \o buf[a]
      <4>1. got[a] \in Seq(Byte) /\ buf[a] \in Seq(Byte) /\ ClientOrdered(a)
        BY <1>t, <1>o DEF TypeOK
      <4>2. Increasing(got[a] \o buf[a])
        BY <4>1, IncreasingConcat DEF ClientOrdered
      <4>3. ASSUME NEW d \in Channels, chan[a] = d
            PROVE  /\ Below(got[a] \o buf[a], inbox[d])
                   /\ AtMost(got[a] \o buf[a], written[d])
        <5>1. /\ Below(got[a], inbox[d]) /\ Below(buf[a], inbox[d])
              /\ AtMost(got[a], written[d]) /\ AtMost(buf[a], written[d])
          BY <4>1, <4>3 DEF ClientOrdered
        <5>2. inbox[d] \in Seq(Byte)
          BY <1>t DEF TypeOK
        <5> QED
          BY <4>1, <5>1, <5>2, BelowConcat, AtMostConcat
      <4> QED
        BY <2>1, <2>2, <3>1, <4>2, <4>3, EmptyOrdered DEF ClientOrdered
    <3>2. CASE got'[a] = got[a]
      BY <2>1, <2>2, <3>2, <1>o, EmptyOrdered DEF ClientOrdered
    <3>3. got'[a] = got[a] \o buf[a] \/ got'[a] = got[a]
      BY <1>6, <1>t DEF WriteAll, TypeOK
    <3> QED
      BY <3>1, <3>2, <3>3
  <2>7. \A b \in Clients : ClientOrdered(b)'
    BY <2>1, <2>2, <2>6, <1>o DEF ClientOrdered
  <2> QED
    BY <1>t, <2>4, <2>5, <2>7 DEF OrderInv
<1> QED
  BY <1>1, <1>2, <1>3, <1>4, <1>5, <1>6 DEF Client

\* Every step keeps all queues in order.
LEMMA OrderStep == OrderInv /\ WakeInv /\ [Next]_vars => OrderInv'
<1> SUFFICES ASSUME OrderInv, WakeInv, [Next]_vars PROVE OrderInv'
  OBVIOUS
<1>1. ASSUME SummaryLock \/ SummaryUnlock \/ UNCHANGED vars PROVE OrderInv'
  <2>1. UNCHANGED <<inbox, written, peer, chan, outbound, got, buf>>
    BY <1>1 DEF SummaryLock, SummaryUnlock, vars, sharedVars, clientVars
  <2>2. TypeOK' /\ BufStage'
    BY <2>1, TypeStep DEF OrderInv, BufStage
  <2> QED
    BY <2>1, <2>2, OrderFrame DEF OrderInv
<1> QED
  BY <1>1, OrderSession, OrderClient DEF Next

\* The invariant on the parts gives the order of the whole.
LEMMA OrderedParts == OrderInv => InOrder
<1> SUFFICES ASSUME OrderInv, NEW a \in Clients
             PROVE  /\ Increasing(got[a] \o buf[a])
                    /\ chan[a] \in Channels =>
                         Increasing(got[a] \o buf[a] \o inbox[chan[a]])
  BY DEF InOrder
<1>1. /\ got[a] \in Seq(Byte) /\ buf[a] \in Seq(Byte)
      /\ ClientOrdered(a)
  BY DEF OrderInv, TypeOK
<1>2. Increasing(got[a] \o buf[a])
  BY <1>1, IncreasingConcat DEF ClientOrdered
<1>3. ASSUME chan[a] \in Channels
      PROVE  Increasing((got[a] \o buf[a]) \o inbox[chan[a]])
  <2>1. inbox[chan[a]] \in Seq(Byte) /\ Increasing(inbox[chan[a]])
    BY <1>3 DEF OrderInv, TypeOK, QueueOrdered
  <2>2. Below(got[a] \o buf[a], inbox[chan[a]])
    BY <1>1, <1>3, <2>1, BelowConcat DEF ClientOrdered
  <2>3. got[a] \o buf[a] \in Seq(Byte)
    BY <1>1
  <2> QED
    BY <1>2, <2>1, <2>2, <2>3, IncreasingConcat
<1> QED
  BY <1>2, <1>3

LEMMA OrderInvariant == Spec => []OrderInv
<1>1. Init => OrderInv
  BY OrderInit
<1>2. OrderInv /\ WakeInv /\ [Next]_vars => OrderInv'
  BY OrderStep
<1> QED
  BY <1>1, <1>2, WakeInvariant, PTL DEF Spec

\* Every attached client sees the guest's bytes in the order the guest wrote
\* them, with any number of sessions writing to and clients draining one
\* channel: drain_vserial takes the whole queue, and write_all ends before
\* the task drains again.
THEOREM DeliveryInOrder == Spec => []InOrder
<1>1. OrderInv => InOrder
  BY OrderedParts
<1> QED
  BY <1>1, OrderInvariant, PTL

----------------------------------------------------------------------------
(* Exactly once. ExactlyOnce counts the places a byte is in; the induction *)
(* is carried out on the sets of numbers in each place (OnceInv): they are *)
(* disjoint, and together all that has been written.                       *)

Held(a) == Numbers(buf[a]) \cup Numbers(got[a])

\* A task that writes is on a channel, and only written bytes are lost.
WriteStage ==
  /\ \A a \in Clients : outbound[a] = "write" => chan[a] \in Channels
  /\ \A c \in Channels : lost[c] \subseteq 1..written[c]

\* No number is lost and elsewhere, or with two clients of one channel.
PlacesApart ==
  /\ \A c \in Channels : Numbers(inbox[c]) \cap lost[c] = {}
  /\ \A c \in Channels, a \in Clients : chan[a] = c => Held(a) \cap lost[c] = {}
  /\ \A c \in Channels, a, b \in Clients :
       a # b /\ chan[a] = c /\ chan[b] = c => Held(a) \cap Held(b) = {}

\* Every number written is somewhere.
Covered ==
  \A c \in Channels : \A n \in 1..written[c] :
    \/ n \in Numbers(inbox[c])
    \/ n \in lost[c]
    \/ \E a \in Clients : chan[a] = c /\ n \in Held(a)

OnceInv == WriteStage /\ PlacesApart /\ Covered

----------------------------------------------------------------------------
(* One batch per task. What a task drains is a run of consecutive bytes up *)
(* to the last one written, so a failed write begins at most one new run   *)
(* of lost bytes, and ends its task.                                       *)

Starts(c) == {n \in lost[c] : n - 1 \notin lost[c]}
Ended(c)  == {a \in Clients : chan[a] = c /\ outbound[a] = "done"}

\* The numbers of q are consecutive, from its first or up to w.
Consecutive(q) == \A i \in 1..Len(q) : q[i].n = (q[1].n - 1) + i

UpTo(q, w) == \A i \in 1..Len(q) : q[i].n = (w - Len(q)) + i

Runs ==
  /\ \A c \in Channels : UpTo(inbox[c], written[c])
  /\ \A a \in Clients : Consecutive(buf[a])

BatchInv ==
  /\ Runs
  /\ \A c \in Channels :
       /\ IsFiniteSet(Starts(c)) /\ IsFiniteSet(Ended(c))
       /\ Cardinality(Starts(c)) <= Cardinality(Ended(c))

----------------------------------------------------------------------------
(* The numbers in a queue *)

LEMMA NumbersEmpty == Numbers(<<>>) = {}
  BY DEF Numbers

LEMMA NumbersConcat ==
  ASSUME NEW p \in Seq(Byte), NEW q \in Seq(Byte)
  PROVE  Numbers(p \o q) = Numbers(p) \cup Numbers(q)
<1> DEFINE m == Len(p)
           k == Len(q)
           r == p \o q
<1>1. m \in Nat /\ k \in Nat /\ DOMAIN p = 1..m /\ DOMAIN q = 1..k /\ DOMAIN r = 1..(m + k)
  OBVIOUS
<1>2. /\ \A i \in 1..m : i \in 1..(m + k) /\ r[i] = p[i]
      /\ \A i \in 1..k : i + m \in 1..(m + k) /\ r[i + m] = q[i]
      /\ \A i \in 1..(m + k) : i \in 1..m \/ (i - m \in 1..k /\ r[i] = q[i - m])
  <2>1. \A i \in 1..m : i \in 1..(m + k) /\ r[i] = p[i]
    OBVIOUS
  <2>2. \A i \in 1..k : i + m \in 1..(m + k) /\ r[i + m] = q[i]
    OBVIOUS
  <2>3. \A i \in 1..(m + k) : i \in 1..m \/ (i - m \in 1..k /\ r[i] = q[i - m])
    OBVIOUS
  <2> QED
    BY <2>1, <2>2, <2>3
<1> HIDE DEF m, k, r
<1>3. ASSUME NEW x \in Numbers(p) PROVE x \in Numbers(r)
  BY <1>1, <1>2 DEF Numbers
<1>4. ASSUME NEW x \in Numbers(q) PROVE x \in Numbers(r)
  <2>1. PICK i \in 1..k : x = q[i].n
    BY <1>1 DEF Numbers
  <2>2. i + m \in 1..(m + k) /\ r[i + m] = q[i]
    BY <1>2
  <2> QED
    BY <1>1, <2>1, <2>2 DEF Numbers
<1>5. ASSUME NEW x \in Numbers(r) PROVE x \in Numbers(p) \/ x \in Numbers(q)
  <2>1. PICK i \in 1..(m + k) : x = r[i].n
    BY <1>1 DEF Numbers
  <2>2. CASE i \in 1..m
    BY <1>1, <1>2, <2>1, <2>2 DEF Numbers
  <2>3. CASE i - m \in 1..k /\ r[i] = q[i - m]
    BY <1>1, <2>1, <2>3 DEF Numbers
  <2> QED
    BY <1>2, <2>2, <2>3
<1>6. Numbers(r) = Numbers(p) \cup Numbers(q)
  BY <1>3, <1>4, <1>5
<1> QED
  BY <1>6 DEF r

\* What a session queues: k bytes, numbered from v + 1.
Fresh(v, k, via) == [i \in 1..k |-> [n |-> v + i, via |-> via]]

LEMMA FreshIs ==
  ASSUME NEW v \in Nat, NEW k \in Nat, NEW via \in {"push", "burst"}
  PROVE  /\ Fresh(v, k, via) \in Seq(Byte)
         /\ Len(Fresh(v, k, via)) = k
         /\ \A i \in 1..k : Fresh(v, k, via)[i].n = v + i
         /\ Numbers(Fresh(v, k, via)) = (v + 1)..(v + k)
<1> DEFINE f == Fresh(v, k, via)
<1>1. f \in Seq(Byte)
  BY BurstType DEF Fresh
<1>2. DOMAIN f = 1..k /\ \A i \in 1..k : f[i].n = v + i
  BY DEF Fresh
<1> HIDE DEF f
<1>3. Len(f) = k
  BY <1>1, <1>2
<1>4. ASSUME NEW x \in (v + 1)..(v + k) PROVE x \in Numbers(f)
  <2>1. x - v \in 1..k /\ v + (x - v) = x
    OBVIOUS
  <2>2. f[x - v].n = x
    BY <1>2, <2>1
  <2> QED
    BY <1>2, <2>1, <2>2 DEF Numbers
<1>5. ASSUME NEW x \in Numbers(f) PROVE x \in (v + 1)..(v + k)
  <2>1. PICK i \in 1..k : x = f[i].n
    BY <1>2 DEF Numbers
  <2>2. x = v + i
    BY <1>2, <2>1
  <2> QED
    BY <2>2
<1>6. Numbers(f) = (v + 1)..(v + k)
  BY <1>4, <1>5
<1> QED
  BY <1>1, <1>2, <1>3, <1>6 DEF f

\* Order separates: a queue below another shares no number with it, and a
\* bounded one has no number beyond the bound.
LEMMA BelowApart ==
  ASSUME NEW p \in Seq(Byte), NEW q \in Seq(Byte), Below(p, q)
  PROVE  Numbers(p) \cap Numbers(q) = {}
<1> SUFFICES ASSUME NEW x \in Numbers(p), x \in Numbers(q) PROVE FALSE
  OBVIOUS
<1>1. PICK i \in 1..Len(p) : x = p[i].n
  BY DEF Numbers
<1>2. PICK j \in 1..Len(q) : x = q[j].n
  BY DEF Numbers
<1>3. x < x
  BY <1>1, <1>2 DEF Below
<1>4. x \in Nat
  BY <1>1, ByteNumber
<1> QED
  BY <1>3, <1>4

LEMMA AtMostNumbers ==
  ASSUME NEW p \in Seq(Byte), NEW w \in Nat, AtMost(p, w)
  PROVE  Numbers(p) \subseteq 1..w
<1> SUFFICES ASSUME NEW x \in Numbers(p) PROVE x \in 1..w
  OBVIOUS
<1>1. PICK i \in 1..Len(p) : x = p[i].n
  BY DEF Numbers
<1>2. p[i] \in Byte
  BY ElementOfSeq
<1>3. x \in Nat \ {0} /\ x <= w
  BY <1>1, <1>2 DEF Byte, AtMost
<1> QED
  BY <1>3

\* What a step of a session changes.
LEMMA SessionEffect ==
  ASSUME WakeInv, NEW s \in Sessions, Session(s)
  PROVE  /\ UNCHANGED <<peer, chan, got, buf, lost>>
         /\ \A a \in Clients : /\ outbound'[a] = "write" <=> outbound[a] = "write"
                               /\ outbound'[a] = "done" <=> outbound[a] = "done"
                               /\ outbound'[a] = "none" <=> outbound[a] = "none"
         /\ \/ UNCHANGED <<inbox, written>>
            \/ \E c \in Channels, k \in Nat, via \in {"push", "burst"} : Enqueue(c, k, via)
<1> USE InboxAssumption
<1>t. TypeOK
  BY DEF WakeInv
<1>1. CASE NotifyOne(s)
  <2>1. UNCHANGED <<inbox, written, peer, chan, got, buf, lost>>
    BY <1>1 DEF NotifyOne
  <2>2. \/ UNCHANGED outbound
        \/ \E h \in Clients : /\ outbound[h] = "parked"
                              /\ outbound' = [outbound EXCEPT ![h] = "drain"]
    <3> DEFINE c == notifying[s]
    <3>1. c \in Channels
      BY <1>1, <1>t DEF NotifyOne, TypeOK
    <3>2. waiters[c] \in Seq(Clients)
      BY <3>1, <1>t DEF TypeOK
    <3>3. CASE waiters[c] # <<>>
      <4>1. 1 \in 1..Len(waiters[c]) /\ Head(waiters[c]) = waiters[c][1]
        BY <3>2, <3>3, EmptySeq
      <4>2. outbound[waiters[c][1]] = "parked" /\ waiters[c][1] \in Clients
        BY <3>1, <3>2, <4>1, ElementOfSeq DEF WakeInv, WaitersParked
      <4> QED
        BY <1>1, <3>3, <4>1, <4>2 DEF NotifyOne
    <3>4. CASE waiters[c] = <<>>
      BY <1>1, <3>4 DEF NotifyOne
    <3> QED
      BY <3>3, <3>4
  <2>3. \A a \in Clients : /\ outbound'[a] = "write" <=> outbound[a] = "write"
                           /\ outbound'[a] = "done" <=> outbound[a] = "done"
                           /\ outbound'[a] = "none" <=> outbound[a] = "none"
    BY <2>2, <1>t DEF TypeOK
  <2> QED
    BY <2>1, <2>3
<1>2. CASE ~NotifyOne(s)
  <2>1. UNCHANGED <<peer, chan, outbound, got, buf, lost>>
    BY <1>2 DEF Session, HandleFastWrite, SerWrite, HandleSerWriteM, PushVserial, clientVars
  <2>2. ASSUME NEW ch, PushVserial(s, ch)
        PROVE  (ch \in Channels /\ Enqueue(ch, 1, "push")) \/ UNCHANGED <<inbox, written>>
    BY <2>2 DEF PushVserial
  <2>3. CASE HandleFastWrite(s) \/ SerWrite(s)
    BY <2>1, <2>2, <2>3 DEF HandleFastWrite, SerWrite
  <2>4. CASE HandleSerWriteM(s)
    BY <2>1, <2>4 DEF HandleSerWriteM
  <2> QED
    BY <1>2, <2>3, <2>4 DEF Session
<1> QED
  BY <1>1, <1>2

\* What queueing does to the numbers in the inbox.
LEMMA EnqueueNumbers ==
  ASSUME TypeOK, NEW c \in Channels, NEW k \in Nat, NEW via \in {"push", "burst"},
         Enqueue(c, k, via)
  PROVE  /\ written[c] \in Nat
         /\ inbox'[c] = inbox[c] \o Fresh(written[c], k, via)
         /\ Numbers(inbox'[c]) = Numbers(inbox[c]) \cup (written[c] + 1)..(written[c] + k)
         /\ written'[c] = written[c] + k
         /\ \A d \in Channels : d # c => inbox'[d] = inbox[d] /\ written'[d] = written[d]
<1>1. written[c] \in Nat /\ inbox[c] \in Seq(Byte)
  BY DEF TypeOK
<1>2. inbox'[c] = inbox[c] \o Fresh(written[c], k, via)
  BY DEF Enqueue, TypeOK, Fresh
<1>3. PICK f \in Seq(Byte) : /\ f = Fresh(written[c], k, via)
                             /\ Numbers(f) = (written[c] + 1)..(written[c] + k)
  BY <1>1, FreshIs
<1>4. Numbers(inbox[c] \o f) = Numbers(inbox[c]) \cup Numbers(f)
  BY <1>1, NumbersConcat
<1>5. /\ written'[c] = written[c] + k
      /\ \A d \in Channels : d # c => inbox'[d] = inbox[d] /\ written'[d] = written[d]
  BY DEF Enqueue, TypeOK
<1> QED
  BY <1>1, <1>2, <1>3, <1>4, <1>5

\* What OrderInv says of the numbers: a client's are apart from the queue's
\* and none is beyond what has been written.
LEMMA OrderedNumbers ==
  ASSUME OrderInv
  PROVE  /\ \A c \in Channels : /\ written[c] \in Nat
                                /\ inbox[c] \in Seq(Byte)
                                /\ Numbers(inbox[c]) \subseteq 1..written[c]
         /\ \A a \in Clients : /\ buf[a] \in Seq(Byte) /\ got[a] \in Seq(Byte)
                               /\ Numbers(got[a]) \cap Numbers(buf[a]) = {}
         /\ \A a \in Clients, c \in Channels : chan[a] = c =>
              /\ Held(a) \cap Numbers(inbox[c]) = {}
              /\ Held(a) \subseteq 1..written[c]
<1>1. TypeOK
  BY DEF OrderInv
<1>2. ASSUME NEW c \in Channels
      PROVE  written[c] \in Nat /\ inbox[c] \in Seq(Byte) /\ Numbers(inbox[c]) \subseteq 1..written[c]
  <2>1. written[c] \in Nat /\ inbox[c] \in Seq(Byte) /\ AtMost(inbox[c], written[c])
    BY <1>1 DEF TypeOK, OrderInv, QueueOrdered
  <2> QED
    BY <2>1, AtMostNumbers
<1>3. ASSUME NEW a \in Clients
      PROVE  /\ buf[a] \in Seq(Byte) /\ got[a] \in Seq(Byte)
             /\ Numbers(got[a]) \cap Numbers(buf[a]) = {}
  <2>1. buf[a] \in Seq(Byte) /\ got[a] \in Seq(Byte) /\ Below(got[a], buf[a])
    BY <1>1 DEF TypeOK, OrderInv, ClientOrdered
  <2> QED
    BY <2>1, BelowApart
<1>4. ASSUME NEW a \in Clients, NEW c \in Channels, chan[a] = c
      PROVE  Held(a) \cap Numbers(inbox[c]) = {} /\ Held(a) \subseteq 1..written[c]
  <2>1. /\ Below(got[a], inbox[c]) /\ Below(buf[a], inbox[c])
        /\ AtMost(got[a], written[c]) /\ AtMost(buf[a], written[c])
    BY <1>4 DEF OrderInv, ClientOrdered
  <2>2. /\ Numbers(got[a]) \cap Numbers(inbox[c]) = {}
        /\ Numbers(buf[a]) \cap Numbers(inbox[c]) = {}
    BY <1>2, <1>3, <2>1, BelowApart
  <2>3. Numbers(got[a]) \subseteq 1..written[c] /\ Numbers(buf[a]) \subseteq 1..written[c]
    BY <1>2, <1>3, <2>1, AtMostNumbers
  <2> QED
    BY <2>2, <2>3 DEF Held
<1> QED
  BY <1>2, <1>3, <1>4

LEMMA OnceFrame ==
  ASSUME OnceInv, UNCHANGED <<inbox, written, chan, got, buf, lost>>,
         \A a \in Clients : outbound'[a] = "write" => outbound[a] = "write"
  PROVE  OnceInv'
<1>1. WriteStage'
  BY DEF OnceInv, WriteStage
<1>2. PlacesApart'
  BY DEF OnceInv, PlacesApart, Held
<1>3. Covered'
  BY DEF OnceInv, Covered, Held
<1> QED
  BY <1>1, <1>2, <1>3 DEF OnceInv

\* Queueing adds numbers that are nowhere yet.
LEMMA OnceEnqueue ==
  ASSUME OrderInv, OnceInv, NEW c \in Channels, NEW k \in Nat, NEW via \in {"push", "burst"},
         Enqueue(c, k, via), UNCHANGED <<chan, got, buf, lost>>,
         \A a \in Clients : outbound'[a] = "write" => outbound[a] = "write"
  PROVE  OnceInv'
<1>1. TypeOK
  BY DEF OrderInv
<1>2. PICK w, new : /\ w \in Nat /\ w = written[c] /\ new = (w + 1)..(w + k)
                   /\ Numbers(inbox'[c]) = Numbers(inbox[c]) \cup new
                   /\ written'[c] = w + k
  BY <1>1, EnqueueNumbers
<1>3. \A d \in Channels : d # c => inbox'[d] = inbox[d] /\ written'[d] = written[d]
  BY <1>1, EnqueueNumbers
<1>4. 1..w \subseteq 1..(w + k) /\ new \cap 1..w = {} /\ 1..(w + k) = 1..w \cup new
  BY <1>2
<1>5. WriteStage'
  BY <1>2, <1>3, <1>4 DEF OnceInv, WriteStage
<1>6. PlacesApart'
  <2>1. ASSUME NEW d \in Channels PROVE Numbers(inbox'[d]) \cap lost[d] = {}
    <3>1. CASE d = c
      <4>1. lost[c] \subseteq 1..w /\ Numbers(inbox[c]) \cap lost[c] = {}
        BY <1>2 DEF OnceInv, WriteStage, PlacesApart
      <4> QED
        BY <1>2, <1>4, <3>1, <4>1
    <3>2. CASE d # c
      BY <1>3, <3>2 DEF OnceInv, PlacesApart
    <3> QED
      BY <3>1, <3>2
  <2> QED
    BY <2>1 DEF OnceInv, PlacesApart, Held
<1>7. Covered'
  <2> SUFFICES ASSUME NEW d \in Channels, NEW n \in 1..written'[d]
               PROVE  n \in Numbers(inbox'[d]) \/ n \in lost[d]
                      \/ \E a \in Clients : chan[a] = d /\ n \in Held(a)
    BY DEF Covered, Held
  <2>1. CASE d = c /\ n \in new
    BY <1>2, <2>1
  <2>2. CASE ~(d = c /\ n \in new)
    <3>1. n \in 1..written[d]
      BY <1>2, <1>3, <1>4, <2>2
    <3>2. Numbers(inbox[d]) \subseteq Numbers(inbox'[d])
      BY <1>2, <1>3
    <3> QED
      BY <3>1, <3>2 DEF OnceInv, Covered
  <2> QED
    BY <2>1, <2>2
<1> QED
  BY <1>5, <1>6, <1>7 DEF OnceInv

\* A step of an attached client moves numbers from one place to the next.
LEMMA OnceClient ==
  ASSUME OrderInv, OnceInv, NEW a \in Clients, Client(a)
  PROVE  OnceInv'
<1>t. TypeOK /\ BufStage
  BY DEF OrderInv
<1>o. WriteStage /\ PlacesApart /\ Covered
  BY DEF OnceInv
<1>1. ASSUME NEW ch \in Channels \cup BadChannels, HandleAttach(a, ch) PROVE OnceInv'
  <2>1. UNCHANGED <<inbox, written, got, buf, lost>>
    BY <1>1 DEF HandleAttach, sharedVars
  <2>2. /\ outbound'[a] = "drain"
        /\ \A b \in Clients : b # a => chan'[b] = chan[b] /\ outbound'[b] = outbound[b]
    BY <1>1, <1>t DEF HandleAttach, TypeOK
  <2>3. Held(a) = {}
    <3>1. got[a] = <<>> /\ buf[a] = <<>>
      BY <1>1, <1>t DEF HandleAttach, BufStage
    <3> QED
      BY <3>1, NumbersEmpty DEF Held
  <2>4. \A b \in Clients : Held(b)' = Held(b)
    BY <2>1 DEF Held
  <2>5. WriteStage'
    BY <1>o, <2>1, <2>2 DEF WriteStage
  <2>6. PlacesApart'
    <3>1. ASSUME NEW c \in Channels, NEW b \in Clients, chan'[b] = c PROVE Held(b) \cap lost[c] = {}
      BY <1>o, <2>2, <2>3, <3>1 DEF PlacesApart
    <3>2. ASSUME NEW c \in Channels, NEW b \in Clients, NEW e \in Clients,
                 b # e, chan'[b] = c, chan'[e] = c
          PROVE  Held(b) \cap Held(e) = {}
      BY <1>o, <2>2, <2>3, <3>2 DEF PlacesApart
    <3> QED
      BY <1>o, <2>1, <2>4, <3>1, <3>2 DEF PlacesApart
  <2>7. Covered'
    <3> SUFFICES ASSUME NEW c \in Channels, NEW n \in 1..written[c]
                 PROVE  n \in Numbers(inbox[c]) \/ n \in lost[c]
                        \/ \E b \in Clients : chan'[b] = c /\ n \in Held(b)
      BY <2>1, <2>4 DEF Covered
    <3>1. CASE \E b \in Clients : chan[b] = c /\ n \in Held(b)
      BY <2>2, <2>3, <3>1
    <3> QED
      BY <1>o, <3>1 DEF Covered
  <2> QED
    BY <2>5, <2>6, <2>7 DEF OnceInv
<1>2. CASE Disconnect(a) \/ InboundEof(a)
  BY <1>2, OnceFrame DEF Disconnect, InboundEof, sharedVars
<1>3. CASE WaitVserialInbox(a)
  <2>1. UNCHANGED <<inbox, written, chan, got, buf, lost>>
    BY <1>3 DEF WaitVserialInbox
  <2>2. PICK st \in {"drain", "parked"} : outbound' = [outbound EXCEPT ![a] = st]
    BY <1>3 DEF WaitVserialInbox
  <2>3. \A b \in Clients : outbound'[b] = "write" => outbound[b] = "write"
    BY <2>2, <1>t DEF TypeOK
  <2> QED
    BY <2>1, <2>3, OnceFrame
<1>4. CASE DrainVserial(a)
  <2>1. UNCHANGED <<written, chan, got, lost>> /\ buf[a] = <<>>
    BY <1>4, <1>t DEF DrainVserial, BufStage
  <2>2. CASE outbound' = [outbound EXCEPT ![a] = "wait"] /\ UNCHANGED <<inbox, buf>>
    <3>1. \A b \in Clients : outbound'[b] = "write" => outbound[b] = "write"
      BY <2>2, <1>t DEF TypeOK
    <3> QED
      BY <2>1, <2>2, <3>1, OnceFrame
  <2>3. CASE /\ chan[a] \in Channels
             /\ buf' = [buf EXCEPT ![a] = inbox[chan[a]]]
             /\ inbox' = [inbox EXCEPT ![chan[a]] = <<>>]
             /\ outbound' = [outbound EXCEPT ![a] = "write"]
    <3>1. PICK c \in Channels : c = chan[a]
      BY <2>3
    <3>2. /\ buf'[a] = inbox[c] /\ inbox'[c] = <<>>
          /\ \A b \in Clients : b # a => buf'[b] = buf[b] /\ outbound'[b] = outbound[b]
          /\ \A d \in Channels : d # c => inbox'[d] = inbox[d]
      BY <2>3, <3>1, <1>t DEF TypeOK
    <3>3. \A b \in Clients : b # a => Held(b)' = Held(b)
      BY <2>1, <3>2 DEF Held
    <3>4. Held(a)' = Held(a) \cup Numbers(inbox[c])
      <4>1. Numbers(buf'[a]) \cup Numbers(got'[a]) = Held(a) \cup Numbers(inbox[c])
        BY <2>1, <3>2, NumbersEmpty DEF Held
      <4> QED
        BY <4>1 DEF Held
    <3>5. Numbers(inbox'[c]) = {}
      BY <3>2, NumbersEmpty
    <3>6. WriteStage'
      BY <1>o, <2>1, <3>1, <3>2 DEF WriteStage
    <3>7. \A b \in Clients : chan[b] = c => Held(b) \cap Numbers(inbox[c]) = {}
      BY OrderedNumbers
    <3>8. PlacesApart'
      <4>1. \A d \in Channels : Numbers(inbox'[d]) \cap lost[d] = {}
        BY <1>o, <3>2, <3>5 DEF PlacesApart
      <4>2. \A d \in Channels, b \in Clients : chan[b] = d => Held(b)' \cap lost[d] = {}
        BY <1>o, <3>1, <3>3, <3>4 DEF PlacesApart
      <4>3. ASSUME NEW d \in Channels, NEW b \in Clients, NEW e \in Clients,
                   b # e, chan[b] = d, chan[e] = d
            PROVE  Held(b)' \cap Held(e)' = {}
        <5>1. Held(b) \cap Held(e) = {}
          BY <1>o, <4>3 DEF PlacesApart
        <5>2. CASE b # a /\ e # a
          BY <3>3, <5>1, <5>2
        <5>3. CASE b = a
          BY <3>1, <3>3, <3>4, <3>7, <4>3, <5>1, <5>3
        <5>4. CASE e = a
          BY <3>1, <3>3, <3>4, <3>7, <4>3, <5>1, <5>4
        <5> QED
          BY <5>2, <5>3, <5>4
      <4> QED
        BY <2>1, <4>1, <4>2, <4>3 DEF PlacesApart
    <3>9. Covered'
      <4> SUFFICES ASSUME NEW d \in Channels, NEW n \in 1..written[d]
                   PROVE  n \in Numbers(inbox'[d]) \/ n \in lost[d]
                          \/ \E b \in Clients : chan[b] = d /\ n \in Held(b)'
        BY <2>1 DEF Covered
      <4>1. CASE n \in Numbers(inbox[d])
        BY <3>1, <3>2, <3>4, <4>1
      <4>2. CASE \E b \in Clients : chan[b] = d /\ n \in Held(b)
        BY <3>3, <3>4, <4>2
      <4> QED
        BY <1>o, <4>1, <4>2 DEF Covered
    <3> QED
      BY <3>6, <3>8, <3>9 DEF OnceInv
  <2> QED
    BY <1>4, <2>2, <2>3 DEF DrainVserial
<1>5. CASE WriteAll(a)
  <2>1. UNCHANGED <<inbox, written, chan>> /\ outbound[a] = "write"
    BY <1>5 DEF WriteAll, sharedVars
  <2>2. PICK c \in Channels : c = chan[a]
    BY <1>o, <2>1 DEF WriteStage
  <2>3. /\ buf'[a] = <<>> /\ outbound'[a] # "write"
        /\ \A b \in Clients : b # a => /\ buf'[b] = buf[b] /\ got'[b] = got[b]
                                       /\ outbound'[b] = outbound[b]
    BY <1>5, <1>t DEF WriteAll, TypeOK
  <2>4. \A b \in Clients : b # a => Held(b)' = Held(b)
    BY <2>3 DEF Held
  <2>5. CASE got' = [got EXCEPT ![a] = @ \o buf[a]] /\ UNCHANGED lost
    <3>1. Held(a)' = Held(a)
      <4>1. got'[a] = got[a] \o buf[a]
        BY <2>5, <1>t DEF TypeOK
      <4>2. Numbers(got[a] \o buf[a]) = Numbers(got[a]) \cup Numbers(buf[a])
        BY OrderedNumbers, NumbersConcat
      <4>3. Numbers(buf'[a]) \cup Numbers(got'[a]) = Held(a)
        BY <2>3, <4>1, <4>2, NumbersEmpty DEF Held
      <4> QED
        BY <4>3 DEF Held
    <3>2. \A b \in Clients : Held(b)' = Held(b)
      BY <2>4, <3>1
    <3>3. WriteStage'
      BY <1>o, <2>1, <2>3, <2>5 DEF WriteStage
    <3>4. PlacesApart'
      BY <1>o, <2>1, <2>5, <3>2 DEF PlacesApart
    <3>5. Covered'
      BY <1>o, <2>1, <2>5, <3>2 DEF Covered
    <3> QED
      BY <3>3, <3>4, <3>5 DEF OnceInv
  <2>6. CASE /\ lost' = [lost EXCEPT ![chan[a]] = @ \cup {buf[a][i].n : i \in DOMAIN buf[a]}]
             /\ UNCHANGED got
    <3>1. /\ lost'[c] = lost[c] \cup Numbers(buf[a])
          /\ \A d \in Channels : d # c => lost'[d] = lost[d]
      BY <2>2, <2>6, <1>t DEF TypeOK, Numbers
    <3>2. Held(a)' = Numbers(got[a])
      <4>1. Numbers(buf'[a]) \cup Numbers(got'[a]) = Numbers(got[a])
        BY <2>3, <2>6, NumbersEmpty
      <4> QED
        BY <4>1 DEF Held
    <3>3. Held(a) = Numbers(got[a]) \cup Numbers(buf[a]) /\ Numbers(got[a]) \cap Numbers(buf[a]) = {}
      BY OrderedNumbers DEF Held
    <3>4. \A b \in Clients : Held(b)' \subseteq Held(b)
      BY <2>4, <3>2, <3>3
    <3>5. Held(a) \cap Numbers(inbox[c]) = {} /\ Held(a) \subseteq 1..written[c]
      BY <2>2, OrderedNumbers
    <3>6. WriteStage'
      <4>1. \A d \in Channels : lost'[d] \subseteq 1..written[d]
        BY <1>o, <3>1, <3>3, <3>5 DEF WriteStage
      <4> QED
        BY <1>o, <2>1, <2>3, <4>1 DEF WriteStage
    <3>7. PlacesApart'
      <4>1. ASSUME NEW d \in Channels PROVE Numbers(inbox[d]) \cap lost'[d] = {}
        BY <1>o, <3>1, <3>3, <3>5 DEF PlacesApart
      <4>2. ASSUME NEW d \in Channels, NEW b \in Clients, chan[b] = d
            PROVE  Held(b)' \cap lost'[d] = {}
        <5>1. Held(b)' \cap lost[d] = {}
          BY <1>o, <3>4, <4>2 DEF PlacesApart
        <5>2. CASE d # c
          BY <3>1, <5>1, <5>2
        <5>3. CASE d = c /\ b = a
          BY <3>1, <3>2, <3>3, <5>1, <5>3
        <5>4. CASE d = c /\ b # a
          <6>1. Held(b) \cap Held(a) = {}
            BY <1>o, <2>2, <4>2, <5>4 DEF PlacesApart
          <6> QED
            BY <3>1, <3>3, <3>4, <5>1, <5>4, <6>1
        <5> QED
          BY <5>2, <5>3, <5>4
      <4>3. ASSUME NEW d \in Channels, NEW b \in Clients, NEW e \in Clients,
                   b # e, chan[b] = d, chan[e] = d
            PROVE  Held(b)' \cap Held(e)' = {}
        BY <1>o, <3>4, <4>3 DEF PlacesApart
      <4> QED
        BY <2>1, <4>1, <4>2, <4>3 DEF PlacesApart
    <3>8. Covered'
      <4> SUFFICES ASSUME NEW d \in Channels, NEW n \in 1..written[d]
                   PROVE  n \in Numbers(inbox[d]) \/ n \in lost'[d]
                          \/ \E b \in Clients : chan[b] = d /\ n \in Held(b)'
        BY <2>1 DEF Covered
      <4>1. lost[d] \subseteq lost'[d]
        BY <3>1
      <4>2. ASSUME NEW b \in Clients, chan[b] = d, n \in Held(b)
            PROVE  n \in lost'[d] \/ n \in Held(b)'
        <5>1. CASE b = a
          BY <2>2, <3>1, <3>2, <3>3, <4>2, <5>1
        <5>2. CASE b # a
          BY <2>4, <4>2, <5>2
        <5> QED
          BY <5>1, <5>2
      <4> QED
        BY <1>o, <4>1, <4>2 DEF Covered
    <3> QED
      BY <3>6, <3>7, <3>8 DEF OnceInv
  <2> QED
    BY <1>5, <2>5, <2>6 DEF WriteAll
<1> QED
  BY <1>1, <1>2, <1>3, <1>4, <1>5 DEF Client

LEMMA OnceStep == OnceInv /\ OrderInv /\ WakeInv /\ [Next]_vars => OnceInv'
<1> SUFFICES ASSUME OnceInv, OrderInv, WakeInv, [Next]_vars PROVE OnceInv'
  OBVIOUS
<1>1. CASE SummaryLock \/ SummaryUnlock \/ UNCHANGED vars
  BY <1>1, OnceFrame DEF SummaryLock, SummaryUnlock, vars, sharedVars, clientVars
<1>2. ASSUME NEW s \in Sessions, Session(s) PROVE OnceInv'
  <2>1. /\ UNCHANGED <<chan, got, buf, lost>>
        /\ \A a \in Clients : outbound'[a] = "write" => outbound[a] = "write"
    BY <1>2, SessionEffect
  <2>2. CASE UNCHANGED <<inbox, written>>
    BY <2>1, <2>2, OnceFrame
  <2>3. ASSUME NEW c \in Channels, NEW k \in Nat, NEW via \in {"push", "burst"}, Enqueue(c, k, via)
        PROVE  OnceInv'
    BY <2>1, <2>3, OnceEnqueue
  <2> QED
    BY <1>2, <2>2, <2>3, SessionEffect
<1> QED
  BY <1>1, <1>2, OnceClient DEF Next

LEMMA OnceInit == Init => OnceInv
<1> SUFFICES ASSUME Init PROVE OnceInv
  OBVIOUS
<1>1. /\ \A c \in Channels : inbox[c] = <<>> /\ lost[c] = {} /\ written[c] = 0
      /\ \A a \in Clients : buf[a] = <<>> /\ got[a] = <<>> /\ outbound[a] = "none"
  BY DEF Init
<1>2. WriteStage
  BY <1>1 DEF WriteStage
<1>3. PlacesApart
  BY <1>1, NumbersEmpty DEF PlacesApart, Held
<1>4. 1..0 = {}
  OBVIOUS
<1>5. Covered
  BY <1>1, <1>4 DEF Covered
<1> QED
  BY <1>2, <1>3, <1>5 DEF OnceInv

\* Holders, place by place.
LEMMA HoldersAre ==
  ASSUME NEW c \in Channels, NEW n
  PROVE  /\ <<"inbox", c>> \in Holders(c, n) <=> n \in Numbers(inbox[c])
         /\ <<"lost", c>> \in Holders(c, n) <=> n \in lost[c]
         /\ \A a \in Clients : chan[a] = c =>
              /\ <<"buf", a>> \in Holders(c, n) <=> n \in Numbers(buf[a])
              /\ <<"got", a>> \in Holders(c, n) <=> n \in Numbers(got[a])
<1>1. <<"inbox", c>> \in Holders(c, n) <=> n \in Numbers(inbox[c])
  BY DEF Holders
<1>2. <<"lost", c>> \in Holders(c, n) <=> n \in lost[c]
  BY DEF Holders
<1>3. ASSUME NEW a \in Clients, chan[a] = c
      PROVE  /\ <<"buf", a>> \in Holders(c, n) <=> n \in Numbers(buf[a])
             /\ <<"got", a>> \in Holders(c, n) <=> n \in Numbers(got[a])
  <2>1. <<"buf", a>> \in Holders(c, n) <=> n \in Numbers(buf[a])
    BY <1>3 DEF Holders
  <2>2. <<"got", a>> \in Holders(c, n) <=> n \in Numbers(got[a])
    BY <1>3 DEF Holders
  <2> QED
    BY <2>1, <2>2
<1> QED
  BY <1>1, <1>2, <1>3

LEMMA HolderIs ==
  ASSUME NEW c \in Channels, NEW n, NEW h \in Holders(c, n)
  PROVE  \/ h = <<"inbox", c>> /\ n \in Numbers(inbox[c])
         \/ h = <<"lost", c>> /\ n \in lost[c]
         \/ \E a \in Clients : /\ chan[a] = c
                               /\ \/ h = <<"buf", a>> /\ n \in Numbers(buf[a])
                                  \/ h = <<"got", a>> /\ n \in Numbers(got[a])
<1>1. \/ h = <<"inbox", c>> \/ h = <<"lost", c>>
      \/ \E a \in Clients : chan[a] = c /\ (h = <<"buf", a>> \/ h = <<"got", a>>)
  BY DEF Holders
<1>2. CASE h = <<"inbox", c>>
  BY <1>2, HoldersAre
<1>3. CASE h = <<"lost", c>>
  BY <1>3, HoldersAre
<1>4. ASSUME NEW a \in Clients, chan[a] = c, h = <<"buf", a>> \/ h = <<"got", a>>
      PROVE  \/ h = <<"buf", a>> /\ n \in Numbers(buf[a])
             \/ h = <<"got", a>> /\ n \in Numbers(got[a])
  BY <1>4, HoldersAre
<1> QED
  BY <1>1, <1>2, <1>3, <1>4

LEMMA OneHolder == OrderInv /\ OnceInv => ExactlyOnce
<1> SUFFICES ASSUME OrderInv, OnceInv, NEW c \in Channels, NEW n \in 1..written[c]
             PROVE  Cardinality(Holders(c, n)) = 1
  BY DEF ExactlyOnce
<1>1. /\ \A a \in Clients : Numbers(got[a]) \cap Numbers(buf[a]) = {}
      /\ \A a \in Clients : chan[a] = c => Held(a) \cap Numbers(inbox[c]) = {}
  BY OrderedNumbers
<1>2. /\ Numbers(inbox[c]) \cap lost[c] = {}
      /\ \A a \in Clients : chan[a] = c => Held(a) \cap lost[c] = {}
      /\ \A a, b \in Clients : a # b /\ chan[a] = c /\ chan[b] = c => Held(a) \cap Held(b) = {}
  BY DEF OnceInv, PlacesApart
<1>h. ASSUME NEW h \in Holders(c, n)
      PROVE  \/ h = <<"inbox", c>> /\ n \in Numbers(inbox[c])
             \/ h = <<"lost", c>> /\ n \in lost[c]
             \/ \E a \in Clients : /\ chan[a] = c
                                   /\ \/ h = <<"buf", a>> /\ n \in Numbers(buf[a])
                                      \/ h = <<"got", a>> /\ n \in Numbers(got[a])
  BY HolderIs
<1>d. \A a \in Clients : n \in Held(a) <=> n \in Numbers(buf[a]) \/ n \in Numbers(got[a])
  BY DEF Held
<1>3. \E h : Holders(c, n) = {h}
  <2>1. CASE n \in Numbers(inbox[c])
    <3>1. n \notin lost[c] /\ \A a \in Clients : chan[a] = c => n \notin Held(a)
      BY <1>1, <1>2, <2>1
    <3>2. Holders(c, n) = {<<"inbox", c>>}
      <4>1. <<"inbox", c>> \in Holders(c, n)
        BY <2>1, <3>1, HoldersAre
      <4>2. ASSUME NEW h \in Holders(c, n) PROVE h = <<"inbox", c>>
        BY <2>1, <3>1, <1>h, <1>d
      <4> QED
        BY <4>1, <4>2
    <3> QED
      BY <3>2
  <2>2. CASE n \in lost[c]
    <3>1. n \notin Numbers(inbox[c]) /\ \A a \in Clients : chan[a] = c => n \notin Held(a)
      BY <1>2, <2>2
    <3>2. Holders(c, n) = {<<"lost", c>>}
      <4>1. <<"lost", c>> \in Holders(c, n)
        BY <2>2, <3>1, HoldersAre
      <4>2. ASSUME NEW h \in Holders(c, n) PROVE h = <<"lost", c>>
        BY <2>2, <3>1, <1>h, <1>d
      <4> QED
        BY <4>1, <4>2
    <3> QED
      BY <3>2
  <2>3. ASSUME NEW a \in Clients, chan[a] = c, n \in Held(a) PROVE \E h : Holders(c, n) = {h}
    <3>1. /\ n \notin Numbers(inbox[c]) /\ n \notin lost[c]
          /\ \A b \in Clients : b # a /\ chan[b] = c => n \notin Held(b)
      BY <1>1, <1>2, <2>3
    <3>2. CASE n \in Numbers(buf[a])
      <4>1. n \notin Numbers(got[a])
        BY <1>1, <3>2
      <4>2. Holders(c, n) = {<<"buf", a>>}
        <5>1. <<"buf", a>> \in Holders(c, n)
          BY <2>3, <3>1, <3>2, <4>1, HoldersAre
        <5>2. ASSUME NEW h \in Holders(c, n) PROVE h = <<"buf", a>>
          BY <2>3, <3>1, <3>2, <4>1, <1>h, <1>d
        <5> QED
          BY <5>1, <5>2
      <4> QED
        BY <4>2
    <3>3. CASE n \in Numbers(got[a])
      <4>1. n \notin Numbers(buf[a])
        BY <1>1, <3>3
      <4>2. Holders(c, n) = {<<"got", a>>}
        <5>1. <<"got", a>> \in Holders(c, n)
          BY <2>3, <3>1, <3>3, <4>1, HoldersAre
        <5>2. ASSUME NEW h \in Holders(c, n) PROVE h = <<"got", a>>
          BY <2>3, <3>1, <3>3, <4>1, <1>h, <1>d
        <5> QED
          BY <5>1, <5>2
      <4> QED
        BY <4>2
    <3> QED
      BY <2>3, <3>2, <3>3 DEF Held
  <2> QED
    BY <2>1, <2>2, <2>3 DEF OnceInv, Covered
<1> QED
  BY <1>3, FS_Singleton

LEMMA OnceInvariant == Spec => []OnceInv
<1>1. Init => OnceInv
  BY OnceInit
<1>2. OnceInv /\ OrderInv /\ WakeInv /\ [Next]_vars => OnceInv'
  BY OnceStep
<1> QED
  BY <1>1, <1>2, WakeInvariant, OrderInvariant, PTL DEF Spec

\* Every byte a guest writes to a channel is in exactly one place: queued,
\* with one outbound task, delivered to one client, or dropped by one failed
\* write_all; any number of sessions write to the channel and any number of
\* clients, departed ones included, drain it.
THEOREM WrittenExactlyOnce == Spec => []ExactlyOnce
<1>1. OrderInv /\ OnceInv => ExactlyOnce
  BY OneHolder
<1> QED
  BY <1>1, OrderInvariant, OnceInvariant, PTL
----------------------------------------------------------------------------
(* One batch per task: the proof *)

LEMMA UpToConsecutive ==
  ASSUME NEW q \in Seq(Byte), NEW w \in Nat, UpTo(q, w)
  PROVE  Consecutive(q)
<1> SUFFICES ASSUME NEW i \in 1..Len(q) PROVE q[i].n = (q[1].n - 1) + i
  BY DEF Consecutive
<1>1. Len(q) \in Nat /\ 1 \in 1..Len(q)
  OBVIOUS
<1>2. q[1].n = (w - Len(q)) + 1 /\ q[i].n = (w - Len(q)) + i
  BY <1>1 DEF UpTo
<1> QED
  BY <1>1, <1>2

\* Only its first number begins a run.
LEMMA RunBegins ==
  ASSUME NEW q \in Seq(Byte), Consecutive(q), NEW n \in Numbers(q), n # q[1].n
  PROVE  n - 1 \in Numbers(q)
<1>1. DOMAIN q = 1..Len(q) /\ Len(q) \in Nat
  OBVIOUS
<1>2. PICK i \in 1..Len(q) : n = q[i].n
  BY <1>1 DEF Numbers
<1>3. i # 1 /\ i - 1 \in 1..Len(q) /\ 1 \in 1..Len(q)
  BY <1>1, <1>2
<1>4. q[1].n \in Nat
  BY <1>3, ByteNumber
<1>5. q[i].n = (q[1].n - 1) + i /\ q[i - 1].n = (q[1].n - 1) + (i - 1)
  BY <1>3 DEF Consecutive
<1>6. q[i - 1].n = n - 1
  BY <1>2, <1>4, <1>5
<1> QED
  BY <1>1, <1>3, <1>6 DEF Numbers

LEMMA UpToConcat ==
  ASSUME NEW q \in Seq(Byte), NEW w \in Nat, UpTo(q, w),
         NEW f \in Seq(Byte), NEW k \in Nat, Len(f) = k, \A i \in 1..k : f[i].n = w + i
  PROVE  UpTo(q \o f, w + k)
<1> DEFINE r == q \o f
<1>1. Len(q) \in Nat /\ Len(r) = Len(q) + k
  BY ConcatProperties, LenProperties
<1> SUFFICES ASSUME NEW i \in 1..(Len(q) + k) PROVE r[i].n = ((w + k) - (Len(q) + k)) + i
  BY <1>1 DEF UpTo
<1>2. CASE i \in 1..Len(q)
  <2>1. r[i] = q[i]
    BY <1>1, <1>2
  <2>2. q[i].n = (w - Len(q)) + i
    BY <1>2 DEF UpTo
  <2> HIDE DEF r
  <2> QED
    BY <1>1, <2>1, <2>2
<1>3. CASE i \notin 1..Len(q)
  <2>1. i - Len(q) \in 1..k
    BY <1>1, <1>3
  <2>2. r[i] = f[i - Len(q)]
    BY <1>1, <1>3
  <2>3. f[i - Len(q)].n = w + (i - Len(q))
    BY <2>1
  <2> HIDE DEF r
  <2> QED
    BY <1>1, <2>2, <2>3
<1> QED
  BY <1>2, <1>3

LEMMA RunsEnqueue ==
  ASSUME TypeOK, Runs, NEW c \in Channels, NEW k \in Nat, NEW via \in {"push", "burst"},
         Enqueue(c, k, via), UNCHANGED buf
  PROVE  Runs'
<1>1. /\ written[c] \in Nat /\ written'[c] = written[c] + k
      /\ inbox'[c] = inbox[c] \o Fresh(written[c], k, via)
      /\ \A d \in Channels : d # c => inbox'[d] = inbox[d] /\ written'[d] = written[d]
  BY EnqueueNumbers
<1>2. inbox[c] \in Seq(Byte) /\ UpTo(inbox[c], written[c])
  BY DEF TypeOK, Runs
<1>3. PICK f \in Seq(Byte) : /\ f = Fresh(written[c], k, via) /\ Len(f) = k
                             /\ \A i \in 1..k : f[i].n = written[c] + i
  BY <1>1, FreshIs
<1>4. UpTo(inbox[c] \o f, written[c] + k)
  BY <1>1, <1>2, <1>3, UpToConcat
<1>5. \A d \in Channels : UpTo(inbox'[d], written'[d])
  BY <1>1, <1>3, <1>4 DEF Runs
<1> QED
  BY <1>5 DEF Runs

\* The steps that lose nothing and end no task over a failed write.
LEMMA BatchFrame ==
  ASSUME BatchInv, Runs', UNCHANGED lost, \A c \in Channels : Ended(c)' = Ended(c)
  PROVE  BatchInv'
<1>1. \A c \in Channels : Starts(c)' = Starts(c)
  BY DEF Starts
<1> QED
  BY <1>1 DEF BatchInv

\* A failed write begins at most one run of lost bytes and ends its task.
LEMMA BatchLost ==
  ASSUME TypeOK, BatchInv, Runs', NEW a \in Clients, NEW c \in Channels, chan[a] = c,
         outbound[a] = "write", UNCHANGED chan,
         lost' = [lost EXCEPT ![c] = @ \cup Numbers(buf[a])],
         outbound' = [outbound EXCEPT ![a] = "done"]
  PROVE  BatchInv'
<1> SUFFICES ASSUME NEW d \in Channels
             PROVE  /\ IsFiniteSet(Starts(d)') /\ IsFiniteSet(Ended(d)')
                    /\ Cardinality(Starts(d)') <= Cardinality(Ended(d)')
  BY DEF BatchInv
<1>1. /\ IsFiniteSet(Starts(d)) /\ IsFiniteSet(Ended(d))
      /\ Cardinality(Starts(d)) <= Cardinality(Ended(d))
  BY DEF BatchInv
<1>2. CASE d # c
  <2>1. Starts(d)' = Starts(d)
    BY <1>2 DEF Starts, TypeOK
  <2>2. Ended(d)' = Ended(d)
    BY <1>2 DEF Ended, TypeOK
  <2> QED
    BY <1>1, <2>1, <2>2
<1>3. CASE d = c
  <2> DEFINE first == buf[a][1].n
  <2>1. lost'[c] = lost[c] \cup Numbers(buf[a]) /\ buf[a] \in Seq(Byte) /\ Consecutive(buf[a])
    BY DEF TypeOK, BatchInv, Runs
  <2>2. Starts(c)' \subseteq Starts(c) \cup {first}
    <3> SUFFICES ASSUME NEW n \in lost'[c], n - 1 \notin lost'[c], n # first
                 PROVE  n \in Starts(c)
      BY DEF Starts
    <3>1. n \notin Numbers(buf[a])
      BY <2>1, RunBegins
    <3> QED
      BY <2>1, <3>1 DEF Starts
  <2> HIDE DEF first
  <2>3. a \notin Ended(c) /\ Ended(c)' = Ended(c) \cup {a}
    BY DEF Ended, TypeOK
  <2>4. /\ IsFiniteSet(Ended(c)') /\ Cardinality(Ended(c)') = Cardinality(Ended(c)) + 1
    BY <1>1, <1>3, <2>3, FS_AddElement
  <2>5. /\ IsFiniteSet(Starts(c) \cup {first})
        /\ Cardinality(Starts(c) \cup {first}) <= Cardinality(Starts(c)) + 1
    <3>1. /\ IsFiniteSet(Starts(c) \cup {first})
          /\ \/ Cardinality(Starts(c) \cup {first}) = Cardinality(Starts(c))
             \/ Cardinality(Starts(c) \cup {first}) = Cardinality(Starts(c)) + 1
      BY <1>1, <1>3, FS_AddElement
    <3>2. Cardinality(Starts(c)) \in Nat
      BY <1>1, <1>3, FS_CardinalityType
    <3> QED
      BY <3>1, <3>2
  <2>6. /\ IsFiniteSet(Starts(c)')
        /\ Cardinality(Starts(c)') <= Cardinality(Starts(c) \cup {first})
    BY <2>2, <2>5, FS_Subset
  <2>7. /\ Cardinality(Starts(c)) \in Nat /\ Cardinality(Ended(c)) \in Nat
        /\ Cardinality(Starts(c)') \in Nat /\ Cardinality(Starts(c) \cup {first}) \in Nat
    BY <1>1, <1>3, <2>5, <2>6, FS_CardinalityType
  <2>8. Cardinality(Starts(c)') <= Cardinality(Ended(c)')
    BY <1>1, <1>3, <2>4, <2>5, <2>6, <2>7
  <2> QED
    BY <1>3, <2>4, <2>6, <2>8
<1> QED
  BY <1>2, <1>3

LEMMA BatchClient ==
  ASSUME OrderInv, OnceInv, BatchInv, NEW a \in Clients, Client(a)
  PROVE  BatchInv'
<1>t. TypeOK /\ BufStage /\ Runs
  BY DEF OrderInv, BatchInv
<1>1. ASSUME NEW ch \in Channels \cup BadChannels, HandleAttach(a, ch) PROVE BatchInv'
  <2>1. UNCHANGED <<inbox, written, buf, lost>>
    BY <1>1 DEF HandleAttach, sharedVars
  <2>2. /\ outbound[a] = "none" /\ outbound'[a] = "drain"
        /\ \A b \in Clients : b # a => chan'[b] = chan[b] /\ outbound'[b] = outbound[b]
    BY <1>1, <1>t DEF HandleAttach, BufStage, TypeOK
  <2>3. \A c \in Channels : Ended(c)' = Ended(c)
    BY <2>2 DEF Ended
  <2>4. Runs'
    BY <1>t, <2>1 DEF Runs
  <2> QED
    BY <2>1, <2>3, <2>4, BatchFrame
<1>2. CASE Disconnect(a) \/ InboundEof(a)
  <2>1. UNCHANGED <<inbox, written, buf, lost, chan, outbound>>
    BY <1>2 DEF Disconnect, InboundEof, sharedVars
  <2> QED
    BY <1>t, <2>1, BatchFrame DEF Runs, Ended
<1>3. CASE WaitVserialInbox(a)
  <2>1. UNCHANGED <<inbox, written, buf, lost, chan>>
    BY <1>3 DEF WaitVserialInbox
  <2>2. \A b \in Clients : outbound'[b] = "done" <=> outbound[b] = "done"
    BY <1>3, <1>t DEF WaitVserialInbox, TypeOK
  <2> QED
    BY <1>t, <2>1, <2>2, BatchFrame DEF Runs, Ended
<1>4. CASE DrainVserial(a)
  <2>1. UNCHANGED <<written, lost, chan>>
    BY <1>4 DEF DrainVserial
  <2>2. \A b \in Clients : outbound'[b] = "done" <=> outbound[b] = "done"
    BY <1>4, <1>t DEF DrainVserial, TypeOK
  <2>3. CASE UNCHANGED <<inbox, buf>>
    BY <1>t, <2>1, <2>2, <2>3, BatchFrame DEF Runs, Ended
  <2>4. CASE \E c \in Channels : /\ buf' = [buf EXCEPT ![a] = inbox[c]]
                                 /\ inbox' = [inbox EXCEPT ![c] = <<>>]
    <3>1. PICK c \in Channels : /\ buf' = [buf EXCEPT ![a] = inbox[c]]
                                /\ inbox' = [inbox EXCEPT ![c] = <<>>]
      BY <2>4
    <3>2. inbox[c] \in Seq(Byte) /\ written[c] \in Nat /\ UpTo(inbox[c], written[c])
      BY <1>t DEF TypeOK, Runs
    <3>3. Consecutive(inbox[c])
      BY <3>2, UpToConsecutive
    <3>4. \A b \in Clients : Consecutive(buf'[b])
      BY <1>t, <3>1, <3>3 DEF TypeOK, Runs
    <3>5. \A w : UpTo(<<>>, w)
      BY DEF UpTo
    <3>6. \A d \in Channels : UpTo(inbox'[d], written[d])
      BY <1>t, <3>1, <3>5 DEF TypeOK, Runs
    <3>7. Runs'
      BY <2>1, <3>4, <3>6 DEF Runs
    <3> QED
      BY <2>1, <2>2, <3>7, BatchFrame DEF Ended
  <2> QED
    BY <1>4, <2>3, <2>4 DEF DrainVserial
<1>5. CASE WriteAll(a)
  <2>1. UNCHANGED <<inbox, written, chan>> /\ outbound[a] = "write"
        /\ buf' = [buf EXCEPT ![a] = <<>>]
    BY <1>5 DEF WriteAll, sharedVars
  <2>2. Runs'
    <3>1. Consecutive(<<>>)
      BY DEF Consecutive
    <3>2. \A b \in Clients : Consecutive(buf'[b])
      BY <1>t, <2>1, <3>1 DEF TypeOK, Runs
    <3> QED
      BY <1>t, <2>1, <3>2 DEF Runs
  <2>3. CASE peer[a] = "open"
    <3>1. UNCHANGED lost /\ outbound' = [outbound EXCEPT ![a] = "drain"]
      BY <1>5, <2>3 DEF WriteAll
    <3>2. \A b \in Clients : outbound'[b] = "done" <=> outbound[b] = "done"
      BY <1>t, <2>1, <3>1 DEF TypeOK
    <3> QED
      BY <2>1, <2>2, <3>1, <3>2, BatchFrame DEF Ended
  <2>4. CASE peer[a] # "open"
    <3>1. PICK c \in Channels : chan[a] = c
      BY <2>1 DEF OnceInv, WriteStage
    <3>2. /\ lost' = [lost EXCEPT ![c] = @ \cup Numbers(buf[a])]
          /\ outbound' = [outbound EXCEPT ![a] = "done"]
      BY <1>5, <2>4, <3>1 DEF WriteAll, Numbers
    <3> QED
      BY <1>t, <2>1, <2>2, <3>1, <3>2, BatchLost
  <2> QED
    BY <2>3, <2>4
<1> QED
  BY <1>1, <1>2, <1>3, <1>4, <1>5 DEF Client

LEMMA BatchStep ==
  BatchInv /\ OnceInv /\ OrderInv /\ WakeInv /\ [Next]_vars => BatchInv'
<1> SUFFICES ASSUME BatchInv, OnceInv, OrderInv, WakeInv, [Next]_vars PROVE BatchInv'
  OBVIOUS
<1>t. TypeOK /\ Runs
  BY DEF OrderInv, BatchInv
<1>1. CASE SummaryLock \/ SummaryUnlock \/ UNCHANGED vars
  <2>1. UNCHANGED <<inbox, written, buf, lost, chan, outbound>>
    BY <1>1 DEF SummaryLock, SummaryUnlock, vars, sharedVars, clientVars
  <2> QED
    BY <1>t, <2>1, BatchFrame DEF Runs, Ended
<1>2. ASSUME NEW s \in Sessions, Session(s) PROVE BatchInv'
  <2>1. /\ UNCHANGED <<chan, buf, lost>>
        /\ \A a \in Clients : outbound'[a] = "done" <=> outbound[a] = "done"
    BY <1>2, SessionEffect
  <2>2. Runs'
    <3>1. CASE UNCHANGED <<inbox, written>>
      BY <1>t, <2>1, <3>1 DEF Runs
    <3>2. ASSUME NEW c \in Channels, NEW k \in Nat, NEW via \in {"push", "burst"},
                 Enqueue(c, k, via)
          PROVE  Runs'
      BY <1>t, <2>1, <3>2, RunsEnqueue
    <3> QED
      BY <1>2, <3>1, <3>2, SessionEffect
  <2> QED
    BY <2>1, <2>2, BatchFrame DEF Ended
<1> QED
  BY <1>1, <1>2, BatchClient DEF Next

LEMMA BatchInit == Init => BatchInv
<1> SUFFICES ASSUME Init PROVE BatchInv
  OBVIOUS
<1>1. /\ \A c \in Channels : inbox[c] = <<>> /\ lost[c] = {}
      /\ \A a \in Clients : buf[a] = <<>> /\ outbound[a] = "none"
  BY DEF Init
<1>2. Runs
  BY <1>1 DEF Runs, UpTo, Consecutive
<1>3. \A c \in Channels : Starts(c) = {} /\ Ended(c) = {}
  BY <1>1 DEF Starts, Ended
<1> QED
  BY <1>2, <1>3, FS_EmptySet DEF BatchInv

\* An outbound task that has outlived its client loses at most the one batch
\* it holds: the runs of bytes lost to a failed write_all are no more than
\* the tasks on the channel that have ended over one, whatever comes and goes.
THEOREM PipeLosesOneBatch == Spec => []OneBatchLost
<1>1. Init => BatchInv
  BY BatchInit
<1>2. BatchInv /\ OnceInv /\ OrderInv /\ WakeInv /\ [Next]_vars => BatchInv'
  BY BatchStep
<1>3. BatchInv => OneBatchLost
  BY DEF BatchInv, OneBatchLost, Starts, Ended
<1> QED
  BY <1>1, <1>2, <1>3, WakeInvariant, OrderInvariant, OnceInvariant, PTL DEF Spec
=============================================================================
