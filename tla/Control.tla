------------------------------ MODULE Control ------------------------------
(***************************************************************************)
(* The control socket of the daemon beside the traffic it reports on: the  *)
(* listener, the sessions of handle_control, their clients (dw mount,      *)
(* dw unmount, dw status, or anything that speaks the protocol), and the   *)
(* guests and attach pumps that use the virtual serial queues meanwhile.   *)
(*                                                                         *)
(* This is where the locks of the server meet. STATUS copies the open      *)
(* flags, takes the inbox mutex and, holding it, waits for the outbox      *)
(* mutex, which a SERREAD keeps across its write to the guest. Queues are  *)
(* their lengths, and MOUNT and UNMOUNT are their answers; Inbox, Outbox   *)
(* and Disk have the rest.                                                 *)
(***************************************************************************)
EXTENDS Naturals, FiniteSets

CONSTANTS
  Requests,   \* control connections that exist at a time
  Watched,    \* the one of them whose STATUS replies are judged
  Guests,     \* guest sessions (Server::run)
  Channels,   \* vserial channels
  Nobody,     \* "nobody": a mutex is free
  MaxQueued   \* bound: bytes in a queue

ASSUME ControlAssumption ==
  /\ Watched \in Requests
  /\ Nobody \notin Requests \cup Guests
  /\ MaxQueued \in Nat

VARIABLES
  listener,  \* the control listener: "starting", "removed", "up", "hidden"
             \* (another daemon has taken its path), "down"; "dead": no process
  open,      \* vserial_open: channel -> flag
  inbox,     \* channel -> length of its inbox
  outbox,    \* channel -> length of its outbox
  inboxBy,   \* the request that holds the inbox mutex across an await
  outboxBy,  \* the guest session that holds the outbox mutex across an await
  guest,     \* guest -> what its session is doing
  at,        \* request -> where its control session is
  asked,     \* request -> its client has sent a line and waits
  flags,     \* request -> the copy of the open flags its STATUS has made
  reply,     \* request -> the answer its session is about to write
  seen       \* history: what has been true since the watched STATUS began:
             \* <<channel, flag>> and <<channel, inbox, outbox>>

lockVars    == <<inboxBy, outboxBy>>
queueVars   == <<open, inbox, outbox>>
requestVars == <<at, asked, flags, reply>>
vars == <<listener, queueVars, lockVars, guest, requestVars, seen>>

----------------------------------------------------------------------------
Row   == [ch : Channels, open : BOOLEAN, inbox : 0..MaxQueued, outbox : 0..MaxQueued]

\* An answer: to which verb ("other": anything but STATUS and QUIT) and with
\* which rows. What a line says is chosen when it is read.
Answer(verb, rows) == [to |-> verb, rows |-> rows]
NoFlags == [c \in Channels |-> FALSE]
NoBytes == [c \in Channels |-> 0]
NoReply == Answer("none", {})

\* The stages of a STATUS, between reading the line and having the rows.
InStatus == {"opens", "inbox", "outbox"}

alive == listener # "dead"

Init ==
  /\ listener = "starting"
  /\ open     = NoFlags
  /\ inbox    = NoBytes
  /\ outbox   = NoBytes
  /\ inboxBy  = Nobody
  /\ outboxBy = Nobody
  /\ guest    = [g \in Guests |-> "idle"]
  /\ at       = [k \in Requests |-> "none"]
  /\ asked    = [k \in Requests |-> FALSE]
  /\ flags    = [k \in Requests |-> NoFlags]
  /\ reply    = [k \in Requests |-> NoReply]
  /\ seen     = {}

----------------------------------------------------------------------------
(* The daemon and its listener *)

\* run_control_listener removes whatever is at the path, a live socket too.
RemoveFile ==
  /\ listener = "starting"
  /\ listener' = "removed"
  /\ UNCHANGED <<queueVars, lockVars, guest, requestVars>>

\* bind() fails if somebody has bound the path in between; serve logs the
\* error and goes on without a control socket.
Bind ==
  /\ listener = "removed"
  /\ listener' \in {"up", "down"}
  /\ UNCHANGED <<queueVars, lockVars, guest, requestVars>>

\* Another daemon, started on the same path, removes our socket file; what
\* is in the backlog stays there.
OtherDaemon ==
  /\ listener = "up"
  /\ listener' = "hidden"
  /\ UNCHANGED <<queueVars, lockVars, guest, requestVars>>

\* The connections of the given requests are gone: their clients read
\* end-of-file.
Drop(gone) ==
  /\ at'    = [k \in Requests |-> IF k \in gone THEN "none"  ELSE at[k]]
  /\ asked' = [k \in Requests |-> k \notin gone /\ asked[k]]
  /\ flags' = [k \in Requests |-> IF k \in gone THEN NoFlags ELSE flags[k]]
  /\ reply' = [k \in Requests |-> IF k \in gone THEN NoReply ELSE reply[k]]

Backlog == {k \in Requests : at[k] = "backlog"}

\* Faulty variant of AcceptFails: the loop is left, the socket stays open.
AcceptFailsOpen ==
  /\ listener \in {"up", "hidden"}
  /\ listener' = "down"
  /\ UNCHANGED <<queueVars, lockVars, guest, requestVars>>

\* accept() fails: the listener task ends and its socket is closed; the
\* sessions it has spawned go on.
AcceptFails ==
  /\ listener \in {"up", "hidden"}
  /\ listener' = "down"
  /\ Drop(Backlog)
  /\ UNCHANGED <<queueVars, lockVars, guest>>

\* The process ends: serve returns (the serial session has ended, the TCP
\* accept has failed, the transport did not open) or it is killed. Nothing of
\* its state is kept.
DaemonExits ==
  /\ alive
  /\ listener' = "dead"
  /\ Drop(Requests)
  /\ open'  = NoFlags
  /\ inbox' = NoBytes /\ outbox' = NoBytes
  /\ inboxBy' = Nobody /\ outboxBy' = Nobody
  /\ guest' = [g \in Guests |-> "idle"]

----------------------------------------------------------------------------
(* Clients and control sessions *)

\* A client connects and writes a command line; it waits for the answer.
Connect(k) ==
  /\ listener = "up"
  /\ at[k] = "none"
  /\ at' = [at EXCEPT ![k] = "backlog"]
  /\ asked' = [asked EXCEPT ![k] = TRUE]
  /\ UNCHANGED <<listener, queueVars, lockVars, guest, flags, reply>>

\* Its next command, on the same connection.
Send(k) ==
  /\ at[k] = "read" /\ ~asked[k]
  /\ asked' = [asked EXCEPT ![k] = TRUE]
  /\ UNCHANGED <<listener, queueVars, lockVars, guest, at, flags, reply>>

\* The client leaves: after its answer, as control_request does, or while it
\* waits (Ctrl-C). The session finds out at its next read or write.
Leave(k) ==
  /\ \/ at[k] = "read" /\ ~asked[k]
     \/ at[k] = "write"
  /\ Drop({k})
  /\ UNCHANGED <<listener, queueVars, lockVars, guest>>

\* accept() and the session's task.
Accept(k) ==
  /\ listener \in {"up", "hidden"}
  /\ at[k] = "backlog"
  /\ at' = [at EXCEPT ![k] = "read"]
  /\ UNCHANGED <<listener, queueVars, lockVars, guest, asked, flags, reply>>

\* The session has read a line.
Line(k) ==
  /\ at[k] = "read" /\ asked[k]
  /\ UNCHANGED <<listener, queueVars, lockVars, guest>>

\* handle_control_command has its response.
Respond(k, r) ==
  /\ reply' = [reply EXCEPT ![k] = r]
  /\ at' = [at EXCEPT ![k] = "write"]
  /\ flags' = [flags EXCEPT ![k] = NoFlags]
  /\ UNCHANGED asked

\* A blank line has no answer.
Blank(k) ==
  /\ Line(k)
  /\ asked' = [asked EXCEPT ![k] = FALSE]
  /\ UNCHANGED <<at, flags, reply>>

\* A line that is not UTF-8 is an error of next_line: the session ends.
LineFails(k) == Line(k) /\ Drop({k})

\* MOUNT, UNMOUNT and unknown verbs are answered OK or ERROR, QUIT with BYE.
HandleOther(k) == Line(k) /\ Respond(k, Answer("other", {}))
HandleQuit(k)  == Line(k) /\ Respond(k, Answer("QUIT", {}))

\* STATUS: the table of drives first, under its lock.
DriveSummary(k) ==
  /\ Line(k)
  /\ at' = [at EXCEPT ![k] = "opens"]
  /\ UNCHANGED <<asked, flags, reply>>

\* vserial_summary, first lock: clone the flags and let go.
SummaryOpens(k) ==
  /\ at[k] = "opens"
  /\ flags' = [flags EXCEPT ![k] = open]
  /\ at' = [at EXCEPT ![k] = "inbox"]
  /\ UNCHANGED <<listener, queueVars, lockVars, guest, asked, reply>>

\* Second lock, kept.
SummaryInbox(k) ==
  /\ at[k] = "inbox"
  /\ inboxBy = Nobody
  /\ inboxBy' = k
  /\ at' = [at EXCEPT ![k] = "outbox"]
  /\ UNCHANGED <<listener, queueVars, outboxBy, guest, asked, flags, reply>>

\* The row of a channel, and which rows are printed.
RowOf(k, c) == [ch |-> c, open |-> flags[k][c], inbox |-> inbox[c], outbox |-> outbox[c]]

\* Faulty variant of Listed: a closed channel with output pending is skipped.
ListedNoOutbox(r) == r.open \/ r.inbox > 0

Listed(r) == r.open \/ r.inbox > 0 \/ r.outbox > 0

\* Third lock: the rows, and both are released.
SummaryOutbox(k) ==
  /\ at[k] = "outbox"
  /\ outboxBy = Nobody
  /\ inboxBy' = Nobody
  /\ Respond(k, Answer("STATUS", {r \in {RowOf(k, c) : c \in Channels} : Listed(r)}))
  /\ UNCHANGED <<listener, queueVars, outboxBy, guest>>

\* write_all of the response; BYE ends the session.
WriteReply(k) ==
  /\ at[k] = "write"
  /\ asked' = [asked EXCEPT ![k] = FALSE]
  /\ at' = [at EXCEPT ![k] = IF reply[k].to = "QUIT" THEN "none" ELSE "read"]
  /\ reply' = [reply EXCEPT ![k] = NoReply]
  /\ UNCHANGED <<listener, queueVars, lockVars, guest, flags>>

----------------------------------------------------------------------------
(* The traffic *)

Waiting(op) == {g \in Guests : guest[g] = op}

\* A guest's next command that needs a lock. MaxQueued bounds the SERWRITEs
\* here, so that one that has started is never held up by the bound.
GuestCommand(g) ==
  /\ alive /\ guest[g] = "idle"
  /\ \/ guest' = [guest EXCEPT ![g] = "SERREAD"]
     \/ guest' = [guest EXCEPT ![g] = "SERREADM"]
     \/ /\ \E c \in Channels : inbox[c] + Cardinality(Waiting("SERWRITE")) < MaxQueued
        /\ guest' = [guest EXCEPT ![g] = "SERWRITE"]
  /\ UNCHANGED <<listener, queueVars, lockVars, requestVars>>

\* set_channel_open, for SERINIT, SERTERM, SS.Open and SS.Close.
SetChannelOpen(g) ==
  /\ alive /\ guest[g] = "idle"
  /\ \E c \in Channels, b \in BOOLEAN : open' = [open EXCEPT ![c] = b]
  /\ UNCHANGED <<listener, inbox, outbox, lockVars, guest, requestVars>>

\* push_vserial, under the inbox mutex.
PushVserial(g) ==
  /\ guest[g] = "SERWRITE"
  /\ inboxBy = Nobody
  /\ \E c \in Channels :
       /\ inbox[c] < MaxQueued
       /\ inbox' = [inbox EXCEPT ![c] = @ + 1]
  /\ guest' = [guest EXCEPT ![g] = "idle"]
  /\ UNCHANGED <<listener, open, outbox, lockVars, requestVars>>

\* Faulty variant of HandleSerRead: does not wait for the mutex.
HandleSerReadBarges(g) ==
  /\ guest[g] = "SERREAD"
  /\ outboxBy' = g
  /\ \/ UNCHANGED outbox
     \/ \E c \in Channels : outbox[c] > 0 /\ outbox' = [outbox EXCEPT ![c] = @ - 1]
  /\ guest' = [guest EXCEPT ![g] = "writing"]
  /\ UNCHANGED <<listener, open, inbox, inboxBy, requestVars>>

\* handle_serread takes the outbox mutex, pops a byte or not, and starts to
\* write.
HandleSerRead(g) ==
  /\ guest[g] = "SERREAD"
  /\ outboxBy = Nobody
  /\ outboxBy' = g
  /\ \/ UNCHANGED outbox
     \/ \E c \in Channels : outbox[c] > 0 /\ outbox' = [outbox EXCEPT ![c] = @ - 1]
  /\ guest' = [guest EXCEPT ![g] = "writing"]
  /\ UNCHANGED <<listener, open, inbox, inboxBy, requestVars>>

\* Faulty variant of SerReadDone: looks at the inbox, under its mutex, before
\* it lets go of the outbox.
SerReadDoneBoth(g) ==
  /\ guest[g] = "writing"
  /\ inboxBy = Nobody
  /\ outboxBy' = Nobody
  /\ guest' = [guest EXCEPT ![g] = "idle"]
  /\ UNCHANGED <<listener, queueVars, inboxBy, requestVars>>

\* The write has ended, well or not: the guard is dropped.
SerReadDone(g) ==
  /\ guest[g] = "writing"
  /\ outboxBy' = Nobody
  /\ guest' = [guest EXCEPT ![g] = "idle"]
  /\ UNCHANGED <<listener, queueVars, inboxBy, requestVars>>

\* handle_serreadm: a burst, under the outbox mutex.
HandleSerReadM(g) ==
  /\ guest[g] = "SERREADM"
  /\ outboxBy = Nobody
  /\ \E c \in Channels, left \in 0..MaxQueued :
       left <= outbox[c] /\ outbox' = [outbox EXCEPT ![c] = left]
  /\ guest' = [guest EXCEPT ![g] = "idle"]
  /\ UNCHANGED <<listener, open, inbox, lockVars, requestVars>>

\* The pumps of attached clients: drain_vserial and send_to_vserial.
DrainVserial(c) ==
  /\ alive /\ inboxBy = Nobody
  /\ inbox[c] > 0
  /\ inbox' = [inbox EXCEPT ![c] = 0]
  /\ UNCHANGED <<listener, open, outbox, lockVars, guest, requestVars>>

SendToVserial(c) ==
  /\ alive /\ outboxBy = Nobody
  /\ outbox[c] < MaxQueued
  /\ outbox' = [outbox EXCEPT ![c] = @ + 1]
  /\ UNCHANGED <<listener, open, inbox, lockVars, guest, requestVars>>

----------------------------------------------------------------------------
Daemon == RemoveFile \/ Bind \/ OtherDaemon \/ AcceptFails \/ DaemonExits

\* What the daemon does for a connection, and what its client does.
SessionStep(k) ==
  \/ Accept(k)
  \/ Blank(k)
  \/ LineFails(k)
  \/ HandleOther(k)
  \/ HandleQuit(k)
  \/ DriveSummary(k)
  \/ SummaryOpens(k)
  \/ SummaryInbox(k)
  \/ SummaryOutbox(k)
  \/ WriteReply(k)

ClientStep(k) == Connect(k) \/ Send(k) \/ Leave(k)

\* A guest's command under way, and a guest's next command.
GuestStep(g) == PushVserial(g) \/ HandleSerRead(g) \/ SerReadDone(g) \/ HandleSerReadM(g)

GuestStarts(g) == GuestCommand(g) \/ SetChannelOpen(g)

\* The history: what is true of the channels, and what has been.
Now == {<<c, open[c]>> : c \in Channels} \cup {<<c, inbox[c], outbox[c]>> : c \in Channels}

Observe ==
  seen' = IF at'[Watched] \in InStatus THEN seen \cup Now' ELSE {}

Step ==
  \/ Daemon
  \/ \E k \in Requests : SessionStep(k) \/ ClientStep(k)
  \/ \E g \in Guests : GuestStep(g) \/ GuestStarts(g)
  \/ \E c \in Channels : DrainVserial(c) \/ SendToVserial(c)

Next == Step /\ Observe

Spec == Init /\ [][Next]_vars

\* Tasks are scheduled, tokio's mutexes are first come first served (hence SF
\* for a step that waits for one), and a guest reads the answer to its SERREAD
\* or its link breaks. Clients, pumps and guests owe nobody a command.
Fairness ==
  /\ \A k \in Requests : SF_vars(SessionStep(k) /\ Observe)
  /\ \A g \in Guests : SF_vars(GuestStep(g) /\ Observe)

FairSpec == Spec /\ Fairness

----------------------------------------------------------------------------
(* Properties *)

\* Every variable has its type; the mutexes are held exactly by a STATUS
\* between its second and third lock and by a SERREAD at its write.
TypeOK ==
  /\ listener \in {"starting", "removed", "up", "hidden", "down", "dead"}
  /\ open \in [Channels -> BOOLEAN]
  /\ inbox \in [Channels -> 0..MaxQueued]
  /\ outbox \in [Channels -> 0..MaxQueued]
  /\ guest \in [Guests -> {"idle", "SERWRITE", "SERREAD", "SERREADM", "writing"}]
  /\ at \in [Requests -> InStatus \cup {"none", "backlog", "read", "write"}]
  /\ asked \in [Requests -> BOOLEAN]
  /\ flags \in [Requests -> [Channels -> BOOLEAN]]
  /\ reply \in [Requests -> [to : {"none", "STATUS", "QUIT", "other"}, rows : SUBSET Row]]
  /\ {k \in Requests : at[k] = "outbox"} = {inboxBy} \ {Nobody}
  /\ Waiting("writing") = {outboxBy} \ {Nobody}

\* What STATUS reports of a channel is not one moment's truth (the flag is
\* copied before the queues are locked), but each half of it is: the flag was
\* the channel's at some moment of the command, and the two lengths were its
\* queues' at one and the same. A channel that is not listed was closed at one
\* moment and had both queues empty at one. Whatever guests, pumps and other
\* control sessions do meanwhile.
Truthful(c, rows) ==
  IF rows = {}
  THEN <<c, FALSE>> \in seen /\ <<c, 0, 0>> \in seen
  ELSE \A r \in rows : <<c, r.open>> \in seen /\ <<c, r.inbox, r.outbox>> \in seen

StatusRows ==
  [][reply[Watched] = NoReply /\ reply'[Watched].to = "STATUS" =>
       \A c \in Channels : Truthful(c, {r \in reply'[Watched].rows : r.ch = c})]_vars

\* Every command a client has sent comes to an end: an answer, or end-of-file
\* if the session, the listener or the daemon has gone. Nobody is left in the
\* backlog of a listener that has stopped accepting, or behind a mutex.
Answered == \A k \in Requests : asked[k] ~> ~asked[k]

\* Every command of a guest gets its mutex and ends, whatever STATUS commands
\* run: a STATUS waits for the outbox with the inbox locked, a SERREAD waits
\* for its guest with the outbox locked, and nobody waits the other way round.
GuestServed == \A g \in Guests : guest[g] # "idle" ~> guest[g] = "idle"
=============================================================================
