---------------------------- MODULE ControlProofs ----------------------------
(***************************************************************************)
(* Theorems about Control, for any numbers of control connections, guests  *)
(* and channels: types and the exactness of both mutexes, and the truth of *)
(* what STATUS reports.                                                    *)
(***************************************************************************)
EXTENDS Control, TLAPS

-----------------------------------------------------------------------------
(* Type correctness *)

\* The initial state is well typed: nobody holds a mutex.
LEMMA InitTypes == Init => TypeOK
BY ControlAssumption DEF Init, TypeOK, NoFlags, NoBytes, NoReply, Answer, InStatus, Waiting, Row

\* Dropping connections that do not hold the inbox mutex.
LEMMA DropTypes ==
  ASSUME TypeOK, NEW gone \in SUBSET Requests, Drop(gone)
  PROVE  /\ at' \in [Requests -> InStatus \cup {"none", "backlog", "read", "write"}]
         /\ asked' \in [Requests -> BOOLEAN]
         /\ flags' \in [Requests -> [Channels -> BOOLEAN]]
         /\ reply' \in [Requests -> [to : {"none", "STATUS", "QUIT", "other"}, rows : SUBSET Row]]
         /\ \A k \in Requests : at'[k] = "outbox" <=> k \notin gone /\ at[k] = "outbox"
<1>1. NoFlags \in [Channels -> BOOLEAN]
  BY DEF NoFlags
<1>2. NoReply \in [to : {"none", "STATUS", "QUIT", "other"}, rows : SUBSET Row]
  BY DEF NoReply, Answer
<1> QED  BY <1>1, <1>2 DEF TypeOK, Drop

\* A session that moves between stages without the inbox mutex.
LEMMA StageMoves ==
  ASSUME TypeOK, NEW k \in Requests, at[k] # "outbox",
         NEW s, s # "outbox", at' = [at EXCEPT ![k] = s]
  PROVE  {j \in Requests : at'[j] = "outbox"} = {j \in Requests : at[j] = "outbox"}
BY DEF TypeOK

\* The listener's steps. Neither an accept error nor another daemon touches a
\* mutex; the end of the process frees both.
LEMMA DaemonTypes == TypeOK /\ Daemon => TypeOK'
<1> SUFFICES ASSUME TypeOK, Daemon PROVE TypeOK'
  OBVIOUS
<1>1. CASE RemoveFile \/ Bind \/ OtherDaemon
  BY <1>1 DEF TypeOK, RemoveFile, Bind, OtherDaemon, queueVars, lockVars, requestVars, Waiting
<1>2. CASE AcceptFails
  <2>1. Drop(Backlog) /\ Backlog \in SUBSET Requests /\ \A k \in Backlog : at[k] = "backlog"
    BY <1>2 DEF AcceptFails, Backlog
  <2>2. {k \in Requests : at'[k] = "outbox"} = {k \in Requests : at[k] = "outbox"}
    BY <2>1, DropTypes
  <2> QED  BY <1>2, <2>1, <2>2, DropTypes DEF TypeOK, AcceptFails, queueVars, lockVars, Waiting
<1>3. CASE DaemonExits
  <2>1. {k \in Requests : at'[k] = "outbox"} = {}
    BY <1>3, DropTypes DEF DaemonExits
  <2>2. NoFlags \in [Channels -> BOOLEAN] /\ NoBytes \in [Channels -> 0..MaxQueued]
    BY ControlAssumption DEF NoFlags, NoBytes
  <2>3. Waiting("writing")' = {}
    BY <1>3 DEF DaemonExits, Waiting
  <2> QED  BY <1>3, <2>1, <2>2, <2>3, DropTypes DEF TypeOK, DaemonExits
<1> QED  BY <1>1, <1>2, <1>3 DEF Daemon

\* A client connects, sends or leaves; it leaves a session that holds nothing.
LEMMA ClientTypes == ASSUME NEW k \in Requests, TypeOK, ClientStep(k) PROVE TypeOK'
<1> USE DEF queueVars, lockVars
<1>1. CASE Connect(k)
  <2>1. {j \in Requests : at'[j] = "outbox"} = {j \in Requests : at[j] = "outbox"}
    BY <1>1, StageMoves DEF Connect
  <2> QED  BY <1>1, <2>1 DEF TypeOK, Connect, Waiting
<1>2. CASE Send(k)
  BY <1>2 DEF TypeOK, Send, Waiting
<1>3. CASE Leave(k)
  <2>1. Drop({k}) /\ {k} \in SUBSET Requests /\ at[k] # "outbox"
    BY <1>3 DEF Leave
  <2>2. {j \in Requests : at'[j] = "outbox"} = {j \in Requests : at[j] = "outbox"}
    BY <2>1, DropTypes
  <2> QED  BY <1>3, <2>1, <2>2, DropTypes DEF TypeOK, Leave, Waiting
<1> QED  BY <1>1, <1>2, <1>3 DEF ClientStep

\* A session's steps. The inbox mutex goes with the stage "outbox".
LEMMA SessionTypes == ASSUME NEW k \in Requests, TypeOK, SessionStep(k) PROVE TypeOK'
<1> USE DEF queueVars, lockVars
<1>1. CASE Accept(k)
  BY <1>1 DEF TypeOK, Accept, Waiting
<1>2. CASE Blank(k)
  BY <1>2 DEF TypeOK, Blank, Line, Waiting
<1>9. CASE DriveSummary(k)
  <2>1. {j \in Requests : at'[j] = "outbox"} = {j \in Requests : at[j] = "outbox"}
    BY <1>9, StageMoves DEF DriveSummary, Line
  <2> QED  BY <1>9, <2>1 DEF TypeOK, DriveSummary, Line, InStatus, Waiting
<1>3. CASE LineFails(k)
  <2>1. Drop({k}) /\ {k} \in SUBSET Requests /\ at[k] # "outbox"
    BY <1>3 DEF LineFails, Line
  <2>2. {j \in Requests : at'[j] = "outbox"} = {j \in Requests : at[j] = "outbox"}
    BY <2>1, DropTypes
  <2> QED  BY <1>3, <2>1, <2>2, DropTypes DEF TypeOK, LineFails, Line, Waiting
<1>4. CASE HandleOther(k) \/ HandleQuit(k)
  <2>1. PICK v \in {"other", "QUIT"} : Line(k) /\ Respond(k, Answer(v, {}))
    BY <1>4 DEF HandleOther, HandleQuit
  <2>2. {j \in Requests : at'[j] = "outbox"} = {j \in Requests : at[j] = "outbox"}
    BY <2>1, StageMoves DEF Line, Respond
  <2>3. /\ Answer(v, {}) \in [to : {"none", "STATUS", "QUIT", "other"}, rows : SUBSET Row]
        /\ NoFlags \in [Channels -> BOOLEAN]
    BY DEF Answer, NoFlags
  <2> QED  BY <2>1, <2>2, <2>3 DEF TypeOK, Line, Respond, Waiting
<1>5. CASE SummaryOpens(k)
  BY <1>5 DEF TypeOK, SummaryOpens, InStatus, Waiting
<1>6. CASE SummaryInbox(k)
  <2>1. {j \in Requests : at[j] = "outbox"} = {}
    BY <1>6 DEF TypeOK, SummaryInbox
  <2>2. {j \in Requests : at'[j] = "outbox"} = {k}
    BY <1>6, <2>1 DEF TypeOK, SummaryInbox
  <2>3. {inboxBy'} \ {Nobody} = {k}
    BY <1>6, ControlAssumption DEF SummaryInbox
  <2> QED  BY <1>6, <2>2, <2>3 DEF TypeOK, SummaryInbox, InStatus, Waiting
<1>7. CASE SummaryOutbox(k)
  <2>1. {j \in Requests : at[j] = "outbox"} = {k}
    BY <1>7 DEF TypeOK, SummaryOutbox
  <2>2. {j \in Requests : at'[j] = "outbox"} = {}
    BY <1>7, <2>1 DEF TypeOK, SummaryOutbox, Respond
  <2>3. {inboxBy'} \ {Nobody} = {}
    BY <1>7 DEF SummaryOutbox
  <2>4. \A c \in Channels : RowOf(k, c) \in Row
    BY DEF TypeOK, RowOf, Row
  <2>5. Answer("STATUS", {r \in {RowOf(k, c) : c \in Channels} : Listed(r)})
          \in [to : {"none", "STATUS", "QUIT", "other"}, rows : SUBSET Row]
    BY <2>4 DEF Answer
  <2> QED  BY <1>7, <2>2, <2>3, <2>5 DEF TypeOK, SummaryOutbox, Respond, NoFlags, Waiting
<1>8. CASE WriteReply(k)
  BY <1>8 DEF TypeOK, WriteReply, NoReply, Answer, Waiting
<1> QED  BY <1>1, <1>2, <1>3, <1>4, <1>5, <1>6, <1>7, <1>8, <1>9 DEF SessionStep

\* A guest's steps. The outbox mutex goes with the stage "writing".
LEMMA GuestTypes ==
  ASSUME NEW g \in Guests, TypeOK, GuestStep(g) \/ GuestStarts(g) PROVE TypeOK'
<1> USE DEF lockVars, queueVars, requestVars
<1>1. CASE GuestCommand(g)
  BY <1>1 DEF TypeOK, GuestCommand, Waiting
<1>2. CASE SetChannelOpen(g)
  BY <1>2 DEF TypeOK, SetChannelOpen, Waiting
<1>3. CASE PushVserial(g)
  BY <1>3, ControlAssumption DEF TypeOK, PushVserial, Waiting
<1>4. CASE HandleSerRead(g)
  <2>1. Waiting("writing") = {} /\ {outboxBy'} \ {Nobody} = {g}
    BY <1>4, ControlAssumption DEF TypeOK, HandleSerRead
  <2>2. Waiting("writing")' = {g}
    BY <1>4, <2>1 DEF TypeOK, HandleSerRead, Waiting
  <2>3. outbox' \in [Channels -> 0..MaxQueued]
    BY <1>4, ControlAssumption DEF TypeOK, HandleSerRead
  <2> QED  BY <1>4, <2>1, <2>2, <2>3 DEF TypeOK, HandleSerRead
<1>5. CASE SerReadDone(g)
  <2>1. Waiting("writing") = {g} /\ {outboxBy'} \ {Nobody} = {}
    BY <1>5 DEF TypeOK, SerReadDone, Waiting
  <2>2. Waiting("writing")' = {}
    BY <1>5, <2>1 DEF TypeOK, SerReadDone, Waiting
  <2> QED  BY <1>5, <2>1, <2>2 DEF TypeOK, SerReadDone
<1>6. CASE HandleSerReadM(g)
  BY <1>6 DEF TypeOK, HandleSerReadM, Waiting
<1> QED  BY <1>1, <1>2, <1>3, <1>4, <1>5, <1>6 DEF GuestStep, GuestStarts

LEMMA PumpTypes ==
  ASSUME NEW c \in Channels, TypeOK, DrainVserial(c) \/ SendToVserial(c) PROVE TypeOK'
<1> USE DEF lockVars, queueVars, requestVars
<1>1. CASE DrainVserial(c)
  BY <1>1, ControlAssumption DEF TypeOK, DrainVserial, Waiting
<1>2. CASE SendToVserial(c)
  BY <1>2, ControlAssumption DEF TypeOK, SendToVserial, Waiting
<1> QED  BY <1>1, <1>2

LEMMA StepTypes == TypeOK /\ [Next]_vars => TypeOK'
<1> SUFFICES ASSUME TypeOK, [Next]_vars PROVE TypeOK'
  OBVIOUS
<1>1. CASE UNCHANGED vars
  BY <1>1 DEF TypeOK, vars, queueVars, lockVars, requestVars, Waiting
<1>2. CASE Next
  BY <1>2, DaemonTypes, ClientTypes, SessionTypes, GuestTypes, PumpTypes DEF Next, Step
<1> QED  BY <1>1, <1>2

\* Every reachable state of Control is well typed, and each mutex is held
\* exactly by the one task that is between taking it and releasing it: the
\* inbox mutex by a STATUS that waits for the outbox, the outbox mutex by a
\* SERREAD at its write.
THEOREM ControlTypes == Spec => []TypeOK
BY InitTypes, StepTypes, PTL DEF Spec

-----------------------------------------------------------------------------
(* What STATUS reports *)

\* While the watched session is inside a STATUS, the history holds what is
\* true of every channel now and, once the flags are copied, what was true of
\* them when they were.
Witnessed ==
  at[Watched] \in InStatus =>
    /\ Now \subseteq seen
    /\ at[Watched] # "opens" => \A c \in Channels : <<c, flags[Watched][c]>> \in seen

\* Past its first lock a session has just copied the flags, or keeps its copy.
LEMMA CopyKept ==
  ASSUME TypeOK, Step, at'[Watched] \in {"inbox", "outbox"}
  PROVE  \/ at[Watched] \in {"inbox", "outbox"} /\ flags'[Watched] = flags[Watched]
         \/ flags'[Watched] = open'
<1> USE ControlAssumption DEF queueVars, lockVars, requestVars
<1>1. CASE RemoveFile \/ Bind \/ OtherDaemon
  BY <1>1 DEF RemoveFile, Bind, OtherDaemon
<1>2. CASE AcceptFails
  BY <1>2 DEF AcceptFails, Drop, TypeOK
<1>3. CASE DaemonExits
  BY <1>3 DEF DaemonExits, Drop, TypeOK
<1>4. ASSUME NEW k \in Requests, SessionStep(k)
      PROVE  \/ at[Watched] \in {"inbox", "outbox"} /\ flags'[Watched] = flags[Watched]
             \/ flags'[Watched] = open'
  <2>1. CASE Accept(k) \/ Blank(k) \/ DriveSummary(k) \/ WriteReply(k)
    BY <2>1 DEF TypeOK, Accept, Blank, Line, DriveSummary, WriteReply
  <2>2. CASE LineFails(k)
    BY <2>2 DEF TypeOK, LineFails, Line, Drop
  <2>3. CASE HandleOther(k) \/ HandleQuit(k) \/ SummaryOutbox(k)
    BY <2>3 DEF TypeOK, HandleOther, HandleQuit, SummaryOutbox, Line, Respond
  <2>4. CASE SummaryOpens(k)
    BY <2>4 DEF TypeOK, SummaryOpens
  <2>5. CASE SummaryInbox(k)
    BY <2>5 DEF TypeOK, SummaryInbox
  <2> QED  BY <1>4, <2>1, <2>2, <2>3, <2>4, <2>5 DEF SessionStep
<1>5. ASSUME NEW k \in Requests, ClientStep(k)
      PROVE  at[Watched] \in {"inbox", "outbox"} /\ flags'[Watched] = flags[Watched]
  BY <1>5 DEF TypeOK, ClientStep, Connect, Send, Leave, Drop
<1>6. ASSUME NEW g \in Guests, GuestStep(g) \/ GuestStarts(g)
      PROVE  UNCHANGED requestVars
  BY <1>6 DEF GuestStep, GuestStarts, GuestCommand, SetChannelOpen, PushVserial,
              HandleSerRead, SerReadDone, HandleSerReadM
<1>7. ASSUME NEW c \in Channels, DrainVserial(c) \/ SendToVserial(c)
      PROVE  UNCHANGED requestVars
  BY <1>7 DEF DrainVserial, SendToVserial
<1> QED  BY <1>1, <1>2, <1>3, <1>4, <1>5, <1>6, <1>7 DEF Step, Daemon

LEMMA WitnessedStep == TypeOK /\ Witnessed /\ [Next]_vars => Witnessed'
<1> SUFFICES ASSUME TypeOK, Witnessed, [Next]_vars, at'[Watched] \in InStatus
             PROVE  /\ Now' \subseteq seen'
                    /\ at'[Watched] # "opens" =>
                         \A c \in Channels : <<c, flags'[Watched][c]>> \in seen'
  BY DEF Witnessed
<1>1. CASE UNCHANGED vars
  <2>1. Now' = Now
    BY <1>1 DEF vars, queueVars, Now
  <2> QED  BY <1>1, <2>1 DEF Witnessed, vars, requestVars
<1>2. CASE Next
  <2>1. seen' = seen \cup Now'
    BY <1>2 DEF Next, Observe
  <2>2. ASSUME at'[Watched] # "opens", NEW c \in Channels
        PROVE  <<c, flags'[Watched][c]>> \in seen'
    <3>1. CASE at[Watched] \in {"inbox", "outbox"} /\ flags'[Watched] = flags[Watched]
      BY <2>1, <3>1 DEF Witnessed, InStatus
    <3>2. CASE flags'[Watched] = open'
      <4>1. <<c, open'[c]>> \in Now'
        BY DEF Now
      <4> QED  BY <2>1, <3>2, <4>1
    <3> QED  BY <1>2, <2>2, <3>1, <3>2, CopyKept DEF Next, InStatus
  <2> QED  BY <2>1, <2>2
<1> QED  BY <1>1, <1>2

\* The only step that gives a session the answer to a STATUS.
LEMMA StatusAnswered ==
  ASSUME TypeOK, [Next]_vars, reply[Watched] = NoReply, reply'[Watched].to = "STATUS"
  PROVE  SummaryOutbox(Watched)
<1> USE ControlAssumption DEF queueVars, lockVars, requestVars
<1>0. NoReply.to = "none"
  BY DEF NoReply, Answer
<1>1. reply'[Watched] # reply[Watched]
  BY <1>0
<1>2. CASE UNCHANGED vars
  BY <1>1, <1>2 DEF vars
<1>3. CASE RemoveFile \/ Bind \/ OtherDaemon
  BY <1>1, <1>3 DEF RemoveFile, Bind, OtherDaemon
<1>4. CASE AcceptFails
  BY <1>0, <1>1, <1>4 DEF AcceptFails, Drop, TypeOK
<1>5. CASE DaemonExits
  BY <1>0, <1>1, <1>5 DEF DaemonExits, Drop, TypeOK
<1>6. ASSUME NEW k \in Requests, SessionStep(k) PROVE SummaryOutbox(Watched)
  <2>1. CASE Accept(k) \/ Blank(k) \/ DriveSummary(k) \/ SummaryOpens(k) \/ SummaryInbox(k)
    BY <1>1, <2>1 DEF Accept, Blank, DriveSummary, SummaryOpens, SummaryInbox
  <2>2. CASE LineFails(k)
    BY <1>0, <1>1, <2>2 DEF TypeOK, LineFails, Drop
  <2>3. CASE HandleOther(k)
    BY <1>1, <2>3 DEF TypeOK, HandleOther, Respond, Answer
  <2>4. CASE HandleQuit(k)
    BY <1>1, <2>4 DEF TypeOK, HandleQuit, Respond, Answer
  <2>5. CASE SummaryOutbox(k)
    <3>1. k = Watched
      BY <1>1, <2>5 DEF TypeOK, SummaryOutbox, Respond
    <3> QED  BY <2>5, <3>1
  <2>6. CASE WriteReply(k)
    BY <1>0, <1>1, <2>6 DEF TypeOK, WriteReply
  <2> QED  BY <1>6, <2>1, <2>2, <2>3, <2>4, <2>5, <2>6 DEF SessionStep
<1>7. ASSUME NEW k \in Requests, ClientStep(k) PROVE FALSE
  BY <1>0, <1>1, <1>7 DEF TypeOK, ClientStep, Connect, Send, Leave, Drop
<1>8. ASSUME NEW g \in Guests, GuestStep(g) \/ GuestStarts(g) PROVE FALSE
  BY <1>1, <1>8 DEF GuestStep, GuestStarts, GuestCommand, SetChannelOpen, PushVserial,
                    HandleSerRead, SerReadDone, HandleSerReadM
<1>9. ASSUME NEW c \in Channels, DrainVserial(c) \/ SendToVserial(c) PROVE FALSE
  BY <1>1, <1>9 DEF DrainVserial, SendToVserial
<1> QED  BY <1>2, <1>3, <1>4, <1>5, <1>6, <1>7, <1>8, <1>9 DEF Next, Step, Daemon

\* The rows of that answer, channel by channel, against the history.
LEMMA RowsTruthful ==
  ASSUME TypeOK, Witnessed, SummaryOutbox(Watched), NEW c \in Channels
  PROVE  Truthful(c, {r \in reply'[Watched].rows : r.ch = c})
<1> DEFINE all  == {RowOf(Watched, d) : d \in Channels}
           row  == RowOf(Watched, c)
           mine == {r \in reply'[Watched].rows : r.ch = c}
<1>1. <<c, row.open>> \in seen /\ <<c, row.inbox, row.outbox>> \in seen
  <2>1. at[Watched] = "outbox" /\ at[Watched] \in InStatus
    BY DEF SummaryOutbox, InStatus
  <2>2. <<c, inbox[c], outbox[c]>> \in Now
    BY DEF Now
  <2> QED  BY <2>1, <2>2 DEF Witnessed, RowOf
<1>2. reply'[Watched].rows = {r \in all : Listed(r)}
  BY ControlAssumption DEF SummaryOutbox, Respond, Answer, TypeOK
<1>3. \A d \in Channels : RowOf(Watched, d).ch = d
  BY DEF RowOf
<1>4. mine = IF Listed(row) THEN {row} ELSE {}
  <2>1. \A r \in mine : r = row /\ Listed(row)
    BY <1>2, <1>3
  <2>2. Listed(row) => row \in mine
    BY <1>2, <1>3
  <2> QED  BY <2>1, <2>2
<1>5. CASE Listed(row)
  BY <1>1, <1>4, <1>5 DEF Truthful
<1>6. CASE ~Listed(row)
  <2>1. row.open = FALSE /\ row.inbox = 0 /\ row.outbox = 0
    <3>1. flags[Watched][c] \in BOOLEAN /\ inbox[c] \in Nat /\ outbox[c] \in Nat
      BY ControlAssumption DEF TypeOK
    <3> QED  BY <1>6, <3>1 DEF Listed, RowOf
  <2> QED  BY <1>1, <1>4, <1>6, <2>1 DEF Truthful
<1> QED  BY <1>5, <1>6

\* What STATUS reports of a channel was true of it during the command: the
\* flag at one moment, both lengths at one moment, and a channel that is left
\* out was closed at one and empty at one; for any number of control
\* sessions, guests and channels and whatever they do between the locks.
THEOREM StatusNeverLies == Spec => StatusRows
<1>1. Init => Witnessed
  BY ControlAssumption DEF Init, Witnessed, InStatus
<1>2. TypeOK /\ Witnessed /\ [Next]_vars =>
        [reply[Watched] = NoReply /\ reply'[Watched].to = "STATUS" =>
           \A c \in Channels : Truthful(c, {r \in reply'[Watched].rows : r.ch = c})]_vars
  BY StatusAnswered, RowsTruthful
<1> QED  BY <1>1, <1>2, WitnessedStep, ControlTypes, PTL DEF Spec, StatusRows
=============================================================================
