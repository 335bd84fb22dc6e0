# drivewire-rs in TLA+

Specifications of [drivewire-rs](../src/README.md), a DriveWire 3/4 server: a
vintage guest machine (a CoCo, or an emulator of one) uses the host as disk,
printer and terminal over an unframed byte stream. `dw serve` is one process
with many tokio tasks; `dw attach`, `dw mount`, `dw status` are clients of it.
`lib.rs` below is `crates/drivewire-server/src/lib.rs`, `main.rs` is
`crates/drivewire-cli/src/main.rs`.

## Inventory

| component | state | operations | what makes it correct |
|---|---|---|---|
| vserial inbox (lib.rs 334-371, 396-404, 543-615, 649-667) | one queue and one `Notify` per channel, one mutex for all queues | `push_vserial` (SERWRITE, FASTWRITE), SERWRITEM, `drain_vserial`, `wait_vserial_inbox`, attach, disconnect | no wakeup is lost, every byte is delivered at most once and in order, an attached client gets what is queued |
| vserial outbox (lib.rs 373-393, 578-593, 617-645, 724-744) | one queue per channel, one mutex | `send_to_vserial`, SERREAD, SERREADM | no byte repeated, misrouted or reordered; announced counts are honoured; what is typed reaches the guest |
| wire protocol (lib.rs 97-343, 669-766; proto/opcode.rs) | position in the guest's byte stream | one handler per opcode | each handler consumes exactly its payload and answers exactly what the guest waits for; a lost byte is survived |
| `dw attach` (main.rs 263-329, 404-470) | escape flag, carriage-return flag, two pumps | read a chunk and filter it, end of file, exit | the filters do not depend on how the stream is split into reads |
| drives (lib.rs 89-95, 207-291, 427-441) | slot -> shared disk, behind an RwLock | mount, unmount, READ*, WRITE* | a status answers what was done; a sector is read as it was last written |
| .dsk disk (vdisk/lib.rs) | file and its offset behind a mutex, sector count fixed at open | open, read, write | seek and transfer are not interleaved; out-of-range sectors are refused |
| control socket (lib.rs 443-538, main.rs 577-636) | none of its own | MOUNT, UNMOUNT, STATUS, QUIT | every command has one terminated reply; STATUS does not block the data path |
| serial transport (transport/) | two threads, two unbounded channels, leftover bytes | reader and writer loops, `poll_read`, `poll_write`, `drain_serial` | an ordered byte stream in both directions; a dead port ends the program |
| `dw probe` (main.rs 331-402) | none | drain, first byte, second byte, answer | it comes to a verdict |
| daemon (main.rs 190-261) | listeners | bind, accept, spawn | nobody is left waiting when a listener or the process ends |
| channel open flags (lib.rs 160-171, 669-708) | a flag per channel | SERINIT, SERTERM, SS.Open, SS.Close | STATUS reports what was true |
| printer buffer, LSN and checksum | a byte buffer; none | | bookkeeping, pure functions |

Interaction: every guest connection is a `Server::run` task and every attach
connection is a `handle_attach` call that spawns two tasks (inbound: socket to
outbox; outbound: inbox to socket). They share the two queue arrays, each
behind one tokio mutex, and the per-channel `Notify`. Control connections are
further tasks that read all of it. Nothing is persisted but the disk images.

Hard to test: push and notify are two steps, drain and wait are two steps, and
any number of tasks interleave between them; a task outlives the call that
spawned it; a mutex is held across network writes; a reply announces a count
that a later request relies on; the protocol has no framing and no timeout on
the server's side; filters keep state between reads. `PROJECT.json` lists each
hazard at its line with the properties that cover it.

## Modules

### Inbox (with MCInbox, InboxProofs)

Guest-to-host bytes. A step is what a task does between two points where
another thread can see it: a critical section without an await is one step,
and the append and the `notify_one()` of `push_vserial` are two
(`PushVserial`, `NotifyOne`). The `Notify` is modelled from its contract: one
permit, a FIFO queue of waiters, `notify_one()` wakes the first waiter or
stores the permit. The outbound task of a client goes through
`drain -> write -> drain -> wait -> parked` (`DrainVserial`, `WriteAll`,
`WaitVserialInbox`). `SummaryLock`/`SummaryUnlock` is STATUS, which holds the
inbox mutex while it waits for the outbox mutex. When `select!` in
`handle_attach` returns it changes nothing: dropping a `JoinHandle` detaches
the task, so `Returned` is a state predicate.

A byte is its number in its channel and the operation that queued it. No
guard looks at either.

### Outbox (with MCOutbox, OutboxProofs)

Host-to-guest bytes. `holder` is the session that keeps the outbox mutex
across its `write_all`, as `handle_serread` does and `handle_serreadm` does
not. The guest is the loop of `examples/echo-guest.rs`: poll with SERREAD,
decode the two bytes, follow a count with SERREADM. (Echoing back belongs to
the composition of both queues.) Reply codes are the real numbers, because
the encoding of the channel is what one of the runs is about. Guests come and
go at any moment; `lost` records what a dead link took. The socket of a client
is abstracted: a read of the inbound task returns some new bytes
(`ReadChunk`) or the end (`InboundEof`), and `MaxTyped` bounds what all
clients type together, and with it the length of a chunk.

### Session (with MCSession, SessionProofs)

Where commands begin and end. Both directions are sequences of bytes; a byte
from the guest has its value, which is all the session sees, and a tag saying
which command it belongs to, which only the properties see. `ReadOpcode` is
the dispatch of `run`, `ReadPayload` one byte of a `read_exact`, and each
handler the step after its read is complete. Handlers with a second read
(READEX's checksum, SERWRITEM's body, SS.ComSt's block) go through `ReadMore`.
Handlers that answer nothing share one action: in this module they differ only
in the length of their payload. The number of a command is kept modulo 3,
which tells apart all commands that can be in flight. The contents of sectors
and queues do not appear, since no length depends on them: both outcomes of a
checksum, and a read that fails, are answered by as many bytes.

The guest is external (a DriveWire driver): it sends the payload the protocol
prescribes, may send commands without a reply ahead, waits for a reply before
the next command, gives up after a loss, and loses reply bytes it does not
wait for. `Drop` is the line losing a byte, or a `drain_serial` that has thrown
away the beginning of a packet. WireBug is not used by any driver and is not implemented by the
server, so the guest does not send it.

### Disk (with MCDisk, DiskProofs) and DiskService

`DiskService` is what the disk commands promise: a slot names an image; a
command is looked up, takes effect on one sector of the image it was looked up
to be about at one moment, and its answer says what happened; a write that
fails may damage its own sector and is reported, a read that fails gives
zeros, and both only where the host's disk can fail. It has no open files,
offsets, mutexes, checksums or lines.

`Disk` is how the server does it. `MountOpen` and `Mount` are the two halves of
`mount_dsk`, so that commands and other mounts fall between them; an open file
is an object of its own (`Disks`) that stays usable for a session that cloned
it, mounted or not, and one file may be open twice. A session looks up and
checks the range (`FindDisk`), waits for the file's mutex (`LockFile`), seeks
and transfers, each a step, because each is an await. `HandleWriteCrc` is the
early return of a WRITE, `HandleReadExSum` the second half of a READEX. A
failing seek is not told apart from a failing transfer, since the next user
seeks again. `Crosses` damages at most one byte of a sector each time it
crosses the line, which a sum of bytes always detects; slot, sector number and
the checksum itself arrive as sent (a damaged checksum only causes one more
retry; slot and sector number are covered by no checksum, see the hazards).
The guest is external: it compares checksums and repeats the command until
they match.

The refinement mapping (`ServedTable`, `ServedPhase`, `ServedWant`,
`ServedTarget`, `ServedResult`) gives a slot the file of its disk, forgets the
wire and the file's offset and mutex, and calls a command looked up while it is between
`FindDisk` and its transfer; repeated attempts of a guest are repeated
commands. `LsnValue` is written apart from the server's `FromBe3`. Two open
files on one image read and write the same contents: a transfer of 256 bytes
by the host's kernel is taken to be atomic.

### Terminal (with TerminalProofs)

The two pumps of `dw attach`, with the filters folded over chunks of any
length. `Meant` and `Lines` define what the escape and the line endings mean
on the whole stream (by runs of Ctrl-A; by looking ahead for the LF), without
the flag the code carries along. Bytes are the few the filters tell apart; `Q`
behaves as `q`.

### Serial (with SerialProofs) and ByteStream

`ByteStream` is what the server may expect of a port: the guest's bytes in
order, each once, the end of the stream only behind the last of them; what is
written goes out in order, and a failed write costs the end of what one
`write_all` wrote, never a byte in its middle. That is a promise about a
`write_all`, not about an answer: OP_READ answers with two of them, the sector
and its checksum (lib.rs 228, 250), and can lose the end of the sector and still
send the checksum.

`Serial` is the port and the program that uses it. `ReaderLoop`,
`WriterRecv`/`WriterWrite` are the iterations of the two threads (a read or
write may be of any length), `PollRead` and `PollWrite` the async side with
`leftover`; `ReaderFails` and `WriterFails` are the error branches, the second
of which drops the rest of a chunk and goes on. `mode` is what the program does
with the port: dw serve drains and then runs a session, dw probe drains, waits
for a first byte (with a timeout), for a second one (without), answers and
stops. When the program is done the port is dropped, which the threads notice
at their next operation, and the process may exit under them. What the session
reads and answers is Session's; here it reads into buffers of any of the sizes
`Rooms` and does any sequence of `write_all`s of the lengths `WriteLens`. Bytes
are numbered per direction.

The refinement mapping forgets threads and channels: received is what the
reader thread has passed on, broken is that it has ended.

### Control (with ControlProofs)

The control socket and the locks STATUS takes, beside the guests and attach
pumps that contend for them. The listener removes what is at its path, binds
or fails to, accepts, and ends with its first accept error; another daemon may
take its path (`OtherDaemon`), and the process may end. A session reads a
line, answers it, and ends on QUIT, on a line that is not UTF-8, or when its
client has gone; what a line says is chosen when it is read. STATUS is four
steps: `DriveSummary`, `SummaryOpens` (copies the flags), `SummaryInbox`
(takes the inbox mutex) and `SummaryOutbox` (waits for the outbox mutex with
the inbox locked). `HandleSerRead`/`SerReadDone` are the two ends of the write
during which a SERREAD keeps the outbox mutex. Queues are lengths. MOUNT,
UNMOUNT and unknown verbs are one action here (one answer, no lock of this
module); their effect is in Disk. `seen` is a history variable: what has been
true of the channels since the `Watched` connection's STATUS began.

The listener of attach clients has the same statements (lib.rs 543-552).

## Runs

| run | instance | shows |
|---|---|---|
| `inbox` | 2 sessions, 2 clients, 1 channel + 1 out of range, 3 bytes, bursts up to 2 | types, `NoLostWakeup`, `WaitersParked`, `ExactlyOnce`, `InOrder`, `OneBatchLost`, `PushesDrain` |
| `inbox_serwritem` | 1 session, 1 client, bursts only | violates `InboxDrains`: SERWRITEM wakes nobody |
| `inbox_zombie` | 1 session, 2 clients, 1 channel | violates `ReturnedTakesNothing`: the detached outbound task takes the next client's bytes |
| `outbox` | 2 guests, one client on channel 0, one on 14 or out of range, 3 bytes typed, counts capped at 2 | types, `ExactlyOnce`, `InOrder`, `NoPadding`, `PolledOut` |
| `outbox_ch15` | 1 guest, 1 client on channel 15 | violates `PolledOut`: 0x10 and 0x20 are not codes for channel 15 |
| `session_sync` | every opcode, sectors of 2 bytes, SS.ComSt of 3, counts 0 and 2, two commands in flight, reliable line | types, `InSync`, `RightReply`, `Completes` |
| `session_flush` | NOP and the 3 opcodes whose handlers read twice, payloads of 0x52, one byte lost anywhere or the beginning of a packet | `FlushResyncs` |
| `session_reset` | 5 opcodes, one such loss | violates `ResetResyncs`: a reset is payload to a session in mid-command |
| `disk` | 2 guests with one command each, 2 control connections, 1 slot, 2 files opened at most twice, sector numbers 0, 1, 2 and 65536 on disks of 2 sectors of 2 bytes, 1 damaged byte, 1 failing transfer | types, `SeekStands`, `MutexExact`, `WritesLand`, `Implements` |
| `serial` | 4 bytes in, 4 bytes out, reader buffer 2, drain buffer 3, polls of 1 or 3, writes of 1 or 2, failures anywhere | types, `Accounted`, `IsByteStream`, `GoesOut`, `DeadPortEnds`, `ReadOn`, `ProbeEnds` |
| `control` | 1 control connection with any number of commands, 2 guests, 1 channel, 1 byte per queue | types, `StatusRows`, `Answered`, `GuestServed` |
| `terminal` | 4 bytes each way, reads of up to 3 | `SentAsMeant`, `QuitAsMeant`, `LinesShown` |

Why the bounds are enough for the questions asked. Two clients on a channel is
what it takes to compete for a wakeup or a byte, and two sessions to have two
notifications outstanding; the theorems of InboxProofs are about any number of
channels. Three bytes reach the threshold at which SERREAD turns from inline
bytes to counts, and `MaxCount = 2` stands for 255 so that the cap is met.
The lengths that stand for 256 and 26 differ from the
lengths of the other payloads; in `session_sync` and `session_flush` payloads are
filled with 0x52 (READ), so that any misreading becomes a command, or a count of
82 bytes that a SERWRITEM then waits for. Four bytes cover every pair of adjacent state changes of a
filter with one flag, split at any point.

A sector of two bytes is the shortest that can be torn; two guests on one file
are what it takes to disturb a seek, two open files on one image to get past a
mutex, and two images to replace one under a command. The sector numbers are
both ends of the disk, the first one past it, and one that equals 0 in its low
bytes. With one slot a command cannot name the wrong one; the theorems of
DiskProofs are about any number of slots.

In Serial a chunk can be longer than a poll of the session, equal to it and
shorter; the drain's buffer is larger than the reader's, as in the code, so the
drain always takes whole chunks and may stop between any two; and four bytes out
hold two writes of two bytes with a failure in or between them. In Control two guests are what it takes for
one to wait for a STATUS that waits for the other. A queue is empty or not,
which is all that decides whether a row is printed. Connections are used again
after they end, so the number of commands and of clients is not bounded.

Symmetry is declared in `disk`, for interchangeable guests and control connections, and in no
run with a liveness property. Deadlock is checked wherever somebody can always
act; in Outbox, Terminal, Serial and Control all clients, guests or the program
itself may be gone for good, and in Disk guests may have no more commands, so
there it is not.

### Fairness

Weak fairness of a task's steps is the runtime polling a ready task. Strong
fairness is used for the steps that take a mutex: tokio's mutex queues its
waiters first come, first served. Clients are assumed to read their socket, a
connected guest in Outbox to keep polling, a guest in Session to read its
replies, to send the checksum of a sector it has received, to give up on a
reply after a loss and, once it sends only NOP, to go on doing so. In Control a guest
reads the answer to its SERREAD or its link breaks: without that one guest that
stays connected and stops reading keeps the outbox mutex, the next STATUS keeps
the inbox mutex behind it, and every guest that writes waits. In Serial the
threads run, the drain window closes, session and probe keep reading and a
program that is done exits. Nobody is obliged to connect, to write, to
disconnect, to issue a command, to fail or to time out.

## Disagreements between the code and its documentation

1. SERWRITEM does not notify (lib.rs:660-662), against the comment on
   `handle_attach` (lib.rs:566-569). A burst shows up only with the next
   single byte.
2. `handle_attach` detaches the task that has not ended (lib.rs:610). The
   outbound task of a departed client swallows one batch of bytes written
   for its successor, then ends.
3. Channel 15 is accepted everywhere but cannot be announced by SERREAD
   (lib.rs:634, 639), against the comment on `send_to_vserial`.
4. OP_RESET does not resynchronise (lib.rs:116-120), against the module
   comment (lib.rs:7-9). What does, eventually, is enough NOPs
   (`FlushResyncs`).
5. `drain_serial` stops at its deadline wherever the guest is in its packet
   (transport/src/lib.rs:61), against the repository's README (README.md:92-94:
   the drain runs "so a half-packet from a previous session can't desync the
   first opcode"). A packet that is still coming in when the window closes (a
   WRITE of 263 bytes at 9600 baud takes longer than the default 250 ms) is cut,
   and the session takes the rest of it for its first opcode. No run is spent on
   it: it is `LineDelivers`, `ReaderLoop`, `DrainSerial`, `DrainEnds`,
   `SessionReads` of Serial in a row. What the models do check is what comes
   after: the session gets every byte behind the cut (`IsByteStream`), and finds
   a boundary again if the guest sends enough NOPs (`FlushResyncs`, where `Drop`
   may take the beginning of a packet).

Three behaviours the models show that no document speaks about:
`control_request` takes end-of-file for the end of a reply, so `dw mount` exits
with success when the daemon dies before it answers (main.rs:622); the probe
reports a complete handshake when its answer is queued for the writer thread,
and the process may exit before it is written (main.rs:391); and only the
probe's first read has a timeout (main.rs:385).

## Proofs

Every theorem is about all values of the constants, from the named assumption
of the component's module. The bounds TLC needs (bytes written, typed or sent,
burst lengths) are naturals there, however large.

InboxProofs, for any sets of sessions, clients and channels, from
`InboxAssumption` (good and bad channels are disjoint and neither is
`NoChannel`, the bounds are naturals):

* `TypeCorrect`: `TypeOK`. It is inductive by itself.
* `WakeInvariant`, `WakeupNeverLost`, `NotifyQueueExact`. `NoLostWakeup` is not
  inductive: `NotifyOne` discharges the pending notification of a session by
  waking the head of the queue, and that is a drain of the right channel only
  if the queue holds tasks of that channel which really are parked
  (`WaitersParked`); a task that consumes the permit must be going to drain,
  and one that parks must have found no permit (`PermitOrWaiters`, a fact
  about tokio's `Notify` that the induction needs); and the
  channel of a client must not change under a running task (`AbsentIdle`).
  `WakeInv` is the conjunction; `WakeStep` has one step per action. The one
  step where the wakeup argument is delicate is a drain that finds the queue
  empty: the task gives up its own claim to drain, and nothing is owed.
* `DeliveryInOrder`: `InOrder`, by way of `OrderInv`, which says of received,
  in-flight and queued bytes separately that each is increasing, lies below
  the next and does not exceed the count written. `BufStage` is what makes a
  drain sound: a task drains only with an empty buffer.
* `WrittenExactlyOnce`: `ExactlyOnce`. It counts places, and the count alone
  does not survive a step. `OnceInv` speaks of the sets of numbers in each
  place: lost, queued and held by a client are pairwise apart
  (`PlacesApart`), and together everything written (`Covered`). What is
  queued or held lies apart because it is in order (`OrderInv`), and what is
  queued next is beyond all of it. `OneHolder` turns that into a count of one.
* `PipeLosesOneBatch`: `OneBatchLost`, by way of `BatchInv`. The inbox is
  always a run of consecutive bytes up to the last one written (`UpTo`), so
  what a task drains is one run (`Consecutive`), a failed write begins at most
  one new run of lost bytes (`RunBegins`), and it ends a task that had not
  ended before.

OutboxProofs, for any sets of guests and clients, any number of channels and any
cap on a count, from `OutboxAssumption`:

* `OutboxTypes`: `TypeOK`.
* `TypedInOrder`: `InOrder`, by way of `OrderInv`. A queue is looked at as the
  set of typed bytes in it (`Els`); everything that has left the outbox
  (`Left`) lies below what is queued, and that below what the inbound task
  still holds (`PlacesOrdered`). That a byte of a client is in the queue of
  the client's channel only (`Home`) is what keeps a SERREAD of one channel from
  overtaking, and `Exchange` that a session holds a reply only between its
  handler and the guest's read, so that a new reply never overwrites one.
* `NoPaddingAlone`: `NoPadding`. `handle_serreadm` releases the queue and pads
  what it does not find, so the invariant has to follow the count: announced
  by SERREAD, read by the guest, asked for with SERREADM, it never exceeds
  what is queued as long as nobody else drains (`CountKept`).
* `TypedExactlyOnce`: `ExactlyOnce`, under the hypothesis `Announced`: clients
  that attach to a channel that exists attach to 0 to 14. Channel 15 is
  excluded because the statement is false there in the code (the disagreement
  on channel 15 above; run `outbox_ch15`): the guest discards its bytes, because
  0x10 and 0x20 are no data codes. `PlaceInv` says that no byte is in two places (`Apart`),
  on a channel other than its client's (`RightChannel`), or nowhere
  (`NoneMissing`).

SerialProofs, for any buffer sizes, sizes of reads and lengths of writes, from
`SerialAssumption`:

* `SerialInvariant`: `IInv`, which describes both directions as intervals.
  `Inbound`: what was delivered, the leftover of `poll_read` and the chunks in
  the channel follow each other without a gap up to the last byte the reader
  thread passed on. `Outbound`: the same for the writer thread, where every
  byte it is done with is on the line once or dropped. `WriteEnds`: chunks
  begin and end where `write_all`s do, so a failed write drops the end of what
  one `write_all` wrote and never a byte in its middle. `EofEnds`: a program that met the end
  of the stream does not read again.
* `SerialTypes`: `TypeOK`. `WritesAccounted`: `Accounted`, by counting the
  bytes on the line and the dropped ones against those intervals.
* `SerialIsByteStream`: `IsByteStream`, the refinement. Initial states map to
  initial states, and every step of `Next` maps to a step of ByteStream or to
  none, by one lemma per action that touches the streams.

ControlProofs, for any sets of control connections, guests and channels, from
`ControlAssumption`:

* `ControlTypes`: `TypeOK`, which says of both mutexes exactly who holds them,
  also when sessions are dropped in the middle of a STATUS or the process ends.
* `StatusNeverLies`: `StatusRows`, an action property. The rows of a STATUS are
  put together from three locks taken one after the other, so the invariant
  behind it (`Witnessed`) says that while a STATUS runs the history holds
  what is true of every channel now and, past the first lock, the flags as
  they were copied; the two counts are then true together because the inbox
  mutex is still held when the outbox is read.

SessionProofs, for any sector size and length of the SS.ComSt payload, any set of
opcodes the server knows, any payload filling and any number of commands under
way, from `SessionAssumption` and `GuestOpsAssumption`:

* `SessionTypes`: `TypeOK`, on any line. A handler looks at the second byte of
  its header, so the invariant (`TypeInv`) has to say that the read before it
  was of two bytes (`HeaderRead`).
* `OpcodesInSync` and `RepliesInSync`: `InSync` and `RightReply` as long as the
  line has lost nothing; `ReliableLine`: both for ever if it loses nothing
  (`MaxDrops = 0`, as in `session_sync`). The condition is no convenience: with a
  byte lost both are false, in the model as in the code, and what then holds is
  `FlushResyncs`. The invariant, `SyncInv`, describes the bytes under way
  (`InStep`): first the `Rest` that the handler at work still has to read, a number
  that may depend on a header byte it has not read yet, and then whole commands,
  each as long as its handler's reads (`Frame`). Of all these only the last command
  the guest has sent can have a reply, and its answer is owed in one place only: by
  the bytes on the line (`AskedLast`), by the handler (`ServedLast`), or it is on
  its way to the guest (`AnsweredLast`). READEX is the delicate handler: between
  its two reads it owes nothing until the guest sends the checksum
  (`SumAwaited`), and nothing else is under way then. `PayloadsFit` is where the
  driver's payloads meet the lengths the handlers read.

DiskProofs holds theorems about Disk for any sets of guests, control
connections, slots, files and disks, any sector size and count and any bounds,
from `DiskAssumption`.

* `DiskInvariant`: `DiskInv`, the conjunction of `TypeOK`, `Opened`, `Commands`,
  `MutexExact` and `SeekStands`. None of its parts is inductive alone: types
  need the range check to have been passed and the files to be open
  (`Commands`, `Opened`), a seek stands because nobody else holds the mutex of
  that disk, and the mutex is exact because a session keeps the disk it cloned.
  `Quiet` covers every step outside a transfer, `TransferredInv` the end of
  one; each action has its lemma.
* `DiskTypes`, `DiskMutex`, `SeekNeverMoves` are its parts.
* `WritesNeverStray`: `WritesLand`, an action property, from `DiskInv` and
  `LsnAgrees` (`from_be3` computes the number the bytes stand for).
* `DiskIsDiskService`: `Implements`, the refinement, with nothing assumed about
  the line beyond what `Crosses` does to it. The invariant is `RefInv`: `DiskInv`
  and `Arrived`, which follows a sector along the line. A sector that crossed
  differs from what was sent in one byte at most (`OneOff`), and once a checksum
  was compared and found equal it does not differ at all; a guest has a sector
  or a status only at the stages where an answer may stand. Every action has a
  lemma that maps it to one step of DiskService or to none (`MountOpenServes`
  to `TakeServes`): a lookup is `Look`, the transfer `Serve`, an early return
  `Refuse`, a guest that accepts or asks again `Take`; receiving, waiting for the
  mutex, seeking and the second half of a READEX are hidden (`HiddenServes`).
  The step where a checksum decides rests on `ChecksumDetects`: two sectors of
  any size that differ in one byte have different sums modulo 65536. The sum is
  a fold over the positions in an order nobody fixes, so this is an induction
  over sets of positions: over a set that has the damaged position the two
  partial sums differ by the damage, over any other set they are equal.

TerminalProofs is about the two filters of `dw attach`, for texts and reads of
any length, from `TerminalAssumption`. The properties define what a whole text
means without the flag the code carries, so each proof has two halves: how the
meaning of a text changes when one byte is appended, and that the filter makes
the same change, for every byte of a chunk in turn.

* `LinesAlwaysShown`: `LinesShown`. `LinesAppend` says what a further byte
  shows: nothing when it is the LF of a CR before it, since the CR has its line
  ending already. `ShownInv` adds that `had_cr` says whether the text ends in a
  CR, and `KeepsUp` is the same of the filter within a chunk.
* `AlwaysSentAsMeant` and `QuitsOnlyAsMeant`: `SentAsMeant` and `QuitAsMeant`.
  `Meant` goes by runs of Ctrl-A, so the first step is that a run is well
  defined and that its parity turns with each Ctrl-A (`RunUnique`, `RunFound`,
  `OddStep`); then that what is typed later changes neither an earlier exit nor
  an earlier piece (`ExitAppend`, `UntilAppend`, `MeantAppend`). `SentInv` adds
  that while the pump runs `escape_armed` is that parity, there was no exit and
  everything meant is sent; a socket that is closed makes it fall behind only in
  the round that ends it.

Recursion has the inductions behind both. The library's induction theorems
take the induction hypothesis as an operator, which the provers cannot
instantiate; `SetInduction` and `SubsetInduction` take it as a set, the set of
the numbers or of the subsets of `1..N` it holds of, and come from the
well-foundedness of `<` (`WFMin`). `FoldExists` and `RunExists` say that the
recursions by which the folds of the community modules are defined have
solutions, without which nothing could be said of `FoldLeft`, `FoldFunction` or
`FlattenSeq`.

Every invariant, every action property and both refinements that the runs check
are thereby proved. Only model-checked: the liveness properties (`PushesDrain`,
`PolledOut`, `Completes`, `FlushResyncs`, `GoesOut`,
`DeadPortEnds`, `ReadOn`, `ProbeEnds`, `Answered`, `GuestServed`), because the
prover has no rules for fairness.

## Not modelled, and the plan

To model: the echo guest closing the loop between outbox and inbox (round trip
of a typed byte), and polling without a bound on what clients type, where the
scan from channel 0 starves higher channels.

Left out for good: termios, baud rates and modem lines (system configuration),
logging, the text of messages, argument parsing, raw mode of the terminal, the
contents of the printer buffer, which only the log shows, and the time of day
that OP_TIME reports.
