------------------------------- MODULE Serial -------------------------------
(***************************************************************************)
(* The serial transport: BlockingSerial, its two threads around blocking   *)
(* read and write, the channels between them and the async side, and the   *)
(* two programs that use a port: dw serve (drain, then a Server::run       *)
(* session that reads commands and writes answers) and dw probe.           *)
(*                                                                         *)
(* The bytes of each direction are numbered from 1 in the order they enter *)
(* it. A chunk is a run of consecutive ones: what one read() returned, or  *)
(* the buffer of one write_all. The history variables (got, line, ends,    *)
(* dropped) can record any order, gap or repetition.                       *)
(***************************************************************************)
EXTENDS Naturals, Sequences, FiniteSets

CONSTANTS
  ReadBuf,    \* size of reader_loop's buffer (256)
  DrainBuf,   \* size of drain_serial's buffer (1024)
  Rooms,      \* sizes of the buffers the session polls with
  WriteLens,  \* lengths of the buffers the session hands to write_all
  MaxIn,      \* bound: bytes the guest sends
  MaxOut      \* bound: bytes the session writes

ASSUME SerialAssumption ==
  /\ ReadBuf \in Nat \ {0}
  /\ DrainBuf \in Nat \ {0}
  /\ Rooms \subseteq Nat \ {0}
  /\ WriteLens \subseteq Nat \ {0}
  /\ MaxIn \in Nat
  /\ MaxOut \in Nat

VARIABLES
  arrived,   \* bytes from the guest the kernel has received
  taken,     \* bytes of them that reader_loop has passed on
  reader,    \* "running", or "done" (the sender of rx is dropped)
  rx,        \* chunks between reader_loop and poll_read
  leftover,  \* the rest of the chunk poll_read took last
  got,       \* bytes poll_read has delivered, in order
  skipped,   \* how many of them drain_serial threw away
  tx,        \* chunks between poll_write and writer_loop
  remaining, \* what writer_loop still has to write of its chunk
  writer,    \* "running" or "done"
  accepted,  \* bytes poll_write has accepted
  ends,      \* the last byte of each write_all
  line,      \* bytes written to the port, in order
  dropped,   \* bytes writer_loop has dropped
  mode,      \* what the program does with the port
  verdict,   \* what made it stop, or "none"
  alive      \* the process runs

inVars   == <<arrived, taken, reader, rx, leftover, got, skipped>>
outVars  == <<tx, remaining, writer, accepted, ends, line, dropped>>
userVars == <<mode, verdict, alive>>
vars     == <<inVars, outVars, userVars>>

----------------------------------------------------------------------------
Chunk   == [lo : Nat \ {0}, hi : Nat]
Nothing == [lo |-> 1, hi |-> 0]

Size(c)     == (c.hi + 1) - c.lo
Front(c, k) == [lo |-> c.lo, hi |-> c.lo + k - 1]
Rest(c, k)  == IF k = Size(c) THEN Nothing ELSE [lo |-> c.lo + k, hi |-> c.hi]
Bytes(c)    == [i \in 1..Size(c) |-> c.lo + i - 1]

\* The port exists until the program that opened it is done with it. Dropping
\* it drops the receiver of rx and the sender of tx.
PortOpen == mode # "ended"

\* blocking_serial::open has succeeded: both threads run, nothing is queued.
\* If it fails the program ends without a transport.
Init ==
  /\ arrived   = 0
  /\ taken     = 0
  /\ reader    = "running"
  /\ rx        = <<>>
  /\ leftover  = Nothing
  /\ got       = <<>>
  /\ skipped   = 0
  /\ tx        = <<>>
  /\ remaining = Nothing
  /\ writer    = "running"
  /\ accepted  = 0
  /\ ends      = {}
  /\ line      = <<>>
  /\ dropped   = {}
  /\ mode      \in {"drain", "probe drain"}
  /\ verdict   = "none"
  /\ alive     = TRUE

----------------------------------------------------------------------------
(* The threads *)

\* A byte comes in from the guest.
LineDelivers ==
  /\ arrived < MaxIn
  /\ arrived' = arrived + 1
  /\ UNCHANGED <<taken, reader, rx, leftover, got, skipped, outVars, userVars>>

\* Faulty variants of ReaderLoop: passes on the whole buffer, whatever read()
\* returned; and waits for a full buffer (VMIN).
ReaderWholeBuffer ==
  /\ alive /\ reader = "running" /\ PortOpen
  /\ taken < arrived
  /\ rx' = Append(rx, [lo |-> taken + 1, hi |-> taken + ReadBuf])
  /\ taken' = taken + ReadBuf
  /\ UNCHANGED <<arrived, reader, leftover, got, skipped, outVars, userVars>>

ReaderWaitsFull ==
  /\ alive /\ reader = "running" /\ PortOpen
  /\ taken + ReadBuf <= arrived
  /\ rx' = Append(rx, [lo |-> taken + 1, hi |-> taken + ReadBuf])
  /\ taken' = taken + ReadBuf
  /\ UNCHANGED <<arrived, reader, leftover, got, skipped, outVars, userVars>>

\* reader_loop: read() returns up to a buffer of what has arrived, which goes
\* to rx. With the receiver gone the send fails and the thread ends.
ReaderLoop ==
  /\ alive /\ reader = "running"
  /\ \E n \in 1..ReadBuf :
       /\ taken + n <= arrived
       /\ \/ /\ PortOpen
             /\ rx' = Append(rx, [lo |-> taken + 1, hi |-> taken + n])
             /\ taken' = taken + n
             /\ UNCHANGED reader
          \/ /\ ~PortOpen
             /\ reader' = "done"
             /\ UNCHANGED <<rx, taken>>
  /\ UNCHANGED <<arrived, leftover, got, skipped, outVars, userVars>>

\* read() reports an error or the end of the device: the thread ends.
ReaderFails ==
  /\ alive /\ reader = "running"
  /\ reader' = "done"
  /\ UNCHANGED <<arrived, taken, rx, leftover, got, skipped, outVars, userVars>>

\* writer_loop: the next chunk. With the sender gone and nothing queued the
\* thread ends.
WriterRecv ==
  /\ alive /\ writer = "running"
  /\ Size(remaining) = 0
  /\ \/ /\ tx # <<>>
        /\ remaining' = Head(tx)
        /\ tx' = Tail(tx)
        /\ UNCHANGED writer
     \/ /\ tx = <<>> /\ ~PortOpen
        /\ writer' = "done"
        /\ UNCHANGED <<remaining, tx>>
  /\ UNCHANGED <<inVars, accepted, ends, line, dropped, userVars>>

\* writer_loop: write() takes a part of the chunk, at least a byte.
WriterWrite ==
  /\ alive
  /\ \E n \in 1..Size(remaining) :
       /\ line' = line \o Bytes(Front(remaining, n))
       /\ remaining' = Rest(remaining, n)
  /\ UNCHANGED <<inVars, tx, writer, accepted, ends, dropped, userVars>>

\* Faulty variants of WriterFails: tries the dropped bytes again; and ends the
\* thread.
WriterRetries ==
  /\ alive
  /\ Size(remaining) > 0
  /\ dropped' = dropped \cup remaining.lo..remaining.hi
  /\ UNCHANGED <<inVars, tx, remaining, writer, accepted, ends, line, userVars>>

WriterGivesUp ==
  /\ alive
  /\ Size(remaining) > 0
  /\ dropped' = dropped \cup remaining.lo..remaining.hi
  /\ remaining' = Nothing
  /\ writer' = "done"
  /\ UNCHANGED <<inVars, tx, accepted, ends, line, userVars>>

\* writer_loop: write() fails, the rest of the chunk is dropped, and the
\* thread goes on with the next one.
WriterFails ==
  /\ alive
  /\ Size(remaining) > 0
  /\ dropped' = dropped \cup remaining.lo..remaining.hi
  /\ remaining' = Nothing
  /\ UNCHANGED <<inVars, tx, writer, accepted, ends, line, userVars>>

----------------------------------------------------------------------------
(* BlockingSerial *)

\* Faulty variant of PollRead: takes a new chunk before the leftover.
PollReadFresh(room) ==
  LET c == IF rx # <<>> THEN Head(rx) ELSE leftover
      n == IF Size(c) < room THEN Size(c) ELSE room
  IN
  /\ Size(c) > 0
  /\ got' = got \o Bytes(Front(c, n))
  /\ leftover' = Rest(c, n)
  /\ rx' = IF rx # <<>> THEN Tail(rx) ELSE rx

\* poll_read into a buffer with room for that many bytes: the leftover, else
\* the next chunk, of which the part that has no room becomes the leftover.
PollRead(room) ==
  LET c == IF Size(leftover) > 0 THEN leftover ELSE Head(rx)
      n == IF Size(c) < room THEN Size(c) ELSE room
  IN
  /\ Size(leftover) > 0 \/ rx # <<>>
  /\ got' = got \o Bytes(Front(c, n))
  /\ leftover' = Rest(c, n)
  /\ rx' = IF Size(leftover) > 0 THEN rx ELSE Tail(rx)

\* poll_read returns UnexpectedEof: the reader thread is gone and nothing it
\* sent is left.
AtEof == Size(leftover) = 0 /\ rx = <<>> /\ reader = "done"

\* poll_write: the whole buffer becomes a chunk. It cannot fail: writer_loop
\* ends only once the port is dropped. Flushing does nothing.
PollWrite(k) ==
  /\ accepted + k <= MaxOut
  /\ tx' = Append(tx, [lo |-> accepted + 1, hi |-> accepted + k])
  /\ accepted' = accepted + k
  /\ ends' = ends \cup {accepted + k}
  /\ UNCHANGED <<remaining, writer, line, dropped>>

----------------------------------------------------------------------------
(* dw serve and dw probe *)

\* drain_serial: read and throw away.
DrainSerial ==
  /\ mode \in {"drain", "probe drain"}
  /\ PollRead(DrainBuf)
  /\ skipped' = Len(got')
  /\ UNCHANGED <<arrived, taken, reader, outVars, userVars>>

\* The window closes (or the port has failed): Server::run starts, or the
\* probe waits for its first byte.
DrainEnds ==
  /\ \/ mode = "drain" /\ mode' = "session"
     \/ mode = "probe drain" /\ mode' = "first"
  /\ UNCHANGED <<inVars, outVars, verdict, alive>>

\* The session reads some bytes of a command.
SessionReads ==
  /\ mode = "session"
  /\ \E room \in Rooms : PollRead(room)
  /\ UNCHANGED <<arrived, taken, reader, skipped, outVars, userVars>>

\* One write_all of the session. An answer is one of them or several: OP_READ
\* writes the sector and then its checksum.
SessionWrites ==
  /\ mode = "session"
  /\ \E k \in WriteLens : PollWrite(k)
  /\ UNCHANGED <<inVars, userVars>>

\* run or probe returns, which drops the port.
Stop(v) == mode' = "ended" /\ verdict' = v /\ UNCHANGED alive

\* Faulty variant of UserEof: the session skips the error like an unknown
\* opcode.
ProbeEof ==
  /\ mode \in {"first", "driver"}
  /\ AtEof
  /\ Stop("eof")
  /\ UNCHANGED <<inVars, outVars>>

\* A read of the session or the probe meets the end of the stream.
UserEof ==
  /\ mode \in {"session", "first", "driver"}
  /\ AtEof
  /\ Stop("eof")
  /\ UNCHANGED <<inVars, outVars>>

\* Faulty variant of ProbeFirst: reads a buffer and looks at its first byte.
ProbeFirstBuffered ==
  /\ mode = "first"
  /\ PollRead(DrainBuf)
  /\ mode' = "driver"
  /\ UNCHANGED <<arrived, taken, reader, skipped, outVars, verdict, alive>>

\* probe's first byte: DWINIT's opcode, another opcode, or noise.
ProbeFirst ==
  /\ mode = "first"
  /\ PollRead(1)
  /\ \/ mode' = "driver" /\ UNCHANGED <<verdict, alive>>
     \/ \E v \in {"opcode", "noise"} : Stop(v)
  /\ UNCHANGED <<arrived, taken, reader, skipped, outVars>>

\* No byte within the probe's timeout. (Only the first read has one.)
ProbeTimeout ==
  /\ mode = "first"
  /\ Stop("silent")
  /\ UNCHANGED <<inVars, outVars>>

\* probe reads DWINIT's second byte.
ProbeDriver ==
  /\ mode = "driver"
  /\ PollRead(1)
  /\ mode' = "answer"
  /\ UNCHANGED <<arrived, taken, reader, skipped, outVars, verdict, alive>>

\* probe writes the answer and reports the handshake.
ProbeAnswers ==
  /\ mode = "answer"
  /\ PollWrite(1)
  /\ Stop("complete")
  /\ UNCHANGED inVars

\* main returns and the process exits, whatever the threads are doing.
ProcessExits ==
  /\ ~PortOpen /\ alive
  /\ alive' = FALSE
  /\ UNCHANGED <<inVars, outVars, mode, verdict>>

----------------------------------------------------------------------------
Thread == ReaderLoop \/ ReaderFails \/ WriterRecv \/ WriterWrite \/ WriterFails

User ==
  \/ DrainSerial
  \/ DrainEnds
  \/ SessionReads
  \/ SessionWrites
  \/ UserEof
  \/ ProbeFirst
  \/ ProbeTimeout
  \/ ProbeDriver
  \/ ProbeAnswers
  \/ ProcessExits

Next == LineDelivers \/ Thread \/ User

Spec == Init /\ [][Next]_vars

\* The threads run, the drain window closes, a session and a probe keep
\* reading, a program that is done exits. Nothing obliges the guest to send,
\* the session to write, the line to fail, or a timeout to win.
Fairness ==
  /\ WF_vars(ReaderLoop)
  /\ WF_vars(WriterRecv)
  /\ WF_vars(WriterWrite)
  /\ WF_vars(DrainEnds)
  /\ WF_vars(SessionReads)
  /\ WF_vars(UserEof)
  /\ WF_vars(ProbeFirst \/ ProbeDriver \/ ProbeAnswers)
  /\ WF_vars(ProcessExits)

FairSpec == Spec /\ Fairness

----------------------------------------------------------------------------
(* Properties *)

\* Chunks, counters and modes are well formed.
TypeOK ==
  /\ arrived   \in 0..MaxIn
  /\ taken     \in 0..arrived
  /\ reader    \in {"running", "done"}
  /\ rx        \in Seq(Chunk)
  /\ leftover  \in Chunk
  /\ got       \in Seq(Nat)
  /\ skipped   \in Nat
  /\ tx        \in Seq(Chunk)
  /\ remaining \in Chunk
  /\ writer    \in {"running", "done"}
  /\ accepted  \in 0..MaxOut
  /\ ends      \subseteq 1..MaxOut
  /\ line      \in Seq(Nat)
  /\ dropped   \subseteq 1..MaxOut
  /\ mode      \in {"drain", "session", "probe drain", "first", "driver", "answer", "ended"}
  /\ verdict   \in {"none", "eof", "opcode", "noise", "silent", "complete"}
  /\ alive     \in BOOLEAN

Stream == INSTANCE ByteStream WITH
  received <- taken,
  broken   <- reader = "done",
  eof      <- verdict = "eof"

\* The port is a byte stream: poll_read delivers the guest's bytes in order,
\* each once, however they were chunked by the reader thread, split by small
\* buffers, or read by a drain cut short by its deadline; the end of the
\* stream is seen only behind the last byte; what goes out is in order and a
\* failed write costs the end of what one write_all wrote, never a byte in its
\* middle. (An answer of two write_alls can lose the end of the first.)
IsByteStream == Stream!Spec

\* How often byte n has been, or is still to be, written or dropped.
Places(n) ==
    Cardinality({i \in DOMAIN line : line[i] = n})
  + (IF n \in dropped THEN 1 ELSE 0)
  + (IF n \in remaining.lo..remaining.hi THEN 1 ELSE 0)
  + Cardinality({i \in DOMAIN tx : n \in tx[i].lo..tx[i].hi})

\* Every byte that poll_write has accepted is in exactly one place:
\* queued, being written, on the line, or dropped by one failed write.
Accounted == \A n \in 1..accepted : Places(n) = 1

\* The session is not told of failed writes, so this is all it has: what it
\* has written leaves the process, or is dropped by a failing line, unless
\* the process exits first.
GoesOut == (tx # <<>> \/ Size(remaining) > 0) ~> ((tx = <<>> /\ Size(remaining) = 0) \/ ~alive)

\* A dead port ends the program: when the reader thread has given up, dw serve
\* and dw probe read what it had passed on and exit, also from the drain.
DeadPortEnds == (reader = "done") ~> ~alive

\* What arrives is read by the program as long as port and program live.
ReadOn ==
  (Len(got) < arrived) ~> (Len(got) = arrived \/ reader = "done" \/ ~PortOpen)

\* A probe comes to a verdict once the guest has sent it two bytes. (It waits
\* without limit for the second byte of a DWINIT.)
ProbeEnds ==
  (mode \in {"first", "driver", "answer"} /\ arrived >= skipped + 2) ~> ~alive
=============================================================================
