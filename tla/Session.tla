------------------------------ MODULE Session ------------------------------
(***************************************************************************)
(* The wire protocol of Server::run: a guest and one session exchange      *)
(* unframed bytes, so both must agree, byte for byte, on where a command   *)
(* ends and how long its reply is. The session reads an opcode byte,       *)
(* decodes it, reads that opcode's payload and writes its reply.           *)
(*                                                                         *)
(* What the handlers do to the drives, the printer buffer and the virtual  *)
(* serial queues is not part of this module; a reply is the bytes the      *)
(* guest has to read. A byte carries its value, the command it was sent    *)
(* for and whether it is that command's first byte; the session looks only *)
(* at the value. The guest is a DriveWire driver.                          *)
(***************************************************************************)
EXTENDS Naturals, Sequences, FiniteSets

CONSTANTS
  SectorSize,    \* SECTOR_SIZE (256)
  ComStLen,      \* ss::COMST_PAYLOAD_LEN (26)
  GuestOps,      \* opcodes the guest's driver uses
  PayloadBytes,  \* byte values the guest fills payloads with
  Counts,        \* counts it uses in SERREADM and SERWRITEM
  MaxPipeline,   \* bound: commands on their way to the server
  MaxDrops       \* how often bytes are lost (0: a reliable line)

ASSUME SessionAssumption ==
  /\ SectorSize \in Nat \ {0}
  /\ ComStLen \in Nat
  /\ PayloadBytes \subseteq 0..255
  /\ Counts \subseteq 0..255
  /\ MaxPipeline \in Nat \ {0}
  /\ MaxDrops \in Nat

VARIABLES
  up,       \* bytes from the guest the session has not read yet
  down,     \* reply bytes the guest has not read yet: the command answered
  link,     \* the transport: "up", "closing" (guest gone) or "down"
  op,       \* what the session is reading the payload of, or "none"
  cmd,      \* history: the command the session is serving, NotACommand if
            \* it took some other byte for an opcode
  need,     \* payload bytes its current read still waits for
  pay,      \* the first two payload bytes it has read: all that the course
            \* of a handler depends on
  sent,     \* number (modulo 3) of the guest's latest command
  reset,    \* that command is a RESET
  waiting,  \* reply bytes the guest still waits for
  sumDue,   \* the guest answers the sector it is waiting for (READEX)
  flushing, \* the guest sends nothing but NOP any more
  drops     \* how often bytes were lost

serverVars == <<op, cmd, need, pay>>
guestVars  == <<sent, reset, waiting, sumDue, flushing>>
vars       == <<up, down, link, serverVars, guestVars, drops>>

----------------------------------------------------------------------------
(* Opcodes *)

\* The values of enum Opcode (OpPrint is Opcode::Print).
OpByte ==
  [Nop |-> 0, Time |-> 35, WirebugMode |-> 66, SerRead |-> 67,
   SerGetStat |-> 68, SerInit |-> 69, PrintFlush |-> 70, GetStat |-> 71,
   Init |-> 73, OpPrint |-> 80, Read |-> 82, SetStat |-> 83, Term |-> 84,
   Write |-> 87, DwInit |-> 90, SerReadM |-> 99, SerWriteM |-> 100,
   Reread |-> 114, Rewrite |-> 119, SerWrite |-> 195, SerSetStat |-> 196,
   SerTerm |-> 197, ReadEx |-> 210, RereadEx |-> 242, Reset3 |-> 248,
   Reset2 |-> 254, Reset1 |-> 255]

FastWriteBase == 128

\* A driver uses opcodes that the server knows.
ASSUME GuestOpsAssumption == GuestOps \subseteq DOMAIN OpByte \cup {"FastWrite"}

\* Decoded::from_byte (the channel of a FASTWRITE, b - 0x80, is not needed
\* here).
FromByte(b) ==
  IF b \in FastWriteBase..(FastWriteBase + 15)
    THEN "FastWrite"
    ELSE IF \E o \in DOMAIN OpByte : OpByte[o] = b
           THEN CHOOSE o \in DOMAIN OpByte : OpByte[o] = b
           ELSE "Unknown"

Resets == {"Reset1", "Reset2", "Reset3"}

\* The OS-9 SetStat code with a payload of its own.
ComSt == 40

\* Bytes the handler of o reads first; none for the opcodes that have no
\* payload, are unknown or are not implemented.
PayloadLen(o) ==
  CASE o \in {"Read", "Reread", "ReadEx", "RereadEx"} -> 4
    [] o \in {"Write", "Rewrite"} -> 4 + SectorSize + 2
    [] o \in {"GetStat", "SetStat", "SerGetStat", "SerSetStat",
              "SerWrite", "SerReadM", "SerWriteM"} -> 2
    [] o \in {"DwInit", "OpPrint", "SerInit", "SerTerm", "FastWrite"} -> 1
    [] OTHER -> 0

\* handle_time's answer: year, month, day, hour, minute and second.
TimeLen == 6

\* What a session can be reading the payload of: an opcode's first read, or
\* a later one of READEX, SERWRITEM and SERSETSTAT.
Reading == {o \in DOMAIN OpByte \cup {"FastWrite"} : PayloadLen(o) > 0}
             \cup {"ReadExSum", "SerWriteMBody", "ComStBody"}

NotACommand == 3

Repeat(k, v) == [i \in 1..k |-> v]

Init ==
  /\ up       = <<>>
  /\ down     = <<>>
  /\ link     = "up"
  /\ op       = "none"
  /\ cmd      = 0
  /\ need     = 0
  /\ pay      = <<>>
  /\ sent     = 0
  /\ reset    = FALSE
  /\ waiting  = 0
  /\ sumDue   = FALSE
  /\ flushing = FALSE
  /\ drops    = 0

----------------------------------------------------------------------------
(* The session *)

\* write_all of k bytes in answer to the command being served.
WriteAll(k) == down' = down \o Repeat(k, cmd)

\* The handler returns to run's loop.
Done == op' = "none" /\ need' = 0 /\ pay' = <<>> /\ UNCHANGED cmd

\* The handler goes on to read k more bytes.
ReadMore(o, k) == op' = o /\ need' = k /\ pay' = <<>> /\ UNCHANGED cmd

\* run's loop: read one opcode byte and dispatch on it. TIME and SERREAD
\* answer at once; the opcodes without payload (NOP, the resets, INIT, TERM,
\* PRINTFLUSH), the unknown and the unimplemented ones are done.
ReadOpcode ==
  LET b == Head(up)
      o == FromByte(b.val)
      k == CASE o = "Time" -> TimeLen [] o = "SerRead" -> 2 [] OTHER -> 0
  IN
  /\ link # "down"
  /\ op = "none"
  /\ up # <<>>
  /\ up' = Tail(up)
  /\ op' = IF PayloadLen(o) = 0 THEN "none" ELSE o
  /\ cmd' = IF b.start THEN b.cmd ELSE NotACommand
  /\ need' = PayloadLen(o)
  /\ pay' = <<>>
  /\ down' = down \o Repeat(k, cmd')
  /\ UNCHANGED <<link, guestVars, drops>>

\* Faulty variant of ReadPayload: reads one byte too many.
ReadPayloadLong ==
  /\ link # "down"
  /\ op # "none"
  /\ up # <<>>
  /\ up' = Tail(up)
  /\ pay' = IF Len(pay) < 2 THEN Append(pay, Head(up).val) ELSE pay
  /\ need' = need - 1
  /\ UNCHANGED <<down, link, op, cmd, guestVars, drops>>

\* read_exact takes the next payload byte.
ReadPayload ==
  /\ link # "down"
  /\ op # "none"
  /\ need > 0
  /\ up # <<>>
  /\ up' = Tail(up)
  /\ pay' = IF Len(pay) < 2 THEN Append(pay, Head(up).val) ELSE pay
  /\ need' = need - 1
  /\ UNCHANGED <<down, link, op, cmd, guestVars, drops>>

\* The read_exact of a handler in ops has returned.
PayloadRead(ops) ==
  /\ link # "down"
  /\ op \in ops
  /\ need = 0
  /\ UNCHANGED <<up, link, guestVars, drops>>

\* READ, REREAD: the sector and the server's checksum.
HandleRead ==
  /\ PayloadRead({"Read", "Reread"})
  /\ WriteAll(SectorSize + 2)
  /\ Done

\* Faulty variants of HandleReadEx: appends the server's checksum as for
\* READ; forgets the status of a matching checksum; and reads another
\* checksum after a mismatch.
HandleReadExSum ==
  \/ /\ PayloadRead({"ReadEx", "RereadEx"})
     /\ WriteAll(SectorSize + 2)
     /\ ReadMore("ReadExSum", 2)
  \/ /\ PayloadRead({"ReadExSum"})
     /\ WriteAll(1)
     /\ Done

HandleReadExMute ==
  \/ /\ PayloadRead({"ReadEx", "RereadEx"})
     /\ WriteAll(SectorSize)
     /\ ReadMore("ReadExSum", 2)
  \/ /\ PayloadRead({"ReadExSum"})
     /\ Done
     /\ UNCHANGED down

HandleReadExRetry ==
  \/ /\ PayloadRead({"ReadEx", "RereadEx"})
     /\ WriteAll(SectorSize)
     /\ ReadMore("ReadExSum", 2)
  \/ /\ PayloadRead({"ReadExSum"})
     /\ ReadMore("ReadExSum", 2)
     /\ UNCHANGED down

\* READEX, REREADEX: the sector alone, then the guest's two checksum bytes,
\* then the status, whether they match or not.
HandleReadEx ==
  \/ /\ PayloadRead({"ReadEx", "RereadEx"})
     /\ WriteAll(SectorSize)
     /\ ReadMore("ReadExSum", 2)
  \/ /\ PayloadRead({"ReadExSum"})
     /\ WriteAll(1)
     /\ Done

\* WRITE, REWRITE: one status byte, whether the checksum matches or not.
HandleWrite ==
  /\ PayloadRead({"Write", "Rewrite"})
  /\ WriteAll(1)
  /\ Done

HandleDwInit ==
  /\ PayloadRead({"DwInit"})
  /\ WriteAll(1)
  /\ Done

\* The handlers that answer nothing: GETSTAT, SETSTAT, PRINT, SERINIT,
\* SERTERM, SERWRITE, SERGETSTAT and FASTWRITE.
HandleSilent ==
  /\ PayloadRead({"GetStat", "SetStat", "OpPrint", "SerInit", "SerTerm",
                  "SerWrite", "SerGetStat", "FastWrite"})
  /\ Done
  /\ UNCHANGED down

\* SERREADM: as many bytes as the guest asked for, whatever is queued.
HandleSerReadM ==
  /\ PayloadRead({"SerReadM"})
  /\ WriteAll(pay[2])
  /\ Done

\* SERWRITEM: the header, then count bytes; no reply.
HandleSerWriteM ==
  \/ /\ PayloadRead({"SerWriteM"})
     /\ ReadMore("SerWriteMBody", pay[2])
     /\ UNCHANGED down
  \/ /\ PayloadRead({"SerWriteMBody"})
     /\ Done
     /\ UNCHANGED down

\* Faulty variant of HandleSerSetStat: leaves the SS.ComSt payload unread.
HandleSerSetStatShort ==
  \/ /\ PayloadRead({"SerSetStat"})
     /\ Done
     /\ UNCHANGED down
  \/ /\ PayloadRead({"ComStBody"})
     /\ Done
     /\ UNCHANGED down

\* SERSETSTAT: SS.ComSt has a payload to consume; no reply.
HandleSerSetStat ==
  \/ /\ PayloadRead({"SerSetStat"})
     /\ pay[2] = ComSt
     /\ ReadMore("ComStBody", ComStLen)
     /\ UNCHANGED down
  \/ /\ PayloadRead({"SerSetStat"})
     /\ pay[2] # ComSt
     /\ Done
     /\ UNCHANGED down
  \/ /\ PayloadRead({"ComStBody"})
     /\ Done
     /\ UNCHANGED down

\* The guest is gone: a read meets end-of-file or a write fails, and run
\* returns an error.
SessionEnds ==
  /\ link = "closing"
  /\ link' = "down"
  /\ UNCHANGED <<up, down, serverVars, guestVars, drops>>

Session ==
  \/ ReadOpcode
  \/ ReadPayload
  \/ HandleRead
  \/ HandleReadEx
  \/ HandleWrite
  \/ HandleDwInit
  \/ HandleSilent
  \/ HandleSerReadM
  \/ HandleSerWriteM
  \/ HandleSerSetStat
  \/ SessionEnds

----------------------------------------------------------------------------
(* The guest and the line *)

\* The payload a driver sends with opcode o; v fills it, k is a count.
Payloads(o, v, k) ==
  CASE o \in {"Read", "Reread", "ReadEx", "RereadEx"} -> {Repeat(4, v)}
    [] o \in {"Write", "Rewrite"} -> {Repeat(SectorSize + 6, v)}
    [] o \in {"GetStat", "SetStat", "SerGetStat", "SerWrite"} -> {<<v, v>>}
    [] o \in {"DwInit", "OpPrint", "SerInit", "SerTerm", "FastWrite"} -> {<<v>>}
    [] o = "SerReadM" -> {<<v, k>>}
    [] o = "SerWriteM" -> {<<v, k>> \o Repeat(k, v)}
    [] o = "SerSetStat" -> {<<v, ComSt>> \o Repeat(ComStLen, v), <<v, ComSt + 1>>}
    [] OTHER -> {<<>>}

\* The bytes it then waits for.
Expected(o, k) ==
  CASE o \in {"Read", "Reread"} -> SectorSize + 2
    [] o \in {"ReadEx", "RereadEx"} -> SectorSize
    [] o \in {"Write", "Rewrite", "DwInit"} -> 1
    [] o = "Time" -> 6
    [] o = "SerRead" -> 2
    [] o = "SerReadM" -> k
    [] OTHER -> 0

\* The guest puts bytes of its current command on the line.
Send(vals, c, first) ==
  up' = up \o [i \in 1..Len(vals) |->
                 [val |-> vals[i], cmd |-> c, start |-> first /\ i = 1]]

\* The guest issues a command once it has the whole reply to the last one.
\* The bytes of the 16 FASTWRITE opcodes differ only in the channel.
GuestCommand ==
  /\ link = "up"
  /\ waiting = 0
  /\ ~sumDue
  /\ down = <<>>
  /\ Cardinality({i \in 1..Len(up) : up[i].start}) < MaxPipeline
  /\ \E o \in IF flushing THEN {"Nop"} ELSE GuestOps,
        v \in PayloadBytes, k \in Counts :
       \E p \in Payloads(o, v, k) :
         /\ Send(<<IF o = "FastWrite" THEN FastWriteBase ELSE OpByte[o]>> \o p,
                 (sent + 1) % 3, TRUE)
         /\ sent' = (sent + 1) % 3
         /\ reset' = (o \in Resets)
         /\ waiting' = Expected(o, k)
         /\ sumDue' = (o \in {"ReadEx", "RereadEx"})
  /\ UNCHANGED <<down, link, serverVars, flushing, drops>>

\* The guest reads a reply byte.
GuestReads ==
  /\ link = "up"
  /\ waiting > 0
  /\ down # <<>>
  /\ down' = Tail(down)
  /\ waiting' = waiting - 1
  /\ UNCHANGED <<up, link, serverVars, sent, reset, sumDue, flushing, drops>>

\* Reply bytes that reach a guest that is not reading a reply are lost in
\* its receiver.
GuestOverrun ==
  /\ link = "up"
  /\ waiting = 0
  /\ ~sumDue
  /\ down # <<>>
  /\ down' = <<>>
  /\ UNCHANGED <<up, link, serverVars, guestVars, drops>>

\* With the sector of a READEX complete, the guest sends its checksum.
GuestSum ==
  /\ link = "up"
  /\ waiting = 0
  /\ sumDue
  /\ \E v \in PayloadBytes : Send(<<v, v>>, sent, FALSE)
  /\ sumDue' = FALSE
  /\ waiting' = 1
  /\ UNCHANGED <<down, link, serverVars, sent, reset, flushing, drops>>

\* Bytes do not reach the session: the line loses one, or the beginning of a
\* packet was thrown away by a drain_serial that stopped in the middle of it.
Drop ==
  /\ drops < MaxDrops
  /\ \E i, j \in 1..Len(up) :
       /\ i = j \/ (i < j /\ up[i].start)
       /\ up' = SubSeq(up, 1, i - 1) \o SubSeq(up, j + 1, Len(up))
  /\ drops' = drops + 1
  /\ UNCHANGED <<down, link, serverVars, guestVars>>

\* After a loss the guest may wait in vain: it gives up and goes on.
GuestTimeout ==
  /\ drops > 0
  /\ waiting > 0
  /\ waiting' = 0
  /\ sumDue' = FALSE
  /\ UNCHANGED <<up, down, link, serverVars, sent, reset, flushing, drops>>

\* The guest stops talking DriveWire and only sends NOP (a zero byte).
GuestFlush ==
  /\ drops > 0
  /\ ~flushing
  /\ flushing' = TRUE
  /\ UNCHANGED <<up, down, link, serverVars, sent, reset, waiting, sumDue, drops>>

HangUp ==
  /\ link = "up"
  /\ link' = "closing"
  /\ UNCHANGED <<up, down, serverVars, guestVars, drops>>

\* A guest connects anew: a session and a transport of its own.
Reconnect ==
  /\ link = "down"
  /\ link' = "up"
  /\ up' = <<>>
  /\ down' = <<>>
  /\ op' = "none"
  /\ need' = 0
  /\ pay' = <<>>
  /\ waiting' = 0
  /\ sumDue' = FALSE
  /\ UNCHANGED <<cmd, sent, reset, flushing, drops>>

Guest ==
  \/ GuestCommand
  \/ GuestReads
  \/ GuestOverrun
  \/ GuestSum
  \/ GuestTimeout
  \/ GuestFlush
  \/ HangUp
  \/ Reconnect

Next == Session \/ Guest \/ Drop

Spec == Init /\ [][Next]_vars

\* The runtime polls a session that can go on; a guest reads its replies,
\* answers a sector, gives up on what does not come and, once flushing,
\* keeps sending. Nothing obliges it to issue other commands, to hang up or
\* to connect.
Fairness ==
  /\ WF_vars(Session)
  /\ WF_vars(GuestReads)
  /\ WF_vars(GuestOverrun)
  /\ WF_vars(GuestSum)
  /\ WF_vars(GuestTimeout)
  /\ WF_vars(flushing /\ GuestCommand)

FairSpec == Spec /\ Fairness

----------------------------------------------------------------------------
(* Properties *)

\* The streams and the session's reads are well formed; in particular no read
\* takes more bytes than it asked for.
TypeOK ==
  /\ up       \in Seq([val : 0..255, cmd : 0..2, start : BOOLEAN])
  /\ down     \in Seq(0..NotACommand)
  /\ link     \in {"up", "closing", "down"}
  /\ op       \in Reading \cup {"none"}
  /\ cmd      \in 0..NotACommand
  /\ need     \in Nat
  /\ pay      \in Seq(0..255)
  /\ sent     \in 0..2
  /\ reset    \in BOOLEAN
  /\ waiting  \in Nat
  /\ sumDue   \in BOOLEAN
  /\ flushing \in BOOLEAN
  /\ drops    \in 0..MaxDrops

\* The session and the guest agree on where commands begin: the session
\* takes for an opcode exactly the bytes the guest sent as opcodes ("Each
\* opcode arm therefore must consume exactly its payload").
InSync ==
  up # <<>> => /\ op = "none" => Head(up).start
               /\ op # "none" /\ need > 0 => ~Head(up).start

\* A reply byte on the line answers the command the guest is waiting on.
RightReply ==
  \A i \in 1..Len(down) : waiting >= Len(down) /\ down[i] = sent

\* A guest that waits for a reply gets it, or is gone: neither side waits
\* for the other in the middle of a READEX, and no reply is short.
Completes ==
  (waiting > 0 \/ sumDue) ~> ((waiting = 0 /\ ~sumDue) \/ link # "up")

\* However bytes were lost, a guest that sends nothing but NOP brings the
\* session back to an opcode boundary for good, or is gone: no handler waits
\* for more than a bounded number of bytes.
FlushResyncs ==
  (flushing /\ link = "up") ~> ([](op = "none") \/ link # "up")

\* A reset brings the session back to an opcode boundary ("a misread opcode
\* desyncs the stream until the guest issues OP_RESET").
ResetResyncs ==
  (reset /\ up = <<>> /\ link = "up") => op = "none"
=============================================================================
