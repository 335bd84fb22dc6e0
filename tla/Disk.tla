-------------------------------- MODULE Disk --------------------------------
(***************************************************************************)
(* The disk commands: sessions that look a slot up in the shared table of  *)
(* drives, clone the disk they find and then seek and transfer on its one  *)
(* file offset under its mutex, while control connections mount and        *)
(* unmount; and the checksums by which a sector survives a line that       *)
(* damages bytes. (Where the bytes of a command begin and end is Session's *)
(* subject.)                                                               *)
(*                                                                         *)
(* An open .dsk file is one of Disks, created by DskFile::open and shared  *)
(* by whoever still holds it, mounted or not. The same file can be open    *)
(* more than once. Offsets and lengths are in sectors.                     *)
(***************************************************************************)
EXTENDS Naturals, Functions

CONSTANTS
  Guests,        \* guest connections, each with its Server::run task
  Controls,      \* control connections
  Slots,         \* slot numbers used
  Files,         \* .dsk files on the host
  Disks,         \* bound: files the server opens (DskFile objects)
  NoDisk, NoGuest, NoFile, NoSlot, NoReq,
  SectorCount,   \* sectors of every file
  SectorSize,    \* SECTOR_SIZE (256)
  Bytes,         \* byte values
  LsnBytes,      \* the three LSN bytes guests send
  WriteData,     \* sectors guests write
  MaxAsks,       \* bound: commands of one guest
  MaxFlips,      \* bytes the line damages
  MaxFaults      \* transfers on which the host's disk fails

ASSUME DiskAssumption ==
  /\ NoDisk \notin Disks /\ NoGuest \notin Guests
  /\ NoFile \notin Files /\ NoSlot \notin Slots
  /\ SectorCount \in Nat
  /\ SectorSize \in Nat \ {0}
  /\ 0 \in Bytes /\ Bytes \subseteq 0..255
  /\ LsnBytes \subseteq [1..3 -> 0..255]
  /\ WriteData \subseteq [1..SectorSize -> Bytes]
  /\ MaxAsks \in Nat /\ MaxFlips \in Nat /\ MaxFaults \in Nat

VARIABLES
  drives,    \* slot -> mounted disk
  disk,      \* disk -> the file it has open
  offset,    \* disk -> the file's offset, in sectors
  holder,    \* disk -> session that holds the file's mutex
  image,     \* file -> sector -> contents
  mounting,  \* control connection -> disk it has opened and not yet mounted
  stage,     \* guest -> where its command is
  req,       \* guest -> its command
  wire,      \* guest -> the sector as it arrived at the other end
  using,     \* guest -> the disk its session has cloned
  sector,    \* guest -> the sector its session read
  status,    \* guest -> the status byte
  accepted,  \* guest -> the sector its last successful read gave it
  asks,      \* guest -> commands issued
  flips,     \* bytes damaged
  faults     \* transfers failed

hostVars  == <<drives, disk, offset, holder, image, mounting>>
guestVars == <<stage, req, wire, using, sector, status, accepted, asks>>
vars      == <<hostVars, guestVars, flips, faults>>

----------------------------------------------------------------------------
Sector == [1..SectorSize -> Bytes]
Zero   == [i \in 1..SectorSize |-> 0]
Lsns   == 0..(SectorCount - 1)

\* Faulty variant of FromBe3: the high byte is dropped.
FromBe3Low(b) == 256 * b[2] + b[3]

\* Lsn::from_be3.
FromBe3(b) == 65536 * b[1] + 256 * b[2] + b[3]

\* checksum16: the sum of the bytes, in 16 bits.
Checksum16(s) == FoldFunction(LAMBDA x, y : (x + y) % 65536, 0, s)

Ops  == {"Read", "ReadEx", "Write"}
Reqs == [op : Ops, slot : Slots, lsn : LsnBytes, data : Sector]

ASSUME NoReqAssumption == NoReq \notin Reqs

Init ==
  /\ drives   = [s \in Slots |-> NoDisk]
  /\ disk     = [d \in Disks |-> NoFile]
  /\ offset   = [d \in Disks |-> 0]
  /\ holder   = [d \in Disks |-> NoGuest]
  /\ image    = [f \in Files |-> [l \in Lsns |-> Zero]]
  /\ mounting = [k \in Controls |-> [slot |-> NoSlot, disk |-> NoDisk]]
  /\ stage    = [g \in Guests |-> "idle"]
  /\ req      = [g \in Guests |-> NoReq]
  /\ wire     = [g \in Guests |-> Zero]
  /\ using    = [g \in Guests |-> NoDisk]
  /\ sector   = [g \in Guests |-> Zero]
  /\ status   = [g \in Guests |-> "none"]
  /\ accepted = [g \in Guests |-> Zero]
  /\ asks     = [g \in Guests |-> 0]
  /\ flips    = 0
  /\ faults   = 0

----------------------------------------------------------------------------
(* Control connections *)

\* mount_dsk, first half: DskFile::open. (A file that cannot be opened leaves
\* everything as it is.)
MountOpen(k) ==
  LET unused == {d \in Disks : disk[d] = NoFile}
      d      == CHOOSE d \in unused : TRUE
  IN
  /\ mounting[k].disk = NoDisk
  /\ unused # {}
  /\ \E s \in Slots, f \in Files :
       /\ disk' = [disk EXCEPT ![d] = f]
       /\ mounting' = [mounting EXCEPT ![k] = [slot |-> s, disk |-> d]]
  /\ UNCHANGED <<drives, offset, holder, image, guestVars, flips, faults>>

\* mount_dsk, second half: insert into the table, whatever was there before.
Mount(k) ==
  /\ mounting[k].disk # NoDisk
  /\ drives' = [drives EXCEPT ![mounting[k].slot] = mounting[k].disk]
  /\ mounting' = [mounting EXCEPT ![k] = [slot |-> NoSlot, disk |-> NoDisk]]
  /\ UNCHANGED <<disk, offset, holder, image, guestVars, flips, faults>>

Unmount(k) ==
  /\ mounting[k].disk = NoDisk
  /\ \E s \in Slots :
       /\ drives[s] # NoDisk
       /\ drives' = [drives EXCEPT ![s] = NoDisk]
  /\ UNCHANGED <<disk, offset, holder, image, mounting, guestVars, flips, faults>>

----------------------------------------------------------------------------
(* The line and the guest *)

\* A sector crosses the line: as it is, or with one byte damaged.
Crosses(g, s) ==
  \/ /\ wire' = [wire EXCEPT ![g] = s]
     /\ UNCHANGED flips
  \/ /\ flips < MaxFlips
     /\ flips' = flips + 1
     /\ \E i \in 1..SectorSize : \E b \in Bytes \ {s[i]} :
          wire' = [wire EXCEPT ![g] = [s EXCEPT ![i] = b]]

\* A guest issues a command; the sector of a WRITE crosses the line with the
\* checksum the guest computed.
GuestAsks(g) ==
  /\ stage[g] = "idle"
  /\ asks[g] < MaxAsks
  /\ \E o \in Ops, s \in Slots, b \in LsnBytes,
        x \in WriteData \cup {Zero} :
       /\ o = "Write" <=> x # Zero
       /\ req' = [req EXCEPT ![g] = [op |-> o, slot |-> s, lsn |-> b, data |-> x]]
       /\ IF o = "Write" THEN Crosses(g, x) ELSE UNCHANGED <<wire, flips>>
  /\ stage' = [stage EXCEPT ![g] = "asked"]
  /\ asks' = [asks EXCEPT ![g] = @ + 1]
  /\ UNCHANGED <<hostVars, using, sector, status, accepted, faults>>

\* The guest is content with the answer and forgets the command.
Finishes(g) ==
  /\ stage' = [stage EXCEPT ![g] = "idle"]
  /\ req' = [req EXCEPT ![g] = NoReq]
  /\ wire' = [wire EXCEPT ![g] = Zero]
  /\ sector' = [sector EXCEPT ![g] = Zero]
  /\ status' = [status EXCEPT ![g] = "none"]
  /\ accepted' = IF req[g].op = "Write" THEN accepted
                 ELSE [accepted EXCEPT ![g] = wire[g]]

\* REREAD, REREADEX and REWRITE: the same command once more.
Retries(g) ==
  /\ stage' = [stage EXCEPT ![g] = "asked"]
  /\ sector' = [sector EXCEPT ![g] = Zero]
  /\ status' = [status EXCEPT ![g] = "none"]
  /\ UNCHANGED <<req, accepted>>

\* The sector a READ or READEX sends reaches the guest.
GuestReceives(g) ==
  /\ stage[g] = "reply"
  /\ Crosses(g, sector[g])
  /\ stage' = [stage EXCEPT ![g] = "received"]
  /\ UNCHANGED <<hostVars, req, using, sector, status, accepted, asks, faults>>

\* READ: the guest compares the checksum the server sent along with its own.
GuestVerifies(g) ==
  /\ stage[g] = "received"
  /\ req[g].op = "Read"
  /\ \/ /\ Checksum16(wire[g]) = Checksum16(sector[g])
        /\ Finishes(g)
     \/ /\ Checksum16(wire[g]) # Checksum16(sector[g])
        /\ Retries(g)
        /\ UNCHANGED wire
  /\ UNCHANGED <<hostVars, using, asks, flips, faults>>

\* The guest reads the status of a READEX or a WRITE, and tries again after
\* a checksum error.
GuestStatus(g) ==
  /\ stage[g] = "status"
  /\ \/ /\ status[g] = "Crc"
        /\ Retries(g)
        /\ IF req[g].op = "Write"
             THEN Crosses(g, req[g].data)
             ELSE UNCHANGED <<wire, flips>>
     \/ /\ status[g] # "Crc"
        /\ Finishes(g)
        /\ UNCHANGED flips
  /\ UNCHANGED <<hostVars, using, asks, faults>>

----------------------------------------------------------------------------
(* Sessions *)

\* The handler has no disk, or the disk refused or failed: a READ is answered
\* with zeros, a WRITE with code s.
Fails(g, s) ==
  /\ stage' = [stage EXCEPT ![g] = IF req[g].op = "Write" THEN "status" ELSE "reply"]
  /\ status' = IF req[g].op = "Write" THEN [status EXCEPT ![g] = s] ELSE status
  /\ UNCHANGED sector

\* The checksum of a WRITE does not match: nothing else is looked at.
HandleWriteCrc(g) ==
  /\ stage[g] = "asked"
  /\ req[g].op = "Write"
  /\ Checksum16(wire[g]) # Checksum16(req[g].data)
  /\ Fails(g, "Crc")
  /\ UNCHANGED <<hostVars, req, wire, using, accepted, asks, flips, faults>>

\* Faulty variant of FindDisk: the range check is forgotten.
FindDiskUnchecked(g) ==
  LET d == drives[req[g].slot] IN
  /\ stage[g] = "asked"
  /\ req[g].op = "Write" => Checksum16(wire[g]) = Checksum16(req[g].data)
  /\ \/ /\ d = NoDisk
        /\ Fails(g, "NotReady")
        /\ UNCHANGED using
     \/ /\ d # NoDisk
        /\ using' = [using EXCEPT ![g] = d]
        /\ stage' = [stage EXCEPT ![g] = "lock"]
        /\ UNCHANGED <<sector, status>>
  /\ UNCHANGED <<hostVars, req, wire, accepted, asks, flips, faults>>

\* The lookup under the read lock of drives, and DskFile's range check.
FindDisk(g) ==
  LET d == drives[req[g].slot] IN
  /\ stage[g] = "asked"
  /\ req[g].op = "Write" => Checksum16(wire[g]) = Checksum16(req[g].data)
  /\ \/ /\ d = NoDisk
        /\ Fails(g, "NotReady")
        /\ UNCHANGED using
     \/ /\ d # NoDisk
        /\ FromBe3(req[g].lsn) >= SectorCount
        /\ Fails(g, "Write")
        /\ UNCHANGED using
     \/ /\ d # NoDisk
        /\ FromBe3(req[g].lsn) < SectorCount
        /\ using' = [using EXCEPT ![g] = d]
        /\ stage' = [stage EXCEPT ![g] = "lock"]
        /\ UNCHANGED <<sector, status>>
  /\ UNCHANGED <<hostVars, req, wire, accepted, asks, flips, faults>>

\* Faulty variant of LockFile: the mutex is not waited for.
LockFileBarging(g) ==
  /\ stage[g] = "lock"
  /\ holder' = [holder EXCEPT ![using[g]] = g]
  /\ stage' = [stage EXCEPT ![g] = "locked"]
  /\ UNCHANGED <<drives, disk, offset, image, mounting,
                 req, wire, using, sector, status, accepted, asks, flips, faults>>

LockFile(g) ==
  /\ stage[g] = "lock"
  /\ holder[using[g]] = NoGuest
  /\ holder' = [holder EXCEPT ![using[g]] = g]
  /\ stage' = [stage EXCEPT ![g] = "locked"]
  /\ UNCHANGED <<drives, disk, offset, image, mounting,
                 req, wire, using, sector, status, accepted, asks, flips, faults>>

Seek(g) ==
  /\ stage[g] = "locked"
  /\ offset' = [offset EXCEPT ![using[g]] = FromBe3(req[g].lsn)]
  /\ stage' = [stage EXCEPT ![g] = "seeked"]
  /\ UNCHANGED <<drives, disk, holder, image, mounting,
                 req, wire, using, sector, status, accepted, asks, flips, faults>>

\* The transfer is over, one way or the other, and the mutex is released.
Transferred(g) ==
  /\ offset' = [offset EXCEPT ![using[g]] = @ + 1]
  /\ holder' = [holder EXCEPT ![using[g]] = NoGuest]
  /\ using' = [using EXCEPT ![g] = NoDisk]
  /\ UNCHANGED <<drives, disk, mounting, req, wire, accepted, asks, flips>>

\* DskFile::read after the seek; a failure is hidden behind zeros.
ReadSector(g) ==
  /\ stage[g] = "seeked"
  /\ req[g].op # "Write"
  /\ Transferred(g)
  /\ \/ /\ sector' = [sector EXCEPT ![g] = image[disk[using[g]]][offset[using[g]]]]
        /\ stage' = [stage EXCEPT ![g] = "reply"]
        /\ UNCHANGED <<status, faults>>
     \/ /\ faults < MaxFaults
        /\ faults' = faults + 1
        /\ Fails(g, "none")
  /\ UNCHANGED image

\* What is left of a sector when a write stops after n bytes.
Torn(old, new, n) == [i \in 1..SectorSize |-> IF i <= n THEN new[i] ELSE old[i]]

\* Faulty variant of WriteSector: a failed write keeps the mutex.
WriteSectorLeak(g) ==
  LET d == using[g]
      f == disk[d]
      l == offset[d]
  IN
  /\ stage[g] = "seeked"
  /\ req[g].op = "Write"
  /\ \/ /\ Transferred(g)
        /\ image' = [image EXCEPT ![f][l] = wire[g]]
        /\ status' = [status EXCEPT ![g] = "ok"]
        /\ stage' = [stage EXCEPT ![g] = "status"]
        /\ UNCHANGED <<sector, faults>>
     \/ /\ faults < MaxFaults
        /\ faults' = faults + 1
        /\ Fails(g, "Write")
        /\ using' = [using EXCEPT ![g] = NoDisk]
        /\ UNCHANGED <<hostVars, req, wire, accepted, asks, flips>>

\* DskFile::write after the seek: write_all and flush. A failure may leave
\* the sector written in part.
WriteSector(g) ==
  LET d == using[g]
      f == disk[d]
      l == offset[d]
  IN
  /\ stage[g] = "seeked"
  /\ req[g].op = "Write"
  /\ Transferred(g)
  /\ \/ /\ image' = [image EXCEPT ![f][l] = wire[g]]
        /\ status' = [status EXCEPT ![g] = "ok"]
        /\ stage' = [stage EXCEPT ![g] = "status"]
        /\ UNCHANGED <<sector, faults>>
     \/ /\ faults < MaxFaults
        /\ faults' = faults + 1
        /\ \E n \in 0..SectorSize :
             image' = [image EXCEPT ![f][l] = Torn(@, wire[g], n)]
        /\ Fails(g, "Write")

\* READEX: compare the checksum the guest sends back.
HandleReadExSum(g) ==
  /\ stage[g] = "received"
  /\ req[g].op = "ReadEx"
  /\ status' = [status EXCEPT ![g] =
                  IF Checksum16(wire[g]) = Checksum16(sector[g]) THEN "ok" ELSE "Crc"]
  /\ stage' = [stage EXCEPT ![g] = "status"]
  /\ UNCHANGED <<hostVars, req, wire, using, sector, accepted, asks, flips, faults>>

----------------------------------------------------------------------------
Guest(g) ==
  \/ GuestAsks(g)
  \/ GuestReceives(g)
  \/ GuestVerifies(g)
  \/ GuestStatus(g)

Session(g) ==
  \/ HandleWriteCrc(g)
  \/ FindDisk(g)
  \/ LockFile(g)
  \/ Seek(g)
  \/ ReadSector(g)
  \/ WriteSector(g)
  \/ HandleReadExSum(g)

Control(k) ==
  \/ MountOpen(k)
  \/ Mount(k)
  \/ Unmount(k)

Next ==
  \/ \E g \in Guests : Guest(g) \/ Session(g)
  \/ \E k \in Controls : Control(k)

Spec == Init /\ [][Next]_vars

----------------------------------------------------------------------------
(* Properties *)

Stages == {"idle", "asked", "lock", "locked", "seeked", "reply", "received", "status"}

\* The table, the open files and every command are well formed; in particular
\* no offset is moved past the end of a file by more than the sector read.
TypeOK ==
  /\ drives   \in [Slots -> Disks \cup {NoDisk}]
  /\ disk     \in [Disks -> Files \cup {NoFile}]
  /\ offset   \in [Disks -> 0..SectorCount]
  /\ holder   \in [Disks -> Guests \cup {NoGuest}]
  /\ image    \in [Files -> [Lsns -> Sector]]
  /\ mounting \in [Controls -> [slot : Slots \cup {NoSlot}, disk : Disks \cup {NoDisk}]]
  /\ stage    \in [Guests -> Stages]
  /\ req      \in [Guests -> Reqs \cup {NoReq}]
  /\ wire     \in [Guests -> Sector]
  /\ using    \in [Guests -> Disks \cup {NoDisk}]
  /\ sector   \in [Guests -> Sector]
  /\ status   \in [Guests -> {"none", "ok", "Crc", "Write", "NotReady"}]
  /\ accepted \in [Guests -> Sector]
  /\ asks     \in [Guests -> Nat]
  /\ flips    \in Nat
  /\ faults   \in Nat

\* The sector number three bytes stand for, most significant first.
LsnValue(b) == b[3] + 256 * (b[2] + 256 * b[1])

\* Between its seek and its transfer the offset stays where the session put
\* it, even if the disk has been unmounted, replaced or mounted again since.
SeekStands ==
  \A g \in Guests :
    stage[g] = "seeked" => offset[using[g]] = LsnValue(req[g].lsn)

\* The mutex of a file is held exactly by the session that is between taking
\* it and the end of its transfer: two sessions never have the same disk, and
\* no outcome of a transfer leaves a disk locked for ever.
MutexExact ==
  \A d \in Disks, g \in Guests :
    holder[d] = g <=> stage[g] \in {"locked", "seeked"} /\ using[g] = d

FileOf(d) == IF d = NoDisk THEN NoFile ELSE disk[d]

\* An image changes only where a WRITE that was accepted says: in the sector
\* the command names, of the file its session looked up. Where two sessions
\* interleave on one offset, somebody else's sector is overwritten.
WritesLand ==
  [][\A f \in Files, l \in Lsns :
       image'[f][l] # image[f][l] =>
         \E g \in Guests :
           /\ stage[g] = "seeked"
           /\ req[g].op = "Write"
           /\ LsnValue(req[g].lsn) = l
           /\ FileOf(using[g]) = f]_vars

\* Where a command is, as DiskService sees it.
Phase(st) ==
  CASE st = "idle" -> "idle"
    [] st = "asked" -> "asked"
    [] st \in {"lock", "locked", "seeked"} -> "looked"
    [] OTHER -> "answered"

\* The command a guest has in mind, and the answer it has been given so far:
\* the status of a READEX only says whether its sector arrived.
WantOf(r) == IF r = NoReq THEN NoReq ELSE [r EXCEPT !.lsn = LsnValue(@)]

ResultOf(g) ==
  [status |-> IF stage[g] # "idle" /\ req[g].op = "Write" THEN status[g] ELSE "none",
   data   |-> sector[g]]

\* The state as DiskService sees it.
ServedWants  == [op : Ops, slot : Slots, lsn : {LsnValue(b) : b \in LsnBytes}, data : Sector]
ServedTable  == [s \in Slots |-> FileOf(drives[s])]
ServedPhase  == [g \in Guests |-> Phase(stage[g])]
ServedWant   == [g \in Guests |-> WantOf(req[g])]
ServedTarget == [g \in Guests |-> FileOf(using[g])]
ServedResult == [g \in Guests |-> ResultOf(g)]

Service == INSTANCE DiskService WITH
  SectorValues <- Sector,
  Wants   <- ServedWants,
  NoWant  <- NoReq,
  MayFail <- MaxFaults > 0,
  table   <- ServedTable,
  phase   <- ServedPhase,
  want    <- ServedWant,
  target  <- ServedTarget,
  result  <- ServedResult,
  got     <- accepted

\* The server, the checksums and the retries together give guests what
\* DiskService promises: every command acts on one sector of one image at one
\* moment, however sessions, mounts and unmounts interleave and whatever
\* single bytes the line damages, and a status tells what happened.
Implements == Service!Spec
=============================================================================
