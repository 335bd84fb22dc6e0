------------------------------ MODULE DiskProofs ------------------------------
(***************************************************************************)
(* Theorems about Disk, for any numbers of guests, control connections,    *)
(* slots, files and sectors: the mutex of a file excludes, a seek stands   *)
(* until its transfer, no transfer leaves the image it is meant for, and   *)
(* Disk implements DiskService.                                            *)
(***************************************************************************)
EXTENDS Disk, Recursion

InTransfer == {"lock", "locked", "seeked"}

\* What the table, a mount under way and a session refer to is an open file.
Opened ==
  /\ \A s \in Slots : drives[s] # NoDisk => disk[drives[s]] # NoFile
  /\ \A k \in Controls : mounting[k].disk # NoDisk =>
       /\ mounting[k].slot \in Slots
       /\ disk[mounting[k].disk] # NoFile
  /\ \A g \in Guests : using[g] # NoDisk => disk[using[g]] # NoFile

\* A guest that is not idle has a command, and a session that uses a disk has
\* passed the range check.
Commands ==
  \A g \in Guests :
    /\ stage[g] # "idle" => req[g] \in Reqs
    /\ stage[g] \in InTransfer <=> using[g] # NoDisk
    /\ stage[g] \in InTransfer => FromBe3(req[g].lsn) \in Lsns

DiskInv ==
  /\ TypeOK
  /\ Opened
  /\ Commands
  /\ MutexExact
  /\ SeekStands

-----------------------------------------------------------------------------
\* from_be3 computes the number the three bytes stand for.
LEMMA LsnAgrees ==
  ASSUME NEW b \in LsnBytes
  PROVE  FromBe3(b) \in Nat /\ FromBe3(b) = LsnValue(b)
<1>1. PICK x \in 0..255 : x = b[1]
  BY DiskAssumption
<1>2. PICK y \in 0..255 : y = b[2]
  BY DiskAssumption
<1>3. PICK z \in 0..255 : z = b[3]
  BY DiskAssumption
<1>4. FromBe3(b) = 65536 * x + 256 * y + z
  BY <1>1, <1>2, <1>3, SMT DEF FromBe3
<1>5. LsnValue(b) = z + 256 * (y + 256 * x)
  BY <1>1, <1>2, <1>3, SMT DEF LsnValue
<1>6. 65536 * x + 256 * y + z = z + 256 * (y + 256 * x)
  OBVIOUS
<1>7. 65536 * x + 256 * y + z \in Nat
  OBVIOUS
<1> QED  BY <1>4, <1>5, <1>6, <1>7, SMT

\* The sectors that occur are sectors.
LEMMA SectorTypes ==
  /\ Zero \in Sector
  /\ WriteData \subseteq Sector
  /\ \A s \in Sector, i \in 1..SectorSize, b \in Bytes : [s EXCEPT ![i] = b] \in Sector
  /\ \A s, t \in Sector, n \in 0..SectorSize : Torn(s, t, n) \in Sector
<1>1. Zero \in Sector
  BY DiskAssumption DEF Zero, Sector
<1>2. WriteData \subseteq Sector
  BY DiskAssumption DEF Sector
<1>3. \A s \in Sector, i \in 1..SectorSize, b \in Bytes : [s EXCEPT ![i] = b] \in Sector
  BY DEF Sector
<1>4. \A s, t \in Sector, n \in 0..SectorSize : Torn(s, t, n) \in Sector
  BY DEF Torn, Sector
<1> QED  BY <1>1, <1>2, <1>3, <1>4

\* What crosses the line is a sector, damaged or not.
LEMMA CrossesType ==
  ASSUME TypeOK, NEW g \in Guests, NEW s \in Sector, Crosses(g, s)
  PROVE  wire' \in [Guests -> Sector] /\ flips' \in Nat
<1>1. wire \in [Guests -> Sector] /\ flips \in Nat
  BY DEF TypeOK
<1>2. CASE wire' = [wire EXCEPT ![g] = s] /\ UNCHANGED flips
  BY <1>1, <1>2
<1>3. CASE /\ flips' = flips + 1
           /\ \E i \in 1..SectorSize : \E b \in Bytes \ {s[i]} :
                wire' = [wire EXCEPT ![g] = [s EXCEPT ![i] = b]]
  <2>1. PICK i \in 1..SectorSize, b \in Bytes :
              wire' = [wire EXCEPT ![g] = [s EXCEPT ![i] = b]]
    BY <1>3
  <2>2. [s EXCEPT ![i] = b] \in Sector
    BY SectorTypes
  <2>3. wire' \in [Guests -> Sector]
    BY <1>1, <2>1, <2>2
  <2>4. flips' \in Nat
    BY <1>1, <1>3
  <2> QED  BY <2>3, <2>4
<1> QED  BY <1>2, <1>3 DEF Crosses

\* A server with nothing mounted satisfies DiskInv.
LEMMA InitInv == Init => DiskInv
<1> SUFFICES ASSUME Init PROVE DiskInv
  OBVIOUS
<1>1. TypeOK
  BY SectorTypes, DiskAssumption DEF Init, TypeOK, Stages
<1>2. Opened
  BY DEF Init, Opened
<1>3. Commands
  BY DEF Init, Commands, InTransfer
<1>4. MutexExact
  BY DiskAssumption DEF Init, MutexExact
<1>5. SeekStands
  BY DEF Init, SeekStands
<1> QED  BY <1>1, <1>2, <1>3, <1>4, <1>5 DEF DiskInv
-----------------------------------------------------------------------------
\* A step of one guest that neither takes up nor gives up a disk cannot
\* disturb what the sessions rely on.
LEMMA Quiet ==
  ASSUME DiskInv, NEW g \in Guests,
         stage[g] \notin InTransfer, stage'[g] \notin InTransfer,
         stage'[g] # "idle" => req'[g] \in Reqs,
         \A h \in Guests \ {g} : stage'[h] = stage[h] /\ req'[h] = req[h],
         UNCHANGED <<hostVars, using>>
  PROVE  Opened' /\ Commands' /\ MutexExact' /\ SeekStands'
<1>1. Opened'
  BY DEF DiskInv, Opened, hostVars
<1>2. Commands'
  <2> SUFFICES ASSUME NEW h \in Guests
               PROVE  /\ stage'[h] # "idle" => req'[h] \in Reqs
                      /\ stage'[h] \in InTransfer <=> using'[h] # NoDisk
                      /\ stage'[h] \in InTransfer => FromBe3(req'[h].lsn) \in Lsns
    BY DEF Commands
  <2>1. CASE h = g
    BY <2>1 DEF DiskInv, Commands
  <2>2. CASE h # g
    BY <2>2 DEF DiskInv, Commands
  <2> QED  BY <2>1, <2>2
<1>3. MutexExact'
  BY DEF DiskInv, MutexExact, InTransfer, hostVars
<1>4. SeekStands'
  BY DEF DiskInv, SeekStands, InTransfer, hostVars
<1> QED  BY <1>1, <1>2, <1>3, <1>4

\* A session that ends its transfer leaves the disk to others as it found it.
LEMMA TransferredInv ==
  ASSUME DiskInv, NEW g \in Guests, Transferred(g),
         stage[g] = "seeked", stage'[g] \in {"reply", "status"},
         \A h \in Guests \ {g} : stage'[h] = stage[h]
  PROVE  /\ Opened' /\ Commands' /\ MutexExact' /\ SeekStands'
         /\ holder' \in [Disks -> Guests \cup {NoGuest}]
         /\ offset' \in [Disks -> 0..SectorCount]
         /\ using' \in [Guests -> Disks \cup {NoDisk}]
<1> USE DiskAssumption
<1>1. /\ using[g] \in Disks
      /\ holder[using[g]] = g
      /\ offset[using[g]] \in Lsns
  <2>1. using[g] \in Disks
    BY DEF DiskInv, TypeOK, Commands, InTransfer
  <2>2. holder[using[g]] = g
    BY <2>1 DEF DiskInv, MutexExact
  <2>3. req[g].lsn \in LsnBytes /\ FromBe3(req[g].lsn) \in Lsns
    BY DEF DiskInv, Commands, InTransfer, Reqs
  <2>4. offset[using[g]] = FromBe3(req[g].lsn)
    BY <2>3, LsnAgrees DEF DiskInv, SeekStands
  <2> QED  BY <2>1, <2>2, <2>3, <2>4
<1>2. /\ holder' = [holder EXCEPT ![using[g]] = NoGuest]
      /\ offset' = [offset EXCEPT ![using[g]] = offset[using[g]] + 1]
      /\ using' = [using EXCEPT ![g] = NoDisk]
      /\ drives' = drives /\ disk' = disk /\ mounting' = mounting /\ req' = req
  BY DEF Transferred
<1>3. /\ holder \in [Disks -> Guests \cup {NoGuest}]
      /\ offset \in [Disks -> 0..SectorCount]
      /\ using \in [Guests -> Disks \cup {NoDisk}]
  BY DEF DiskInv, TypeOK
<1>4. holder' \in [Disks -> Guests \cup {NoGuest}]
  BY <1>2, <1>3
<1>5. offset' \in [Disks -> 0..SectorCount]
  <2>1. offset[using[g]] + 1 \in 0..SectorCount
    BY <1>1 DEF Lsns
  <2> QED  BY <1>2, <1>3, <2>1
<1>6. using' \in [Guests -> Disks \cup {NoDisk}]
  BY <1>2, <1>3
<1>7. Opened'
  BY <1>2, <1>3 DEF DiskInv, Opened
<1>8. Commands'
  <2> SUFFICES ASSUME NEW h \in Guests
               PROVE  /\ stage'[h] # "idle" => req'[h] \in Reqs
                      /\ stage'[h] \in InTransfer <=> using'[h] # NoDisk
                      /\ stage'[h] \in InTransfer => FromBe3(req'[h].lsn) \in Lsns
    BY DEF Commands
  <2>1. CASE h = g
    BY <1>2, <1>3, <2>1 DEF DiskInv, Commands, InTransfer
  <2>2. CASE h # g
    BY <1>2, <1>3, <2>2 DEF DiskInv, Commands
  <2> QED  BY <2>1, <2>2
<1>9. MutexExact'
  <2> SUFFICES ASSUME NEW d \in Disks, NEW h \in Guests
               PROVE  holder'[d] = h <=> stage'[h] \in {"locked", "seeked"} /\ using'[h] = d
    BY DEF MutexExact
  <2>1. holder[d] = h <=> stage[h] \in {"locked", "seeked"} /\ using[h] = d
    BY DEF DiskInv, MutexExact
  <2>2. CASE h = g
    BY <1>1, <1>2, <1>3, <2>1, <2>2
  <2>3. CASE h # g
    BY <1>1, <1>2, <1>3, <2>1, <2>3
  <2> QED  BY <2>2, <2>3
<1>10. SeekStands'
  <2> SUFFICES ASSUME NEW h \in Guests, stage'[h] = "seeked"
               PROVE  offset'[using'[h]] = LsnValue(req'[h].lsn)
    BY DEF SeekStands
  <2>1. h # g /\ stage[h] = "seeked"
    OBVIOUS
  <2>2. using[h] \in Disks /\ using[h] # using[g]
    <3>1. using[h] \in Disks
      BY <1>3, <2>1 DEF DiskInv, Commands, InTransfer
    <3>2. holder[using[h]] = h
      BY <2>1, <3>1 DEF DiskInv, MutexExact
    <3> QED  BY <1>1, <2>1, <3>1, <3>2
  <2>3. offset'[using'[h]] = offset[using[h]]
    BY <1>2, <1>3, <2>1, <2>2
  <2> QED  BY <1>2, <2>1, <2>3 DEF DiskInv, SeekStands
<1> QED  BY <1>4, <1>5, <1>6, <1>7, <1>8, <1>9, <1>10

\* A guest that is content keeps its variables well typed.
LEMMA FinishesType ==
  ASSUME TypeOK, NEW g \in Guests, Finishes(g)
  PROVE  /\ stage' \in [Guests -> Stages]
         /\ req' \in [Guests -> Reqs \cup {NoReq}]
         /\ wire' \in [Guests -> Sector]
         /\ sector' \in [Guests -> Sector]
         /\ status' \in [Guests -> {"none", "ok", "Crc", "Write", "NotReady"}]
         /\ accepted' \in [Guests -> Sector]
<1>1. Zero \in Sector
  BY SectorTypes
<1>2. accepted' \in [Guests -> Sector]
  BY DEF Finishes, TypeOK
<1>3. stage' \in [Guests -> Stages] /\ req' \in [Guests -> Reqs \cup {NoReq}]
  BY DEF Finishes, TypeOK, Stages
<1>4. wire' \in [Guests -> Sector] /\ sector' \in [Guests -> Sector]
  BY <1>1 DEF Finishes, TypeOK
<1>5. status' \in [Guests -> {"none", "ok", "Crc", "Write", "NotReady"}]
  BY DEF Finishes, TypeOK
<1> QED  BY <1>2, <1>3, <1>4, <1>5

\* So does one that asks again.
LEMMA RetriesType ==
  ASSUME TypeOK, NEW g \in Guests, Retries(g)
  PROVE  /\ stage' \in [Guests -> Stages]
         /\ req' \in [Guests -> Reqs \cup {NoReq}]
         /\ sector' \in [Guests -> Sector]
         /\ status' \in [Guests -> {"none", "ok", "Crc", "Write", "NotReady"}]
         /\ accepted' \in [Guests -> Sector]
<1>1. Zero \in Sector
  BY SectorTypes
<1> QED  BY <1>1 DEF Retries, TypeOK, Stages

\* A session that has seeked is at an existing sector of an open file.
LEMMA SeekedPlace ==
  ASSUME DiskInv, NEW g \in Guests, stage[g] = "seeked"
  PROVE  /\ using[g] \in Disks
         /\ disk[using[g]] \in Files
         /\ offset[using[g]] \in Lsns
<1>1. using[g] \in Disks
  BY DEF DiskInv, TypeOK, Commands, InTransfer
<1>2. disk[using[g]] \in Files
  <2>1. using[g] # NoDisk
    BY <1>1, DiskAssumption
  <2>2. disk[using[g]] # NoFile
    BY <2>1 DEF DiskInv, Opened
  <2> QED  BY <1>1, <2>2 DEF DiskInv, TypeOK
<1>3. req[g].lsn \in LsnBytes /\ FromBe3(req[g].lsn) \in Lsns
  BY DEF DiskInv, Commands, InTransfer, Reqs
<1>4. offset[using[g]] = FromBe3(req[g].lsn)
  BY <1>3, LsnAgrees DEF DiskInv, SeekStands
<1> QED  BY <1>1, <1>2, <1>3, <1>4

\* A control connection opens a file nobody has open.
LEMMA MountOpenInv ==
  ASSUME DiskInv, NEW k \in Controls, MountOpen(k)
  PROVE  DiskInv'
<1> USE DiskAssumption DEF DiskInv
<1>1. TypeOK'
  <2>1. PICK d \in Disks, s \in Slots, f \in Files :
          /\ disk' = [disk EXCEPT ![d] = f]
          /\ mounting' = [mounting EXCEPT ![k] = [slot |-> s, disk |-> d]]
    BY DEF MountOpen
  <2>2. disk' \in [Disks -> Files \cup {NoFile}]
    BY <2>1 DEF TypeOK
  <2>3. [slot |-> s, disk |-> d] \in [slot : Slots \cup {NoSlot}, disk : Disks \cup {NoDisk}]
    OBVIOUS
  <2>4. mounting' \in [Controls -> [slot : Slots \cup {NoSlot}, disk : Disks \cup {NoDisk}]]
    BY <2>1, <2>3 DEF TypeOK
  <2> QED  BY <2>2, <2>4 DEF MountOpen, guestVars, TypeOK
<1>2. Opened'
  BY DEF MountOpen, hostVars, guestVars, TypeOK, Opened
<1>3. Commands'
  BY DEF MountOpen, hostVars, guestVars, TypeOK, Commands, InTransfer
<1>4. MutexExact'
  BY DEF MountOpen, hostVars, guestVars, TypeOK, MutexExact
<1>5. SeekStands'
  BY DEF MountOpen, hostVars, guestVars, TypeOK, SeekStands
<1> QED  BY <1>1, <1>2, <1>3, <1>4, <1>5

\* Mounting publishes an open disk.
LEMMA MountInv ==
  ASSUME DiskInv, NEW k \in Controls, Mount(k)
  PROVE  DiskInv'
<1> USE DiskAssumption DEF DiskInv
<1>1. TypeOK'
  <2>1. mounting[k].disk \in Disks /\ mounting[k].slot \in Slots
    BY DEF Mount, TypeOK, Opened
  <2>2. drives' \in [Slots -> Disks \cup {NoDisk}]
    BY <2>1 DEF Mount, TypeOK
  <2>3. mounting' \in [Controls -> [slot : Slots \cup {NoSlot}, disk : Disks \cup {NoDisk}]]
    BY DEF Mount, TypeOK
  <2> QED  BY <2>2, <2>3 DEF Mount, guestVars, TypeOK
<1>2. Opened'
  BY DEF Mount, hostVars, guestVars, TypeOK, Opened
<1>3. Commands'
  BY DEF Mount, hostVars, guestVars, TypeOK, Commands, InTransfer
<1>4. MutexExact'
  BY DEF Mount, hostVars, guestVars, TypeOK, MutexExact
<1>5. SeekStands'
  BY DEF Mount, hostVars, guestVars, TypeOK, SeekStands
<1> QED  BY <1>1, <1>2, <1>3, <1>4, <1>5

\* Unmounting takes nothing away from the sessions.
LEMMA UnmountInv ==
  ASSUME DiskInv, NEW k \in Controls, Unmount(k)
  PROVE  DiskInv'
<1> USE DiskAssumption DEF DiskInv
<1>1. TypeOK'
  BY DEF Unmount, hostVars, guestVars, TypeOK, Stages
<1>2. Opened'
  BY DEF Unmount, hostVars, guestVars, TypeOK, Opened
<1>3. Commands'
  BY DEF Unmount, hostVars, guestVars, TypeOK, Commands, InTransfer
<1>4. MutexExact'
  BY DEF Unmount, hostVars, guestVars, TypeOK, MutexExact
<1>5. SeekStands'
  BY DEF Unmount, hostVars, guestVars, TypeOK, SeekStands
<1> QED  BY <1>1, <1>2, <1>3, <1>4, <1>5

\* A guest issues a command.
LEMMA GuestAsksInv ==
  ASSUME DiskInv, NEW g \in Guests, GuestAsks(g)
  PROVE  DiskInv'
<1> USE DEF DiskInv
<1>1. PICK o \in Ops, s \in Slots, b \in LsnBytes, x \in WriteData \cup {Zero} :
        /\ req' = [req EXCEPT ![g] = [op |-> o, slot |-> s, lsn |-> b, data |-> x]]
        /\ IF o = "Write" THEN Crosses(g, x) ELSE UNCHANGED <<wire, flips>>
  BY DEF GuestAsks
<1>2. x \in Sector
  BY SectorTypes
<1>3. req' \in [Guests -> Reqs \cup {NoReq}] /\ req'[g] \in Reqs
  BY <1>1, <1>2 DEF TypeOK, Reqs
<1>4. wire' \in [Guests -> Sector] /\ flips' \in Nat
  BY <1>1, <1>2, CrossesType DEF TypeOK
<1>5. stage' \in [Guests -> Stages] /\ asks' \in [Guests -> Nat]
  BY DEF GuestAsks, TypeOK, Stages
<1>6. TypeOK'
  BY <1>3, <1>4, <1>5 DEF GuestAsks, TypeOK, hostVars
<1>7. \A h \in Guests \ {g} : stage'[h] = stage[h] /\ req'[h] = req[h]
  BY <1>1 DEF GuestAsks, TypeOK
<1>8. stage[g] = "idle" /\ stage'[g] = "asked"
  BY DEF GuestAsks, TypeOK
<1>9. Opened' /\ Commands' /\ MutexExact' /\ SeekStands'
  BY <1>3, <1>7, <1>8, Quiet DEF GuestAsks, InTransfer
<1> QED  BY <1>6, <1>9

\* A sector reaches the guest.
LEMMA GuestReceivesInv ==
  ASSUME DiskInv, NEW g \in Guests, GuestReceives(g)
  PROVE  DiskInv'
<1> USE DiskAssumption DEF DiskInv
<1>1. TypeOK'
  BY CrossesType DEF GuestReceives, hostVars, guestVars, TypeOK, Stages
<1>2. Opened'
  BY CrossesType DEF GuestReceives, hostVars, guestVars, TypeOK, Opened
<1>3. Commands'
  BY CrossesType DEF GuestReceives, hostVars, guestVars, TypeOK, Commands, InTransfer
<1>4. MutexExact'
  BY CrossesType DEF GuestReceives, hostVars, guestVars, TypeOK, MutexExact
<1>5. SeekStands'
  BY CrossesType DEF GuestReceives, hostVars, guestVars, TypeOK, SeekStands
<1> QED  BY <1>1, <1>2, <1>3, <1>4, <1>5

\* The guest accepts a sector or asks again.
LEMMA GuestVerifiesInv ==
  ASSUME DiskInv, NEW g \in Guests, GuestVerifies(g)
  PROVE  DiskInv'
<1> USE DEF DiskInv
<1>1. stage[g] = "received" /\ UNCHANGED <<hostVars, using, asks, flips, faults>>
  BY DEF GuestVerifies
<1>2. CASE Finishes(g)
  <2>1. TypeOK'
    BY <1>1, <1>2, FinishesType DEF TypeOK, hostVars
  <2>2. /\ stage'[g] = "idle"
        /\ \A h \in Guests \ {g} : stage'[h] = stage[h] /\ req'[h] = req[h]
    BY <1>2 DEF Finishes, TypeOK
  <2> QED  BY <1>1, <2>1, <2>2, Quiet DEF InTransfer
<1>3. CASE Retries(g) /\ UNCHANGED wire
  <2>1. TypeOK'
    BY <1>1, <1>3, RetriesType DEF TypeOK, hostVars
  <2>2. /\ stage'[g] = "asked" /\ req'[g] \in Reqs
        /\ \A h \in Guests \ {g} : stage'[h] = stage[h] /\ req'[h] = req[h]
    BY <1>1, <1>3 DEF Retries, TypeOK, Commands
  <2> QED  BY <1>1, <2>1, <2>2, Quiet DEF InTransfer
<1> QED  BY <1>2, <1>3 DEF GuestVerifies

\* The guest reads a status and is done or asks again.
LEMMA GuestStatusInv ==
  ASSUME DiskInv, NEW g \in Guests, GuestStatus(g)
  PROVE  DiskInv'
<1> USE DEF DiskInv
<1>1. stage[g] = "status" /\ UNCHANGED <<hostVars, using, asks, faults>>
  BY DEF GuestStatus
<1>2. CASE Finishes(g) /\ UNCHANGED flips
  <2>1. TypeOK'
    BY <1>1, <1>2, FinishesType DEF TypeOK, hostVars
  <2>2. /\ stage'[g] = "idle"
        /\ \A h \in Guests \ {g} : stage'[h] = stage[h] /\ req'[h] = req[h]
    BY <1>2 DEF Finishes, TypeOK
  <2> QED  BY <1>1, <2>1, <2>2, Quiet DEF InTransfer
<1>3. CASE /\ Retries(g)
           /\ IF req[g].op = "Write" THEN Crosses(g, req[g].data)
                                     ELSE UNCHANGED <<wire, flips>>
  <2>1. req[g] \in Reqs /\ req[g].data \in Sector
    BY <1>1 DEF Commands, Reqs
  <2>2. wire' \in [Guests -> Sector] /\ flips' \in Nat
    BY <1>3, <2>1, CrossesType DEF TypeOK
  <2>3. TypeOK'
    BY <1>1, <1>3, <2>2, RetriesType DEF TypeOK, hostVars
  <2>4. /\ stage'[g] = "asked" /\ req'[g] \in Reqs
        /\ \A h \in Guests \ {g} : stage'[h] = stage[h] /\ req'[h] = req[h]
    BY <1>3, <2>1 DEF Retries, TypeOK
  <2> QED  BY <1>1, <2>3, <2>4, Quiet DEF InTransfer
<1> QED  BY <1>2, <1>3 DEF GuestStatus

\* A damaged write is turned down.
LEMMA HandleWriteCrcInv ==
  ASSUME DiskInv, NEW g \in Guests, HandleWriteCrc(g)
  PROVE  DiskInv'
<1> USE DiskAssumption DEF DiskInv
<1>1. TypeOK'
  BY DEF HandleWriteCrc, Fails, hostVars, guestVars, TypeOK, Stages
<1>2. Opened'
  BY DEF HandleWriteCrc, Fails, hostVars, guestVars, TypeOK, Opened
<1>3. Commands'
  BY DEF HandleWriteCrc, Fails, hostVars, guestVars, TypeOK, Commands, InTransfer
<1>4. MutexExact'
  BY DEF HandleWriteCrc, Fails, hostVars, guestVars, TypeOK, MutexExact
<1>5. SeekStands'
  BY DEF HandleWriteCrc, Fails, hostVars, guestVars, TypeOK, SeekStands
<1> QED  BY <1>1, <1>2, <1>3, <1>4, <1>5

\* A session finds a disk and checks the range, or answers at once.
LEMMA FindDiskInv ==
  ASSUME DiskInv, NEW g \in Guests, FindDisk(g)
  PROVE  DiskInv'
<1> USE DEF DiskInv
<1> DEFINE d == drives[req[g].slot]
<1>1. /\ stage[g] = "asked" /\ using[g] = NoDisk
      /\ UNCHANGED <<hostVars, req, wire, accepted, asks, flips, faults>>
  BY DEF FindDisk, Commands, InTransfer
<1>2. req[g] \in Reqs /\ req[g].slot \in Slots /\ req[g].lsn \in LsnBytes
  BY <1>1 DEF Commands, Reqs
<1>3. CASE UNCHANGED using /\ (Fails(g, "NotReady") \/ Fails(g, "Write"))
  <2>1. TypeOK'
    BY <1>1, <1>3 DEF Fails, TypeOK, Stages, hostVars
  <2>2. /\ stage'[g] \in {"status", "reply"}
        /\ \A h \in Guests \ {g} : stage'[h] = stage[h]
    BY <1>3 DEF Fails, TypeOK
  <2> QED  BY <1>1, <1>2, <1>3, <2>1, <2>2, Quiet DEF InTransfer
<1>4. CASE /\ d # NoDisk
           /\ FromBe3(req[g].lsn) < SectorCount
           /\ using' = [using EXCEPT ![g] = d]
           /\ stage' = [stage EXCEPT ![g] = "lock"]
           /\ UNCHANGED <<sector, status>>
  <2>1. d \in Disks /\ disk[d] # NoFile
    BY <1>2, <1>4 DEF TypeOK, Opened
  <2>2. FromBe3(req[g].lsn) \in Lsns
    BY <1>2, <1>4, LsnAgrees, DiskAssumption DEF Lsns
  <2> HIDE DEF d
  <2>3. TypeOK'
    BY <1>1, <1>4, <2>1 DEF TypeOK, Stages, hostVars
  <2>4. Opened'
    BY <1>1, <1>4, <2>1 DEF TypeOK, Opened, hostVars
  <2>5. Commands'
    <3> SUFFICES ASSUME NEW h \in Guests
                 PROVE  /\ stage'[h] # "idle" => req'[h] \in Reqs
                        /\ stage'[h] \in InTransfer <=> using'[h] # NoDisk
                        /\ stage'[h] \in InTransfer => FromBe3(req'[h].lsn) \in Lsns
      BY DEF Commands
    <3>1. CASE h = g
      BY <1>1, <1>2, <1>4, <2>1, <2>2, <3>1, DiskAssumption DEF TypeOK, InTransfer
    <3>2. CASE h # g
      BY <1>1, <1>4, <3>2 DEF TypeOK, Commands
    <3> QED  BY <3>1, <3>2
  <2>6. MutexExact'
    BY <1>1, <1>4, <2>1 DEF TypeOK, MutexExact, hostVars
  <2>7. SeekStands'
    BY <1>1, <1>4 DEF TypeOK, SeekStands, hostVars
  <2> QED  BY <2>3, <2>4, <2>5, <2>6, <2>7
<1> QED  BY <1>3, <1>4 DEF FindDisk

\* A session takes a free mutex.
LEMMA LockFileInv ==
  ASSUME DiskInv, NEW g \in Guests, LockFile(g)
  PROVE  DiskInv'
<1> USE DiskAssumption DEF DiskInv
<1>1. TypeOK'
  BY DEF LockFile, hostVars, guestVars, TypeOK, Stages
<1>2. Opened'
  BY DEF LockFile, hostVars, guestVars, TypeOK, Opened
<1>3. Commands'
  BY DEF LockFile, hostVars, guestVars, TypeOK, Commands, InTransfer
<1>4. MutexExact'
  BY DEF LockFile, hostVars, guestVars, TypeOK, MutexExact
<1>5. SeekStands'
  BY DEF LockFile, hostVars, guestVars, TypeOK, SeekStands
<1> QED  BY <1>1, <1>2, <1>3, <1>4, <1>5

\* A session that holds the mutex moves the offset, which nobody else is
\* relying on.
LEMMA SeekInv ==
  ASSUME DiskInv, NEW g \in Guests, Seek(g)
  PROVE  DiskInv'
<1> USE DEF DiskInv
<1>1. /\ stage[g] = "locked"
      /\ offset' = [offset EXCEPT ![using[g]] = FromBe3(req[g].lsn)]
      /\ stage' = [stage EXCEPT ![g] = "seeked"]
      /\ UNCHANGED <<drives, disk, holder, image, mounting, req, wire, using,
                     sector, status, accepted, asks, flips, faults>>
  BY DEF Seek
<1>2. using[g] \in Disks /\ holder[using[g]] = g
  <2>1. using[g] \in Disks
    BY <1>1 DEF TypeOK, Commands, InTransfer
  <2> QED  BY <1>1, <2>1 DEF MutexExact
<1>3. /\ FromBe3(req[g].lsn) \in Lsns
      /\ FromBe3(req[g].lsn) = LsnValue(req[g].lsn)
  <2>1. FromBe3(req[g].lsn) \in Lsns /\ req[g].lsn \in LsnBytes
    BY <1>1 DEF Commands, InTransfer, Reqs
  <2> QED  BY <2>1, LsnAgrees
<1>4. offset' \in [Disks -> 0..SectorCount]
  <2>1. FromBe3(req[g].lsn) \in 0..SectorCount
    BY <1>3, DiskAssumption DEF Lsns
  <2> QED  BY <1>1, <1>2, <2>1 DEF TypeOK
<1>5. TypeOK'
  BY <1>1, <1>4 DEF TypeOK, Stages
<1>6. Opened'
  BY <1>1 DEF Opened
<1>7. Commands'
  BY <1>1 DEF TypeOK, Commands, InTransfer
<1>8. MutexExact'
  BY <1>1 DEF TypeOK, MutexExact
<1>9. SeekStands'
  <2> SUFFICES ASSUME NEW h \in Guests, stage'[h] = "seeked"
               PROVE  offset'[using[h]] = LsnValue(req[h].lsn)
    BY <1>1 DEF SeekStands
  <2>1. CASE h = g
    BY <1>1, <1>2, <1>3, <2>1 DEF TypeOK
  <2>2. CASE h # g
    <3>1. stage[h] = "seeked"
      BY <1>1, <2>2 DEF TypeOK
    <3>2. using[h] \in Disks
      BY <3>1 DEF TypeOK, Commands, InTransfer
    <3>3. holder[using[h]] = h
      BY <3>1, <3>2 DEF MutexExact
    <3>4. offset'[using[h]] = offset[using[h]]
      BY <1>1, <1>2, <2>2, <3>2, <3>3 DEF TypeOK
    <3> QED  BY <3>1, <3>4 DEF SeekStands
  <2> QED  BY <2>1, <2>2
<1> QED  BY <1>5, <1>6, <1>7, <1>8, <1>9

\* A session reads where it has seeked, and lets go of the disk.
LEMMA ReadSectorInv ==
  ASSUME DiskInv, NEW g \in Guests, ReadSector(g)
  PROVE  DiskInv'
<1> USE DEF DiskInv
<1>1. /\ stage[g] = "seeked" /\ req[g].op # "Write" /\ Transferred(g)
      /\ image' = image
  BY DEF ReadSector
<1>2. stage' = [stage EXCEPT ![g] = "reply"]
  BY <1>1 DEF ReadSector, Fails
<1>3. stage' \in [Guests -> Stages] /\ stage'[g] = "reply"
  BY <1>2 DEF TypeOK, Stages
<1>4. \A h \in Guests \ {g} : stage'[h] = stage[h]
  BY <1>2 DEF TypeOK
<1>5. image[disk[using[g]]][offset[using[g]]] \in Sector
  BY <1>1, SeekedPlace DEF TypeOK
<1>6. /\ sector' \in [Guests -> Sector]
      /\ status' \in [Guests -> {"none", "ok", "Crc", "Write", "NotReady"}]
      /\ faults' \in Nat
  <2>1. CASE /\ sector' = [sector EXCEPT ![g] = image[disk[using[g]]][offset[using[g]]]]
             /\ UNCHANGED <<status, faults>>
    BY <1>5, <2>1 DEF TypeOK
  <2>2. CASE faults' = faults + 1 /\ Fails(g, "none")
    BY <2>2 DEF TypeOK, Fails
  <2> QED  BY <2>1, <2>2 DEF ReadSector
<1>7. /\ Opened' /\ Commands' /\ MutexExact' /\ SeekStands'
      /\ holder' \in [Disks -> Guests \cup {NoGuest}]
      /\ offset' \in [Disks -> 0..SectorCount]
      /\ using' \in [Guests -> Disks \cup {NoDisk}]
  BY <1>1, <1>3, <1>4, TransferredInv
<1>8. TypeOK'
  BY <1>1, <1>3, <1>6, <1>7 DEF TypeOK, Transferred
<1> QED  BY <1>7, <1>8

\* A session writes where it has seeked, and lets go of the disk.
LEMMA WriteSectorInv ==
  ASSUME DiskInv, NEW g \in Guests, WriteSector(g)
  PROVE  DiskInv'
<1> USE DEF DiskInv
<1> DEFINE f == disk[using[g]]
           l == offset[using[g]]
<1>1. stage[g] = "seeked" /\ req[g].op = "Write" /\ Transferred(g)
  BY DEF WriteSector
<1>2. f \in Files /\ l \in Lsns /\ wire[g] \in Sector /\ image[f][l] \in Sector
  BY <1>1, SeekedPlace DEF TypeOK
<1>3. /\ stage' = [stage EXCEPT ![g] = "status"]
      /\ sector' = sector
      /\ status' = [status EXCEPT ![g] = "ok"] \/ status' = [status EXCEPT ![g] = "Write"]
      /\ faults' = faults \/ faults' = faults + 1
      /\ \E s \in Sector : image' = [image EXCEPT ![f][l] = s]
  <2>1. CASE /\ image' = [image EXCEPT ![f][l] = wire[g]]
             /\ status' = [status EXCEPT ![g] = "ok"]
             /\ stage' = [stage EXCEPT ![g] = "status"]
             /\ UNCHANGED <<sector, faults>>
    BY <1>2, <2>1
  <2>2. CASE /\ faults' = faults + 1
             /\ \E n \in 0..SectorSize :
                  image' = [image EXCEPT ![f][l] = Torn(@, wire[g], n)]
             /\ Fails(g, "Write")
    <3>1. PICK n \in 0..SectorSize :
                 image' = [image EXCEPT ![f][l] = Torn(image[f][l], wire[g], n)]
      BY <2>2
    <3>2. Torn(image[f][l], wire[g], n) \in Sector
      BY <1>2, SectorTypes
    <3>3. \E s \in Sector : image' = [image EXCEPT ![f][l] = s]
      BY <3>1, <3>2
    <3>4. /\ stage' = [stage EXCEPT ![g] = "status"]
          /\ sector' = sector
          /\ status' = [status EXCEPT ![g] = "Write"]
      BY <1>1, <2>2 DEF Fails
    <3> QED  BY <2>2, <3>3, <3>4
  <2> QED  BY <2>1, <2>2 DEF WriteSector
<1> HIDE DEF f, l
<1>4. PICK s \in Sector : image' = [image EXCEPT ![f][l] = s]
  BY <1>3
<1>5. image' \in [Files -> [Lsns -> Sector]]
  BY <1>2, <1>4 DEF TypeOK
<1>6. /\ stage' \in [Guests -> Stages] /\ stage'[g] = "status"
      /\ sector' \in [Guests -> Sector]
      /\ status' \in [Guests -> {"none", "ok", "Crc", "Write", "NotReady"}]
      /\ faults' \in Nat
      /\ \A h \in Guests \ {g} : stage'[h] = stage[h]
  BY <1>3 DEF TypeOK, Stages
<1>7. /\ Opened' /\ Commands' /\ MutexExact' /\ SeekStands'
      /\ holder' \in [Disks -> Guests \cup {NoGuest}]
      /\ offset' \in [Disks -> 0..SectorCount]
      /\ using' \in [Guests -> Disks \cup {NoDisk}]
  BY <1>1, <1>6, TransferredInv
<1>8. TypeOK'
  BY <1>1, <1>5, <1>6, <1>7 DEF TypeOK, Transferred
<1> QED  BY <1>7, <1>8

\* The server compares the checksum of a READEX.
LEMMA HandleReadExSumInv ==
  ASSUME DiskInv, NEW g \in Guests, HandleReadExSum(g)
  PROVE  DiskInv'
<1> USE DiskAssumption DEF DiskInv
<1>1. TypeOK'
  BY DEF HandleReadExSum, hostVars, guestVars, TypeOK, Stages
<1>2. Opened'
  BY DEF HandleReadExSum, hostVars, guestVars, TypeOK, Opened
<1>3. Commands'
  BY DEF HandleReadExSum, hostVars, guestVars, TypeOK, Commands, InTransfer
<1>4. MutexExact'
  BY DEF HandleReadExSum, hostVars, guestVars, TypeOK, MutexExact
<1>5. SeekStands'
  BY DEF HandleReadExSum, hostVars, guestVars, TypeOK, SeekStands
<1> QED  BY <1>1, <1>2, <1>3, <1>4, <1>5

-----------------------------------------------------------------------------
\* No step of a guest, a session or a control connection breaks DiskInv.
LEMMA DiskStep == DiskInv /\ [Next]_vars => DiskInv'
<1> SUFFICES ASSUME DiskInv, [Next]_vars PROVE DiskInv'
  OBVIOUS
<1>1. ASSUME NEW g \in Guests, Guest(g) PROVE DiskInv'
  BY <1>1, GuestAsksInv, GuestReceivesInv, GuestVerifiesInv, GuestStatusInv DEF Guest
<1>2. ASSUME NEW g \in Guests, Session(g) PROVE DiskInv'
  BY <1>2, HandleWriteCrcInv, FindDiskInv, LockFileInv, SeekInv, ReadSectorInv,
     WriteSectorInv, HandleReadExSumInv DEF Session
<1>3. ASSUME NEW k \in Controls, Control(k) PROVE DiskInv'
  BY <1>3, MountOpenInv, MountInv, UnmountInv DEF Control
<1>4. CASE UNCHANGED vars
  BY <1>4 DEF vars, hostVars, guestVars, DiskInv, TypeOK, Opened, Commands,
              MutexExact, SeekStands
<1> QED  BY <1>1, <1>2, <1>3, <1>4 DEF Next

\* The inductive invariant behind the theorems below.
THEOREM DiskInvariant == Spec => []DiskInv
<1> QED  BY InitInv, DiskStep, PTL DEF Spec

\* Every reachable state is well typed: in particular no transfer takes place
\* past the end of a file and no image ever holds anything but sectors.
THEOREM DiskTypes == Spec => []TypeOK
<1>1. DiskInv => TypeOK
  BY DEF DiskInv
<1> QED  BY <1>1, DiskInvariant, PTL

\* The mutex of an open file is held exactly by the one session between
\* taking it and the end of its transfer, whatever is mounted meanwhile.
THEOREM DiskMutex == Spec => []MutexExact
<1>1. DiskInv => MutexExact
  BY DEF DiskInv
<1> QED  BY <1>1, DiskInvariant, PTL

\* Between its seek and its transfer a session's offset is the sector its
\* command names.
THEOREM SeekNeverMoves == Spec => []SeekStands
<1>1. DiskInv => SeekStands
  BY DEF DiskInv
<1> QED  BY <1>1, DiskInvariant, PTL

\* A step changes a sector of an image only if it is the transfer of a WRITE
\* that names it.
LEMMA ImageStep ==
  ASSUME DiskInv, [Next]_vars, NEW f \in Files, NEW l \in Lsns,
         image'[f][l] # image[f][l]
  PROVE  \E g \in Guests : /\ stage[g] = "seeked"
                           /\ req[g].op = "Write"
                           /\ LsnValue(req[g].lsn) = l
                           /\ FileOf(using[g]) = f
<1>1. PICK g \in Guests : WriteSector(g)
  <2>1. ASSUME NEW g \in Guests, Guest(g) PROVE image' = image
    BY <2>1 DEF Guest, GuestAsks, GuestReceives, GuestVerifies, GuestStatus, hostVars
  <2>2. ASSUME NEW g \in Guests, Session(g), ~WriteSector(g) PROVE image' = image
    BY <2>2 DEF Session, HandleWriteCrc, FindDisk, LockFile, Seek, ReadSector,
                HandleReadExSum, hostVars
  <2>3. ASSUME NEW k \in Controls, Control(k) PROVE image' = image
    BY <2>3 DEF Control, MountOpen, Mount, Unmount
  <2>4. CASE UNCHANGED vars
    BY <2>4 DEF vars, hostVars
  <2> QED  BY <2>1, <2>2, <2>3, <2>4 DEF Next
<1>2. stage[g] = "seeked" /\ req[g].op = "Write"
  BY <1>1 DEF WriteSector
<1>3. using[g] \in Disks /\ disk[using[g]] \in Files /\ offset[using[g]] \in Lsns
  BY <1>2, SeekedPlace
<1>4. offset[using[g]] = LsnValue(req[g].lsn)
  BY <1>2 DEF DiskInv, SeekStands
<1>5. \E s : image' = [image EXCEPT ![disk[using[g]]][offset[using[g]]] = s]
  BY <1>1 DEF WriteSector
<1>6. disk[using[g]] = f /\ offset[using[g]] = l
  BY <1>3, <1>5 DEF DiskInv, TypeOK
<1>7. FileOf(using[g]) = f
  BY <1>3, <1>6, DiskAssumption DEF FileOf
<1> QED  BY <1>2, <1>4, <1>6, <1>7

\* Writes land where their commands say, for any number of sessions sharing
\* disks and whatever is mounted and unmounted between lookup and transfer.
THEOREM WritesNeverStray == Spec => WritesLand
<1>1. DiskInv /\ [Next]_vars =>
        [\A f \in Files, l \in Lsns :
           image'[f][l] # image[f][l] =>
             \E g \in Guests :
               /\ stage[g] = "seeked"
               /\ req[g].op = "Write"
               /\ LsnValue(req[g].lsn) = l
               /\ FileOf(using[g]) = f]_vars
  BY ImageStep
<1> QED  BY <1>1, DiskInvariant, PTL DEF Spec, WritesLand

-----------------------------------------------------------------------------
(* What the checksum detects *)

\* 16-bit numbers and wrapping_add.
Sums == {n \in Nat : n < 65536}
Add16(x, y) == (x + y) % 65536

Picked(A) == CHOOSE x \in A : TRUE

\* The recursion behind checksum16 ...
PartialAt(s, f, A) ==
  IF A = {} THEN 0 ELSE Add16(s[Picked(A)], f[A \ {Picked(A)}])

Partial(s, f) == [A \in SUBSET (1..SectorSize) |-> PartialAt(s, f, A)]

\* ... and its solution: the sum of the bytes at a set of positions.
SumAt(s) == CHOOSE f : f = Partial(s, f)

Adds(s, f) ==
  /\ f[{}] = 0
  /\ \A A \in SUBSET (1..SectorSize) : A # {} =>
       Picked(A) \in A /\ f[A] = Add16(s[Picked(A)], f[A \ {Picked(A)}])

\* The checksum of a sector is the sum at all of its positions.
LEMMA ChecksumSum ==
  ASSUME NEW s \in Sector
  PROVE  Checksum16(s) = SumAt(s)[1..SectorSize]
<1>1. DOMAIN s = 1..SectorSize
  BY DEF Sector
<1> QED
  BY <1>1, SMT DEF Checksum16, FoldFunction, FoldFunctionOnSet, MapThenFoldSet,
                   SumAt, Partial, PartialAt, Picked, Add16

\* A byte of a sector is a number that fits eight bits.
LEMMA ByteRange ==
  ASSUME NEW s \in Sector, NEW i \in 1..SectorSize
  PROVE  s[i] \in Nat /\ s[i] < 256
<1>1. s[i] \in 0..255
  BY DiskAssumption DEF Sector
<1>2. \A n \in 0..255 : n \in Nat /\ n < 256
  OBVIOUS
<1> QED  BY <1>1, <1>2

\* Sums stay 16 bits wide.
LEMMA Add16Type ==
  \A x, y \in Nat : Add16(x, y) \in Sums
BY SMT DEF Add16, Sums

\* Every set has the element the recursion takes out.
LEMMA PickedIn == \A A : A # {} => Picked(A) \in A
BY Zenon DEF Picked

\* The recursion has a solution.
LEMMA SumExists ==
  ASSUME NEW s \in Sector
  PROVE  SumAt(s) = Partial(s, SumAt(s))
<1> DEFINE N == SectorSize
           pick == [A \in SUBSET (1..N) |-> Picked(A)]
           step == [x \in 1..N |-> [t \in Sums |-> Add16(s[x], t)]]
<1>1. N \in Nat /\ 0 \in Sums
  BY DiskAssumption, SMT DEF Sums
<1>2. \A x \in 1..N, t \in Sums : Add16(s[x], t) \in Sums
  <2>1. \A t \in Sums : t \in Nat
    BY SMT DEF Sums
  <2> QED  BY <2>1, Add16Type, ByteRange, SMT
<1>3. Picks(pick, N) /\ Combines(step, N, Sums)
  <2>1. Picks(pick, N)
    BY PickedIn DEF Picks
  <2>2. Combines(step, N, Sums)
    BY <1>2, SMT DEF Combines
  <2> QED  BY <2>1, <2>2
<1>4. PICK f \in [SUBSET (1..N) -> Sums] : Folds(f, 0, pick, step, N)
  <2> HIDE DEF N, pick, step
  <2> QED  BY <1>1, <1>3, FoldExists
<1>5. ASSUME NEW A \in SUBSET (1..N), A # {}
      PROVE  f[A] = Add16(s[Picked(A)], f[A \ {Picked(A)}])
  <2>1. pick[A] = Picked(A) /\ Picked(A) \in 1..N
    BY <1>5, PickedIn
  <2>2. A \ {Picked(A)} \in SUBSET (1..N)
    OBVIOUS
  <2>3. f[A \ {Picked(A)}] \in Sums
    BY <2>2
  <2>4. f[A] = step[pick[A]][f[A \ {pick[A]}]]
    <3> HIDE DEF pick, step, N
    <3> QED  BY <1>4, <1>5, Zenon DEF Folds
  <2> QED  BY <2>1, <2>3, <2>4, SMT
<1>6. f[{}] = 0
  <2> HIDE DEF pick, step, N
  <2> QED  BY <1>4, SMT DEF Folds
<1>7. f = Partial(s, f)
  <2>1. PICK g : g = Partial(s, f)
    OBVIOUS
  <2>2. g = [A \in SUBSET (1..N) |-> g[A]]
    BY <2>1, SMT DEF Partial
  <2>3. ASSUME NEW A \in SUBSET (1..N) PROVE f[A] = g[A]
    <3>1. g[A] = PartialAt(s, f, A)
      BY <2>1, SMT DEF Partial
    <3>2. CASE A = {}
      BY <1>6, <3>1, <3>2, SMT DEF PartialAt
    <3>3. CASE A # {}
      BY <1>5, <3>1, <3>3, SMT DEF PartialAt
    <3> QED  BY <3>2, <3>3
  <2>4. f = [A \in SUBSET (1..N) |-> f[A]]
    BY SMT
  <2>5. [A \in SUBSET (1..N) |-> f[A]] = [A \in SUBSET (1..N) |-> g[A]]
    BY <2>3, SMT
  <2> QED  BY <2>1, <2>2, <2>4, <2>5, Zenon
<1> QED
  BY <1>7, Zenon DEF SumAt

\* The sums are 16 bits wide and grow by a byte at a time.
LEMMA SumStep ==
  ASSUME NEW s \in Sector, NEW f, f = SumAt(s)
  PROVE  /\ Adds(s, f)
         /\ \A A \in SUBSET (1..SectorSize) : f[A] \in Sums
<1>1. PICK g : g = Partial(s, f)
  OBVIOUS
<1>2. \A A \in SUBSET (1..SectorSize) : g[A] = PartialAt(s, f, A)
  BY <1>1, SMT DEF Partial
<1>3. f = g
  BY <1>1, SumExists, Zenon
<1>4. \A A \in SUBSET (1..SectorSize) : f[A] = PartialAt(s, f, A)
  BY <1>2, <1>3, Zenon
<1>5. Adds(s, f)
  <2>1. f[{}] = 0
    BY <1>4, SMT DEF PartialAt
  <2>2. ASSUME NEW A \in SUBSET (1..SectorSize), A # {}
        PROVE  Picked(A) \in A /\ f[A] = Add16(s[Picked(A)], f[A \ {Picked(A)}])
    <3>1. Picked(A) \in A
      BY <2>2, PickedIn
    <3>2. f[A] = PartialAt(s, f, A)
      BY <1>4, Zenon
    <3>3. PartialAt(s, f, A) = Add16(s[Picked(A)], f[A \ {Picked(A)}])
      BY <2>2, Zenon DEF PartialAt
    <3> QED  BY <3>1, <3>2, <3>3, Zenon
  <2> QED  BY <2>1, <2>2, SMT DEF Adds
<1> DEFINE Q == {A \in SUBSET (1..SectorSize) : f[A] \in Sums}
<1>6. {} \in Q
  BY <1>5, SMT DEF Sums, Adds
<1>7. ASSUME NEW A \in SUBSET (1..SectorSize), A # {}, A \ {Picked(A)} \in Q
      PROVE  A \in Q
  <2>1. Picked(A) \in A /\ f[A] = Add16(s[Picked(A)], f[A \ {Picked(A)}])
    BY <1>5, <1>7, Zenon DEF Adds
  <2>2. s[Picked(A)] \in Nat
    BY <2>1, ByteRange
  <2>3. f[A \ {Picked(A)}] \in Nat
    BY <1>7, SMT DEF Sums
  <2>4. f[A] \in Sums
    BY <2>1, <2>2, <2>3, Add16Type, SMT
  <2> QED  BY <2>4
<1>8. \A A \in SUBSET (1..SectorSize) : A \in Q
  <2> HIDE DEF Q
  <2>1. \A A \in SUBSET (1..SectorSize) : A # {} => \E x \in A : A \ {x} \in Q => A \in Q
    BY <1>7, PickedIn, Zenon
  <2> QED  BY <1>6, <2>1, SubsetInduction, DiskAssumption
<1>9. \A A \in SUBSET (1..SectorSize) : f[A] \in Sums
  BY <1>8
<1> QED
  BY <1>5, <1>9, SMT

\* Two sums that differ by a difference of bytes keep doing so.
LEMMA Add16Laws ==
  /\ \A v, x, y \in Nat : x < 256 /\ y < 256 /\ Add16(v, x) = Add16(v, y) => x = y
  /\ \A v, x, y \in Nat : Add16(Add16(x, v), y) = Add16(Add16(y, v), x)
  /\ \A v, w, x, y, z \in Nat : Add16(v, x) = Add16(w, y) =>
       Add16(Add16(z, v), x) = Add16(Add16(z, w), y)
BY SMT DEF Add16

\* checksum16 tells sectors that differ in one byte apart.
LEMMA ChecksumDetects ==
  ASSUME NEW s \in Sector, NEW t \in Sector, NEW i \in 1..SectorSize,
         \A j \in 1..SectorSize : j # i => t[j] = s[j],
         Checksum16(t) = Checksum16(s)
  PROVE  t = s
<1>1. PICK S : S = SumAt(s)
  OBVIOUS
<1>2. PICK R : R = SumAt(t)
  OBVIOUS
<1>3. /\ Adds(s, S) /\ \A A \in SUBSET (1..SectorSize) : S[A] \in Sums
      /\ Adds(t, R) /\ \A A \in SUBSET (1..SectorSize) : R[A] \in Sums
  BY <1>1, <1>2, SumStep
<1> DEFINE Off(A) == IF i \in A THEN Add16(S[A], t[i]) = Add16(R[A], s[i])
                                ELSE S[A] = R[A]
           Q == {A \in SUBSET (1..SectorSize) : Off(A)}
<1>4. {} \in Q
  BY <1>3, SMT DEF Adds
<1>5. ASSUME NEW A \in SUBSET (1..SectorSize), A # {}, A \ {Picked(A)} \in Q
      PROVE  A \in Q
  <2> DEFINE p == Picked(A)
             B == A \ {p}
  <2>1. p \in A /\ p \in 1..SectorSize /\ B \in SUBSET (1..SectorSize)
    BY <1>5, PickedIn
  <2>2. S[A] = Add16(s[p], S[B]) /\ R[A] = Add16(t[p], R[B])
    BY <1>3, <1>5, SMT DEF Adds
  <2>3. S[B] \in Nat /\ R[B] \in Nat
    BY <1>3, <2>1, SMT DEF Sums
  <2>4. Off(B)
    BY <1>5
  <2>5. s[p] \in Nat /\ t[p] \in Nat /\ s[i] \in Nat /\ t[i] \in Nat
    BY <2>1, ByteRange
  <2>6. (i \in A <=> i \in B \/ p = i) /\ ~(i \in B /\ p = i)
    BY <2>1
  <2> HIDE DEF p, B
  <2>7. CASE p = i
    BY <2>2, <2>3, <2>4, <2>5, <2>6, <2>7, Add16Laws, SMT
  <2>8. CASE p # i /\ i \in B
    <3>1. t[p] = s[p]
      BY <2>1, <2>8
    <3> QED  BY <2>2, <2>3, <2>4, <2>5, <2>6, <2>8, <3>1, Add16Laws, SMT
  <2>9. CASE p # i /\ i \notin B
    <3>1. t[p] = s[p]
      BY <2>1, <2>9
    <3> QED  BY <2>2, <2>4, <2>6, <2>9, <3>1, SMT
  <2> QED  BY <2>7, <2>8, <2>9
<1>6. \A A \in SUBSET (1..SectorSize) : A \in Q
  <2> HIDE DEF Q
  <2>1. \A A \in SUBSET (1..SectorSize) : A # {} => \E x \in A : A \ {x} \in Q => A \in Q
    BY <1>5, PickedIn, Zenon
  <2> QED  BY <1>4, <2>1, SubsetInduction, DiskAssumption
<1>7. Off(1..SectorSize)
  BY <1>6
<1>8. S[1..SectorSize] = R[1..SectorSize]
  BY <1>1, <1>2, ChecksumSum
<1>9. S[1..SectorSize] \in Nat
  <2>1. 1..SectorSize \in SUBSET (1..SectorSize)
    OBVIOUS
  <2>2. S[1..SectorSize] \in Sums
    BY <1>3, <2>1, Zenon
  <2> QED  BY <2>2 DEF Sums
<1>10. s[i] \in Nat /\ s[i] < 256 /\ t[i] \in Nat /\ t[i] < 256
  BY ByteRange
<1>11. t[i] = s[i]
  <2>1. Add16(S[1..SectorSize], t[i]) = Add16(S[1..SectorSize], s[i])
    BY <1>7, <1>8
  <2> QED  BY <1>9, <1>10, <2>1, Add16Laws
<1>12. \A j \in 1..SectorSize : t[j] = s[j]
  BY <1>11
<1>13. /\ t = [j \in 1..SectorSize |-> t[j]]
       /\ s = [j \in 1..SectorSize |-> s[j]]
  BY DEF Sector
<1>14. [j \in 1..SectorSize |-> t[j]] = [j \in 1..SectorSize |-> s[j]]
  BY <1>12
<1> QED
  BY <1>13, <1>14, Zenon

-----------------------------------------------------------------------------
(* Disk implements DiskService *)

\* s and t differ in one byte at most.
OneOff(s, t) ==
  \E i \in 1..SectorSize : \A j \in 1..SectorSize : j # i => t[j] = s[j]

\* What the line has done to the sector of a guest's command: at most one byte
\* of it is damaged, and none once a checksum has been compared and found
\* equal. A guest has no command, no answer and no status but when it should.
Arrival(g) ==
  /\ stage[g] = "idle" => req[g] = NoReq
  /\ stage[g] \notin {"reply", "received", "status"} => sector[g] = Zero
  /\ stage[g] # "status" => status[g] = "none"
  /\ stage[g] \in {"reply", "received"} => req[g].op # "Write"
  /\ stage[g] = "received" => OneOff(sector[g], wire[g])
  /\ stage[g] = "asked" /\ req[g].op = "Write" => OneOff(req[g].data, wire[g])
  /\ stage[g] \in InTransfer /\ req[g].op = "Write" => wire[g] = req[g].data
  /\ stage[g] = "status" =>
       /\ req[g].op # "Read"
       /\ req[g].op = "Write" => sector[g] = Zero
       /\ req[g].op = "ReadEx" /\ status[g] # "Crc" => wire[g] = sector[g]

Arrived == \A g \in Guests : Arrival(g)

RefInv == DiskInv /\ Arrived

\* A sector that crossed the line differs in one byte at most.
LEMMA CrossesOneOff ==
  ASSUME TypeOK, NEW g \in Guests, NEW s \in Sector, Crosses(g, s)
  PROVE  /\ OneOff(s, wire'[g])
         /\ \A h \in Guests \ {g} : wire'[h] = wire[h]
<1>1. wire \in [Guests -> Sector] /\ 1 \in 1..SectorSize
  BY DiskAssumption DEF TypeOK
<1>2. CASE wire' = [wire EXCEPT ![g] = s]
  BY <1>1, <1>2 DEF OneOff
<1>3. CASE \E i \in 1..SectorSize : \E b \in Bytes \ {s[i]} :
             wire' = [wire EXCEPT ![g] = [s EXCEPT ![i] = b]]
  <2>1. PICK i \in 1..SectorSize, b \in Bytes :
              wire' = [wire EXCEPT ![g] = [s EXCEPT ![i] = b]]
    BY <1>3
  <2>2. PICK t : t = [s EXCEPT ![i] = b]
    OBVIOUS
  <2>3. \A j \in 1..SectorSize : j # i => t[j] = s[j]
    BY <2>2 DEF Sector
  <2>4. wire'[g] = t /\ \A h \in Guests \ {g} : wire'[h] = wire[h]
    BY <1>1, <2>1, <2>2
  <2> QED  BY <2>3, <2>4 DEF OneOff
<1> QED  BY <1>2, <1>3 DEF Crosses

\* A sector that differs in one byte at most and has the right checksum is the
\* right sector.
LEMMA ChecksumCatches ==
  ASSUME NEW s \in Sector, NEW t \in Sector, OneOff(s, t),
         Checksum16(t) = Checksum16(s)
  PROVE  t = s
<1>1. PICK i \in 1..SectorSize : \A j \in 1..SectorSize : j # i => t[j] = s[j]
  BY DEF OneOff
<1> QED  BY <1>1, ChecksumDetects

\* The other guests' sectors are left alone.
LEMMA OthersArrival ==
  ASSUME Arrived, NEW g \in Guests,
         stage'[g] = stage[g], req'[g] = req[g], wire'[g] = wire[g],
         sector'[g] = sector[g], status'[g] = status[g]
  PROVE  Arrival(g)'
<1>1. Arrival(g)
  BY DEF Arrived
<1> QED  BY <1>1 DEF Arrival, OneOff

\* A step that is about guest g.
LEMMA ArrivedStep ==
  ASSUME Arrived, NEW g \in Guests, Arrival(g)',
         \A h \in Guests \ {g} :
           /\ stage'[h] = stage[h] /\ req'[h] = req[h] /\ wire'[h] = wire[h]
           /\ sector'[h] = sector[h] /\ status'[h] = status[h]
  PROVE  Arrived'
<1> SUFFICES ASSUME NEW h \in Guests PROVE Arrival(h)'
  BY DEF Arrived
<1>1. CASE h = g
  BY <1>1
<1>2. CASE h # g
  BY <1>2, OthersArrival
<1> QED  BY <1>1, <1>2

-----------------------------------------------------------------------------
\* A new command has an untouched sector, but for one byte of a write.
LEMMA GuestAsksArrived ==
  ASSUME RefInv, NEW g \in Guests, GuestAsks(g)
  PROVE  Arrived'
<1>1. TypeOK /\ Arrival(g) /\ Arrived
  BY DEF RefInv, DiskInv, Arrived
<1>2. PICK o \in Ops, s \in Slots, b \in LsnBytes, x \in WriteData \cup {Zero} :
        /\ req' = [req EXCEPT ![g] = [op |-> o, slot |-> s, lsn |-> b, data |-> x]]
        /\ IF o = "Write" THEN Crosses(g, x) ELSE UNCHANGED <<wire, flips>>
  BY DEF GuestAsks
<1>3. x \in Sector
  BY SectorTypes
<1>4. /\ stage[g] = "idle" /\ stage'[g] = "asked"
      /\ sector' = sector /\ status' = status
      /\ \A h \in Guests \ {g} : stage'[h] = stage[h] /\ req'[h] = req[h]
      /\ req'[g].op = o /\ req'[g].data = x
  BY <1>1, <1>2 DEF GuestAsks, TypeOK
<1>5. /\ \A h \in Guests \ {g} : wire'[h] = wire[h]
      /\ o = "Write" => OneOff(x, wire'[g])
  BY <1>1, <1>2, <1>3, CrossesOneOff
<1>6. Arrival(g)'
  <2>1. sector'[g] = Zero /\ status'[g] = "none"
    BY <1>1, <1>4 DEF Arrival
  <2>2. req'[g].op = "Write" => OneOff(req'[g].data, wire'[g])
    BY <1>4, <1>5
  <2> QED  BY <1>4, <2>1, <2>2 DEF Arrival, OneOff, InTransfer
<1> QED  BY <1>1, <1>4, <1>5, <1>6, ArrivedStep

\* A sector that is read loses one byte at most on its way.
LEMMA GuestReceivesArrived ==
  ASSUME RefInv, NEW g \in Guests, GuestReceives(g)
  PROVE  Arrived'
<1>1. TypeOK /\ Arrival(g) /\ Arrived /\ sector[g] \in Sector
  BY DEF RefInv, DiskInv, Arrived, TypeOK
<1>2. /\ stage[g] = "reply" /\ stage'[g] = "received"
      /\ sector' = sector /\ status' = status /\ req' = req
      /\ \A h \in Guests \ {g} : stage'[h] = stage[h]
  BY <1>1 DEF GuestReceives, TypeOK
<1>3. /\ \A h \in Guests \ {g} : wire'[h] = wire[h]
      /\ OneOff(sector[g], wire'[g])
  BY <1>1, CrossesOneOff DEF GuestReceives
<1>4. Arrival(g)'
  BY <1>1, <1>2, <1>3 DEF Arrival, OneOff, InTransfer
<1> QED  BY <1>1, <1>2, <1>3, <1>4, ArrivedStep

\* A guest that is content or asks again starts from a clean state.
LEMMA FinishesArrived ==
  ASSUME TypeOK, Arrived, NEW g \in Guests, Finishes(g)
  PROVE  Arrived'
<1>1. /\ stage'[g] = "idle" /\ req'[g] = NoReq /\ sector'[g] = Zero /\ status'[g] = "none"
      /\ \A h \in Guests \ {g} :
           /\ stage'[h] = stage[h] /\ req'[h] = req[h] /\ wire'[h] = wire[h]
           /\ sector'[h] = sector[h] /\ status'[h] = status[h]
  BY DEF Finishes, TypeOK
<1>2. Arrival(g)'
  BY <1>1 DEF Arrival, InTransfer
<1> QED  BY <1>1, <1>2, ArrivedStep

\* A command that is asked again is as it was when it was new.
LEMMA RetriesArrived ==
  ASSUME TypeOK, Arrived, NEW g \in Guests, Retries(g),
         \A h \in Guests \ {g} : wire'[h] = wire[h],
         req[g].op = "Write" => OneOff(req[g].data, wire'[g])
  PROVE  Arrived'
<1>1. /\ stage'[g] = "asked" /\ req' = req /\ sector'[g] = Zero /\ status'[g] = "none"
      /\ \A h \in Guests \ {g} :
           stage'[h] = stage[h] /\ sector'[h] = sector[h] /\ status'[h] = status[h]
  BY DEF Retries, TypeOK
<1>2. Arrival(g)'
  BY <1>1 DEF Arrival, OneOff, InTransfer
<1> QED  BY <1>1, <1>2, ArrivedStep

\* The guest of a READ takes the sector or asks again.
LEMMA GuestVerifiesArrived ==
  ASSUME RefInv, NEW g \in Guests, GuestVerifies(g)
  PROVE  Arrived'
<1>1. TypeOK /\ Arrived
  BY DEF RefInv, DiskInv
<1>2. CASE Finishes(g)
  BY <1>1, <1>2, FinishesArrived
<1>3. CASE Retries(g) /\ UNCHANGED wire /\ req[g].op = "Read"
  BY <1>1, <1>3, RetriesArrived
<1> QED  BY <1>2, <1>3 DEF GuestVerifies

\* The guest of a READEX or a WRITE takes the status or asks again.
LEMMA GuestStatusArrived ==
  ASSUME RefInv, NEW g \in Guests, GuestStatus(g)
  PROVE  Arrived'
<1>1. TypeOK /\ Arrived
  BY DEF RefInv, DiskInv
<1>2. CASE Finishes(g)
  BY <1>1, <1>2, FinishesArrived
<1>3. CASE /\ Retries(g)
           /\ IF req[g].op = "Write" THEN Crosses(g, req[g].data)
                                     ELSE UNCHANGED <<wire, flips>>
  <2>1. stage[g] = "status"
    BY DEF GuestStatus
  <2>2. req[g].data \in Sector
    BY <2>1 DEF RefInv, DiskInv, Commands, Reqs
  <2>3. /\ \A h \in Guests \ {g} : wire'[h] = wire[h]
        /\ req[g].op = "Write" => OneOff(req[g].data, wire'[g])
    BY <1>1, <1>3, <2>2, CrossesOneOff
  <2> QED  BY <1>1, <1>3, <2>3, RetriesArrived
<1> QED  BY <1>2, <1>3 DEF GuestStatus

-----------------------------------------------------------------------------
\* A command that fails has no sector to send but zeros.
LEMMA FailsArrived ==
  ASSUME RefInv, NEW g \in Guests, NEW s, Fails(g, s),
         stage[g] \in {"asked", "seeked"}, UNCHANGED <<req, wire>>
  PROVE  Arrived'
<1>1. TypeOK /\ Arrival(g) /\ Arrived
  BY DEF RefInv, DiskInv, Arrived
<1>2. sector' = sector /\ sector[g] = Zero /\ status[g] = "none"
  BY <1>1 DEF Fails, Arrival
<1>3. \A h \in Guests \ {g} : stage'[h] = stage[h] /\ status'[h] = status[h]
  BY <1>1 DEF Fails, TypeOK
<1>4. Arrival(g)'
  <2>1. CASE req[g].op = "Write"
    <3>1. stage'[g] = "status"
      BY <1>1, <2>1 DEF Fails, TypeOK
    <3> QED  BY <1>2, <2>1, <3>1 DEF Arrival, InTransfer
  <2>2. CASE req[g].op # "Write"
    <3>1. stage'[g] = "reply" /\ status' = status
      BY <1>1, <2>2 DEF Fails, TypeOK
    <3> QED  BY <1>2, <2>2, <3>1 DEF Arrival, InTransfer
  <2> QED  BY <2>1, <2>2
<1> QED  BY <1>1, <1>2, <1>3, <1>4, ArrivedStep

\* Only a write whose checksum agrees goes on to the drive table.
LEMMA FindDiskArrived ==
  ASSUME RefInv, NEW g \in Guests, FindDisk(g)
  PROVE  Arrived'
<1>1. TypeOK /\ Arrival(g) /\ Arrived /\ stage[g] = "asked" /\ UNCHANGED <<req, wire>>
  BY DEF RefInv, DiskInv, Arrived, FindDisk
<1>2. CASE Fails(g, "NotReady") \/ Fails(g, "Write")
  BY <1>1, <1>2, FailsArrived
<1>3. CASE stage' = [stage EXCEPT ![g] = "lock"] /\ UNCHANGED <<sector, status>>
  <2>1. stage'[g] = "lock" /\ \A h \in Guests \ {g} : stage'[h] = stage[h]
    BY <1>1, <1>3 DEF TypeOK
  <2>2. req[g].op = "Write" => wire[g] = req[g].data
    <3> SUFFICES ASSUME req[g].op = "Write" PROVE wire[g] = req[g].data
      OBVIOUS
    <3>1. req[g].data \in Sector /\ wire[g] \in Sector
      BY <1>1 DEF RefInv, DiskInv, Commands, Reqs, TypeOK
    <3>2. OneOff(req[g].data, wire[g])
      BY <1>1 DEF Arrival
    <3>3. Checksum16(wire[g]) = Checksum16(req[g].data)
      BY DEF FindDisk
    <3> QED  BY <3>1, <3>2, <3>3, ChecksumCatches
  <2>3. Arrival(g)'
    BY <1>1, <1>3, <2>1, <2>2 DEF Arrival, InTransfer
  <2> QED  BY <1>1, <1>3, <2>1, <2>3, ArrivedStep
<1> QED  BY <1>2, <1>3 DEF FindDisk

\* Taking the mutex and seeking touch no sector on the line.
LEMMA LockSeekArrived ==
  ASSUME RefInv, NEW g \in Guests, LockFile(g) \/ Seek(g)
  PROVE  Arrived'
<1>1. TypeOK /\ Arrival(g) /\ Arrived
  BY DEF RefInv, DiskInv, Arrived
<1>2. /\ stage[g] \in InTransfer /\ stage'[g] \in InTransfer
      /\ \A h \in Guests \ {g} : stage'[h] = stage[h]
      /\ UNCHANGED <<req, wire, sector, status>>
  BY <1>1 DEF LockFile, Seek, TypeOK, InTransfer
<1>3. Arrival(g)'
  BY <1>1, <1>2 DEF Arrival, InTransfer
<1> QED  BY <1>1, <1>2, <1>3, ArrivedStep

\* A sector that was read is put into the reply.
LEMMA ReadSectorArrived ==
  ASSUME RefInv, NEW g \in Guests, ReadSector(g)
  PROVE  Arrived'
<1>1. TypeOK /\ Arrival(g) /\ Arrived
  BY DEF RefInv, DiskInv, Arrived
<1>2. stage[g] = "seeked" /\ req[g].op # "Write" /\ UNCHANGED <<req, wire>>
  BY DEF ReadSector, Transferred
<1>3. CASE /\ sector' = [sector EXCEPT ![g] = image[disk[using[g]]][offset[using[g]]]]
           /\ stage' = [stage EXCEPT ![g] = "reply"]
           /\ UNCHANGED status
  <2>1. /\ stage'[g] = "reply"
        /\ \A h \in Guests \ {g} : stage'[h] = stage[h] /\ sector'[h] = sector[h]
    BY <1>1, <1>3 DEF TypeOK
  <2>2. Arrival(g)'
    BY <1>1, <1>2, <1>3, <2>1 DEF Arrival, InTransfer
  <2> QED  BY <1>1, <1>2, <1>3, <2>1, <2>2, ArrivedStep
<1>4. CASE Fails(g, "none")
  BY <1>2, <1>4, FailsArrived
<1> QED  BY <1>3, <1>4 DEF ReadSector

\* A write that is done or has failed is answered with its status.
LEMMA WriteSectorArrived ==
  ASSUME RefInv, NEW g \in Guests, WriteSector(g)
  PROVE  Arrived'
<1>1. TypeOK /\ Arrival(g) /\ Arrived
  BY DEF RefInv, DiskInv, Arrived
<1>2. stage[g] = "seeked" /\ req[g].op = "Write" /\ UNCHANGED <<req, wire>>
  BY DEF WriteSector, Transferred
<1>3. CASE /\ status' = [status EXCEPT ![g] = "ok"]
           /\ stage' = [stage EXCEPT ![g] = "status"]
           /\ UNCHANGED sector
  <2>1. /\ stage'[g] = "status"
        /\ \A h \in Guests \ {g} : stage'[h] = stage[h] /\ status'[h] = status[h]
    BY <1>1, <1>3 DEF TypeOK
  <2>2. Arrival(g)'
    BY <1>1, <1>2, <1>3, <2>1 DEF Arrival, InTransfer
  <2> QED  BY <1>1, <1>2, <1>3, <2>1, <2>2, ArrivedStep
<1>4. CASE Fails(g, "Write")
  BY <1>2, <1>4, FailsArrived
<1> QED  BY <1>3, <1>4 DEF WriteSector

\* The sum of a READEX agrees only for the sector that was sent.
LEMMA HandleReadExSumArrived ==
  ASSUME RefInv, NEW g \in Guests, HandleReadExSum(g)
  PROVE  Arrived'
<1>1. TypeOK /\ Arrival(g) /\ Arrived /\ wire[g] \in Sector /\ sector[g] \in Sector
  BY DEF RefInv, DiskInv, Arrived, TypeOK
<1>2. /\ stage[g] = "received" /\ req[g].op = "ReadEx" /\ stage'[g] = "status"
      /\ UNCHANGED <<req, wire, sector>>
      /\ \A h \in Guests \ {g} : stage'[h] = stage[h] /\ status'[h] = status[h]
  BY <1>1 DEF HandleReadExSum, TypeOK
<1>3. status'[g] # "Crc" => Checksum16(wire[g]) = Checksum16(sector[g])
  BY <1>1 DEF HandleReadExSum, TypeOK
<1>4. status'[g] # "Crc" => wire[g] = sector[g]
  BY <1>1, <1>2, <1>3, ChecksumCatches DEF Arrival
<1>5. Arrival(g)'
  BY <1>2, <1>4 DEF Arrival, InTransfer
<1> QED  BY <1>1, <1>2, <1>5, ArrivedStep

\* What the line has done to a sector stays within bounds in every step.
LEMMA RefInvStep == RefInv /\ [Next]_vars => RefInv'
<1> SUFFICES ASSUME RefInv, [Next]_vars PROVE RefInv'
  OBVIOUS
<1>1. DiskInv'
  BY DiskStep DEF RefInv
<1>2. ASSUME NEW g \in Guests, Guest(g) PROVE Arrived'
  BY <1>2, GuestAsksArrived, GuestReceivesArrived, GuestVerifiesArrived,
     GuestStatusArrived DEF Guest
<1>3. ASSUME NEW g \in Guests, HandleWriteCrc(g) PROVE Arrived'
  BY <1>3, FailsArrived DEF HandleWriteCrc
<1>4. ASSUME NEW g \in Guests, Session(g) PROVE Arrived'
  BY <1>3, <1>4, FindDiskArrived, LockSeekArrived, ReadSectorArrived,
     WriteSectorArrived, HandleReadExSumArrived DEF Session
<1>5. UNCHANGED <<stage, req, wire, sector, status>> => Arrived'
  <2> SUFFICES ASSUME UNCHANGED <<stage, req, wire, sector, status>> PROVE Arrived'
    OBVIOUS
  <2>1. Arrived
    BY DEF RefInv
  <2>2. ASSUME NEW g \in Guests PROVE Arrival(g)'
    BY <2>1, OthersArrival
  <2> QED  BY <2>2 DEF Arrived
<1>6. ASSUME NEW k \in Controls, Control(k) PROVE Arrived'
  BY <1>5, <1>6 DEF Control, MountOpen, Mount, Unmount, guestVars
<1>7. CASE UNCHANGED vars
  BY <1>1, <1>5, <1>7 DEF vars, guestVars, RefInv
<1> QED  BY <1>1, <1>2, <1>4, <1>6, <1>7 DEF Next, RefInv

\* A server with nothing mounted satisfies RefInv.
LEMMA RefInvInit == Init => RefInv
<1> SUFFICES ASSUME Init PROVE RefInv
  OBVIOUS
<1>1. ASSUME NEW g \in Guests PROVE Arrival(g)
  BY DEF Init, Arrival, InTransfer
<1> QED  BY <1>1, InitInv DEF RefInv, Arrived

-----------------------------------------------------------------------------
(* The state as DiskService sees it, step by step *)

\* What DiskService sees of one guest.
LEMMA ServedValues ==
  ASSUME NEW g \in Guests
  PROVE  /\ ServedPhase[g] = Phase(stage[g])
         /\ ServedWant[g] = WantOf(req[g])
         /\ ServedTarget[g] = FileOf(using[g])
         /\ ServedResult[g] = ResultOf(g)
BY DEF ServedPhase, ServedWant, ServedTarget, ServedResult

\* A command moves on.
LEMMA ServedPhaseStep ==
  ASSUME TypeOK, NEW g \in Guests, NEW x, stage' = [stage EXCEPT ![g] = x]
  PROVE  ServedPhase' = [ServedPhase EXCEPT ![g] = Phase(x)]
<1>1. \A h \in Guests : Phase(stage'[h]) = IF h = g THEN Phase(x) ELSE Phase(stage[h])
  BY DEF TypeOK
<1> QED  BY <1>1 DEF ServedPhase

\* A guest gets a command or forgets it.
LEMMA ServedWantStep ==
  ASSUME TypeOK, NEW g \in Guests, NEW r, req' = [req EXCEPT ![g] = r]
  PROVE  ServedWant' = [ServedWant EXCEPT ![g] = WantOf(r)]
<1>1. \A h \in Guests : WantOf(req'[h]) = IF h = g THEN WantOf(r) ELSE WantOf(req[h])
  BY DEF TypeOK
<1> QED  BY <1>1 DEF ServedWant

\* A session takes up a disk or lets go of it.
LEMMA ServedTargetStep ==
  ASSUME TypeOK, NEW g \in Guests, NEW d, using' = [using EXCEPT ![g] = d], disk' = disk
  PROVE  ServedTarget' = [ServedTarget EXCEPT ![g] = FileOf(d)]
<1>1. \A h \in Guests : FileOf(using[h])' = IF h = g THEN FileOf(d) ELSE FileOf(using[h])
  BY DEF TypeOK, FileOf
<1> QED  BY <1>1 DEF ServedTarget

\* One guest's answer changes.
LEMMA ServedResultStep ==
  ASSUME NEW g \in Guests,
         \A h \in Guests \ {g} :
           /\ stage'[h] = stage[h] /\ req'[h] = req[h]
           /\ sector'[h] = sector[h] /\ status'[h] = status[h]
  PROVE  ServedResult' = [ServedResult EXCEPT ![g] = ResultOf(g)']
<1>1. ASSUME NEW h \in Guests, h # g PROVE ResultOf(h)' = ResultOf(h)
  BY <1>1 DEF ResultOf
<1>2. ServedResult = [h \in Guests |-> ResultOf(h)]
  BY DEF ServedResult
<1>3. ServedResult' = [h \in Guests |-> ResultOf(h)']
  BY DEF ServedResult
<1> QED  BY <1>1, <1>2, <1>3

\* What does not change.
LEMMA ServedSame ==
  /\ UNCHANGED <<drives, disk>> => ServedTable' = ServedTable
  /\ UNCHANGED <<using, disk>> => ServedTarget' = ServedTarget
  /\ UNCHANGED req => ServedWant' = ServedWant
  /\ UNCHANGED stage => ServedPhase' = ServedPhase
  /\ UNCHANGED <<stage, req, sector, status>> => ServedResult' = ServedResult
<1>1. UNCHANGED <<drives, disk>> => ServedTable' = ServedTable
  BY DEF ServedTable, FileOf
<1>2. UNCHANGED <<using, disk>> => ServedTarget' = ServedTarget
  BY DEF ServedTarget, FileOf
<1>3. UNCHANGED req => ServedWant' = ServedWant
  BY DEF ServedWant
<1>4. UNCHANGED stage => ServedPhase' = ServedPhase
  BY DEF ServedPhase
<1>5. UNCHANGED <<stage, req, sector, status>> => ServedResult' = ServedResult
  BY DEF ServedResult, ResultOf
<1> QED  BY <1>1, <1>2, <1>3, <1>4, <1>5

-----------------------------------------------------------------------------
(* Every step of the server, the line and the guests is a step of          *)
(* DiskService or none                                                     *)

\* Opening a file changes nothing a guest could see: nobody refers to it yet.
LEMMA MountOpenServes ==
  ASSUME RefInv, NEW k \in Controls, MountOpen(k)
  PROVE  UNCHANGED Service!vars
<1>1. TypeOK /\ Opened
  BY DEF RefInv, DiskInv
<1>2. PICK d \in Disks, f \in Files : disk[d] = NoFile /\ disk' = [disk EXCEPT ![d] = f]
  <2>1. PICK d : d = CHOOSE e \in {x \in Disks : disk[x] = NoFile} : TRUE
    OBVIOUS
  <2>2. {e \in Disks : disk[e] = NoFile} # {}
    BY DEF MountOpen
  <2>3. d \in Disks /\ disk[d] = NoFile
    BY <2>1, <2>2
  <2>4. \E f \in Files : disk' = [disk EXCEPT ![d] = f]
    BY <2>1 DEF MountOpen
  <2> QED  BY <2>3, <2>4
<1>3. drives' = drives /\ using' = using /\ image' = image /\ accepted' = accepted
      /\ stage' = stage /\ req' = req /\ sector' = sector /\ status' = status
  BY DEF MountOpen, guestVars
<1>4. \A e \in Disks \cup {NoDisk} : (e # NoDisk => disk[e] # NoFile) => FileOf(e)' = FileOf(e)
  BY <1>1, <1>2, DiskAssumption DEF TypeOK, FileOf
<1>5. \A s \in Slots : FileOf(drives[s])' = FileOf(drives[s])
  BY <1>1, <1>3, <1>4 DEF TypeOK, Opened, FileOf
<1>6. \A g \in Guests : FileOf(using[g])' = FileOf(using[g])
  BY <1>1, <1>3, <1>4 DEF TypeOK, Opened, FileOf
<1>7. ServedTable' = ServedTable /\ ServedTarget' = ServedTarget
  BY <1>5, <1>6 DEF ServedTable, ServedTarget
<1> QED  BY <1>3, <1>7, ServedSame DEF Service!vars

\* Mounting and unmounting set a slot.
LEMMA SlotServes ==
  ASSUME RefInv, NEW k \in Controls, Mount(k) \/ Unmount(k)
  PROVE  Service!Next
<1>1. TypeOK /\ Opened
  BY DEF RefInv, DiskInv
<1>2. /\ disk' = disk /\ using' = using /\ image' = image /\ accepted' = accepted
      /\ stage' = stage /\ req' = req /\ sector' = sector /\ status' = status
  BY DEF Mount, Unmount, guestVars
<1>3. PICK s \in Slots, d \in Disks \cup {NoDisk} :
        /\ drives' = [drives EXCEPT ![s] = d]
        /\ FileOf(d) \in Files \cup {NoFile}
  <2>1. CASE Mount(k)
    <3>1. mounting[k].disk \in Disks /\ mounting[k].slot \in Slots
      BY <1>1, <2>1 DEF Mount, TypeOK, Opened
    <3>2. FileOf(mounting[k].disk) \in Files \cup {NoFile}
      BY <1>1, <3>1 DEF TypeOK, FileOf
    <3> QED  BY <2>1, <3>1, <3>2 DEF Mount
  <2>2. CASE Unmount(k)
    BY <2>2 DEF Unmount, FileOf
  <2> QED  BY <2>1, <2>2
<1>4. ServedTable' = [ServedTable EXCEPT ![s] = FileOf(d)]
  <2>1. \A r \in Slots : FileOf(drives[r])' = IF r = s THEN FileOf(d) ELSE FileOf(drives[r])
    BY <1>1, <1>2, <1>3 DEF TypeOK, FileOf
  <2> QED  BY <2>1 DEF ServedTable
<1>5. Service!SetSlot(s, FileOf(d))
  BY <1>2, <1>4, ServedSame DEF Service!SetSlot
<1> QED  BY <1>3, <1>5 DEF Service!Next

\* A guest's command as DiskService sees it.
LEMMA WantOfReq ==
  ASSUME NEW r \in Reqs
  PROVE  /\ WantOf(r) \in ServedWants
         /\ WantOf(r).op = r.op /\ WantOf(r).slot = r.slot /\ WantOf(r).data = r.data
         /\ WantOf(r).lsn = FromBe3(r.lsn) /\ FromBe3(r.lsn) \in Nat
<1>1. r # NoReq /\ r.lsn \in LsnBytes
  BY NoReqAssumption DEF Reqs
<1>2. WantOf(r) = [r EXCEPT !.lsn = LsnValue(r.lsn)]
  BY <1>1 DEF WantOf
<1>3. FromBe3(r.lsn) \in Nat /\ FromBe3(r.lsn) = LsnValue(r.lsn)
  BY <1>1, LsnAgrees
<1>4. LsnValue(r.lsn) \in {LsnValue(b) : b \in LsnBytes}
  BY <1>1
<1>5. WantOf(r) \in ServedWants
  BY <1>2, <1>4 DEF ServedWants, Reqs
<1> QED  BY <1>2, <1>3, <1>5 DEF Reqs

\* A new command is an Ask of the service.
LEMMA AskServes ==
  ASSUME RefInv, NEW g \in Guests, GuestAsks(g)
  PROVE  Service!Ask(g)
<1>1. TypeOK /\ Arrival(g)
  BY DEF RefInv, DiskInv, Arrived
<1>2. PICK r \in Reqs : req' = [req EXCEPT ![g] = r]
  <2>1. PICK o \in Ops, s \in Slots, b \in LsnBytes, x \in WriteData \cup {Zero} :
          /\ req' = [req EXCEPT ![g] = [op |-> o, slot |-> s, lsn |-> b, data |-> x]]
          /\ IF o = "Write" THEN Crosses(g, x) ELSE UNCHANGED <<wire, flips>>
    BY DEF GuestAsks
  <2>2. x \in Sector
    BY SectorTypes
  <2> QED  BY <2>1, <2>2 DEF Reqs
<1>3. /\ stage[g] = "idle" /\ stage' = [stage EXCEPT ![g] = "asked"]
      /\ UNCHANGED <<drives, disk, image, using, sector, status, accepted>>
  BY DEF GuestAsks, hostVars
<1>4. ResultOf(g)' = ResultOf(g)
  <2>1. status[g] = "none" /\ stage'[g] = "asked"
    BY <1>1, <1>3 DEF Arrival, TypeOK
  <2> QED  BY <1>3, <2>1 DEF ResultOf
<1>5. ServedResult' = ServedResult
  <2>1. \A h \in Guests \ {g} :
           /\ stage'[h] = stage[h] /\ req'[h] = req[h]
           /\ sector'[h] = sector[h] /\ status'[h] = status[h]
    BY <1>1, <1>2, <1>3 DEF TypeOK
  <2>2. ServedResult' = [ServedResult EXCEPT ![g] = ServedResult[g]]
    BY <1>4, <2>1, ServedResultStep, ServedValues
  <2> QED  BY <2>2 DEF ServedResult
<1>6. /\ ServedPhase[g] = "idle"
      /\ ServedPhase' = [ServedPhase EXCEPT ![g] = "asked"]
  BY <1>1, <1>3, ServedPhaseStep, ServedValues DEF Phase
<1>7. \E w \in ServedWants : ServedWant' = [ServedWant EXCEPT ![g] = w]
  BY <1>1, <1>2, ServedWantStep, WantOfReq
<1> QED
  BY <1>3, <1>5, <1>6, <1>7, ServedSame DEF Service!Ask

\* A step within a phase that changes neither command nor answer is none.
LEMMA WithinPhase ==
  ASSUME TypeOK, NEW g \in Guests, NEW x,
         stage' = [stage EXCEPT ![g] = x], Phase(x) = Phase(stage[g]),
         ResultOf(g)' = ResultOf(g),
         \A h \in Guests \ {g} : sector'[h] = sector[h] /\ status'[h] = status[h],
         UNCHANGED <<drives, disk, image, using, req, accepted>>
  PROVE  UNCHANGED Service!vars
<1>1. ServedPhase' = ServedPhase
  <2>1. ServedPhase' = [ServedPhase EXCEPT ![g] = Phase(x)]
    BY ServedPhaseStep, Zenon
  <2>2. ServedPhase[g] = Phase(x)
    BY ServedValues, Zenon
  <2> QED  BY <2>1, <2>2 DEF ServedPhase
<1>2. ServedResult' = ServedResult
  <2>1. \A h \in Guests \ {g} : stage'[h] = stage[h]
    BY DEF TypeOK
  <2>2. ServedResult' = [ServedResult EXCEPT ![g] = ServedResult[g]]
    BY <2>1, ServedResultStep, ServedValues
  <2> QED  BY <2>2 DEF ServedResult
<1> QED  BY <1>1, <1>2, ServedSame DEF Service!vars

\* Receiving a sector, waiting for the mutex, seeking and comparing the
\* checksum of a READEX are no steps of DiskService.
LEMMA HiddenServes ==
  ASSUME RefInv, NEW g \in Guests,
         GuestReceives(g) \/ LockFile(g) \/ Seek(g) \/ HandleReadExSum(g)
  PROVE  UNCHANGED Service!vars
<1>1. TypeOK /\ Arrival(g)
  BY DEF RefInv, DiskInv, Arrived
<1>2. UNCHANGED <<drives, disk, image, using, req, accepted>>
  BY DEF GuestReceives, LockFile, Seek, HandleReadExSum, hostVars
<1>3. CASE GuestReceives(g)
  <2>1. /\ stage' = [stage EXCEPT ![g] = "received"] /\ stage'[g] = "received"
        /\ stage[g] = "reply"
        /\ sector' = sector /\ status' = status
    BY <1>1, <1>3 DEF GuestReceives, TypeOK
  <2>2. Phase("received") = Phase(stage[g])
    BY <2>1 DEF Phase
  <2>3. ResultOf(g)' = ResultOf(g)
    BY <1>2, <2>1 DEF ResultOf
  <2> QED  BY <1>1, <1>2, <2>1, <2>2, <2>3, WithinPhase
<1>4. CASE LockFile(g)
  <2>1. /\ stage' = [stage EXCEPT ![g] = "locked"] /\ stage'[g] = "locked"
        /\ stage[g] = "lock"
        /\ sector' = sector /\ status' = status
    BY <1>1, <1>4 DEF LockFile, TypeOK
  <2>2. Phase("locked") = Phase(stage[g])
    BY <2>1 DEF Phase
  <2>3. ResultOf(g)' = ResultOf(g)
    BY <1>2, <2>1 DEF ResultOf
  <2> QED  BY <1>1, <1>2, <2>1, <2>2, <2>3, WithinPhase
<1>5. CASE Seek(g)
  <2>1. /\ stage' = [stage EXCEPT ![g] = "seeked"] /\ stage'[g] = "seeked"
        /\ stage[g] = "locked"
        /\ sector' = sector /\ status' = status
    BY <1>1, <1>5 DEF Seek, TypeOK
  <2>2. Phase("seeked") = Phase(stage[g])
    BY <2>1 DEF Phase
  <2>3. ResultOf(g)' = ResultOf(g)
    BY <1>2, <2>1 DEF ResultOf
  <2> QED  BY <1>1, <1>2, <2>1, <2>2, <2>3, WithinPhase
<1>6. CASE HandleReadExSum(g)
  <2>1. /\ stage' = [stage EXCEPT ![g] = "status"] /\ stage'[g] = "status"
        /\ stage[g] = "received" /\ req[g].op = "ReadEx"
        /\ sector' = sector
        /\ \A h \in Guests \ {g} : status'[h] = status[h]
    BY <1>1, <1>6 DEF HandleReadExSum, TypeOK
  <2>2. Phase("status") = Phase(stage[g])
    BY <2>1 DEF Phase
  <2>3. ResultOf(g)' = ResultOf(g)
    BY <1>2, <2>1 DEF ResultOf
  <2> QED  BY <1>1, <1>2, <2>1, <2>2, <2>3, WithinPhase
<1> QED  BY <1>3, <1>4, <1>5, <1>6

\* A command that fails is answered with zeros, and a WRITE with its code.
LEMMA FailsAnswers ==
  ASSUME RefInv, NEW g \in Guests, NEW s, Fails(g, s),
         stage[g] \in {"asked", "seeked"}, req' = req
  PROVE  Service!Answer(g, IF req[g].op = "Write" THEN s ELSE "none", Zero)
<1>1. TypeOK /\ Arrival(g)
  BY DEF RefInv, DiskInv, Arrived
<1>2. PICK x \in {"status", "reply"} :
        /\ stage' = [stage EXCEPT ![g] = x]
        /\ x = IF req[g].op = "Write" THEN "status" ELSE "reply"
  BY DEF Fails
<1>3. ServedPhase' = [ServedPhase EXCEPT ![g] = "answered"]
  <2>1. Phase(x) = "answered"
    BY DEF Phase
  <2>2. ServedPhase' = [ServedPhase EXCEPT ![g] = Phase(x)]
    BY <1>1, <1>2, ServedPhaseStep, Zenon
  <2> QED  BY <2>1, <2>2, Zenon
<1>4. \A h \in Guests \ {g} :
        /\ stage'[h] = stage[h] /\ req'[h] = req[h]
        /\ sector'[h] = sector[h] /\ status'[h] = status[h]
  BY <1>1, <1>2 DEF Fails, TypeOK
<1>5. ResultOf(g)' = [status |-> IF req[g].op = "Write" THEN s ELSE "none", data |-> Zero]
  <2>1. sector'[g] = Zero /\ stage'[g] = x
    BY <1>1, <1>2 DEF Fails, Arrival, TypeOK
  <2>2. CASE req[g].op = "Write"
    <3>1. status'[g] = s
      BY <1>1, <2>2 DEF Fails, TypeOK
    <3> QED  BY <2>1, <2>2, <3>1 DEF ResultOf
  <2>3. CASE req[g].op # "Write"
    BY <2>1, <2>3 DEF ResultOf
  <2> QED  BY <2>2, <2>3
<1>6. ServedResult' = [ServedResult EXCEPT ![g] =
                        [status |-> IF req[g].op = "Write" THEN s ELSE "none", data |-> Zero]]
  BY <1>4, <1>5, ServedResultStep
<1> QED  BY <1>3, <1>6 DEF Service!Answer

\* What DiskService sees of a command that has arrived.
LEMMA AskedSeen ==
  ASSUME RefInv, NEW g \in Guests, stage[g] = "asked"
  PROVE  /\ ServedPhase[g] = "asked"
         /\ ServedWant[g].op = req[g].op
         /\ ServedTable[ServedWant[g].slot] = FileOf(drives[req[g].slot])
         /\ ServedWant[g].lsn = FromBe3(req[g].lsn) /\ FromBe3(req[g].lsn) \in Nat
<1>1. req[g] \in Reqs
  BY DEF RefInv, DiskInv, Commands
<1>2. ServedPhase[g] = "asked" /\ ServedWant[g] = WantOf(req[g])
  BY ServedValues DEF Phase
<1>3. req[g].slot \in Slots
  BY <1>1 DEF Reqs
<1>4. ServedTable[req[g].slot] = FileOf(drives[req[g].slot])
  BY <1>3 DEF ServedTable
<1> QED  BY <1>1, <1>2, <1>4, WantOfReq

\* A WRITE with a bad checksum is refused.
LEMMA WriteCrcServes ==
  ASSUME RefInv, NEW g \in Guests, HandleWriteCrc(g)
  PROVE  Service!Refuse(g)
<1>1. /\ stage[g] = "asked" /\ req[g].op = "Write" /\ Fails(g, "Crc")
      /\ UNCHANGED <<drives, disk, image, using, req, accepted>>
  BY DEF HandleWriteCrc, hostVars
<1>2. Service!Answer(g, "Crc", Zero)
  BY <1>1, FailsAnswers
<1> QED  BY <1>1, <1>2, AskedSeen, ServedSame DEF Service!Refuse

\* A command is looked up, or refused because there is no disk or no sector.
LEMMA FindDiskServes ==
  ASSUME RefInv, NEW g \in Guests, FindDisk(g)
  PROVE  Service!Refuse(g) \/ Service!Look(g)
<1> DEFINE d == drives[req[g].slot]
<1>1. TypeOK /\ Opened
  BY DEF RefInv, DiskInv
<1>2. /\ stage[g] = "asked"
      /\ UNCHANGED <<drives, disk, image, req, accepted>>
  BY DEF FindDisk, hostVars
<1>3. req[g] \in Reqs /\ req[g].slot \in Slots
  BY <1>2 DEF RefInv, DiskInv, Commands, Reqs
<1>4. /\ d = NoDisk => FileOf(d) = NoFile
      /\ d # NoDisk => FileOf(d) # NoFile
  BY <1>1, <1>3 DEF Opened, FileOf
<1>5. CASE d = NoDisk /\ Fails(g, "NotReady") /\ UNCHANGED using
  <2>1. Service!Answer(g, IF req[g].op = "Write" THEN "NotReady" ELSE "none", Zero)
    BY <1>2, <1>5, FailsAnswers
  <2> QED  BY <1>2, <1>4, <1>5, <2>1, AskedSeen, ServedSame DEF Service!Refuse
<1>6. CASE d # NoDisk /\ FromBe3(req[g].lsn) >= SectorCount /\ Fails(g, "Write") /\ UNCHANGED using
  <2>1. Service!Answer(g, IF req[g].op = "Write" THEN "Write" ELSE "none", Zero)
    BY <1>2, <1>6, FailsAnswers
  <2>2. FromBe3(req[g].lsn) \notin Lsns
    BY <1>2, <1>6, AskedSeen, DiskAssumption DEF Lsns
  <2> QED  BY <1>2, <1>4, <1>6, <2>1, <2>2, AskedSeen, ServedSame DEF Service!Refuse
<1>7. CASE /\ d # NoDisk
           /\ FromBe3(req[g].lsn) < SectorCount
           /\ using' = [using EXCEPT ![g] = d]
           /\ stage' = [stage EXCEPT ![g] = "lock"]
           /\ UNCHANGED <<sector, status>>
  <2>1. FromBe3(req[g].lsn) \in Lsns
    BY <1>2, <1>7, AskedSeen, DiskAssumption DEF Lsns
  <2>2. ServedTarget' = [ServedTarget EXCEPT ![g] = FileOf(d)]
    BY <1>1, <1>2, <1>7, ServedTargetStep
  <2>3. ServedPhase' = [ServedPhase EXCEPT ![g] = "looked"]
    BY <1>1, <1>7, ServedPhaseStep DEF Phase
  <2>4. ServedResult' = ServedResult
    <3>1. stage'[g] = "lock" /\ \A h \in Guests \ {g} : stage'[h] = stage[h]
      BY <1>1, <1>7 DEF TypeOK
    <3>2. ResultOf(g)' = ResultOf(g)
      BY <1>2, <1>7, <3>1 DEF ResultOf
    <3>3. ServedResult' = [ServedResult EXCEPT ![g] = ServedResult[g]]
      BY <1>2, <1>7, <3>1, <3>2, ServedResultStep, ServedValues
    <3> QED  BY <3>3 DEF ServedResult
  <2> HIDE DEF d
  <2>5. ServedTable[ServedWant[g].slot] = FileOf(d)
    BY <1>2, AskedSeen DEF d
  <2> QED  BY <1>2, <1>4, <1>7, <2>1, <2>2, <2>3, <2>4, <2>5, AskedSeen, ServedSame DEF Service!Look
<1> QED  BY <1>5, <1>6, <1>7 DEF FindDisk

\* What DiskService sees of a command whose session has seeked.
LEMMA SeekedSeen ==
  ASSUME RefInv, NEW g \in Guests, stage[g] = "seeked"
  PROVE  /\ ServedPhase[g] = "looked"
         /\ ServedWant[g].op = req[g].op /\ ServedWant[g].data = req[g].data
         /\ ServedTarget[g] = disk[using[g]]
         /\ ServedWant[g].lsn = offset[using[g]]
<1>1. req[g] \in Reqs /\ req[g].lsn \in LsnBytes
  BY DEF RefInv, DiskInv, Commands, Reqs
<1>2. ServedPhase[g] = "looked" /\ ServedWant[g] = WantOf(req[g])
  BY ServedValues DEF Phase
<1>3. ServedTarget[g] = disk[using[g]]
  <2>1. using[g] # NoDisk
    BY DEF RefInv, DiskInv, Commands, InTransfer
  <2> QED  BY <2>1, ServedValues DEF FileOf
<1>4. offset[using[g]] = FromBe3(req[g].lsn)
  BY <1>1, LsnAgrees DEF RefInv, DiskInv, SeekStands
<1> QED  BY <1>1, <1>2, <1>3, <1>4, WantOfReq

\* The end of a transfer, but for its answer.
LEMMA TransferredSeen ==
  ASSUME RefInv, NEW g \in Guests, Transferred(g)
  PROVE  /\ ServedTarget' = [ServedTarget EXCEPT ![g] = NoFile]
         /\ ServedTable' = ServedTable /\ ServedWant' = ServedWant
         /\ accepted' = accepted
<1>1. TypeOK
  BY DEF RefInv, DiskInv
<1>2. /\ using' = [using EXCEPT ![g] = NoDisk]
      /\ UNCHANGED <<drives, disk, req, accepted>>
  BY DEF Transferred
<1>3. FileOf(NoDisk) = NoFile
  BY DEF FileOf
<1> QED  BY <1>1, <1>2, <1>3, ServedTargetStep, ServedSame

\* A session's answer after a transfer that went well.
LEMMA DoneAnswers ==
  ASSUME RefInv, NEW g \in Guests, Transferred(g), NEW x \in {"reply", "status"},
         stage' = [stage EXCEPT ![g] = x],
         \A h \in Guests \ {g} : sector'[h] = sector[h] /\ status'[h] = status[h]
  PROVE  /\ ServedPhase' = [ServedPhase EXCEPT ![g] = "answered"]
         /\ ServedResult' = [ServedResult EXCEPT ![g] =
              [status |-> IF req[g].op = "Write" THEN status'[g] ELSE "none",
               data |-> sector'[g]]]
<1>1. TypeOK /\ req' = req
  BY DEF RefInv, DiskInv, Transferred
<1>2. Phase(x) = "answered"
  BY DEF Phase
<1>3. ServedPhase' = [ServedPhase EXCEPT ![g] = "answered"]
  BY <1>1, <1>2, ServedPhaseStep
<1>4. stage'[g] # "idle" /\ \A h \in Guests \ {g} : stage'[h] = stage[h]
  BY <1>1 DEF TypeOK
<1>5. ResultOf(g)' = [status |-> IF req[g].op = "Write" THEN status'[g] ELSE "none",
                      data |-> sector'[g]]
  BY <1>1, <1>4 DEF ResultOf
<1>6. ServedResult' = [ServedResult EXCEPT ![g] = ResultOf(g)']
  BY <1>1, <1>4, ServedResultStep
<1> QED  BY <1>3, <1>5, <1>6

\* A read takes the sector its command names, or zeros if the disk fails.
LEMMA ReadSectorServes ==
  ASSUME RefInv, NEW g \in Guests, ReadSector(g)
  PROVE  Service!Serve(g)
<1>1. TypeOK /\ Arrival(g)
  BY DEF RefInv, DiskInv, Arrived
<1>2. /\ stage[g] = "seeked" /\ req[g].op # "Write" /\ Transferred(g)
      /\ image' = image /\ req' = req
  BY DEF ReadSector, Transferred
<1>3. CASE /\ sector' = [sector EXCEPT ![g] = image[disk[using[g]]][offset[using[g]]]]
           /\ stage' = [stage EXCEPT ![g] = "reply"]
           /\ UNCHANGED status
  <2>1. /\ sector'[g] = image[ServedTarget[g]][ServedWant[g].lsn]
        /\ \A h \in Guests \ {g} : sector'[h] = sector[h]
    BY <1>1, <1>2, <1>3, SeekedSeen DEF TypeOK
  <2>2. Service!Answer(g, "none", image[ServedTarget[g]][ServedWant[g].lsn])
    BY <1>2, <1>3, <2>1, DoneAnswers DEF Service!Answer
  <2> QED  BY <1>2, <2>2, SeekedSeen, TransferredSeen DEF Service!Serve
<1>4. CASE faults < MaxFaults /\ Fails(g, "none")
  <2>1. Service!Answer(g, "none", Zero)
    BY <1>2, <1>4, FailsAnswers
  <2>2. MaxFaults > 0
    BY <1>1, <1>4, DiskAssumption DEF TypeOK
  <2> QED  BY <1>2, <2>1, <2>2, SeekedSeen, TransferredSeen DEF Service!Serve
<1> QED  BY <1>3, <1>4 DEF ReadSector

\* A write puts the sector the guest sent where its command says, or fails
\* and may leave that sector, and no other, damaged.
LEMMA WriteSectorServes ==
  ASSUME RefInv, NEW g \in Guests, WriteSector(g)
  PROVE  Service!Serve(g)
<1> DEFINE f == disk[using[g]]
           l == offset[using[g]]
<1>1. TypeOK /\ Arrival(g)
  BY DEF RefInv, DiskInv, Arrived
<1>2. /\ stage[g] = "seeked" /\ req[g].op = "Write" /\ Transferred(g)
      /\ req' = req
  BY DEF WriteSector, Transferred
<1>3. wire[g] = req[g].data /\ sector[g] = Zero
  BY <1>1, <1>2 DEF Arrival, InTransfer
<1>4. f \in Files /\ l \in Lsns /\ wire[g] \in Sector /\ image[f][l] \in Sector
  BY <1>1, <1>2, SeekedPlace DEF TypeOK, RefInv
<1>5. f = ServedTarget[g] /\ l = ServedWant[g].lsn
  BY <1>2, SeekedSeen
<1>6. CASE /\ image' = [image EXCEPT ![f][l] = wire[g]]
           /\ status' = [status EXCEPT ![g] = "ok"]
           /\ stage' = [stage EXCEPT ![g] = "status"]
           /\ UNCHANGED sector
  <2>1. /\ status'[g] = "ok"
        /\ \A h \in Guests \ {g} : status'[h] = status[h]
    BY <1>1, <1>6 DEF TypeOK
  <2>2. Service!Answer(g, "ok", Zero)
    BY <1>2, <1>3, <1>6, <2>1, DoneAnswers DEF Service!Answer
  <2> HIDE DEF f, l
  <2>3. image' = [image EXCEPT ![f][l] = ServedWant[g].data]
    BY <1>2, <1>3, <1>6, SeekedSeen
  <2> QED  BY <1>2, <1>5, <2>2, <2>3, SeekedSeen, TransferredSeen DEF Service!Serve
<1>7. CASE /\ faults < MaxFaults
           /\ \E n \in 0..SectorSize :
                image' = [image EXCEPT ![f][l] = Torn(@, wire[g], n)]
           /\ Fails(g, "Write")
  <2>1. Service!Answer(g, "Write", Zero)
    BY <1>2, <1>7, FailsAnswers
  <2>2. MaxFaults > 0
    BY <1>1, <1>7, DiskAssumption DEF TypeOK
  <2>3. PICK n \in 0..SectorSize :
               image' = [image EXCEPT ![f][l] = Torn(image[f][l], wire[g], n)]
    BY <1>7
  <2>4. PICK s \in Sector : s = Torn(image[f][l], wire[g], n)
    BY <1>4, SectorTypes
  <2> HIDE DEF f, l
  <2>5. \E e \in Sector : image' = [image EXCEPT ![f][l] = e]
    BY <2>3, <2>4
  <2> QED  BY <1>2, <1>5, <2>1, <2>2, <2>5, SeekedSeen, TransferredSeen DEF Service!Serve
<1> QED  BY <1>6, <1>7 DEF WriteSector

\* A guest takes what it was given, intact.
LEMMA FinishesServes ==
  ASSUME RefInv, NEW g \in Guests, Finishes(g),
         stage[g] \in {"received", "status"},
         req[g].op # "Write" => wire[g] = sector[g],
         UNCHANGED <<drives, disk, image, using>>
  PROVE  Service!Take(g)
<1>1. TypeOK /\ req[g] \in Reqs
  BY DEF RefInv, DiskInv, Commands
<1>2. /\ stage' = [stage EXCEPT ![g] = "idle"]
      /\ req' = [req EXCEPT ![g] = NoReq]
  BY DEF Finishes
<1>3. ServedPhase[g] = "answered" /\ ServedPhase' = [ServedPhase EXCEPT ![g] = "idle"]
  BY <1>1, <1>2, ServedValues, ServedPhaseStep DEF Phase
<1>4. ServedWant' = [ServedWant EXCEPT ![g] = NoReq]
  <2>1. WantOf(NoReq) = NoReq
    BY DEF WantOf
  <2> QED  BY <1>1, <1>2, <2>1, ServedWantStep
<1>5. ServedWant[g].op = req[g].op /\ ServedResult[g].data = sector[g]
  <2>1. ServedWant[g] = WantOf(req[g]) /\ ServedResult[g] = ResultOf(g)
    BY ServedValues
  <2>2. ResultOf(g).data = sector[g]
    BY DEF ResultOf
  <2> QED  BY <1>1, <2>1, <2>2, WantOfReq
<1>6. accepted' = [accepted EXCEPT ![g] =
                     IF ServedWant[g].op = "Write" THEN @ ELSE ServedResult[g].data]
  BY <1>1, <1>5 DEF Finishes, TypeOK
<1>7. ServedResult' = [ServedResult EXCEPT ![g] = [status |-> "none", data |-> Zero]]
  <2>1. \A h \in Guests \ {g} :
           /\ stage'[h] = stage[h] /\ req'[h] = req[h]
           /\ sector'[h] = sector[h] /\ status'[h] = status[h]
    BY <1>1 DEF Finishes, TypeOK
  <2>2. stage'[g] = "idle" /\ sector'[g] = Zero
    BY <1>1 DEF Finishes, TypeOK
  <2>3. ResultOf(g)' = [status |-> "none", data |-> Zero]
    BY <2>2 DEF ResultOf
  <2> QED  BY <2>1, <2>3, ServedResultStep
<1> QED
  BY <1>3, <1>4, <1>6, <1>7, ServedSame DEF Service!Take

\* Or it asks again for what did not arrive intact.
LEMMA RetriesServes ==
  ASSUME RefInv, NEW g \in Guests, Retries(g),
         stage[g] \in {"received", "status"},
         req[g].op = "Write" => status[g] = "Crc",
         UNCHANGED <<drives, disk, image, using>>
  PROVE  Service!Take(g)
<1>1. TypeOK /\ req[g] \in Reqs
  BY DEF RefInv, DiskInv, Commands
<1>2. /\ stage' = [stage EXCEPT ![g] = "asked"]
      /\ UNCHANGED <<req, accepted>>
  BY DEF Retries
<1>3. ServedPhase[g] = "answered" /\ ServedPhase' = [ServedPhase EXCEPT ![g] = "asked"]
  BY <1>1, <1>2, ServedValues, ServedPhaseStep DEF Phase
<1>4. ServedResult[g].status \in {"none", "Crc"}
  <2>1. ServedResult[g] = ResultOf(g)
    BY ServedValues
  <2>2. ResultOf(g).status \in {"none", "Crc"}
    BY DEF ResultOf
  <2> QED  BY <2>1, <2>2
<1>5. ServedResult' = [ServedResult EXCEPT ![g] = [status |-> "none", data |-> Zero]]
  <2>1. \A h \in Guests \ {g} :
           /\ stage'[h] = stage[h] /\ req'[h] = req[h]
           /\ sector'[h] = sector[h] /\ status'[h] = status[h]
    BY <1>1, <1>2 DEF Retries, TypeOK
  <2>2. stage'[g] = "asked" /\ sector'[g] = Zero /\ status'[g] = "none"
    BY <1>1 DEF Retries, TypeOK
  <2>3. ResultOf(g)' = [status |-> "none", data |-> Zero]
    BY <2>2 DEF ResultOf
  <2> QED  BY <2>1, <2>3, ServedResultStep
<1> QED
  BY <1>2, <1>3, <1>4, <1>5, ServedSame DEF Service!Take

\* The guest's own steps at the end of a command.
LEMMA TakeServes ==
  ASSUME RefInv, NEW g \in Guests, GuestVerifies(g) \/ GuestStatus(g)
  PROVE  Service!Take(g)
<1>1. TypeOK /\ Arrival(g) /\ wire[g] \in Sector /\ sector[g] \in Sector
  BY DEF RefInv, DiskInv, Arrived, TypeOK
<1>2. UNCHANGED <<drives, disk, image, using>>
  BY DEF GuestVerifies, GuestStatus, hostVars
<1>3. CASE GuestVerifies(g)
  <2>1. stage[g] = "received" /\ req[g].op = "Read"
    BY <1>3 DEF GuestVerifies
  <2>2. CASE Checksum16(wire[g]) = Checksum16(sector[g]) /\ Finishes(g)
    <3>1. wire[g] = sector[g]
      BY <1>1, <2>1, <2>2, ChecksumCatches DEF Arrival
    <3> QED  BY <1>2, <2>1, <2>2, <3>1, FinishesServes
  <2>3. CASE Retries(g)
    BY <1>2, <2>1, <2>3, RetriesServes
  <2> QED  BY <1>3, <2>2, <2>3 DEF GuestVerifies
<1>4. CASE GuestStatus(g)
  <2>1. stage[g] = "status"
    BY <1>4 DEF GuestStatus
  <2>2. CASE status[g] = "Crc" /\ Retries(g)
    BY <1>2, <2>1, <2>2, RetriesServes
  <2>3. CASE status[g] # "Crc" /\ Finishes(g)
    <3>1. req[g].op \in Ops
      BY <2>1 DEF RefInv, DiskInv, Commands, Reqs
    <3>2. req[g].op # "Write" => wire[g] = sector[g]
      BY <1>1, <2>1, <2>3, <3>1 DEF Arrival, Ops
    <3> QED  BY <1>2, <2>1, <2>3, <3>2, FinishesServes
  <2> QED  BY <1>4, <2>2, <2>3 DEF GuestStatus
<1> QED  BY <1>3, <1>4

-----------------------------------------------------------------------------
\* Sessions, locks, offsets, checksums and retries give guests what
\* DiskService promises, for any numbers of guests, control connections,
\* slots, files and disks, sectors of any size, and any number of damaged
\* bytes (at most one in a sector each time it crosses the line) and failed
\* transfers.
THEOREM DiskIsDiskService == Spec => Implements
<1>1. Init => Service!Init
  <2> SUFFICES ASSUME Init PROVE Service!Init
    OBVIOUS
  <2>1. ServedTable = [s \in Slots |-> NoFile]
    BY DEF Init, ServedTable, FileOf
  <2>2. image \in [Files -> [Lsns -> Sector]]
    BY SectorTypes DEF Init
  <2>3. ServedPhase = [g \in Guests |-> "idle"]
    BY DEF Init, ServedPhase, Phase
  <2>4. ServedWant = [g \in Guests |-> NoReq]
    BY DEF Init, ServedWant, WantOf
  <2>5. ServedTarget = [g \in Guests |-> NoFile]
    BY DEF Init, ServedTarget, FileOf
  <2>6. ServedResult = [g \in Guests |-> [status |-> "none", data |-> Zero]]
    <3>1. \A g \in Guests : ResultOf(g) = [status |-> "none", data |-> Zero]
      BY DEF Init, ResultOf
    <3> QED  BY <3>1 DEF ServedResult
  <2>7. accepted = [g \in Guests |-> Zero]
    BY DEF Init
  <2> QED  BY <2>1, <2>2, <2>3, <2>4, <2>5, <2>6, <2>7 DEF Service!Init
<1>2. RefInv /\ [Next]_vars => [Service!Next]_(Service!vars)
  <2> SUFFICES ASSUME RefInv, [Next]_vars PROVE [Service!Next]_(Service!vars)
    OBVIOUS
  <2>1. ASSUME NEW g \in Guests, Guest(g) PROVE [Service!Next]_(Service!vars)
    BY <2>1, AskServes, HiddenServes, TakeServes DEF Guest, Service!Next
  <2>2. ASSUME NEW g \in Guests, Session(g) PROVE [Service!Next]_(Service!vars)
    BY <2>2, WriteCrcServes, FindDiskServes, HiddenServes, ReadSectorServes,
       WriteSectorServes DEF Session, Service!Next
  <2>3. ASSUME NEW k \in Controls, Control(k) PROVE [Service!Next]_(Service!vars)
    BY <2>3, MountOpenServes, SlotServes DEF Control
  <2>4. CASE UNCHANGED vars
    BY <2>4, ServedSame DEF vars, hostVars, guestVars, Service!vars
  <2> QED  BY <2>1, <2>2, <2>3, <2>4 DEF Next
<1>3. Spec => []RefInv
  BY RefInvInit, RefInvStep, PTL DEF Spec
<1> QED
  BY <1>1, <1>2, <1>3, PTL DEF Spec, Implements, Service!Spec
===============================================================================
