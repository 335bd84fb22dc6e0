---------------------------- MODULE DiskService ----------------------------
(***************************************************************************)
(* What the disk commands of the server promise a guest: a slot names an   *)
(* image, a command takes effect on one sector of the image its slot named *)
(* when the command was looked up, at one moment, and the guest ends up    *)
(* with what it asked for or is told that it did not get it. There are no  *)
(* open files, offsets, locks, checksums or lines here.                    *)
(***************************************************************************)
EXTENDS Naturals

CONSTANTS
  Guests, Slots, Files,
  NoFile,        \* an empty slot names no file
  Lsns,          \* the sectors of an image
  SectorValues,  \* what a sector can hold
  Zero,          \* what a guest is given for a sector that cannot be read
  Wants,         \* commands: [op, slot, lsn, data]
  NoWant,
  MayFail        \* the host's disk can fail

VARIABLES
  table,   \* slot -> the file it names
  image,   \* file -> sector -> contents
  phase,   \* guest -> "idle", "asked", "looked" or "answered"
  want,    \* guest -> its command
  target,  \* guest -> the file the command was looked up to be about
  result,  \* guest -> the answer: [status, data]
  got      \* guest -> the sector its last successful read gave it

vars == <<table, image, phase, want, target, result, got>>

Init ==
  /\ table  = [s \in Slots |-> NoFile]
  /\ image  \in [Files -> [Lsns -> SectorValues]]
  /\ phase  = [g \in Guests |-> "idle"]
  /\ want   = [g \in Guests |-> NoWant]
  /\ target = [g \in Guests |-> NoFile]
  /\ result = [g \in Guests |-> [status |-> "none", data |-> Zero]]
  /\ got    = [g \in Guests |-> Zero]

SetSlot(s, f) ==
  /\ table' = [table EXCEPT ![s] = f]
  /\ UNCHANGED <<image, phase, want, target, result, got>>

Ask(g) ==
  /\ phase[g] = "idle"
  /\ \E w \in Wants : want' = [want EXCEPT ![g] = w]
  /\ phase' = [phase EXCEPT ![g] = "asked"]
  /\ UNCHANGED <<table, image, target, result, got>>

Answer(g, s, d) ==
  /\ phase' = [phase EXCEPT ![g] = "answered"]
  /\ result' = [result EXCEPT ![g] = [status |-> s, data |-> d]]

\* A command is turned down without touching an image: a write that arrived
\* damaged, a slot that is empty, a sector that does not exist.
Refuse(g) ==
  /\ phase[g] = "asked"
  /\ \/ /\ want[g].op = "Write"
        /\ Answer(g, "Crc", Zero)
     \/ /\ table[want[g].slot] = NoFile
        /\ Answer(g, IF want[g].op = "Write" THEN "NotReady" ELSE "none", Zero)
     \/ /\ table[want[g].slot] # NoFile
        /\ want[g].lsn \notin Lsns
        /\ Answer(g, IF want[g].op = "Write" THEN "Write" ELSE "none", Zero)
  /\ UNCHANGED <<table, image, want, target, got>>

Look(g) ==
  /\ phase[g] = "asked"
  /\ table[want[g].slot] # NoFile
  /\ want[g].lsn \in Lsns
  /\ target' = [target EXCEPT ![g] = table[want[g].slot]]
  /\ phase' = [phase EXCEPT ![g] = "looked"]
  /\ UNCHANGED <<table, image, want, result, got>>

\* The one moment a command takes effect. A failing host disk is reported
\* for a write, which may have damaged the one sector, and hidden for a read.
Serve(g) ==
  LET f == target[g]
      l == want[g].lsn
  IN
  /\ phase[g] = "looked"
  /\ \/ /\ want[g].op # "Write"
        /\ \/ Answer(g, "none", image[f][l])
           \/ MayFail /\ Answer(g, "none", Zero)
        /\ UNCHANGED image
     \/ /\ want[g].op = "Write"
        /\ Answer(g, "ok", Zero)
        /\ image' = [image EXCEPT ![f][l] = want[g].data]
     \/ /\ want[g].op = "Write"
        /\ MayFail
        /\ Answer(g, "Write", Zero)
        /\ \E d \in SectorValues : image' = [image EXCEPT ![f][l] = d]
  /\ target' = [target EXCEPT ![g] = NoFile]
  /\ UNCHANGED <<table, want, got>>

\* The guest has its answer, intact, or asks again because it is not.
Take(g) ==
  /\ phase[g] = "answered"
  /\ \/ /\ phase' = [phase EXCEPT ![g] = "idle"]
        /\ got' = [got EXCEPT ![g] =
                     IF want[g].op = "Write" THEN @ ELSE result[g].data]
        /\ want' = [want EXCEPT ![g] = NoWant]
     \/ /\ phase' = [phase EXCEPT ![g] = "asked"]
        /\ result[g].status \in {"none", "Crc"}
        /\ UNCHANGED <<want, got>>
  /\ result' = [result EXCEPT ![g] = [status |-> "none", data |-> Zero]]
  /\ UNCHANGED <<table, image, target>>

Next ==
  \/ \E s \in Slots, f \in Files \cup {NoFile} : SetSlot(s, f)
  \/ \E g \in Guests : Ask(g) \/ Refuse(g) \/ Look(g) \/ Serve(g) \/ Take(g)

Spec == Init /\ [][Next]_vars
=============================================================================
