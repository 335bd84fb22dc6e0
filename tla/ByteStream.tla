----------------------------- MODULE ByteStream -----------------------------
(***************************************************************************)
(* What the protocol server may expect of a serial port used as its        *)
(* transport: the guest's bytes arrive in order, each once, and the end of *)
(* the stream is reported only after the last of them; what the server     *)
(* writes goes out in order, and a failing line costs the guest the end of *)
(* what one write_all wrote, never a byte from its middle.                 *)
(*                                                                         *)
(* A byte is its number in its direction, from 1.                          *)
(***************************************************************************)
EXTENDS Naturals, Sequences

VARIABLES
  received,  \* bytes the host has received from the guest
  broken,    \* no more will be received
  got,       \* the bytes the server has read
  eof,       \* the server has been told that the stream has ended
  accepted,  \* bytes the server has written
  ends,      \* the last byte of each write_all
  line       \* the bytes that went out to the guest

vars == <<received, broken, got, eof, accepted, ends, line>>

Init ==
  /\ received = 0
  /\ broken   = FALSE
  /\ got      = <<>>
  /\ eof      = FALSE
  /\ accepted = 0
  /\ ends     = {}
  /\ line     = <<>>

Receive ==
  /\ ~broken
  /\ received' \in Nat /\ received' > received
  /\ UNCHANGED <<broken, got, eof, accepted, ends, line>>

Break ==
  /\ broken' = TRUE
  /\ UNCHANGED <<received, got, eof, accepted, ends, line>>

\* The next bytes, as many as there are or fewer.
Read ==
  /\ \E k \in 1..(received - Len(got)) :
       got' = got \o [i \in 1..k |-> Len(got) + i]
  /\ UNCHANGED <<received, broken, eof, accepted, ends, line>>

\* The stream ends when everything has been read.
Eof ==
  /\ broken
  /\ Len(got) = received
  /\ eof' = TRUE
  /\ UNCHANGED <<received, broken, got, accepted, ends, line>>

Write ==
  /\ ~eof
  /\ accepted' \in Nat /\ accepted' > accepted
  /\ ends' = ends \cup {accepted'}
  /\ UNCHANGED <<received, broken, got, eof, line>>

LastOut == IF line = <<>> THEN 0 ELSE line[Len(line)]

\* Bytes n, n + 1, ... of one write_all go out, the next ones of the one that is
\* going out or the first ones of a later one.
Transmit ==
  /\ \E n \in (LastOut + 1)..accepted :
       /\ n - 1 \in ends \cup {LastOut}
       /\ \E k \in 1..(accepted - n + 1) :
            /\ \A e \in ends : e \notin n..(n + k - 2)
            /\ line' = line \o [i \in 1..k |-> n + i - 1]
  /\ UNCHANGED <<received, broken, got, eof, accepted, ends>>

Next == Receive \/ Break \/ Read \/ Eof \/ Write \/ Transmit

Spec == Init /\ [][Next]_vars
=============================================================================
