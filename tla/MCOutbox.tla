----------------------------- MODULE MCOutbox -----------------------------
(***************************************************************************)
(* Instances of Outbox for TLC.                                            *)
(***************************************************************************)
EXTENDS Outbox, TLC

CONSTANTS g1, g2, a1, a2

\* One client on the lowest channel; one on the highest that SERREAD can
\* announce, or out of range.
LowAndHigh == a1 :> {0} @@ a2 :> {14, 16}

\* Everybody on the channel that SERREAD cannot announce.
Fifteen == [a \in Clients |-> {15}]
=============================================================================
