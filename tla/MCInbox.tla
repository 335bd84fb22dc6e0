------------------------------ MODULE MCInbox ------------------------------
(***************************************************************************)
(* Instances of Inbox for TLC.                                             *)
(***************************************************************************)
EXTENDS Inbox

CONSTANTS s1, s2, a1, a2, c1, bad
=============================================================================
