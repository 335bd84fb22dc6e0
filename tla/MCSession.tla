----------------------------- MODULE MCSession -----------------------------
(***************************************************************************)
(* Instances of Session for TLC.                                           *)
(***************************************************************************)
EXTENDS Session

\* Every opcode a driver sends: the server implements no WireBug.
AllOps == (DOMAIN OpByte \ {"WirebugMode"}) \cup {"FastWrite"}
=============================================================================
