------------------------------- MODULE MCDisk -------------------------------
(***************************************************************************)
(* Instances of Disk for TLC.                                              *)
(***************************************************************************)
EXTENDS Disk, TLC

CONSTANTS g1, g2, k1, k2, f1, f2, d1, d2

\* A sector with bytes that differ, so that a torn or damaged copy shows.
OneSector == {<<1, 0>>}

\* Both sectors of a disk of two, the first one past the end, and one whose
\* low bytes are those of sector 0.
EdgeLsns == {<<0, 0, 0>>, <<0, 0, 1>>, <<0, 0, 2>>, <<1, 0, 0>>}

Symmetry == Permutations({g1, g2}) \cup Permutations({k1, k2})
              \cup Permutations({f1, f2})
=============================================================================
