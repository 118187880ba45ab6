-------------------------- MODULE MCFilesysPackets --------------------------
(***************************************************************************)
(* FilesysPackets for TLC.  Packets are alike: no definition tells one     *)
(* from another, and the runs for safety need only one of each set of      *)
(* states that differ in the packets' names.                               *)
(***************************************************************************)
EXTENDS FilesysPackets, TLC

Symmetry == Permutations(Packet)
=============================================================================
