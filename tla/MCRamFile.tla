------------------------------ MODULE MCRamFile ------------------------------
(* RamFile with one file and descriptors that are alike. *)
EXTENDS RamFile, TLC

Alike == Permutations(Fds)
=============================================================================
