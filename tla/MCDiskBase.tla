---------------------------- MODULE MCDiskBase ----------------------------
(* Instances of DiskBase for TLC.                                          *)
EXTENDS DiskBase, TLC

\* Beds differ in nothing but their name, and so do entities.
Symmetry == Permutations(Builds) \cup Permutations(Entities)
=============================================================================
