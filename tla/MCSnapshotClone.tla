-------------------------- MODULE MCSnapshotClone --------------------------
(* Instances of SnapshotClone for TLC. *)
EXTENDS SnapshotClone, TLC

Symmetry == Permutations(Tags) \cup Permutations(Lanes)
=============================================================================
