--------------------------- MODULE MCVmLifecycle ---------------------------
(* Instances of VmLifecycle for TLC.                                       *)
EXTENDS VmLifecycle, TLC

\* Processes differ in nothing but their name.
Symmetry == Permutations(Procs)
=============================================================================
