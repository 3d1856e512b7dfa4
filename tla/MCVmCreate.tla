----------------------------- MODULE MCVmCreate -----------------------------
EXTENDS VmCreate, TLC

\* Processes are interchangeable; deployments are not, in Committed and in AutoPort.
Symmetry == Permutations(Procs)
=============================================================================
