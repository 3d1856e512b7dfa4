--------------------------- MODULE MCVerbDispatch ---------------------------
EXTENDS VerbDispatch, TLC

CONSTANTS p1, p2

\* One invocation of any method beside one that deletes a snapshot.
AnyBesideDelete == p1 :> DOMAIN Program @@ p2 :> {"snapdelete"}
ExecBesidePing == p1 :> {"exec"} @@ p2 :> {"ping"}
=============================================================================
