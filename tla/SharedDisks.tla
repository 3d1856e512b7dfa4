---------------------------- MODULE SharedDisks ----------------------------
(***************************************************************************)
(* What a snapshot store promises to the clones that read its disks: a     *)
(* disk may be linked by any number of users, and it is discarded only     *)
(* when nobody uses it.                                                    *)
(***************************************************************************)
CONSTANTS Tags, Users

VARIABLES
    present,   \* snapshots whose disk is in the store
    users      \* who has linked which disk

sharedVars == <<present, users>>

Init == present = {} /\ users = [t \in Tags |-> {}]

Keep(t) ==
    /\ present' = present \cup {t}
    /\ UNCHANGED users

Link(u, t) ==
    /\ t \in present
    /\ users' = [users EXCEPT ![t] = @ \cup {u}]
    /\ UNCHANGED present

Unlink(u, t) ==
    /\ users' = [users EXCEPT ![t] = @ \ {u}]
    /\ UNCHANGED present

Discard(t) ==
    /\ users[t] = {}
    /\ present' = present \ {t}
    /\ UNCHANGED users

Next ==
    \E t \in Tags :
        \/ Keep(t) \/ Discard(t)
        \/ \E u \in Users : Link(u, t) \/ Unlink(u, t)

Spec == Init /\ [][Next]_sharedVars

\* No user is left with a disk that is gone.
NoneDangling == \A t \in Tags : users[t] # {} => t \in present

=============================================================================
