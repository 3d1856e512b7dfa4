--------------------------- MODULE SnapshotClone ---------------------------
(***************************************************************************)
(* Snapshots of one keeper VM and the clones built from them.  An external *)
(* snapshot's disk in the store is at once the keeper's active disk from   *)
(* then on and the backing of every clone; the registry counts the clone   *)
(* builds that refer to it.  One operator captures, deletes, promotes and  *)
(* reverts snapshots and starts and stops the keeper; the lanes build clone *)
(* entities, boot them and tear them down, concurrently with it.           *)
(***************************************************************************)
EXTENDS Integers, FiniteSets

CONSTANTS
    Tags,         \* snapshot names
    Lanes,        \* deployments that build and boot clones
    Entities,     \* clone entities, one overlay disk each
    Forces,       \* values of --force that delete is called with
    ReadFails,    \* may reading the keeper's state fail
    MaxCaptures,  \* bound on captures and promotions
    MaxRefs,      \* bound on the references a build starts with
    NoTag, NoEntity

ASSUME CloneAssumption ==
    /\ IsFiniteSet(Lanes)
    /\ NoTag \notin Tags /\ NoEntity \notin Entities
    /\ Forces \subseteq BOOLEAN /\ ReadFails \in BOOLEAN
    /\ MaxCaptures \in Nat /\ MaxRefs \in Nat

VARIABLES
    keeper,    \* "off" or "running"
    active,    \* its active disk: a snapshot's, or NoTag for a disk of its own
    store,     \* tags with a disk in the store
    mode,      \* per tag, "ro" (0444) or "rw"
    entry,     \* per tag, the registry entry; "sound" tells whether a consistent
               \* capture found the guest off or frozen
    moved,     \* tags with a backing disk modified after the capture
    captures,  \* captures so far
    overlay,   \* per entity, the snapshot its disk.qcow2 backs onto
    newer,     \* entities whose backing file was modified after the overlay
    op,        \* the operator's command
    lane       \* per lane, where it is and what it builds

keeperVars == <<keeper, active>>
storeVars == <<store, mode, entry, moved, captures>>
cloneVars == <<overlay, newer>>
vars == <<keeperVars, storeVars, cloneVars, op, lane>>

NoEntry == [kind |-> "none", refs |-> 0, sound |-> TRUE, by |-> "none"]
Idle == [at |-> "idle", tag |-> NoTag, quiesce |-> FALSE, strict |-> FALSE, quiet |-> TRUE, by |-> "none"]
AtHome == [at |-> "idle", e |-> NoEntity, tag |-> NoTag, counted |-> NoTag, linked |-> FALSE]

Recorded(t) == entry[t].kind # "none"
InBuild == {"lookup", "fresh", "create", "count", "seed"}
Locked(e) == \E l \in Lanes : lane[l].at \in InBuild /\ lane[l].e = e
Counted(t) == {l \in Lanes : lane[l].counted = t}
Linked(t) == {l \in Counted(t) : lane[l].linked}
Linkable(t) == entry[t].kind = "external"

Init ==
    /\ keeper = "off" /\ active = NoTag
    /\ store = {}
    /\ mode = [t \in Tags |-> "rw"]
    /\ entry = [t \in Tags |-> NoEntry]
    /\ moved = {} /\ captures = 0
    /\ overlay = [e \in Entities |-> NoTag]
    /\ newer = {}
    /\ op = Idle
    /\ lane = [l \in Lanes |-> AtHome]

----------------------------------------------------------------------------
(* The keeper.  Whatever it writes to a snapshot's disk makes the disk     *)
(* newer than the overlays on it.                                          *)

OnTag(t) == {e \in Entities : overlay[e] = t}

KeeperWrites ==
    /\ keeper = "running" /\ active # NoTag
    /\ newer' = newer \cup OnTag(active)
    /\ UNCHANGED <<keeperVars, storeVars, overlay, op, lane>>

\* A build of the keeper's own entity rewrites the base under its snapshots.
BaseRebuilt ==
    /\ moved' = store
    /\ moved' # moved
    /\ UNCHANGED <<keeperVars, store, mode, entry, captures, cloneVars, op, lane>>

\* The operator stops it, or its guest powers off.
KeeperStops ==
    /\ keeper = "running"
    /\ keeper' = "off"
    /\ UNCHANGED <<active, storeVars, cloneVars, op, lane>>

\* Starting a keeper on a snapshot's disk makes the disk writable for qemu to
\* open it, and read-only again afterwards.
OpenForStart ==
    /\ op.at \in {"idle", "revived"} /\ keeper = "off"
    /\ op' = [op EXCEPT !.at = "start"]
    /\ mode' = IF active = NoTag THEN mode ELSE [mode EXCEPT ![active] = "rw"]
    /\ UNCHANGED <<keeperVars, store, entry, moved, captures, cloneVars, lane>>

StartKeeper ==
    /\ op.at = "start"
    /\ \/ keeper' = "running" /\ active \in store \cup {NoTag}
       \/ UNCHANGED keeper
    /\ op' = [op EXCEPT !.at = "started"]
    /\ UNCHANGED <<active, storeVars, cloneVars, lane>>

\* Sensitivity: the disk stays as the start needed it.
SealNothing ==
    /\ op.at = "started"
    /\ op' = Idle
    /\ UNCHANGED <<keeperVars, storeVars, cloneVars, lane>>

SealAfterStart ==
    /\ op.at = "started"
    /\ mode' = IF active = NoTag THEN mode ELSE [mode EXCEPT ![active] = "ro"]
    /\ op' = Idle
    /\ UNCHANGED <<keeperVars, store, entry, moved, captures, cloneVars, lane>>

----------------------------------------------------------------------------
(* Captures.                                                               *)

Ask(t, at, quiesce, strict) ==
    /\ op.at = "idle" /\ ~Recorded(t) /\ captures < MaxCaptures
    /\ op' = [Idle EXCEPT !.at = at, !.tag = t, !.quiesce = quiesce, !.strict = strict]

\* snapshot create [--quiesce], external or internal.
CreateSnapshot(t) ==
    /\ Ask(t, "internal", FALSE, FALSE) \/ \E q \in BOOLEAN : Ask(t, "external", q, FALSE)
    /\ UNCHANGED <<keeperVars, storeVars, cloneVars, lane>>

\* What the composite makes of the keeper's state: a failing read is "not running".
SeesRunning == IF keeper = "running" THEN (IF ReadFails THEN BOOLEAN ELSE {TRUE}) ELSE {FALSE}

\* create-consistent reads the state once.  A running keeper must answer the
\* ping and is captured quiesced and strict, externally only; anything else
\* counts as stopped and is captured as it is.
CreateConsistent(t) ==
    /\ \E running \in SeesRunning :
          \/ running /\ Ask(t, "external", TRUE, TRUE)
          \/ ~running /\ \E at \in {"external", "internal"} : Ask(t, at, FALSE, TRUE)
    /\ UNCHANGED <<keeperVars, storeVars, cloneVars, lane>>

Quiet(frozen) == keeper = "off" \/ frozen

Captured(quiet, at, by) ==
    /\ captures < MaxCaptures
    /\ captures' = captures + 1
    /\ store' = store \cup {op.tag}
    /\ mode' = [mode EXCEPT ![op.tag] = "rw"]
    /\ moved' = moved \ {op.tag}
    /\ newer' = newer \cup OnTag(op.tag)
    /\ active' = op.tag
    /\ op' = [op EXCEPT !.at = at, !.quiet = quiet, !.by = by]

\* Sensitivity: a failing quiesce always falls back.
QuiesceAlwaysFallsBack ==
    /\ op.at = "external"
    /\ \/ /\ Captured(Quiet(op.quiesce), "seal", "capture")
       \/ /\ op.quiesce
          /\ Captured(Quiet(FALSE), "record", "fallback")
    /\ UNCHANGED <<keeper, entry, overlay, lane>>

\* createExternalSnapshot: the keeper pivots to the new file.  A quiesce that
\* fails ends a strict capture; otherwise it is repeated without, and then
\* returns before the file is made read-only.
CaptureExternal ==
    /\ op.at = "external"
    /\ \/ /\ op.quiesce => keeper = "running"
          /\ Captured(Quiet(op.quiesce), "seal", "capture")
       \/ /\ op.quiesce /\ ~op.strict
          /\ Captured(Quiet(FALSE), "record", "fallback")
       \/ /\ op' = Idle
          /\ UNCHANGED <<active, store, mode, moved, captures, newer>>
    /\ UNCHANGED <<keeper, entry, overlay, lane>>

SealSnapshot ==
    /\ op.at = "seal"
    /\ mode' = [mode EXCEPT ![op.tag] = "ro"]
    /\ op' = [op EXCEPT !.at = "record"]
    /\ UNCHANGED <<keeperVars, store, entry, moved, captures, cloneVars, lane>>

RecordEntry ==
    /\ op.at = "record"
    /\ entry' = [entry EXCEPT ![op.tag] =
                    [kind |-> "external", refs |-> 0, sound |-> op.strict => op.quiet, by |-> op.by]]
    /\ op' = Idle
    /\ UNCHANGED <<keeperVars, store, mode, moved, captures, cloneVars, lane>>

\* createInternalSnapshot: qemu-img refuses the disk of a running VM.
CaptureInternal ==
    /\ op.at = "internal"
    /\ \/ /\ keeper = "off"
          /\ entry' = [entry EXCEPT ![op.tag] =
                          [kind |-> "internal", refs |-> 0, sound |-> TRUE, by |-> "capture"]]
       \/ UNCHANGED entry
    /\ op' = Idle
    /\ UNCHANGED <<keeperVars, store, mode, moved, captures, cloneVars, lane>>

\* promoteInternalToExternal copies the snapshot out; nobody makes the copy
\* read-only.
Promoted(t) ==
    /\ entry[t].kind = "internal" /\ captures < MaxCaptures
    /\ captures' = captures + 1
    /\ store' = store \cup {t}
    /\ mode' = [mode EXCEPT ![t] = "rw"]
    /\ entry' = [entry EXCEPT ![t].kind = "external", ![t].by = "promote"]
    /\ moved' = moved \ {t}
    /\ newer' = newer \cup OnTag(t)

Promote(t) ==
    /\ op.at = "idle" /\ Promoted(t)
    /\ UNCHANGED <<keeperVars, overlay, op, lane>>

\* Sensitivity: references do not protect a snapshot.
DeleteReferenced(t) ==
    /\ op.at = "idle" /\ Recorded(t)
    /\ store' = store \ {t} /\ moved' = moved \ {t}
    /\ mode' = [mode EXCEPT ![t] = "rw"]
    /\ entry' = [entry EXCEPT ![t] = NoEntry]
    /\ UNCHANGED <<keeperVars, captures, cloneVars, op, lane>>

\* delete: refused while references are counted.  The libvirt record goes if it
\* is found, then the disk and the entry; an internal snapshot needs the keeper off.
Delete(t) ==
    /\ op.at = "idle" /\ Recorded(t)
    /\ entry[t].refs = 0 \/ TRUE \in Forces
    /\ entry[t].kind = "internal" => keeper = "off"
    /\ store' = store \ {t} /\ moved' = moved \ {t}
    /\ mode' = [mode EXCEPT ![t] = "rw"]
    /\ entry' = [entry EXCEPT ![t] = NoEntry]
    /\ UNCHANGED <<keeperVars, captures, cloneVars, op, lane>>

\* snapshot revert: the keeper stays as it is.
AskRevert(t) ==
    /\ op.at = "idle"
    /\ op' = [Idle EXCEPT !.at = "revertOnly", !.tag = t]
    /\ UNCHANGED <<keeperVars, storeVars, cloneVars, lane>>

\* revert-and-start: a forced stop, the revert, the start.
RevertStops(t) ==
    /\ op.at = "idle"
    /\ keeper' = "off"
    /\ op' = [Idle EXCEPT !.at = "revert", !.tag = t]
    /\ UNCHANGED <<active, storeVars, cloneVars, lane>>

\* qemu-img refuses to revert the disk of a running VM to an internal snapshot.
\* On an external one libvirt gives the keeper the snapshot's disk or a new one
\* on top, and may turn it off.
Revert ==
    /\ op.at \in {"revert", "revertOnly"}
    /\ \/ /\ \/ entry[op.tag].kind = "internal" /\ keeper = "off" /\ UNCHANGED keeperVars
             \/ /\ entry[op.tag].kind = "external"
                /\ active' \in {NoTag, op.tag} /\ keeper' \in {keeper, "off"}
          /\ op' = IF op.at = "revert" THEN [Idle EXCEPT !.at = "revived"] ELSE Idle
       \/ op' = Idle /\ UNCHANGED keeperVars
    /\ UNCHANGED <<storeVars, cloneVars, lane>>

----------------------------------------------------------------------------
(* A lane: build the clone entity under its lock, boot, tear down.         *)

Go(l, at) == lane' = [lane EXCEPT ![l].at = at]
BuildFails(l) == lane' = [lane EXCEPT ![l] = AtHome]

LockEntity(l) ==
    /\ lane[l].at = "idle"
    /\ \E e \in Entities, t \in Tags :
          /\ ~Locked(e) /\ entry[t].refs < MaxRefs
          /\ lane' = [lane EXCEPT ![l] = [AtHome EXCEPT !.at = "lookup", !.e = e, !.tag = t]]
    /\ UNCHANGED <<keeperVars, storeVars, cloneVars, op>>

\* BuildClone looks the snapshot up, promotes an internal one, and refuses one
\* whose own backing has been modified since.  A promotion that fails leaves the
\* entry internal, and at most a torn copy that no entry names.
LookupParent(l) ==
    LET t == lane[l].tag IN
    /\ lane[l].at = "lookup"
    /\ \/ /\ Linkable(t) /\ t \notin moved
          /\ Go(l, "fresh") /\ UNCHANGED <<storeVars, newer>>
       \/ Promoted(t) /\ Go(l, "fresh")
       \/ entry[t].kind = "internal" /\ BuildFails(l) /\ UNCHANGED <<storeVars, newer>>
       \/ /\ ~Recorded(t) \/ t \in moved
          /\ BuildFails(l) /\ UNCHANGED <<storeVars, newer>>
    /\ UNCHANGED <<keeperVars, overlay, op>>

CloneDiskFresh(e, t) == overlay[e] = t /\ t \in store /\ e \notin newer

\* Sensitivity: an existing overlay is kept whatever it backs onto.
TestExists(l) ==
    /\ lane[l].at = "fresh"
    /\ Go(l, IF overlay[lane[l].e] # NoTag THEN "count" ELSE "create")
    /\ UNCHANGED <<keeperVars, storeVars, cloneVars, op>>

TestFresh(l) ==
    /\ lane[l].at = "fresh"
    /\ Go(l, IF CloneDiskFresh(lane[l].e, lane[l].tag) THEN "count" ELSE "create")
    /\ UNCHANGED <<keeperVars, storeVars, cloneVars, op>>

\* qemu-img create needs the backing file, and the write lock of a disk that
\* no running domain has open.
CreateOverlay(l) ==
    LET e == lane[l].e  t == lane[l].tag IN
    /\ lane[l].at = "create"
    /\ IF t \in store /\ ~\E k \in Lanes : lane[k].at = "up" /\ lane[k].e = e
       THEN /\ overlay' = [overlay EXCEPT ![e] = t]
            /\ newer' = newer \ {e}
            /\ Go(l, "count")
       ELSE BuildFails(l) /\ UNCHANGED cloneVars
    /\ UNCHANGED <<keeperVars, storeVars, op>>

\* Sensitivity: the count is not written.
CountNothing(l) ==
    /\ lane[l].at = "count"
    /\ lane' = [lane EXCEPT ![l].at = "seed", ![l].counted = lane[l].tag, ![l].linked = Linkable(lane[l].tag)]
    /\ UNCHANGED <<keeperVars, storeVars, cloneVars, op>>

\* The reference is counted by every build; without an entry it only warns.
\* The entry may be another one by now, even an internal one without a disk.
CountReference(l) ==
    LET t == lane[l].tag IN
    /\ lane[l].at = "count"
    /\ IF Recorded(t)
       THEN /\ entry' = [entry EXCEPT ![t].refs = @ + 1]
            /\ lane' = [lane EXCEPT ![l].at = "seed", ![l].counted = t, ![l].linked = Linkable(t)]
       ELSE Go(l, "seed") /\ UNCHANGED entry
    /\ UNCHANGED <<keeperVars, store, mode, moved, captures, cloneVars, op>>

\* A build that fails at the seed has counted its reference.
WriteSeed(l) ==
    /\ lane[l].at = "seed"
    /\ Go(l, "built") \/ BuildFails(l)
    /\ UNCHANGED <<keeperVars, storeVars, cloneVars, op>>

Boot(l) ==
    /\ lane[l].at = "built"
    /\ overlay[lane[l].e] \in store
    /\ Go(l, "up")
    /\ UNCHANGED <<keeperVars, storeVars, cloneVars, op>>

\* Sensitivity: two cleanups of one lane both take the reference back.
TearDownTwice(l) ==
    LET t == lane[l].counted IN
    /\ lane[l].at \in {"built", "up"}
    /\ entry' = IF t # NoTag /\ Recorded(t) THEN [entry EXCEPT ![t].refs = @ - 2] ELSE entry
    /\ lane' = [lane EXCEPT ![l] = AtHome]
    /\ UNCHANGED <<keeperVars, store, mode, moved, captures, cloneVars, op>>

\* The lane's destroy takes its reference back.
TearDown(l) ==
    LET t == lane[l].counted IN
    /\ lane[l].at \in {"built", "up"}
    /\ entry' = IF t # NoTag /\ Recorded(t) /\ entry[t].refs > 0
                THEN [entry EXCEPT ![t].refs = @ - 1] ELSE entry
    /\ lane' = [lane EXCEPT ![l] = AtHome]
    /\ UNCHANGED <<keeperVars, store, mode, moved, captures, cloneVars, op>>

LaneStep(l) ==
    \/ LockEntity(l) \/ LookupParent(l) \/ TestFresh(l)
    \/ CreateOverlay(l) \/ CountReference(l) \/ WriteSeed(l) \/ Boot(l) \/ TearDown(l)

OperatorStep ==
    \/ OpenForStart \/ StartKeeper \/ SealAfterStart
    \/ CaptureExternal \/ SealSnapshot \/ RecordEntry \/ CaptureInternal \/ Revert
    \/ \E t \in Tags :
          CreateSnapshot(t) \/ CreateConsistent(t) \/ Promote(t) \/ Delete(t)
          \/ AskRevert(t) \/ RevertStops(t)

Next ==
    \/ OperatorStep \/ KeeperWrites \/ KeeperStops \/ BaseRebuilt
    \/ \E l \in Lanes : LaneStep(l)

Spec == Init /\ [][Next]_vars

----------------------------------------------------------------------------
(* Properties.                                                             *)

Kinds == {"none", "external", "internal"}
Origins == {"none", "capture", "fallback", "promote"}
OpAt == {"idle", "external", "internal", "seal", "record", "start", "started",
         "revert", "revertOnly", "revived"}

TypeOK ==
    /\ keeper \in {"off", "running"} /\ active \in Tags \cup {NoTag}
    /\ store \subseteq Tags
    /\ mode \in [Tags -> {"ro", "rw"}]
    /\ entry \in [Tags -> [kind : Kinds, refs : Nat, sound : BOOLEAN, by : Origins]]
    /\ moved \subseteq Tags /\ captures \in 0..MaxCaptures
    /\ overlay \in [Entities -> Tags \cup {NoTag}]
    /\ newer \subseteq Entities
    /\ op \in [at : OpAt, tag : Tags \cup {NoTag}, quiesce : BOOLEAN, strict : BOOLEAN,
               quiet : BOOLEAN, by : Origins]
    /\ lane \in [Lanes -> [at : InBuild \cup {"idle", "built", "up"}, e : Entities \cup {NoEntity},
                          tag : Tags \cup {NoTag}, counted : Tags \cup {NoTag}, linked : BOOLEAN]]

\* "delete refuses while refcount > 0": the store keeps the promise of
\* SharedDisks to the lanes whose reference was counted on a disk of the store,
\* whatever builds, captures, deletions and reverts run concurrently.
Shared == INSTANCE SharedDisks WITH
    Users <- Lanes,
    present <- store,
    users <- [t \in Tags |-> Linked(t)]

SharedSpec == Shared!Spec

\* Every counted lane is covered by the reference count of its snapshot: a
\* teardown never takes away the reference of another lane.
RefsCoverLanes == \A t \in Tags : Cardinality(Counted(t)) <= entry[t].refs

\* create-consistent never records a snapshot taken of a running guest without
\* freezing it.
ConsistentIsQuiet == \A t \in Tags : entry[t].sound

\* Clones find the disk of a captured snapshot read-only, so that they can share
\* it, except while the keeper is started on it; copies that a promotion made
\* and captures that fell back are the exceptions the code leaves.
ReadOnlyForClones ==
    \A t \in Tags : Linkable(t) /\ t \in store /\ mode[t] = "rw"
        => \/ entry[t].by \in {"fallback", "promote"}
           \/ op.at \in {"start", "started"} /\ active = t

\* A build that counts its reference has an overlay on the snapshot it was asked
\* for, also when it took an existing overlay for fresh.
CountsWhatItLinked == \A l \in Lanes : lane[l].at = "count" => overlay[lane[l].e] = lane[l].tag

\* "The snapshot stays undeletable until every clone is gone": a built clone has
\* its backing disk.  It holds as long as no deletion falls between a clone's
\* overlay and its count, and none is forced.
BuiltKeepsDisk == \A l \in Lanes : lane[l].at \in {"built", "up"} => lane[l].tag \in store

=============================================================================
