------------------------ MODULE ContainerDiskCache ------------------------
(***************************************************************************)
(* The cache of ONE container-disk reference: the registry's tag, the      *)
(* cached disk with the marker that records whose disk it is, and the      *)
(* pulls of independent "vm build" processes, which a flock serializes.    *)
(* A pull can be refused, can fail at any step, and its process can die.   *)
(***************************************************************************)
EXTENDS Integers

CONSTANTS
    Builds,        \* the processes that build
    MaxVersion,    \* bound: versions of the artifact the tag has named
    Paths,         \* the in-image disk paths the entities ask for
    Rollback       \* may the tag be moved back to an older version

ASSUME CacheAssumption ==
    /\ MaxVersion \in Nat \ {0}
    /\ Rollback \in BOOLEAN
    /\ "free" \notin Builds /\ "none" \notin Paths

VARIABLES
    tag,        \* the version the reference names in the registry
    disk,       \* the cached disk.qcow2
    part,       \* disk.qcow2.part, being extracted
    marker,     \* manifest-digest.txt: a version, 0 if absent or unreadable
    flock,      \* who holds disk.qcow2.lock
    pull,       \* where each process is in its pull
    want,       \* the version each process has inspected
    path        \* the in-image path its source asks for

cacheVars == <<tag, disk, part, marker, flock, pull, want, path>>

Versions == 1..MaxVersion
NoPath == "none"
File == [v : 0..MaxVersion, of : Paths \cup {NoPath}, whole : BOOLEAN]
NoFile == [v |-> 0, of |-> NoPath, whole |-> FALSE]

Locked == {"inspect", "fetch", "create", "extract", "promote", "record"}

CacheTypeOK ==
    /\ tag \in Versions
    /\ disk \in File /\ part \in File
    /\ marker \in 0..MaxVersion
    /\ flock \in Builds \cup {"free"}
    /\ pull \in [Builds -> Locked \cup {"none", "lock", "ok", "failed"}]
    /\ want \in [Builds -> 0..MaxVersion]
    /\ path \in [Builds -> Paths \cup {NoPath}]

CacheInit ==
    /\ tag = 1
    /\ disk = NoFile /\ part = NoFile
    /\ marker = 0
    /\ flock = "free"
    /\ pull = [b \in Builds |-> "none"]
    /\ want = [b \in Builds |-> 0]
    /\ path = [b \in Builds |-> NoPath]

Pulling(b, l) == pull[b] = l
Then(b, l) == pull' = [pull EXCEPT ![b] = l]
Release(b) == flock' = IF flock = b THEN "free" ELSE flock

\* The pull is over and its lock released.
Ends(b, how) == Then(b, how) /\ Release(b)

----------------------------------------------------------------------------
(* The registry.                                                           *)

Retag ==
    /\ \E v \in Versions : (v > tag \/ Rollback) /\ tag' = v
    /\ UNCHANGED <<disk, part, marker, flock, pull, want, path>>

----------------------------------------------------------------------------
(* pullContainerDisk.                                                      *)

\* A build asks for the disk at in-image path d.
Ask(b, d) ==
    /\ Pulling(b, "none")
    /\ path' = [path EXCEPT ![b] = d]
    /\ Then(b, "lock")
    /\ UNCHANGED <<tag, disk, part, marker, flock, want>>

\* The pull is left behind, what it knew with it.
Forgotten(b) ==
    /\ Then(b, "none")
    /\ want' = [want EXCEPT ![b] = 0]
    /\ path' = [path EXCEPT ![b] = NoPath]

\* The build takes the reply.
Answered(b) ==
    /\ pull[b] \in {"ok", "failed"}
    /\ Forgotten(b)
    /\ UNCHANGED <<tag, disk, part, marker, flock>>

\* Sensitivity: the lock is not waited for.
LockPathNoWait(b) ==
    /\ Pulling(b, "lock")
    /\ flock' = b
    /\ Then(b, "inspect")
    /\ UNCHANGED <<tag, disk, part, marker, want, path>>

LockPath(b) ==
    /\ Pulling(b, "lock")
    /\ flock = "free"
    /\ flock' = b
    /\ Then(b, "inspect")
    /\ UNCHANGED <<tag, disk, part, marker, want, path>>

\* "skopeo inspect" tells the identity of what the tag names now; the hit test
\* compares it with the marker.  A forced build does not take the hit.
Inspect(b, force) ==
    /\ Pulling(b, "inspect")
    /\ want' = [want EXCEPT ![b] = tag]
    /\ IF ~force /\ disk # NoFile /\ marker = tag
       THEN Ends(b, "ok")
       ELSE Then(b, "fetch") /\ UNCHANGED flock
    /\ UNCHANGED <<tag, disk, part, marker, path>>

\* "skopeo copy" goes by the tag again: the layer of the inspected manifest is
\* in the copy only if the tag still names it.
Fetch(b) ==
    /\ Pulling(b, "fetch")
    /\ IF tag = want[b] THEN Then(b, "create") /\ UNCHANGED flock
                        ELSE Ends(b, "failed")
    /\ UNCHANGED <<tag, disk, part, marker, want, path>>

\* Sensitivity: the marker is recorded before the disk is in place.
CreatePartRecorded(b) ==
    /\ Pulling(b, "create")
    /\ part' = [v |-> want[b], of |-> path[b], whole |-> FALSE]
    /\ marker' = want[b]
    /\ Then(b, "extract")
    /\ UNCHANGED <<tag, disk, flock, want, path>>

CreatePart(b) ==
    /\ Pulling(b, "create")
    /\ part' = [v |-> want[b], of |-> path[b], whole |-> FALSE]
    /\ Then(b, "extract")
    /\ UNCHANGED <<tag, disk, marker, flock, want, path>>

\* The disk is streamed out of the layer and its format is checked.
Extract(b) ==
    /\ Pulling(b, "extract")
    /\ part' = [part EXCEPT !.whole = TRUE]
    /\ Then(b, "promote")
    /\ UNCHANGED <<tag, disk, marker, flock, want, path>>

Promote(b) ==
    /\ Pulling(b, "promote")
    /\ disk' = part
    /\ part' = NoFile
    /\ Then(b, "record")
    /\ UNCHANGED <<tag, marker, flock, want, path>>

Record(b) ==
    /\ Pulling(b, "record")
    /\ marker' = want[b]
    /\ Ends(b, "ok")
    /\ UNCHANGED <<tag, disk, part, want, path>>

PullStep(b, force) ==
    \/ LockPath(b) \/ Inspect(b, force) \/ Fetch(b)
    \/ CreatePart(b) \/ Extract(b) \/ Promote(b) \/ Record(b)

\* Any step can return an error: a started .part is removed; writing the marker
\* truncates it first.
PullFails(b) ==
    /\ pull[b] \in Locked \cup {"lock"}
    /\ part' = IF pull[b] \in {"create", "extract"} THEN NoFile ELSE part
    /\ \/ UNCHANGED marker
       \/ Pulling(b, "record") /\ marker' = 0
    /\ Ends(b, "failed")
    /\ UNCHANGED <<tag, disk, want, path>>

\* The process dies: its flock goes with it, its files stay.
PullDies(b) ==
    /\ \/ UNCHANGED marker
       \/ Pulling(b, "record") /\ marker' = 0
    /\ Release(b) /\ Forgotten(b)
    /\ UNCHANGED <<tag, disk, part>>

----------------------------------------------------------------------------
\* The cache by itself, with builds that ask it for disks in any order.
CacheNext ==
    \/ \E b \in Builds :
          \/ \E d \in Paths : Ask(b, d)
          \/ \E force \in BOOLEAN : PullStep(b, force)
          \/ PullFails(b) \/ PullDies(b) \/ Answered(b)
    \/ Retag

CacheSpec == CacheInit /\ [][CacheNext]_cacheVars

----------------------------------------------------------------------------
(* Properties.                                                             *)

\* The cache never holds a half-extracted disk, whoever extracts, fails or dies:
\* a build copies whatever lies there.
CachedDiskWhole == disk # NoFile => disk.whole

\* A pull that succeeds, by a hit or by an extraction, leaves in the cache a disk
\* that is no older than what the reference named when this pull inspected it -
\* also after pulls that died between promoting a disk and recording it.
PullServesIdentity ==
    \A b \in Builds : Pulling(b, "ok") => disk.whole /\ disk.v >= want[b]

\* BuildContainerDisk: "a changed ref or path invalidates the per-VM disk": the
\* disk a pull leaves for the build to copy is the one at the path it asked for.
\* It holds as long as all sources of one reference name one path.
PullServesPath == \A b \in Builds : Pulling(b, "ok") => disk.of = path[b]

=============================================================================
