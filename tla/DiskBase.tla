----------------------------- MODULE DiskBase -----------------------------
(***************************************************************************)
(* "vm build" and "vm create" of several check beds over shared entities:  *)
(* every entity has ONE base disk with a build stamp, rebuilt under a lock *)
(* of the entity and only when its signature changed; every bed boots a    *)
(* copy-on-write overlay of that base.  Container-disk entities take their *)
(* disk from the cache (ContainerDiskCache); here they share one reference.*)
(* Bootstrap and bootc entities have no stamp: one container script makes  *)
(* their disk anew on every build, and it is copied over the old one.      *)
(***************************************************************************)
EXTENDS ContainerDiskCache

Scripted == {"bootstrap", "bootc"}

CONSTANTS
    Entities,      \* the kind:vm entities
    Arms,          \* the source kinds they may have
    Sizes,         \* the disk sizes they may be given
    MayForce,      \* may a build be forced
    MayStop        \* may a step fail, or the process die

ASSUME BaseAssumption ==
    /\ Arms \subseteq {"cloud_image", "container_disk", "iso"} \cup Scripted
    /\ Sizes \subseteq Nat \ {0}
    /\ MayForce \in BOOLEAN /\ MayStop \in BOOLEAN

VARIABLES
    arm,      \* the source kind of each entity
    base,     \* its disk.qcow2
    stamp,    \* its .build.stamp
    lock,     \* who holds its .build.lock
    at,       \* where each bed is
    job       \* what its build has resolved

baseVars == <<arm, base, stamp, lock, at, job>>
vars == <<cacheVars, baseVars>>

\* What a stamp records: the disk size and what the disk is taken from (the path in
\* the image; the identity of the fetched file for the other arms).
Signatures == [size : Sizes, path : Paths]
NoSignature == [size |-> 0, path |-> NoPath]

\* A base is being written, written but not resized, or complete.
States == {"none", "partial", "unsized", "complete"}
Disk == [state : States, size : Sizes \cup {0}]
NoBase == [state |-> "none", size |-> 0]

NoJob == [of |-> "none", sig |-> NoSignature, force |-> FALSE]
Jobs == [of : Entities, sig : Signatures, force : BOOLEAN]
Building == {"test", "pull", "remove", "write", "writing", "resize", "stamp",
             "script", "copying", "seed"}
Places == Building \cup {"idle", "lock", "built", "live"}

In(b, l) == at[b] = l

BaseTypeOK ==
    /\ arm \in [Entities -> Arms]
    /\ base \in [Entities -> Disk]
    /\ stamp \in [Entities -> Signatures \cup {NoSignature}]
    /\ lock \in [Entities -> Builds \cup {"free"}]
    /\ at \in [Builds -> Places]
    /\ job \in [Builds -> Jobs \cup {NoJob}]
    /\ \A b \in Builds : In(b, "idle") \/ job[b] \in Jobs

TypeOK == CacheTypeOK /\ BaseTypeOK

Init ==
    /\ CacheInit
    /\ arm \in [Entities -> Arms]
    /\ base = [e \in Entities |-> NoBase]
    /\ stamp = [e \in Entities |-> NoSignature]
    /\ lock = [e \in Entities |-> "free"]
    /\ at = [b \in Builds |-> "idle"]
    /\ job = [b \in Builds |-> NoJob]

To(b, l) == at' = [at EXCEPT ![b] = l]
Idle(b) == To(b, "idle") /\ job' = [job EXCEPT ![b] = NoJob]
E(b) == job[b].of
Sig(b) == job[b].sig
Overlaid(e) == \E b \in Builds : In(b, "live") /\ E(b) = e
Fresh(e) == /\ stamp[e] # NoSignature
            /\ base[e] = [state |-> "complete", size |-> stamp[e].size]

----------------------------------------------------------------------------
(* The surroundings.                                                       *)

\* "vm destroy <entity> --disk" takes the whole directory.  The code does not
\* look whether it is in use; here the operator does.
EntityDestroyed(e) ==
    /\ base[e] # NoBase
    /\ \A b \in Builds : at[b] \notin {"idle", "lock"} => E(b) # e
    /\ base' = [base EXCEPT ![e] = NoBase]
    /\ stamp' = [stamp EXCEPT ![e] = NoSignature]
    /\ UNCHANGED <<cacheVars, arm, lock, at, job>>

----------------------------------------------------------------------------
(* runVmBuildDrive and the build engines.                                  *)

\* The entity is resolved before its lock is taken, to whatever disk size and
\* in-image path charly.yml then gives it.
Resolve(b) ==
    /\ In(b, "idle")
    /\ \E e \in Entities, s \in Signatures, f \in BOOLEAN :
          /\ f => MayForce
          /\ job' = [job EXCEPT ![b] = [of |-> e, sig |-> s, force |-> f]]
    /\ To(b, "lock")
    /\ UNCHANGED <<cacheVars, arm, base, stamp, lock>>

\* Sensitivity: builds of one entity are not serialized.
LockBaseNoWait(b) ==
    /\ In(b, "lock")
    /\ lock' = [lock EXCEPT ![E(b)] = b]
    /\ To(b, "test")
    /\ UNCHANGED <<cacheVars, arm, base, stamp, job>>

LockBase(b) ==
    /\ In(b, "lock")
    /\ lock[E(b)] = "free"
    /\ lock' = [lock EXCEPT ![E(b)] = b]
    /\ To(b, "test")
    /\ UNCHANGED <<cacheVars, arm, base, stamp, job>>

\* "qemu-img info" reads the header, which a half-written disk may have.
Readable(d) == {d.state # "none", d.state \in {"unsized", "complete"}}

\* BuildBootstrapVM and BuildBootcVM look at neither the stamp nor the old disk.
StartScript(b) ==
    /\ In(b, "test")
    /\ arm[E(b)] \in Scripted
    /\ To(b, "script")
    /\ UNCHANGED <<cacheVars, arm, base, stamp, lock, job>>

\* diskBaseFresh: the stamp matches and the disk can be read.
TestFresh(b) ==
    /\ In(b, "test")
    /\ arm[E(b)] \notin Scripted
    /\ \E readable \in Readable(base[E(b)]) :
          IF ~job[b].force /\ stamp[E(b)] = Sig(b) /\ readable
          THEN To(b, "seed") /\ UNCHANGED cacheVars
          ELSE IF arm[E(b)] = "container_disk"
          THEN To(b, "pull") /\ Ask(b, Sig(b).path)
          ELSE To(b, "remove") /\ UNCHANGED cacheVars
    /\ UNCHANGED <<arm, base, stamp, lock, job>>

\* The pull works on the cache alone.
Pull(b) ==
    /\ In(b, "pull")
    /\ PullStep(b, job[b].force) \/ (MayStop /\ PullFails(b))
    /\ UNCHANGED baseVars

Unlocked(e) == lock' = [lock EXCEPT ![e] = "free"]

Pulled(b) ==
    /\ In(b, "pull")
    /\ Answered(b)
    /\ IF Pulling(b, "ok") THEN To(b, "remove") /\ UNCHANGED <<lock, job>>
                           ELSE Idle(b) /\ Unlocked(E(b))
    /\ UNCHANGED <<arm, base, stamp>>

RemoveBase(b) ==
    /\ In(b, "remove")
    /\ base' = [base EXCEPT ![E(b)] = NoBase]
    /\ To(b, "write")
    /\ UNCHANGED <<cacheVars, arm, stamp, lock, job>>

\* The overlay on the fetched image, the copy of the cached disk, or a blank disk
\* is created, then filled; only the blank one has its size from the start.
CreateBase(b) ==
    /\ In(b, "write")
    /\ base' = [base EXCEPT ![E(b)] = [state |-> "partial", size |-> 0]]
    /\ To(b, "writing")
    /\ UNCHANGED <<cacheVars, arm, stamp, lock, job>>

\* A torn cached disk makes a torn copy.
FillBase(b) ==
    /\ In(b, "writing")
    /\ \/ /\ arm[E(b)] = "iso"
          /\ base' = [base EXCEPT ![E(b)] = [state |-> "complete", size |-> Sig(b).size]]
          /\ To(b, "stamp")
       \/ /\ arm[E(b)] # "iso"
          /\ IF arm[E(b)] = "container_disk" => disk.whole
             THEN base' = [base EXCEPT ![E(b)] = [state |-> "unsized", size |-> 0]]
             ELSE UNCHANGED base
          /\ To(b, "resize")
    /\ UNCHANGED <<cacheVars, arm, stamp, lock, job>>

ResizeBase(b) ==
    /\ In(b, "resize")
    /\ base' = [base EXCEPT ![E(b)] =
                   IF @.state = "unsized"
                   THEN [state |-> "complete", size |-> Sig(b).size] ELSE @]
    /\ To(b, "stamp")
    /\ UNCHANGED <<cacheVars, arm, stamp, lock, job>>

\* The container has made and sized the disk in its scratch directory, from where
\* it is copied over the entity's disk.
CopyOut(b) ==
    /\ In(b, "script")
    /\ base' = [base EXCEPT ![E(b)] = [state |-> "partial", size |-> 0]]
    /\ To(b, "copying")
    /\ UNCHANGED <<cacheVars, arm, stamp, lock, job>>

\* Sensitivity: the lock covers the disk alone, not what is made from it.
CopyDoneUnlocked(b) ==
    /\ In(b, "copying")
    /\ base' = [base EXCEPT ![E(b)] = [state |-> "complete", size |-> Sig(b).size]]
    /\ To(b, "seed")
    /\ Unlocked(E(b))
    /\ UNCHANGED <<cacheVars, arm, stamp, job>>

CopyDone(b) ==
    /\ In(b, "copying")
    /\ base' = [base EXCEPT ![E(b)] = [state |-> "complete", size |-> Sig(b).size]]
    /\ To(b, "seed")
    /\ UNCHANGED <<cacheVars, arm, stamp, lock, job>>

WriteStamp(b) ==
    /\ In(b, "stamp")
    /\ stamp' = [stamp EXCEPT ![E(b)] = Sig(b)]
    /\ To(b, "seed")
    /\ UNCHANGED <<cacheVars, arm, base, lock, job>>

\* The seed volume and the box are made under the lock as well.
Finish(b) ==
    /\ In(b, "seed")
    /\ To(b, "built")
    /\ Unlocked(E(b))
    /\ UNCHANGED <<cacheVars, arm, base, stamp, job>>

\* A step returns an error, or the process dies: the locks are released, the
\* files stay; writing the stamp truncates it first.
Stop(b) ==
    /\ MayStop
    /\ at[b] \in Building
    /\ PullDies(b)
    /\ \/ UNCHANGED stamp
       \/ In(b, "stamp") /\ stamp' = [stamp EXCEPT ![E(b)] = NoSignature]
    /\ Idle(b)
    /\ Unlocked(E(b))
    /\ UNCHANGED <<arm, base>>

BuildStep(b) ==
    \/ LockBase(b) \/ TestFresh(b) \/ Pull(b) \/ Pulled(b) \/ RemoveBase(b)
    \/ CreateBase(b) \/ FillBase(b) \/ ResizeBase(b) \/ WriteStamp(b) \/ Finish(b)
    \/ StartScript(b) \/ CopyOut(b) \/ CopyDone(b)

----------------------------------------------------------------------------
(* The bed's domain: create makes the overlay, without the lock.           *)

Create(b) ==
    /\ In(b, "built")
    /\ IF base[E(b)].state = "none" THEN Idle(b) ELSE To(b, "live") /\ UNCHANGED job
    /\ UNCHANGED <<cacheVars, arm, base, stamp, lock>>

Destroy(b) ==
    /\ In(b, "live")
    /\ Idle(b)
    /\ UNCHANGED <<cacheVars, arm, base, stamp, lock>>

Next ==
    \/ \E b \in Builds : Resolve(b) \/ BuildStep(b) \/ Stop(b) \/ Create(b) \/ Destroy(b)
    \/ \E e \in Entities : EntityDestroyed(e)
    \/ Retag /\ UNCHANGED baseVars

Spec == Init /\ [][Next]_vars

----------------------------------------------------------------------------
(* Properties.                                                             *)

\* diskBaseFresh: "a matching stamp already implies a complete build" - whenever
\* no build of the entity is in progress, a base that has been written and lies
\* beside a stamp has the size that stamp records.
StampMeansComplete ==
    \A e \in Entities :
        lock[e] = "free" /\ stamp[e] # NoSignature /\ Readable(base[e]) = {TRUE} => Fresh(e)

\* A base is rebuilt "ONLY when the source signature drifted or --force is set":
\* while a domain's overlay backs onto a complete base, only a build whose
\* signature differs from the stamp, or a forced one, removes it, however many
\* beds build the entity at the same time and whichever of them stop half-way.
\* The two scripted kinds are the exception: each of their builds copies over it.
FreshBaseLeftAlone ==
    [][\A e \in Entities :
          Overlaid(e) /\ base[e].state = "complete" /\ base'[e] # base[e]
              => \E b \in Builds :
                    /\ E(b) = e
                    /\ \/ In(b, "remove") /\ (job[b].force \/ Sig(b) # stamp[e])
                       \/ In(b, "script") /\ arm[e] \in Scripted]_vars

\* The disk a scripted build has made is still whole, and of the size the build
\* was asked for, when the seed and the box are made from it, although the next
\* bed's build of the entity will copy over it.
EmittedWhole ==
    \A b \in Builds :
        In(b, "seed") /\ arm[E(b)] \in Scripted
            => base[E(b)] = [state |-> "complete", size |-> Sig(b).size]

=============================================================================
