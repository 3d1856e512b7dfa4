-------------------------- MODULE DiskBase_proofs --------------------------
(***************************************************************************)
(* Theorems about DiskBase and the container-disk cache under it, for any  *)
(* number of beds, entities, artifact versions and signatures.             *)
(***************************************************************************)
EXTENDS DiskBase, TLAPS

----------------------------------------------------------------------------
(* Types.                                                                  *)

\* A step of a pull keeps the cache in type.
LEMMA PullStepType ==
    ASSUME CacheTypeOK, NEW b \in Builds, NEW f,
           PullStep(b, f) \/ PullFails(b)
    PROVE  CacheTypeOK'
<1>. USE CacheAssumption DEF CacheTypeOK, Locked, Then, Pulling, Ends, Release
<1>1. CASE LockPath(b) \/ Inspect(b, f) \/ Fetch(b)
    BY <1>1 DEF LockPath, Inspect, Fetch, Versions
<1>2. CASE CreatePart(b)
    <2>1. part' \in File
        BY <1>2 DEF CreatePart, File
    <2>. QED BY <1>2, <2>1 DEF CreatePart
<1>3. CASE Extract(b)
    <2>1. part' \in File
        BY <1>3 DEF Extract, File
    <2>. QED BY <1>3, <2>1 DEF Extract
<1>4. CASE Promote(b) \/ Record(b)
    <2>1. NoFile \in File
        BY DEF NoFile, File
    <2>. QED BY <1>4, <2>1 DEF Promote, Record
<1>5. CASE PullFails(b)
    BY <1>5 DEF PullFails, File, NoFile
<1>. QED BY <1>1, <1>2, <1>3, <1>4, <1>5 DEF PullStep

\* So do the steps by which a build asks for a pull and leaves it.
LEMMA PullEndsType ==
    ASSUME CacheTypeOK, NEW b \in Builds,
           (\E d \in Paths : Ask(b, d)) \/ Answered(b) \/ PullDies(b)
    PROVE  CacheTypeOK'
BY CacheAssumption
   DEF CacheTypeOK, Ask, Answered, PullDies, Forgotten, Release, Then, Locked

\* The parts of a signature and of a job.
LEMMA JobParts ==
    ASSUME NEW j \in Jobs
    PROVE  /\ j.of \in Entities /\ j.sig \in Signatures /\ j.force \in BOOLEAN
           /\ j.sig.size \in Sizes /\ j.sig.path \in Paths
BY DEF Jobs, Signatures

\* A step of a build keeps the types.
LEMMA BuildStepType ==
    ASSUME TypeOK, NEW b \in Builds, BuildStep(b)
    PROVE  TypeOK'
<1>. USE DEF TypeOK
<1>0. at[b] # "idle" => job[b] \in Jobs
    BY DEF BaseTypeOK, In
<1>1. CASE LockBase(b)
    BY <1>0, <1>1, JobParts DEF LockBase, BaseTypeOK, CacheTypeOK, cacheVars, In, To, E,
       Places, Building
<1>2. CASE TestFresh(b)
    <2>1. CacheTypeOK'
        <3>1. \/ UNCHANGED cacheVars
              \/ Ask(b, Sig(b).path)
            BY <1>2 DEF TestFresh
        <3>2. Sig(b).path \in Paths
            BY <1>0, <1>2, JobParts DEF TestFresh, In, Sig
        <3>. QED BY <3>1, <3>2, PullEndsType DEF CacheTypeOK, cacheVars
    <2>2. BaseTypeOK'
        <3>1. at' \in [Builds -> Places]
            BY <1>2 DEF TestFresh, BaseTypeOK, To, Places, Building
        <3>2. job[b] \in Jobs
            BY <1>0, <1>2 DEF TestFresh, In
        <3>. QED BY <1>2, <3>1, <3>2 DEF TestFresh, BaseTypeOK, To, In
    <2>. QED BY <2>1, <2>2
<1>3. CASE Pull(b)
    BY <1>3, PullStepType DEF Pull, BaseTypeOK, baseVars, In
<1>4. CASE Pulled(b)
    <2>1. CacheTypeOK'
        BY <1>4, PullEndsType DEF Pulled
    <2>2. BaseTypeOK'
        BY <1>0, <1>4, JobParts DEF Pulled, BaseTypeOK, In, To, Idle, Unlocked, E,
           Places, Building
    <2>. QED BY <2>1, <2>2
<1>5. CASE RemoveBase(b) \/ CreateBase(b)
    <2>1. base' \in [Entities -> Disk]
        BY <1>5 DEF RemoveBase, CreateBase, BaseTypeOK, Disk, NoBase, States
    <2>. QED BY <1>0, <1>5, <2>1 DEF RemoveBase, CreateBase, BaseTypeOK, CacheTypeOK,
         cacheVars, In, To, Places, Building
<1>6. CASE FillBase(b)
    <2>1. Sig(b).size \in Sizes
        BY <1>0, <1>6, JobParts DEF FillBase, In, Sig
    <2>2. \/ base' = base
          \/ base' = [base EXCEPT ![E(b)] = [state |-> "complete", size |-> Sig(b).size]]
          \/ base' = [base EXCEPT ![E(b)] = [state |-> "unsized", size |-> 0]]
        BY <1>6 DEF FillBase
    <2>3. base' \in [Entities -> Disk]
        BY <2>1, <2>2 DEF BaseTypeOK, Disk, States
    <2>4. at' \in [Builds -> Places] /\ \A c \in Builds : at'[c] # "idle" \/ c # b
        BY <1>6 DEF FillBase, BaseTypeOK, To, Places, Building
    <2>. QED BY <1>0, <1>6, <2>3, <2>4 DEF FillBase, BaseTypeOK, CacheTypeOK, cacheVars, In, To
<1>7. CASE ResizeBase(b)
    <2>1. Sig(b).size \in Sizes
        BY <1>0, <1>7, JobParts DEF ResizeBase, In, Sig
    <2>2. base' \in [Entities -> Disk]
        BY <1>7, <2>1 DEF ResizeBase, BaseTypeOK, Disk, States
    <2>. QED BY <1>0, <1>7, <2>2 DEF ResizeBase, BaseTypeOK, CacheTypeOK, cacheVars, In, To,
         Places, Building
<1>8. CASE WriteStamp(b)
    BY <1>0, <1>8, JobParts DEF WriteStamp, BaseTypeOK, CacheTypeOK, cacheVars, In, To, E,
       Sig, Places, Building
<1>9. CASE Finish(b)
    BY <1>0, <1>9 DEF Finish, BaseTypeOK, CacheTypeOK, cacheVars, In, To, E, Unlocked,
       Places, Building
<1>10. CASE StartScript(b)
    BY <1>0, <1>10 DEF StartScript, BaseTypeOK, CacheTypeOK, cacheVars, In, To, Places, Building
<1>11. CASE CopyOut(b) \/ CopyDone(b)
    <2>1. Sig(b).size \in Sizes
        BY <1>0, <1>11, JobParts DEF CopyOut, CopyDone, In, Sig
    <2>2. base' \in [Entities -> Disk]
        BY <1>11, <2>1 DEF CopyOut, CopyDone, BaseTypeOK, Disk, States
    <2>. QED BY <1>0, <1>11, <2>2 DEF CopyOut, CopyDone, BaseTypeOK, CacheTypeOK, cacheVars,
         In, To, Places, Building
<1>. QED BY <1>1, <1>2, <1>3, <1>4, <1>5, <1>6, <1>7, <1>8, <1>9, <1>10, <1>11 DEF BuildStep

\* Every variable of the builds and of the cache keeps its type, for any number
\* of beds, entities and versions.
THEOREM TypeCorrect == Spec => []TypeOK
<1>1. Init => TypeOK
    BY CacheAssumption DEF Init, CacheInit, TypeOK, CacheTypeOK, BaseTypeOK, Versions,
       File, NoFile, Disk, NoBase, States, Places, Building, In
<1>2. TypeOK /\ [Next]_vars => TypeOK'
    <2> SUFFICES ASSUME TypeOK, [Next]_vars PROVE TypeOK'
        OBVIOUS
    <2>. USE DEF TypeOK
    <2>1. ASSUME NEW b \in Builds, Resolve(b) PROVE TypeOK'
        <3>1. PICK e \in Entities, s \in Signatures, f \in BOOLEAN :
                 job' = [job EXCEPT ![b] = [of |-> e, sig |-> s, force |-> f]]
            BY <2>1 DEF Resolve
        <3>2. [of |-> e, sig |-> s, force |-> f] \in Jobs
            BY DEF Jobs
        <3>. QED BY <2>1, <3>1, <3>2 DEF Resolve, BaseTypeOK, CacheTypeOK, cacheVars, In, To,
             Places, Building
    <2>2. ASSUME NEW b \in Builds, BuildStep(b) PROVE TypeOK'
        BY <2>2, BuildStepType
    <2>3. ASSUME NEW b \in Builds, Stop(b) PROVE TypeOK'
        <3>1. CacheTypeOK'
            BY <2>3, PullEndsType DEF Stop
        <3>2. BaseTypeOK'
            BY <2>3 DEF Stop, BaseTypeOK, In, To, Idle, Unlocked, Places, Building
        <3>. QED BY <3>1, <3>2
    <2>4. ASSUME NEW b \in Builds, Create(b) \/ Destroy(b) PROVE TypeOK'
        BY <2>4 DEF Create, Destroy, BaseTypeOK, CacheTypeOK, cacheVars, In, To, Idle,
           Places, Building
    <2>5. ASSUME NEW e \in Entities, EntityDestroyed(e) PROVE TypeOK'
        BY <2>5 DEF EntityDestroyed, BaseTypeOK, CacheTypeOK, cacheVars, Disk, NoBase, States, In
    <2>6. CASE Retag /\ UNCHANGED baseVars
        BY <2>6 DEF Retag, BaseTypeOK, CacheTypeOK, baseVars, In
    <2>7. CASE UNCHANGED vars
        BY <2>7 DEF vars, cacheVars, baseVars, BaseTypeOK, CacheTypeOK, In
    <2>. QED BY <2>1, <2>2, <2>3, <2>4, <2>5, <2>6, <2>7 DEF Next
<1>. QED BY <1>1, <1>2, PTL DEF Spec

----------------------------------------------------------------------------
(* The cache.                                                              *)

\* Only the holder of the lock is inside a pull, and what it promotes is whole.
CacheInv ==
    /\ CachedDiskWhole
    /\ \A b \in Builds : pull[b] \in Locked => flock = b
    /\ \A b \in Builds : Pulling(b, "promote") => part.whole

\* Every step of the cache keeps its types.
LEMMA CacheTypeStep ==
    ASSUME CacheTypeOK, [CacheNext]_cacheVars
    PROVE  CacheTypeOK'
<1>1. CASE UNCHANGED cacheVars
    BY <1>1 DEF CacheTypeOK, cacheVars
<1>2. CASE Retag
    BY <1>2 DEF CacheTypeOK, Retag
<1>. QED BY <1>1, <1>2, PullStepType, PullEndsType DEF CacheNext

\* Every step of the cache keeps the invariant of the lock and the part.
LEMMA CacheInvStep ==
    ASSUME CacheTypeOK, CacheInv, [CacheNext]_cacheVars
    PROVE  CacheInv'
<1>. USE DEF CacheInv, CachedDiskWhole, Pulling, Then
<1>1. CASE UNCHANGED cacheVars
    BY <1>1 DEF cacheVars
<1>2. CASE Retag
    BY <1>2 DEF Retag
<1>3. ASSUME NEW b \in Builds, (\E d \in Paths : Ask(b, d)) \/ Answered(b) \/ PullDies(b)
      PROVE  CacheInv'
    BY <1>3, CacheAssumption DEF CacheTypeOK, Ask, Answered, PullDies, Forgotten, Release, Locked
<1>4. ASSUME NEW b \in Builds, PullFails(b) PROVE CacheInv'
    <2>1. \A c \in Builds : pull'[c] \in Locked => c # b /\ pull[c] \in Locked /\ flock' = c
        BY <1>4 DEF CacheTypeOK, PullFails, Ends, Release, Locked
    <2>2. part' # part => pull[b] \in Locked
        BY <1>4 DEF PullFails, Locked
    <2>3. ASSUME NEW c \in Builds, pull'[c] = "promote" PROVE part'.whole
        <3>1. c # b /\ pull[c] = "promote" /\ pull[c] \in Locked
            BY <1>4, <2>3 DEF CacheTypeOK, PullFails, Ends, Locked
        <3>2. part' = part
            BY <2>2, <3>1
        <3>. QED BY <3>1, <3>2
    <2>4. disk' = disk
        BY <1>4 DEF PullFails
    <2>. QED BY <2>1, <2>3, <2>4
<1>5. ASSUME NEW b \in Builds, NEW force \in BOOLEAN, PullStep(b, force) PROVE CacheInv'
    <2>. USE DEF CacheTypeOK, Ends, Release, Locked
    <2>1. CASE LockPath(b)
        BY <2>1, CacheAssumption DEF LockPath
    <2>2. CASE Inspect(b, force) \/ Fetch(b)
        BY <2>2 DEF Inspect, Fetch
    <2>3. CASE CreatePart(b)
        BY <2>3 DEF CreatePart
    <2>4. CASE Extract(b)
        <3>1. part'.whole
            BY <2>4 DEF Extract, File
        <3>2. CachedDiskWhole'
            BY <2>4 DEF Extract
        <3>3. \A c \in Builds : pull'[c] \in Locked => flock' = c
            BY <2>4 DEF Extract
        <3>. QED BY <3>1, <3>2, <3>3
    <2>5. CASE Promote(b)
        <3>1. part.whole
            BY <2>5 DEF Promote
        <3>. QED BY <2>5, <3>1 DEF Promote
    <2>6. CASE Record(b)
        BY <2>6 DEF Record
    <2>. QED BY <1>5, <2>1, <2>2, <2>3, <2>4, <2>5, <2>6 DEF PullStep
<1>. QED BY <1>1, <1>2, <1>3, <1>4, <1>5 DEF CacheNext

\* What a pull has inspected, what it extracts and what the cache holds are in
\* order: the marker is never ahead of the disk, the disk never ahead of the tag,
\* and the holder of the lock never extracts an older version than it replaces.
OrderInv ==
    /\ marker <= disk.v /\ disk.v <= tag
    /\ \A b \in Builds :
          /\ want[b] <= tag
          /\ pull[b] \in Locked \ {"inspect"} => disk.v <= want[b]
          /\ pull[b] \in {"extract", "promote"} => part.v = want[b]
          /\ Pulling(b, "record") => disk.v = want[b] /\ disk.whole
    /\ PullServesIdentity

\* Every step keeps the order of versions, if the tag is never moved back.
LEMMA OrderInvStep ==
    ASSUME ~Rollback, CacheTypeOK, CacheInv, OrderInv, [CacheNext]_cacheVars
    PROVE  OrderInv'
<1>. USE CacheAssumption DEF OrderInv, PullServesIdentity, Pulling, Then
<1>0. disk.v \in Nat /\ part.v \in Nat /\ tag \in Nat /\ marker \in Nat
      /\ \A b \in Builds : want[b] \in Nat
    BY DEF CacheTypeOK, File, Versions
<1>1. CASE UNCHANGED cacheVars
    BY <1>1 DEF cacheVars
<1>2. CASE Retag
    BY <1>0, <1>2 DEF Retag, Versions
<1>3. ASSUME NEW b \in Builds, (\E d \in Paths : Ask(b, d)) \/ Answered(b) \/ PullDies(b)
      PROVE  OrderInv'
    BY <1>0, <1>3 DEF CacheTypeOK, Ask, Answered, PullDies, Forgotten, Release, Locked
<1>4. ASSUME NEW b \in Builds, PullFails(b) PROVE OrderInv'
    <2>1. \A c \in Builds : pull'[c] \in Locked => c # b /\ pull'[c] = pull[c]
        BY <1>4 DEF CacheTypeOK, PullFails, Ends, Locked
    <2>2. \A c \in Builds : c # b /\ pull[c] \in Locked => part' = part
        BY <1>4 DEF PullFails, CacheInv, Locked
    <2>3. marker' \in {0, marker} /\ UNCHANGED <<disk, want, tag>>
        BY <1>4 DEF PullFails
    <2>4. \A c \in Builds : pull'[c] = "ok" => pull[c] = "ok"
        BY <1>4 DEF CacheTypeOK, PullFails, Ends
    <2>. QED BY <1>0, <2>1, <2>2, <2>3, <2>4 DEF Locked
<1>5. ASSUME NEW b \in Builds, NEW force \in BOOLEAN, PullStep(b, force) PROVE OrderInv'
    <2>. USE DEF CacheTypeOK, Ends, Release, Locked
    <2>1. CASE LockPath(b)
        BY <2>1 DEF LockPath
    <2>2. CASE Inspect(b, force)
        BY <1>0, <2>2 DEF Inspect, CacheInv, CachedDiskWhole
    <2>3. CASE Fetch(b)
        BY <2>3 DEF Fetch
    <2>4. CASE CreatePart(b)
        BY <2>4 DEF CreatePart, CacheInv
    <2>5. CASE Extract(b)
        <3>1. part'.v = part.v
            BY <2>5 DEF Extract, File
        <3>. QED BY <2>5, <3>1 DEF Extract
    <2>6. CASE Promote(b)
        <3>1. part.whole /\ part.v = want[b] /\ disk.v <= part.v
            BY <2>6 DEF Promote, CacheInv
        <3>2. \A c \in Builds : pull[c] \in Locked => c = b
            BY <2>6 DEF Promote, CacheInv
        <3>. QED BY <1>0, <2>6, <3>1, <3>2 DEF Promote
    <2>7. CASE Record(b)
        BY <1>0, <2>7 DEF Record
    <2>. QED BY <1>5, <2>1, <2>2, <2>3, <2>4, <2>5, <2>6, <2>7 DEF PullStep
<1>. QED BY <1>1, <1>2, <1>3, <1>4, <1>5 DEF CacheNext

\* The builds use the cache only as it allows: a system of builds is a cache.
THEOREM UsesCache == Spec => CacheSpec
<1>1. Init => CacheInit
    BY DEF Init
<1>2. TypeOK /\ [Next]_vars => [CacheNext]_cacheVars
    <2> SUFFICES ASSUME TypeOK, [Next]_vars PROVE CacheNext \/ UNCHANGED cacheVars
        OBVIOUS
    <2>1. ASSUME NEW b \in Builds, BuildStep(b) PROVE CacheNext \/ UNCHANGED cacheVars
        <3>1. at[b] # "idle" => job[b] \in Jobs
            BY DEF TypeOK, BaseTypeOK, In
        <3>2. CASE TestFresh(b)
            <4>1. Sig(b).path \in Paths
                BY <3>1, <3>2, JobParts DEF TestFresh, In, Sig
            <4>. QED BY <3>2, <4>1 DEF TestFresh, CacheNext
        <3>3. CASE Pull(b)
            <4>1. job[b].force \in BOOLEAN
                BY <3>1, <3>3, JobParts DEF Pull, In
            <4>. QED BY <3>3, <4>1 DEF Pull, CacheNext
        <3>4. CASE Pulled(b)
            BY <3>4 DEF Pulled, CacheNext
        <3>. QED BY <2>1, <3>2, <3>3, <3>4 DEF BuildStep, LockBase, RemoveBase, CreateBase,
             FillBase, ResizeBase, WriteStamp, Finish, StartScript, CopyOut, CopyDone
    <2>2. ASSUME NEW b \in Builds, Stop(b) PROVE CacheNext
        BY <2>2 DEF Stop, CacheNext
    <2>3. CASE Retag
        BY <2>3 DEF CacheNext
    <2>. QED BY <2>1, <2>2, <2>3 DEF Next, Resolve, Create, Destroy, EntityDestroyed, vars
<1>. QED BY <1>1, <1>2, TypeCorrect, PTL DEF Spec, CacheSpec

\* Whoever extracts, fails or dies, the cache never holds a torn disk.
THEOREM CacheWhole == Spec => []CachedDiskWhole
<1>1. CacheInit => CacheTypeOK /\ CacheInv
    BY CacheAssumption DEF CacheInit, CacheTypeOK, CacheInv, CachedDiskWhole, Versions, File,
       NoFile, Locked, Pulling
<1>2. CacheTypeOK /\ CacheInv /\ [CacheNext]_cacheVars => (CacheTypeOK /\ CacheInv)'
    BY CacheTypeStep, CacheInvStep
<1>3. CacheInv => CachedDiskWhole
    BY DEF CacheInv
<1>. QED BY <1>1, <1>2, <1>3, UsesCache, PTL DEF CacheSpec

\* While tags only move forward, a pull that succeeds leaves a disk that is no
\* older than what its reference named when it looked, also after pulls that died
\* between promoting a disk and recording it.
THEOREM PullsCurrent == ASSUME ~Rollback PROVE Spec => []PullServesIdentity
<1>1. CacheInit => CacheTypeOK /\ CacheInv /\ OrderInv
    BY CacheAssumption DEF CacheInit, CacheTypeOK, CacheInv, OrderInv, CachedDiskWhole,
       PullServesIdentity, Versions, File, NoFile, Locked, Pulling
<1>2. CacheTypeOK /\ CacheInv /\ OrderInv /\ [CacheNext]_cacheVars
          => (CacheTypeOK /\ CacheInv /\ OrderInv)'
    BY CacheTypeStep, CacheInvStep, OrderInvStep
<1>3. OrderInv => PullServesIdentity
    BY DEF OrderInv
<1>. QED BY <1>1, <1>2, <1>3, UsesCache, PTL DEF CacheSpec

----------------------------------------------------------------------------
(* The bases.                                                              *)

\* A build in progress holds the lock of its entity; until it has removed the
\* base it has a reason to, and then the base is not complete until it is resized.
\* A scripted build is the only one of its entity while it copies and emits.
BuildInv(b) ==
    at[b] \in Building =>
        /\ lock[E(b)] = b
        /\ at[b] \in {"pull", "remove"} =>
               job[b].force \/ stamp[E(b)] # Sig(b) \/ base[E(b)].state # "complete"
        /\ at[b] \in {"write", "writing", "resize", "copying"}
               => base[E(b)].state # "complete"
        /\ In(b, "script") => arm[E(b)] \in Scripted
        /\ at[b] \in {"pull", "remove", "write", "writing", "resize", "stamp"}
               => arm[E(b)] \notin Scripted
        /\ In(b, "seed") /\ arm[E(b)] \in Scripted
               => base[E(b)] = [state |-> "complete", size |-> Sig(b).size]

BaseInv == \A b \in Builds : BuildInv(b)

\* What the steps of one build leave alone: the places and jobs of the others,
\* and the files and the lock of every entity another one is building.
LEMMA OthersLeftAlone ==
    ASSUME TypeOK, BaseInv, NEW b \in Builds, NEW c \in Builds, b # c,
           BuildStep(c) \/ Stop(c) \/ Resolve(c) \/ Create(c) \/ Destroy(c)
    PROVE  /\ at'[b] = at[b] /\ job'[b] = job[b] /\ arm' = arm
           /\ at[b] \in Building => /\ base'[E(b)] = base[E(b)]
                                    /\ stamp'[E(b)] = stamp[E(b)]
                                    /\ lock'[E(b)] = lock[E(b)]
<1>. USE CacheAssumption DEF TypeOK, BaseTypeOK, In, To, E
<1>1. at[b] \in Building => lock[E(b)] = b /\ E(b) \in Entities
    BY JobParts DEF BaseInv, BuildInv, Building
<1>2. at[c] \in Building => lock[E(c)] = c
    BY DEF BaseInv, BuildInv
<1>3. at[b] \in Building /\ at[c] \in Building => E(b) # E(c)
    BY <1>1, <1>2
<1>4. CASE LockBase(c)
    BY <1>1, <1>4 DEF LockBase, cacheVars
<1>5. CASE TestFresh(c) \/ Pull(c)
    BY <1>5 DEF TestFresh, Pull, baseVars
<1>6. CASE Pulled(c)
    BY <1>1, <1>3, <1>6 DEF Pulled, Idle, Unlocked, Building
<1>7. CASE RemoveBase(c) \/ CreateBase(c) \/ FillBase(c) \/ ResizeBase(c)
    BY <1>1, <1>3, <1>7 DEF RemoveBase, CreateBase, FillBase, ResizeBase, Building
<1>8. CASE WriteStamp(c) \/ Finish(c)
    BY <1>1, <1>3, <1>8 DEF WriteStamp, Finish, Unlocked, Building
<1>9. CASE Stop(c)
    BY <1>1, <1>3, <1>9 DEF Stop, Idle, Unlocked
<1>10. CASE Resolve(c) \/ Create(c) \/ Destroy(c)
    BY <1>10 DEF Resolve, Create, Destroy, Idle
<1>11. CASE StartScript(c) \/ CopyOut(c) \/ CopyDone(c)
    BY <1>1, <1>3, <1>11 DEF StartScript, CopyOut, CopyDone, Building
<1>. QED BY <1>4, <1>5, <1>6, <1>7, <1>8, <1>9, <1>10, <1>11 DEF BuildStep

\* A build keeps its own part of the invariant.
LEMMA OwnBuildInv ==
    ASSUME TypeOK, BaseInv, NEW b \in Builds,
           BuildStep(b) \/ Stop(b) \/ Resolve(b) \/ Create(b) \/ Destroy(b)
    PROVE  BuildInv(b)'
<1>. USE DEF TypeOK, BaseTypeOK, In, To, E, Sig, BuildInv, Building
<1>0. BuildInv(b) /\ (at[b] # "idle" => job[b] \in Jobs /\ E(b) \in Entities)
    BY JobParts DEF BaseInv
<1>1. CASE LockBase(b)
    BY <1>0, <1>1 DEF LockBase
<1>2. CASE TestFresh(b)
    <2>1. E(b) \in Entities /\ lock[E(b)] = b
        BY <1>0, <1>2 DEF TestFresh
    <2>2. PICK readable \in Readable(base[E(b)]) :
             at'[b] = "seed" \/ job[b].force \/ stamp[E(b)] # Sig(b) \/ ~readable
        BY <1>2 DEF TestFresh
    <2>3. ~readable => base[E(b)].state # "complete"
        BY <2>2 DEF Readable
    <2>4. at'[b] \in {"seed", "pull", "remove"} /\ UNCHANGED <<base, stamp, lock, job, arm>>
           /\ arm[E(b)] \notin Scripted
        BY <1>2 DEF TestFresh
    <2>. QED BY <2>1, <2>2, <2>3, <2>4
<1>3. CASE Pull(b) \/ Pulled(b)
    BY <1>0, <1>3 DEF Pull, Pulled, Idle, baseVars
<1>4. CASE RemoveBase(b) \/ CreateBase(b)
    BY <1>0, <1>4 DEF RemoveBase, CreateBase, NoBase
<1>5. CASE FillBase(b)
    BY <1>0, <1>5 DEF FillBase
<1>6. CASE ResizeBase(b) \/ WriteStamp(b) \/ Finish(b)
    BY <1>0, <1>6 DEF ResizeBase, WriteStamp, Finish
<1>7. CASE Stop(b) \/ Resolve(b) \/ Create(b) \/ Destroy(b)
    BY <1>7 DEF Stop, Resolve, Create, Destroy, Idle
<1>8. CASE StartScript(b) \/ CopyOut(b) \/ CopyDone(b)
    BY <1>0, <1>8 DEF StartScript, CopyOut, CopyDone
<1>. QED BY <1>1, <1>2, <1>3, <1>4, <1>5, <1>6, <1>7, <1>8 DEF BuildStep

\* Every step keeps the invariant.
LEMMA BaseInvStep ==
    ASSUME TypeOK, BaseInv, [Next]_vars
    PROVE  BaseInv'
<1>1. ASSUME NEW c \in Builds,
             BuildStep(c) \/ Stop(c) \/ Resolve(c) \/ Create(c) \/ Destroy(c)
      PROVE  BaseInv'
    <2>1. ASSUME NEW b \in Builds, b # c PROVE BuildInv(b)'
        BY <1>1, <2>1, OthersLeftAlone DEF BaseInv, BuildInv, E, Sig, In, Building
    <2>2. BuildInv(c)'
        BY <1>1, OwnBuildInv
    <2>. QED BY <2>1, <2>2 DEF BaseInv
<1>2. ASSUME NEW e \in Entities, EntityDestroyed(e) PROVE BaseInv'
    <2>1. \A b \in Builds : at[b] \in Building => E(b) # e
        BY <1>2 DEF EntityDestroyed, Building
    <2>. QED BY <1>2, <2>1 DEF EntityDestroyed, BaseInv, BuildInv, E, Sig, In, TypeOK, BaseTypeOK
<1>3. CASE (Retag /\ UNCHANGED baseVars) \/ UNCHANGED vars
    BY <1>3 DEF baseVars, vars, BaseInv, BuildInv, E, Sig, In
<1>. QED BY <1>1, <1>2, <1>3 DEF Next

\* The invariant holds of the specification.
LEMMA BaseInvHolds == Spec => [](TypeOK /\ BaseInv)
<1>1. Init => BaseInv
    BY DEF Init, BaseInv, BuildInv, Building, In
<1>2. TypeOK /\ BaseInv /\ [Next]_vars => BaseInv'
    BY BaseInvStep
<1>. QED BY <1>1, <1>2, TypeCorrect, PTL DEF Spec

\* However many beds build an entity, and wherever they stop: the complete base
\* under a live overlay is removed only by a build that has a reason to, or copied
\* over by a scripted one.
THEOREM FreshBaseLeft == Spec => FreshBaseLeftAlone
<1> DEFINE Reason(e) == \E b \in Builds :
                           /\ E(b) = e
                           /\ \/ In(b, "remove") /\ (job[b].force \/ Sig(b) # stamp[e])
                              \/ In(b, "script") /\ arm[e] \in Scripted
           Step == \A e \in Entities :
                      Overlaid(e) /\ base[e].state = "complete" /\ base'[e] # base[e]
                          => Reason(e)
<1>1. TypeOK /\ BaseInv /\ [Next]_vars => [Step]_vars
    <2> SUFFICES ASSUME TypeOK, BaseInv, Next, NEW e \in Entities, Overlaid(e),
                        base[e].state = "complete", base'[e] # base[e]
                 PROVE  Reason(e)
        BY DEF vars
    <2>1. ASSUME NEW b \in Builds, BuildStep(b) PROVE Reason(e)
        <3>1. CASE RemoveBase(b)
            <4>1. In(b, "remove") /\ E(b) = e
                BY <3>1 DEF RemoveBase, TypeOK, BaseTypeOK
            <4>2. job[b].force \/ Sig(b) # stamp[e]
                BY <4>1 DEF BaseInv, BuildInv, In, Building
            <4>. QED BY <4>1, <4>2
        <3>2. CASE CreateBase(b) \/ FillBase(b) \/ ResizeBase(b) \/ CopyDone(b)
            <4>1. at[b] \in {"write", "writing", "resize", "copying"} /\ E(b) = e
                BY <3>2 DEF CreateBase, FillBase, ResizeBase, CopyDone, In, TypeOK, BaseTypeOK
            <4>. QED BY <4>1 DEF BaseInv, BuildInv, Building
        <3>3. CASE CopyOut(b)
            <4>1. In(b, "script") /\ E(b) = e
                BY <3>3 DEF CopyOut, TypeOK, BaseTypeOK
            <4>2. arm[e] \in Scripted
                BY <4>1 DEF BaseInv, BuildInv, In, Building
            <4>. QED BY <4>1, <4>2
        <3>. QED BY <2>1, <3>1, <3>2, <3>3 DEF BuildStep, LockBase, TestFresh, Pull, Pulled,
             baseVars, WriteStamp, Finish, StartScript
    <2>2. CASE EntityDestroyed(e)
        BY <2>2 DEF EntityDestroyed, Overlaid, In
    <2>3. ASSUME NEW d \in Entities, d # e, EntityDestroyed(d) PROVE Reason(e)
        BY <2>3 DEF EntityDestroyed, TypeOK, BaseTypeOK
    <2>4. ASSUME NEW b \in Builds, Resolve(b) \/ Stop(b) \/ Create(b) \/ Destroy(b)
          PROVE  Reason(e)
        BY <2>4 DEF Resolve, Stop, Create, Destroy
    <2>. QED BY <2>1, <2>2, <2>3, <2>4 DEF Next, baseVars
<1>. QED BY <1>1, BaseInvHolds, PTL DEF Spec, FreshBaseLeftAlone, Overlaid

\* What a scripted build emits is the disk it made, for any number of beds that
\* build the entity at the same time.
THEOREM EmitsWhole == Spec => []EmittedWhole
<1>1. BaseInv => EmittedWhole
    BY DEF BaseInv, BuildInv, EmittedWhole, In, Building
<1>. QED BY <1>1, BaseInvHolds, PTL

----------------------------------------------------------------------------
(* The stamps.                                                             *)

\* A stamp beside a written base tells its size, unless the entity's builder is
\* between writing that base and stamping it; what it then stamps has the size the
\* build was asked for.
StampTold(e) ==
    \/ stamp[e] = NoSignature \/ base[e].state \in {"none", "partial"} \/ Fresh(e)
    \/ \E b \in Builds : at[b] \in {"resize", "stamp"} /\ E(b) = e

SizedAsAsked(b) ==
    In(b, "stamp") => \/ base[E(b)] = [state |-> "complete", size |-> Sig(b).size]
                      \/ base[E(b)].state \in {"none", "partial"}

\* A scripted entity has no stamp, and only such a one is copied out.
ScriptedInv ==
    /\ \A e \in Entities : arm[e] \in Scripted => stamp[e] = NoSignature
    /\ \A b \in Builds : at[b] \in {"script", "copying"} => arm[E(b)] \in Scripted

StampInv == /\ \A e \in Entities : StampTold(e)
            /\ \A b \in Builds : SizedAsAsked(b)
            /\ ScriptedInv

\* While no step fails and no process dies, every step keeps the stamps true.
LEMMA StampInvStep ==
    ASSUME ~MayStop, TypeOK, BaseInv, StampInv, [Next]_vars
    PROVE  StampInv'
<1>. USE DEF TypeOK, BaseTypeOK, In, To, E, Sig, Fresh
<1>1. ASSUME NEW c \in Builds,
             BuildStep(c) \/ Resolve(c) \/ Create(c) \/ Destroy(c)
      PROVE  StampInv'
    <2>1. ASSUME NEW b \in Builds, b # c
          PROVE  /\ SizedAsAsked(b)'
                 /\ at'[b] = at[b] /\ E(b)' = E(b)
        BY <1>1, <2>1, OthersLeftAlone DEF StampInv, SizedAsAsked, Building
    <2>2. ASSUME NEW d \in Entities, at[c] = "idle" \/ d # E(c) PROVE StampTold(d)'
        <3>1. base'[d] = base[d] /\ stamp'[d] = stamp[d]
            BY <1>1, <2>2 DEF BuildStep, LockBase, TestFresh, Pull, Pulled, RemoveBase,
               CreateBase, FillBase, ResizeBase, WriteStamp, Finish, StartScript, CopyOut,
               CopyDone, Resolve, Create, Destroy, baseVars
        <3>2. at[c] \in {"resize", "stamp"} => E(c) # d
            BY <2>2
        <3>. QED BY <2>1, <3>1, <3>2 DEF StampInv, StampTold
    <2>3. ASSUME at[c] # "idle", NEW e \in Entities, e = E(c) PROVE StampTold(e)'
        <3>1. StampTold(e) /\ SizedAsAsked(c) /\ Sig(c) \in Signatures
            BY <2>3, JobParts DEF StampInv
        <3>2. CASE UNCHANGED <<base, stamp>> /\ at[c] \notin {"resize", "stamp"}
            BY <2>1, <2>3, <3>1, <3>2 DEF StampTold
        <3>3. CASE RemoveBase(c) \/ CreateBase(c) \/ CopyOut(c)
            BY <2>3, <3>3 DEF RemoveBase, CreateBase, CopyOut, NoBase, StampTold
        <3>4. CASE FillBase(c) \/ ResizeBase(c)
            <4>1. at'[c] \in {"resize", "stamp"} /\ E(c)' = e
                BY <2>3, <3>4 DEF FillBase, ResizeBase
            <4>. QED BY <4>1 DEF StampTold
        <3>5. CASE WriteStamp(c)
            <4>1. stamp'[e] = Sig(c) /\ base'[e] = base[e]
                BY <2>3, <3>5 DEF WriteStamp
            <4>2. \/ base[e] = [state |-> "complete", size |-> Sig(c).size]
                  \/ base[e].state \in {"none", "partial"}
                BY <2>3, <3>1, <3>5 DEF WriteStamp, SizedAsAsked
            <4>3. Sig(c) # NoSignature
                BY <3>1, BaseAssumption DEF Signatures, NoSignature
            <4>. QED BY <4>1, <4>2, <4>3 DEF StampTold
        <3>6. CASE CopyDone(c)
            <4>1. arm[e] \in Scripted
                BY <2>3, <3>6 DEF CopyDone, ScriptedInv, StampInv
            <4>. QED BY <2>3, <3>6, <4>1 DEF CopyDone, StampTold, StampInv, ScriptedInv
        <3>7. at[c] \in {"resize", "stamp"} => ResizeBase(c) \/ WriteStamp(c)
            BY <1>1, <2>3 DEF BuildStep, LockBase, TestFresh, Pull, Pulled, RemoveBase,
               CreateBase, FillBase, Finish, StartScript, CopyOut, CopyDone, Resolve, Create,
               Destroy
        <3>. QED BY <1>1, <2>3, <3>2, <3>3, <3>4, <3>5, <3>6, <3>7 DEF BuildStep, LockBase,
             TestFresh, Pull, Pulled, Finish, StartScript, Resolve, Create, Destroy, baseVars
    <2>4. SizedAsAsked(c)'
        <3>1. CASE FillBase(c)
            BY <3>1, JobParts DEF FillBase, SizedAsAsked
        <3>2. CASE ResizeBase(c)
            <4>1. E(c) \in Entities
                BY <3>2, JobParts DEF ResizeBase
            <4>2. base[E(c)].state # "complete"
                BY <3>2 DEF ResizeBase, BaseInv, BuildInv, Building
            <4>. QED BY <3>2, <4>1, <4>2 DEF ResizeBase, SizedAsAsked, Disk, States
        <3>. QED BY <1>1, <3>1, <3>2 DEF SizedAsAsked, BuildStep, LockBase, TestFresh, Pull,
             Pulled, RemoveBase, CreateBase, WriteStamp, Finish, StartScript, CopyOut,
             CopyDone, Resolve, Create, Destroy, Idle, baseVars
    <2>5. \A d \in Entities : StampTold(d)'
        BY <2>2, <2>3
    <2>6. ScriptedInv'
        <3>1. ASSUME NEW e \in Entities, arm'[e] \in Scripted PROVE stamp'[e] = NoSignature
            <4>1. arm' = arm /\ stamp[e] = NoSignature
                BY <1>1, <3>1 DEF StampInv, ScriptedInv, BuildStep, LockBase, TestFresh, Pull,
                   Pulled, RemoveBase, CreateBase, FillBase, ResizeBase, WriteStamp, Finish,
                   StartScript, CopyOut, CopyDone, Resolve, Create, Destroy, baseVars
            <4>2. WriteStamp(c) => E(c) # e
                BY <3>1, <4>1 DEF WriteStamp, BaseInv, BuildInv, Building
            <4>. QED BY <1>1, <4>1, <4>2 DEF BuildStep, LockBase, TestFresh, Pull, Pulled,
                 RemoveBase, CreateBase, FillBase, ResizeBase, WriteStamp, Finish, StartScript,
                 CopyOut, CopyDone, Resolve, Create, Destroy, baseVars
        <3>2. ASSUME NEW b \in Builds, b # c, at'[b] \in {"script", "copying"}
              PROVE  arm'[E(b)'] \in Scripted
            BY <1>1, <2>1, <3>2, OthersLeftAlone DEF StampInv, ScriptedInv
        <3>3. ASSUME at'[c] \in {"script", "copying"} PROVE arm'[E(c)'] \in Scripted
            BY <1>1, <3>3 DEF StampInv, ScriptedInv, BuildStep, LockBase, TestFresh, Pull,
               Pulled, RemoveBase, CreateBase, FillBase, ResizeBase, WriteStamp, Finish,
               StartScript, CopyOut, CopyDone, Resolve, Create, Destroy, Idle, baseVars
        <3>. QED BY <3>1, <3>2, <3>3 DEF ScriptedInv
    <2>. QED BY <2>1, <2>4, <2>5, <2>6 DEF StampInv
<1>2. ASSUME NEW e \in Entities, EntityDestroyed(e) PROVE StampInv'
    BY <1>2 DEF EntityDestroyed, StampInv, StampTold, SizedAsAsked, ScriptedInv,
       NoBase, Building
<1>3. CASE (Retag /\ UNCHANGED baseVars) \/ UNCHANGED vars
    BY <1>3 DEF baseVars, vars, StampInv, StampTold, SizedAsAsked, ScriptedInv
<1>. QED BY <1>1, <1>2, <1>3 DEF Next, Stop

\* "A matching stamp already implies a complete build" as long as no build fails
\* or dies half-way, however many beds build the entity and whatever is forced,
\* drifted or destroyed in between: the interrupted rebuild is all it fails on.
THEOREM StampsTellTruth == ASSUME ~MayStop PROVE Spec => []StampMeansComplete
<1>1. Init => StampInv
    BY DEF Init, StampInv, StampTold, SizedAsAsked, ScriptedInv, In
<1>2. TypeOK /\ BaseInv /\ StampInv /\ [Next]_vars => StampInv'
    BY StampInvStep
<1>3. TypeOK /\ BaseInv /\ StampInv => StampMeansComplete
    <2> SUFFICES ASSUME TypeOK, BaseInv, StampInv, NEW e \in Entities, lock[e] = "free",
                        stamp[e] # NoSignature, Readable(base[e]) = {TRUE}
                 PROVE  Fresh(e)
        BY DEF StampMeansComplete
    <2>1. base[e].state # "none" /\ base[e].state \in {"unsized", "complete"}
        <3>1. (base[e].state # "none") \in {TRUE}
            BY DEF Readable
        <3>2. (base[e].state \in {"unsized", "complete"}) \in {TRUE}
            BY DEF Readable
        <3>. QED BY <3>1, <3>2
    <2>2. \A b \in Builds : at[b] \in {"resize", "stamp"} => E(b) # e
        <3>1. \A b \in Builds : at[b] \in {"resize", "stamp"} => lock[E(b)] = b
            BY DEF BaseInv, BuildInv, Building
        <3>. QED BY <3>1, CacheAssumption
    <2>. QED BY <2>1, <2>2 DEF StampInv, StampTold
<1>. QED BY <1>1, <1>2, <1>3, BaseInvHolds, PTL DEF Spec

=============================================================================
