# A verification development for plugin-vm

TLA+ models of OpenCharly's `plugin-vm` (`src/candy/plugin-vm/`), the TLC
instances that check them, and theorems about them proved with TLAPS. Paths in
this file are relative to `src/candy/plugin-vm/`.

Contents: [the system](#1-the-system) · [hard behaviours](#2-what-is-hard-about-it) ·
[modules](#3-the-modules) · [runs](#4-the-runs) · [fairness](#5-fairness) ·
[proofs](#6-the-proofs) · [disagreements](#7-where-code-and-words-disagree) ·
[limits](#8-what-is-left-out) · [plan](#9-plan)

## 1. The system

The plugin owns charly's virtual machines. It is compiled into charly: each
`charly vm ...` command, each check bed and each recorder is a process of its own,
and these processes share no memory. What they share is outside of them: libvirt's
session daemon, the containerd engine, the files of a VM's state directory, the
per-entity disk directory, the container-disk cache, the snapshot store, the deploy
ledger, `charly.yml` and the GPU lease arbiter. Within one process the check verbs
overlap, and share its standard output.

| Component | State it keeps | Operations | Correct when |
|---|---|---|---|
| **Lifecycle commands and backends** (`vm.go`, `vm_backend_*.go`, `vm_qemu.go`, `libvirt.go`) | one domain per name: a libvirt domain, or a qemu process with a stored command line and pidfile, or a krun container with a launch record; the state directory all three share | create, start, stop, destroy, config-free restart ("revive"), orphan sweep; the backend that holds a name is found by probing | a reported stop or teardown really happened; no disk is removed under a domain; no running guest drops out of reach; every command reports |
| **Bounded libvirt session** (`vm_libvirt.go`, `libvirt_bounded.go`) | one connection per operation | connect, lookup, state, shutdown, destroy, undefine, define, start, snapshot removal; each RPC has a bound, after which it is abandoned while it still runs | a wedged daemon hangs nobody; an abandoned call does no harm |
| **Session recorder** (`recorder.go`, `session_method.go`, `cmd/serve/main.go`, the gate in `provider.go`) | `frames.mjpeg`, the FINAL marker, `row.json`; a count of consecutive failures | gate (does the domain run?), start, poll a frame, finalize on SIGTERM, stop (ladder, then wait for the row) | the marker states what the stream holds; a stop that succeeds vouches for this session's finalized recording; a wedged libvirt ends it |
| **Container-disk cache** (`vm_container_disk.go`) | per reference: `disk.qcow2`, `.part`, the identity marker, a lock file | pull: lock, inspect, hit test, copy, extract, promote, record | never a torn disk; never an older disk than the reference names; the disk that was asked for |
| **VM build and shared disk bases** (`vm_build.go`, `vm_cloud_image.go`, `vm_iso_engine.go`, ...) | per entity: `disk.qcow2`, `.build.stamp`, `.build.lock`, the seed | resolve, lock, freshness test, fetch or pull, create, fill, resize, stamp, seed | beds that build one entity at once do not rewrite the base under each other's overlays; a matching stamp means a complete base |
| **Bootstrap and bootc engines** (`vm_bootstrap_engine.go`, `vm_bootc_engine.go`) | the same base, without a stamp | make the disk in a container, copy it over the base, seed | what is emitted is the disk that was made |
| **Create orchestration** (`vm_create_orchestrate.go`, ...) | per domain: overlay, seed, NVRAM, ports, ssh alias, ledger entry | prepare the files, persist the port, validate, define and start, publish the alias | guest, ledger and alias name one port; no other deployment's port or disk is taken |
| **GPU allocation and leases** (`gpu_allocate.go`, `vm_arbiter_shim.go`, ...) | the arbiter's lease, an environment variable that marks an outer lease, a persisted hostdev block | acquire in create, release in stop and destroy | create boots a guest with the card only under a lease or by a committed hostdev; a lease does not leave under a running guest; a claimant's device is not inherited by the next |
| **VM bake** (`vm_bake.go`) | the domain it boots, the box it emits | create, provision, stop, flatten, emit, destroy in one process | the box holds what the layers changed, copied from a disk at rest |
| **Snapshots and clones** (`vm_snapshot_*.go`, `vm_clone*.go`) | a store of disk files with their modes, a registry with reference counts | capture, restore, delete, promote, clone | a snapshot in use cannot be deleted, one not in use can; clones share a read-only file; a consistent capture is of a guest at rest |
| **Verb dispatch and output capture** (`provider.go`, `libvirt_*.go`) | the process's stdout and stderr, a mutex, a connection per invocation | redirect, call, restore, read, judge | output is complete and belongs to the call; a pass means the change was made; every verb reports |
| **Guest agent, diagnosis, GPU attach** | none that outlives a request | single requests | - |
| **Import of existing domains** (`vm_import*.go`) | entries of `charly.yml` with what was read and when they were adopted; `charly.yml.tmp` | import, import --all, update, diff, list | the file is whole at every moment; an update rewrites its own blocks of its own entry and no others, and leaves no drift |
| **krun plan, XML and spec rendering** | none | pure translations | memory split within bounds |
| **Box emission, retag, scp, copy** | none of their own | sequences of engine commands | - |
| **Seams and aliases** | none | names for sdk functions | - |

How they interact: `vm build` makes an entity's base and takes container disks
from the cache; `vm create` takes a GPU lease, makes an overlay on that base, and
defines and boots the domain through a backend; `stop` and `destroy` find the
backend, act, release the lease; a clone's base is a snapshot; a bake drives
create, stop and destroy; the check verbs and the session recorder look at a domain,
or change it, through the libvirt session; an import turns a domain that charly did
not make into an entry that `create` can use.

## 2. What is hard about it

* **No lock across commands.** Every command probes and acts later. Two of them
  interleave call by call (`vm.go:436`, `vm_build.go:97`).
* **Bounds that abandon, not cancel.** A call that runs into its bound
  (`vm_libvirt.go:134`) goes on in the daemon and can land on a domain that has
  been defined again.
* **Replies that hide failures.** An unreachable daemon and an absent domain give
  the same answer (`provider.go:311`); an engine that is down reads as "no
  container" (`vm_backend_krun.go:152`).
* **Teardown order.** An undefine of a running domain leaves a transient domain
  (`vm_libvirt.go:316`); a lease that goes back before the guest is gone lets two
  guests have one card (`vm.go:523`).
* **Files as the only channel.** Recorder and stop step see each other through
  files written in two steps (`recorder.go:273`); a directory may hold the files
  of an earlier session.
* **A redirect for the whole process.** Overlapping verbs replace the same
  `os.Stdout` (`provider.go:286`), and a pipe holds only so much (`provider.go:287`).
* **A store without a lock.** A clone is tested, linked and counted in three steps
  (`vm_clone.go:213`), between which a snapshot may be deleted or captured again;
  its disk is writable while its keeper is started (`vm_snapshot_libvirt.go:198`).
* **A document rewritten whole.** Between an import's read of `charly.yml` and its
  rename (`vm_import.go:342`) the operator may save it.
* **Death anywhere.** A build, a pull or an import can die between any two file
  operations; flocks disappear with it and files stay.
* **Outside time.** A registry tag moves between the inspection and the copy
  (`vm_container_disk.go:417`); a port that is free now is bound later
  (`vm_util_copies.go:92`); the operator edits a node between create and destroy.

`PROJECT.json` lists every such place with its line, and the properties that
watch it.

## 3. The modules

| Module | Models | Built on |
|---|---|---|
| `VmWorld` | the surroundings of one VM name: daemon (up, down, wedged), engine, connections, abandoned calls, the libvirt domain, the qemu process, the krun container, the state directory; which calls libvirt accepts and what they do | - |
| `VmLifecycle` | the six commands, run by any number of processes, each libvirt call a step | `VmWorld` |
| `SessionRecorder` | the gate before a start or stop, the recorder process, the runner's stop ladder, the stop step, a libvirt that wedges | - |
| `ContainerDiskCache` | the cache of one reference: tag, disk, part, marker, flock, and the pulls; `CacheSpec` is the cache alone | - |
| `DiskBase` | builds and beds over shared entities; it uses the pull's steps for its container-disk entities | `ContainerDiskCache` |
| `SharedDisks` | what a snapshot store promises to those who read its disks | - |
| `SnapshotClone` | the store, the registry, the keeper and the lanes that build, boot and tear down clones; it implements `SharedDisks` | `SharedDisks` |
| `VmCreate` | lease, hostdev, overlay, port, alias and ledger around create, start, stop, destroy and bake | - |
| `VerbDispatch` | the libvirt verb: redirect, calls, judgement; the internal operations | - |
| `VmImport` | import, import --all, update, diff over `charly.yml` | - |
| `MC*` | instances for TLC | the module of that name |
| `VmGuests_proofs` | theorems about the guests and disks of `VmLifecycle` | `VmLifecycle_proofs` |
| other `*_proofs` | theorems | the module of that name |

### VmWorld and VmLifecycle

`lv` is the libvirt domain: defined or not (`def`), its run state (`act`), a pending
ACPI request, snapshot records that block an undefine. `LvExists` holds of a
defined or an active domain. `qm` has the qemu markers and the process, `kr` the
launch record and the container, and `dir` the state directory, whose removal
takes every backend's records with it. Libvirt and qemu are external: their steps
are what the code relies on and guards against.

A process is at `pc`, runs `cmd` (its kind, the configured backend and the flag of
that kind: raw XML for create, `--force` for stop, `--disk` for destroy) and has a
libvirt operation `stage` under way. The code opens one connection per operation;
so does the model: `Connect`, one action per RPC, `Close`, then `Resume` does with
`reply` what the Go caller does with the returned value. In particular

* a refused connection gives `lost` to a state read and an error to the rest
  (`vmDomainState` in `provider.go`);
* a lookup that fails for whatever reason is "no such domain" for destroy and
  create;
* the handshake and the disconnect have no bound and wait on a wedged daemon;
* any other call on a wedged daemon runs into its bound, fails for its caller and
  stays in `late`. `LateCallEnds` executes or drops it at any later time;
* `gate` is the stop grace, shared by the poll of `stop`, the graceful stop of
  `destroy` and the wait of the XML injection; `GateExpires` is its timer.

| Code | Actions |
|---|---|
| `gracefulStopDomain`, `removeDomainSnapshots`, `undefineDomain` (`vm_libvirt.go`) | `GracefulState` ... `GracefulDestroy`, `RemoveSnapshots` (`ListSnapshots`, then `DeleteSnapshot`), `Undefine` |
| `libvirtBackend.Start/Stop/Destroy` | `StartState`, `Boot`; `Rechecked`, `StopCall`, `StopSent`, `Polled`; `Destroyed`, `Verified`, `RemoveStateDir` |
| create's clear, define, start (`vm_create_spec.go`, `libvirt.go`) | `OldState`, `OldDestroy`, `OldUndefine`, `Define`, `Boot` |
| `InjectLibvirtXML` | `InjectState` ... `InjectBoot` |
| qemu backend | `QemuStoreCommand`, `QemuLaunch`, `QemuStart`, `QemuStop`, `QemuDestroy`, `QemuRemoveDir` |
| krun backend | `KrunWriteRecord`, `KrunStart`, `KrunBoot`, `KrunStop`, `KrunPoll`, `KrunDestroy`, `KrunRemove`, `KrunClean` |
| holder probe (`vm_backend_resolve.go`) | `Probed`, `QemuHolder`, `KrunHolder` |
| sweep (`runCleanOrphans`) | `ListDomains`, `ReadState`, `Listed`, then the operation `sweep` |

Reading the state, asking for a shutdown and so on are separate steps because they
are separate RPCs; the body of one file operation is one step. Of the snapshot records
one is kept, which stands for the one deleted last: its deletion is a bounded call like the
others, and an abandoned one may be executed later.

### SessionRecorder

One session after the other (`session` numbers them). How the caller sets sessions up is
chosen at the start: `fresh`, each gets a directory of its own, as check beds do, or they
share one, as plan steps with a default directory do; `waits`, the runner's stop (external)
returns only after the recorder is gone, or it may return before.

Every start and stop passes the gate first (`resolveLibvirtSessionEndpoint`): `GateConnect`,
`GateLookup`, `GateState`, `GateClose`. The handshake and the closing wait on a wedged libvirt
without a bound, the two lookups run into theirs: the first is then "no such domain" and
skips the method, the second lets it through. A method that was skipped, whose connection was
refused, or whose request the runner does not take (`Refused`: no session on record) signals
nobody, and a stop may be asked for again (`AskStop`).

The recorder installs its handler, dials, truncates the stream, polls, and on `done` writes
marker and row, each in two steps, because a file is created before it is filled. SIGTERM
before the handler is there kills it. The stop step signals (`SessionStop`), lets the ladder
run (`KillAfterGrace`), then takes the first readable row or gives up at its deadline. Go's
`select` picks any ready case, so `Tick` may win although `done` is closed.

### ContainerDiskCache and DiskBase

The tag counts versions. A `File` knows its version, its in-image path and whether
it is whole. A pull takes the flock, inspects, compares with the marker, copies by
the tag *again* (a copy of another version does not contain the inspected layer
and fails), extracts to `.part`, renames, records. Every step can fail
(`PullFails`), and the process can die anywhere (`PullDies`); the marker is
truncated before it is written, so a torn write reads as no marker.

`DiskBase` gives each entity a source kind (`arm`), a `base`, a `stamp` and a
`lock`. A build resolves its signature before it takes the lock, tests freshness,
pulls or goes on directly, removes, creates, fills, resizes, stamps, makes the seed
and lets go of the lock. A bootstrap or bootc build tests nothing (`StartScript`): its
container makes the disk aside, which is copied over the base (`CopyOut`, `CopyDone`)
and leaves no stamp. `qemu-img info` reads the header only, so it may succeed
on a half-written disk (`Readable`). A bed that has built boots an overlay
(`Create`), without the lock, and destroys it later.

### SharedDisks and SnapshotClone

`SharedDisks` is the promise: a disk may have any number of users and is discarded
only when it has none (`NoneDangling` follows). `SnapshotClone` has the code. One
operator, whose command is `op`, captures (`CreateSnapshot`, `CreateConsistent`, then
`CaptureExternal`, `SealSnapshot`, `RecordEntry`, or `CaptureInternal`), promotes,
deletes and reverts (`AskRevert` alone, `RevertStops` with the keeper stopped first and
started afterwards), and starts the keeper on a snapshot (`OpenForStart`,
`StartKeeper`, `SealAfterStart`: the file is writable in between). Each lane builds a
clone entity under that entity's lock: `LookupParent`, `TestFresh` (by file times,
`newer`, and by the backing name), `CreateOverlay`, `CountReference`, `WriteSeed`;
then the lane boots it and tears it down. A lookup that finds an internal snapshot
promotes it first, and the build ends when that fails. No lock covers the store, so operator and lanes
interleave at every step. The refinement maps the disks of the store to `present`
and the lanes whose reference is counted on a disk they linked to `users`.

### VmCreate

A process runs one command on one deployment, under an environment: `lease` is what stands
behind CHARLY_PREEMPT_LEASE, "outer" when the process inherited it and "own" once it was given
a lease itself; "inactive" is the arbiter's consent without a lease, which sets nothing.
create goes `Acquire`, `Allocate`, `DropOverlay`, `CreateOverlay`, `ResolvePort`, `PersistPort`,
`DefineDomain`, `PublishAlias`; stop `StopDomain`, which looks the claimant up afterwards, and
`Release`; destroy `LookupClaimant`, `Teardown`, `RemoveAlias`, `RemoveLedger`, `Release`; bake
is create, `BakeAgent`, `StopDomain`, `Release`, `Flatten`, `EmitBox` and the steps of destroy,
all in one process and under its environment. Every step may fail, and `Die` ends a process
anywhere. A destroy that fails goes to "abandoned": what it deferred runs all the same. A
lookup of the claimant that fails reads as "no claimant" (`Releasable`).

`Allocate` is `autoAllocateExclusiveGPUs` with its two sources of a hostdev: `Committed` are
the deployments whose committed spec has one, attached whoever asks; `hostdev` is the block in
`instance.yml`, written for a node that requires the card and left out for one that no longer
does. `AutoPort` are the deployments whose port is allocated; the others use `FixedPort`, and
no ledger entry is written for them.

The arbiter is external: it stops the holder's domain, also one that a command is working on,
and hands the lease over; on release it gives the lease back and starts the domain it
stopped, if it can. A domain is one record here; what happens inside a define or a stop is in
`VmLifecycle`.

### VerbDispatch

A handler is the sequence of its calls (`Program`): a method of the verb is
`ResolveTarget` followed by what its function does in order. `Connect` and `Close`
wait on a wedged daemon, the calls between are bounded: `Look` for those that read,
`Change` for those that change something, whose abandoned calls stay in `late` and
may be executed when the daemon comes round. `Say` and `Watch` write to whatever
`stdout` is, and wait when it is a full pipe. Around it the dispatch: `Lock`,
`Redirect`, the handler, `Restore`, `Judge` (exit status, then matchers), `Report`.
The internal operations run without the capture. Several invocations run in one
process and share `stdout` and the mutex.

### VmImport

A document maps names to entries, an entry has the fields read from libvirt, the
adoption time and which of the operator's blocks are there: `libvirt`, `notes` (ssh,
cloud_init and snapshots) and `forwards` (the port forwards under network:). A command reads
the XML (`ReadXml`), reads the file (`ReadFileDeclare`, `ReadFileMerge`, `ReadFileDiff`),
truncates and fills `charly.yml.tmp`, renames it; each of the three may fail (`WriteFails`) and
leaves the `.tmp` file as it is. `import --all` does so for every
domain that no entry's name covers and goes on when one fails (`Fails`). Between any two
steps the operator saves the file (`Save`), somebody changes a domain (`Virsh`), or
the process dies. The operators `Mapped`, `Declared`, `Drift` and `Merge` are the
conversions: which machine types and networks survive, what an update overwrites and
what it leaves. `KeptByUpdate` says the latter block by block.

## 4. The runs

Nine runs hold; three exhibit a disagreement between the program and what its
comments say (section 7). Every property of a passing run is also checked against
a mutated definition, a plausible bug of the same code, and fails there; the mutated
forms stand in the modules, each before the definition it changes, and are marked
"Sensitivity" or "(sensitivity)".

| Run | Instance | Shows |
|---|---|---|
| `single` | one process, all backends and commands, the domain possibly defined or running at the start, no outage | `StopVerified`: a libvirt or krun stop that says so has seen the guest leave "running". `NoLostGuest`: no sequence of commands drops the records of a live container or qemu. `NoDiskPulled`: `destroy --disk` never removes the directory of an existing domain. `SweepSparesRunning`: the sweep never changes a running domain |
| `concurrent` | two processes, start and destroy, libvirt, one outage, late calls, snapshot records (3.4 million states) | `VerifiedTeardown`: once a destroy whose verification was answered has reported, no domain of the name exists, whatever the other process does; `NoDiskPulled` |
| `reports` | one process, libvirt and krun, all commands, one outage, late calls, paused domains | `CommandsReport`: every command reports in the end, with guests that ignore ACPI, if the daemon is always restarted |
| `recording` | two sessions, two frames, two wedges, failure limit 3; own directories or a shared one, a runner that waits or does not | `MarkerCountsFrames` and `RowMeansFinalized` in every setting. `StopOkMeansFinalized`: with own directories a stop that succeeds vouches for this session. `StopReports`: a stop at its gate, or past it, comes to an end unless libvirt stays wedged. `WedgeEndsRecording`, `TypeOK` |
| `beds` | two beds, two entities, container-disk, iso and bootc arms, two tag versions, forced builds, failures and deaths (1.6 million states) | `CachedDiskWhole`, `PullServesIdentity`; `FreshBaseLeftAlone`: a base under a live overlay is touched by no build without a reason; `EmittedWhole`: seed and box are made from the disk the build made |
| `snapshots` | two tags, two lanes, one clone entity, two captures, no forced deletion | `SharedSpec`: the store implements `SharedDisks`. `RefsCoverLanes`: no teardown takes another lane's reference. `ConsistentIsQuiet`: create-consistent records no snapshot of a running guest that was not frozen. `ReadOnlyForClones`, `CountsWhatItLinked`, `TypeOK` |
| `create` | two processes, two deployments that may both want the card, one with an allocated port and one with a committed hostdev and a fixed port, inherited leases, all commands, edits of the nodes, three commands or steps of the world (2.9 million states) | `CardFollowsLease`: create boots a guest with the card only under a lease or by a committed hostdev, and the lease leaves its running guest only behind a destroy that failed. `PortsAgree`, `BakeKeepsDisk`, `FlattensQuietDisk`, `TypeOK` |
| `verbs` | any of the twenty-three programs beside a snapshot deletion, one outage, a pipe that just holds the output | `OwnOutputWhole`, `StreamsComeBack`, `NothingLeftOpen`, `PassMeansDone`, `EveryVerbReports`, `TypeOK` |
| `import` | two domains that want one entry (`charly-web` and `web`), a second entry for `--target`, two commands, two edits, writes that fail (7.5 million states) | `FileWhole`, `AllRecorded`, `AdoptedOnce`, `UpdateClearsDrift`, `TypeOK`. `OperatorKept`: every entry but the updated one stays, and of that one exactly what `KeptByUpdate` lists |
| `interrupted` | violation of `StampMeansComplete` | a dead rebuild leaves an unresized base under an old, matching stamp |
| `forwards` | violation of `ForwardsKept` | an update of an entry with port forwards drops them |
| `big_output` | violation of `EveryVerbReports` | a guest command that prints more than a pipe holds blocks its verb, and every later one |

**Bounds, and why they are enough.**

* *Lifecycle.* One VM name: commands of different names share the daemon and nothing
  else. Two processes: the races of the code are between a command and one other that
  changes the domain under it; `TeardownFinal` covers more. `concurrent` leaves out
  create, because a create after a destroy defines the name again and the property
  would need a clock; the theorem covers the create of a single process instead. One
  outage: a second one needs a recovery and gives the same replies again; `MaxFaults`
  counts outages of daemon and engine together.
* *Recorder.* Two sessions: the row or marker that can be confused is the previous
  one's. `FailLimit` is 3 in place of the code's 5 consecutive failures: the counter
  matters only below and at the limit. Two frames: a count of 0, 1 and more.
* *Disks.* Two tag versions: older and newer. Two beds on two entities, one shared
  reference: sharing at both levels. One size in `beds` (signatures then differ by
  nothing but `force`), two in `interrupted`, where the drift is the point.
* *Snapshots.* Two tags: a snapshot and the one that backs on it or replaces it. Two
  lanes on one entity: they share its overlay and race on a tag's count. Two captures
  (`MaxCaptures`): one that is in use and one in its way. `MaxRefs` bounds the count a
  build may start on: a lane that builds again and again would raise it without end.
* *Create.* Two deployments and one card: preemption needs a holder and a claimant.
  Three (`MaxSteps`) commands, edits, layers or power-offs together: create by both, and a
  stop, destroy, second create or edit for either. The steps inside a command are not bounded.
* *Verbs.* The second invocation deletes the snapshot the first may create, revert to
  or look at. A pipe of two units and output of two: the boundary. `BigOutput` above
  `PipeSize` is `big_output`.
* *Import.* Two commands: an import and the update, diff or import after it. Two edits
  (`MaxEdits`): one of the file and one of a domain, or two of either. One size, so that
  drift in memory, cpus, disks or firmware is a missing value only.

**Constants that hold a known case out**, named so that it can be let in. Each of
these values breaks the property beside it; section 7 says how.

| Constant | In the runs | Other value breaks |
|---|---|---|
| `Repin` (an entity is re-pinned to another backend while the old one holds it) | FALSE | `NoLostGuest` |
| `MaxFaults` in `single` | 0 | `NoLostGuest` (an engine outage) |
| `Pausable` in `single` (a domain is paused and resumes) | FALSE | `StopVerified`, `SweepSparesRunning` |
| `Rollback` (a tag moves back) | FALSE | `PullServesIdentity` |
| `Forces` (delete --force) | {FALSE} | `SharedSpec`, by design of the flag |
| `ReadFails` (the keeper's state cannot be read) | FALSE | `ConsistentIsQuiet` |
| `BigOutput` above `PipeSize` | only in `big_output` | `EveryVerbReports` |

`InitDefined = FALSE` starts without a domain.

**Deadlock** is checked in every run but those of models that really stop: the recorder's,
once `MaxSessions` sessions are over; `create` and `import`, once their commands and edits
are used up; and `big_output`, where standing still is the finding.

## 5. Fairness

`CommandFairness`: a process whose next step is possible takes it, and stop graces
run out. The code has nothing that makes a command rest: each loop ticks, each wait
has a timer. The daemon, the engine and the guests have no fairness: a guest may
ignore a shutdown for ever. `RecoveringSpec` adds that a dead or wedged daemon comes
back: socket activation restarts a dead session daemon, and a wedged one has to be
killed by someone; without this `CommandsReport` is false, because handshake and
disconnect have no bound.

The recorder's `FairSpec` has the gate, the recorder and the stop step run, the ladder's
SIGKILL fall and the row deadline pass; the requests themselves and libvirt's recovery are
not fair. So a stop may wait at its gate for ever, and `StopReports` says so: past the gate it
reports, at the gate it reports or goes through unless libvirt stays wedged.

`VerbDispatch`'s `FairSpec`: weak fairness of each invocation's own steps (Go runs
every goroutine), strong fairness of `Lock`, because others take and release the
mutex in between and Go's `sync.Mutex` hands it to a waiter that has starved for a
millisecond, and weak fairness of the daemon's recovery as above. The other runs check
safety alone.

## 6. The proofs

All proofs check with no step left open. They hold for every value of the constants
within the named assumptions (`WorldAssumption`, `LifecycleAssumption`,
`CacheAssumption`, `BaseAssumption`, `CloneAssumption`, `CreateAssumption`,
`VerbAssumption`, `MethodAssumption`, `ImportAssumption`, `DocumentAssumption` and
the recorder's: types, and that placeholder values are no process, tag, port or
document). Where a theorem needs more, its ASSUME says so.

**`VmLifecycle_proofs`**

* `TypeCorrect`: `Spec => []TypeOK`. Its lemmas go with the helper operators
  (`Move`, `Answer`, `Report`, `Call`, `Claim`, `Effect`), then one step per action.
* `TeardownFinal`: `VerifiedTeardown`, whatever the outages, when no process creates
  (any number of processes, late calls included), or when one process runs all the
  commands and libvirt drops the calls it abandoned. `VerifiedTeardown` speaks of
  finished commands and is far from inductive. `TeardownInv(p)` (lemma
  `TeardownRecord`) records where a process can report a libvirt teardown and that
  its reply is then "absent" or "lost". `SawNoDomain(p)`, a verification answered
  "absent", is learnt only by a lookup that finds no domain (`SawNoDomainStep`). The
  invariant is `SawNoDomain(p) => ~LvExists`, and the question is who could bring a
  domain back. Every call but "define" needs a domain to act on (`NeedsDomain`), so
  only a process at a definition (`GoneUnderStep`) or a late definition
  (`GoneUnderWorld`) could. Without create commands there is neither
  (`NothingDefined`); with one process, that process is verifying and not defining,
  and no late call takes effect. With two processes that create, or with late
  definitions, the property is false by design: a new domain of the old name is not
  the teardown's failure.

**`VmGuests_proofs`** builds on these lemmas. Its common ground is `Course(p)`: what the
place of a process says about its command, its operation and the backend it found
(`CourseKept`). `SteadyKept` shows that without outages daemon and engine are up, no call is
abandoned and a process that reads a state is connected.

* `DiskStays`: `NoDiskPulled`, with any number of outages, under the alternative of
  `TeardownFinal`. Only three places remove the directory (`DirRemoved`). The libvirt one
  follows a verification, and `TeardownSeen`, the core of `TeardownFinal`, says what that saw.
  At the qemu and krun ones there must be no libvirt domain of the name: with nobody who
  creates, no record of these backends exists to be found (`NothingRecorded`); with one
  process that respects the pins, at most one backend holds the name (`OneHolder`, and
  `NoRival(p)` for the process in between two steps). `Repin` breaks exactly that.
* `TeardownsVerified`: with `MaxFaults = 0` no reply is ever "lost" (`AlwaysAnswered`), so the
  exception in `VerifiedTeardown` goes. It is the other half of the first row of the table
  in section 7.
* `QemuGuestsKept`, `NoGuestLost`: a running guest has its record (`QemuRecorded`,
  `KrunRecorded`), and where a record is about to be removed its guest is gone
  (`QemuGone(p)`, `KrunGone(p)`). Both need `OneHolder`, for the directory takes every
  backend's records with it, and one process, for a destroy that overtakes a start loses what
  that starts. The qemu half holds through any outages; the container half, and with it
  `NoLostGuest`, needs an engine that answers, as one that is down reads as "no guest"
  (section 7).
* `StopsAreVerified`, `SweepSpares`: both are about something a process learnt some steps
  ago and still acts on or reports. `KnowsRight(p)` says where a process has learnt that
  the guest is off (`KnownOff`, `KnownStopped`) and that this is still true. It is learnt only
  from a guest that is off (`KnownOffStep`, `KnownStoppedStep`), and ended only by a start
  (`RunsUnderStep`, `ContainerRunsUnderStep`) or a resumed pause. Hence the assumptions: no
  pauses, no outage (an unreadable state counts as off), and either one process or none that
  starts. With another process that starts, both are false: the start comes between.

**`DiskBase_proofs`**

* `TypeCorrect`.
* `UsesCache`: `Spec => CacheSpec`. Each build step is a step of the cache or leaves
  its variables alone. The two theorems on the cache are proved of `CacheSpec` and
  carried over by it.
* `CacheWhole`: `[]CachedDiskWhole`. The inductive invariant says that only the
  flock's holder is inside the pull, and that at `promote` the part is whole.
* `PullsCurrent`: `[]PullServesIdentity`, assuming `~Rollback`. The invariant adds
  an order: `marker <= disk.v <= tag`, and the version a pull wants is at most the
  tag; the order breaks when tags may go back, which is why the assumption is needed.
* `FreshBaseLeft`: `FreshBaseLeftAlone`. A build at `remove` holds the entity's lock,
  and since its freshness test base and stamp of the entity are untouched
  (`BaseInv`), for nobody else writes them without the lock; so a fresh base seen
  with a matching stamp would have been skipped. `OthersLeftAlone` is the frame
  argument, `OwnBuildInv` the builder's own steps, `BaseInvHolds` puts them together.
* `EmitsWhole`: `[]EmittedWhole`, the part of `BaseInv` about scripted builds.
* `StampsTellTruth`: `[]StampMeansComplete`, assuming no step fails and no process dies
  (`~MayStop`). The run `interrupted` shows the property violated; the theorem shows that
  the interruption is the only cause, whatever is forced, drifted or destroyed and however
  many beds build. `StampInv`: a stamp tells the size of the written base beside it except
  while the entity's builder is between writing and stamping, and what that builder then
  stamps is the size it gave the base.

**`SessionRecorder_proofs`**

* `TypeCorrect`. `MarkerCounts` and `RowVouches` hold in all settings, shared
  directories and impatient runners included: the invariant `FilesInv` follows the
  stream, the marker and the row through one session (`MarkerInv`, `RowInv`) and
  says that nothing older than what is there can come later.
* `StopVouches`: where the directory is the session's own (`fresh`, in the property itself),
  whether or not the runner waits. `StopInv` says what a stop that looks for the row may find:
  nothing of an earlier session, as the directory is new, and a row of this one only behind
  its whole marker, also while the recorder is still writing.

**`SnapshotClone_proofs`**

* `TypeCorrect`.
* `RefsCovered`: `[]RefsCoverLanes`, assuming nobody forces a deletion. The invariant
  `RefsInv` needs `EntryInv`: a lane that is about to count, or has counted, still has
  an entry to count on, because `Delete` looks at the count before it removes an entry,
  and a tag that is gone is counted from zero with no lane on it. Cardinalities change
  by one lane at a time (`FiniteSetTheorems`).
* `Implements`: `Spec => SharedSpec` under the same assumption. `LaneImplements` maps a
  count to `Link`, a teardown to `Unlink`; `OperatorImplements` maps a capture to `Keep`
  and a deletion to `Discard`, whose guard follows from `RefsCoverLanes`: a count of
  zero means no counted lane.
* `NobodyDangles`: the abstract invariant `NoneDangling`, proved of `SharedDisks` alone and
  carried over by `Implements`.
* `ConsistentRecorded`: `[]ConsistentIsQuiet`, assuming `ReadFails = FALSE`. `StrictInv` follows
  the promise from the request (without quiesce the keeper is off, and stays so while an
  operator is at work) over the capture to the entry.
* `ClonesFindReadOnly`: `[]ReadOnlyForClones`. `SealedInv`: what is about to be recorded is
  sealed. A promotion replaces a disk by a copy but keeps its mode (`PromotedMode`), and a
  lane changes a mode only by promoting (`LaneMode`).
* `LinkedWhatItCounts`: `[]CountsWhatItLinked`. `OneBuilder`, the entity lock, is the
  strengthening: between a lane's overlay and its count no other lane writes the overlay
  of the entity.

**`VmCreate_proofs`**

* One inductive invariant, `CreateInv`: types, `OwnDomain` (no two processes work on
  one domain), and `Place(r, ...)`, what holds of a process by where it is: past `Acquire`, one
  whose node asks for the card has a lease of some kind; past `Allocate`, a card is passed on
  only under such a lease or by a committed hostdev; from `PersistPort` on, the ledger has an
  allocated port; at `flatten`, `emit` and after a stop or teardown no guest runs that create
  booted. `Place` says nothing of the lease's holder, for the arbiter may take it away at any
  moment; `OthersKept` is what a step must leave alone of the domains of other processes, a
  preemption or a restart by the arbiter included, and `OneSteps` shows once that it then keeps
  their places.
* `FlattensQuiet`, `PortsStayTogether` and `BakeKeeps` read their properties off it.
* `LeaseFollowed`: `CardFollowsLease`, without a further assumption. Guests and lease move by
  few actions (`OnlyThese`): a definition has the card `Place` allows it, a preemption stops the
  holder in the step that takes its lease, and a release at "release" finds its own guest not
  booted by create. What is left is the release of a destroy that failed, which the property
  names.

**`VerbDispatch_proofs`**

* One inductive invariant, `VerbInv`: exactly the capturing invocation has the mutex
  and the streams, has saved the terminal, and what is in its pipe is its own and as
  much as it wrote; an open connection belongs to an invocation that still runs;
  "done" is set by the time a program with a change has passed it. `TypeCorrect`, `OutputIsOwn`,
  `StreamsAreBack`, `NothingStaysOpen` and `PassIsTrue` follow, for any number of
  invocations.

**`VmImport_proofs`**

* `TypeCorrect`, `FileStaysWhole`: only the rename writes the file, and what it puts there
  has been filled (`MemoryInv`).
* `OperatorIsKept`, `AdoptionStays`, `UpdateSynchronises`: action properties of the
  rename. `BookInv` says what the document in memory is in relation to the file that
  was read and to the XML, and `RenamedBook` that the rename installs it. `OperatorIsKept`
  says of an update block by block what stays (`KeptByUpdate`), and
  needs that nobody saved in between (`quiet`); `AdoptionStays` does not, because an operator's
  save keeps the adoption times and an adoption time once read is only copied.
* `AllAreRecorded`: `[]AllRecorded`. `AllInv`: as long as none has failed and nobody
  interferes, a listed domain is recorded, still to be done, or the one at hand, whose entry
  is in the document that replaces the file. The rename keeps the records of the others
  because the document was read from the same file (`KeepsRecords`, from `BookInv`).

**Only model-checked.** The liveness properties (`CommandsReport`, `StopReports`,
`WedgeEndsRecording`, `EveryVerbReports`) stay with TLC: liveness under fairness is
beyond this prover. Every invariant and every action property of a passing run has a
theorem, under the assumptions named above. Beyond them the theorems say nothing: two
processes of which one creates or starts, for `VmLifecycle`, are covered by `concurrent`
only, for start and destroy.

## 7. Where code and words disagree

Three of these have a run and an entry in `PROJECT.json`:

* `interrupted`: "a matching stamp already implies a complete build"
  (`vm_cloud_image.go:53-54`); a rebuild that dies between the overlay and the resize
  (`:148`, `:154`) leaves the old stamp beside an unresized base.
* `big_output`: "the read-after-close pattern cannot deadlock here"
  (`provider.go:270-271`); a guest command that prints more than a pipe holds blocks
  its verb with the mutex held.
* `forwards`: an update overwrites "only the source-derived fields", of the network
  "network.mode" (`vm_import.go:388-399`); `mergeImportedVmIntoDoc` replaces the whole `network:`
  mapping (`:490-492`) and the port forwards are gone.

Others the models reproduce; change the constants of the named run as given and ask
for the property:

| Disagreement | Where | To see it |
|---|---|---|
| a destroy whose verification was lost reports a verified teardown (`vm.go:432-433`) | `vm_backend_libvirt.go:110` | `EveryTeardownVerified`; `single` with libvirt, create and destroy, `MaxFaults = 1` |
| "a wedged virtqemud must not hang destroy" (`provider.go:435-436`); handshake and disconnect have no bound | `vm_libvirt.go:73,112` | `DestroyReports`; the same under `FairSpec` |
| "an unavailable engine cannot have a live guest" (`vm_backend_krun.go:462-464`); destroy then drops the record of a running container | `vm_backend_krun.go:152` | `NoLostGuest`; `single` with krun, `MaxFaults = 1` |
| after a re-pin, a destroy through qemu removes the krun record | `vm_backend_qemu.go:114` | `NoLostGuest`; `single` with `Repin = TRUE` |
| the stop "verifies the recorder's finalize actually landed" (`session_method.go:211-212`); in a directory used before, an earlier row is accepted | `session_method.go:259` | `StopOkMeansFinalized` without `fresh`; `recording` |
| "a changed ref or path invalidates the per-VM disk" (`vm_container_disk.go:294-295`); the cache is keyed by the image alone and serves another path's disk | `vm_container_disk.go:178,390-396` | `PullServesPath`; `beds` with `Paths = {"disk", "other"}` |
| "a second build never rewrites a base a live per-domain overlay backs onto", the rest "idempotent-skip" (`vm_build.go:97-101`); bootstrap and bootc builds test nothing and copy over it | `vm_bootc_engine.go:86`, `vm_bootstrap_engine.go:272` | a base with a live overlay does not change (`FreshBaseLeftAlone` without its last disjunct); `beds` with `Arms = {"bootc"}`, `MayForce = FALSE` |
| a pull that dies before recording, then a tag moved back: the newer disk is a hit | `vm_container_disk.go:391` | `PullServesIdentity`; `beds` with `Rollback = TRUE` |
| every deploy "gets its OWN auto-allocated host port" (`vm_create_orchestrate.go:249-252`); the port of a deployment that does not run is free to the allocator | `vm_util_copies.go:92` | `OwnPort`; `create` with `AutoPort = {d1, d2}` |
| a lease is released "on every exit", "once the claimant is gone" (`vm.go:517-519`); also when the teardown failed and the guest runs | `vm.go:523` | `CardFollowsLease` without its last disjunct; `create` |
| a flattened overlay "is a consistent file" (`vm_bake.go`); the arbiter may have started the guest again, when it was preempted and the lease came back | `vm_bake.go:103` | `FlattensQuietDisk` without its exception; `create` |
| create-consistent is "GUARANTEED-consistent" (`vm_snapshot_composites.go:40-43`); a state that cannot be read counts as off | `vm_snapshot_composites.go:87` | `ConsistentIsQuiet`; `snapshots` with `ReadFails = TRUE` |
| a snapshot "stays undeletable until every clone is gone" (`vm_clone.go:193-195`); a deletion between a clone's overlay and its count succeeds | `vm_clone.go:213,220` | `BuiltKeepsDisk`; `snapshots` as it is |

Others met while reading, which the models do not show or leave aside:

* Lifecycle. A qemu stop reports at once (`vm_backend_qemu.go:91`), `vm.go:491-492`
  speaks of a verified stop. The stop polls for "not running"
  (`vm_backend_libvirt.go:93`), where `vm_libvirt.go:297-298` waits for SHUTOFF: a
  paused guest counts as stopped. The sweep destroys paused domains (`vm.go:750`; the
  comment at 727-730 says shut off). Abandoned calls are called harmless for reads
  (`vm_libvirt.go:145-146`), the same helper carries the mutating ones (`:134`).
* Recorder. The endpoint "never dials" for a session (`provider.go:137`), the gate before it
  does, without a bound (`:233`). A stop whose gate skips, because the domain is off or not
  found (`:242`), or whose request the runner does not take, signals nobody: a recorder that is
  still there goes on until its polls fail. A row read half-written fails a stop whose recording is complete
  (`session_method.go:260`); it needs a runner that does not wait.
* Builds. A drifted or forced build rewrites the base under live overlays. `destroy <entity> --disk` removes base, stamp and lock under
  their users (`vm.go:487`).
* Snapshots. The quiesce fallback does not make the snapshot read-only
  (`vm_snapshot_libvirt.go:137-143`), nor does a promotion
  (`vm_snapshot_internal.go:79-100`). A keeper's `destroy --disk` removes the store
  under counted clones (`vm.go:465-470`, `vm_backend_libvirt.go:115-116`). A later
  snapshot backs on an earlier one, whose count does not know it. "The previous disk
  becomes immutable" and clones use it as backing (`vm_snapshot_libvirt.go:56-67`),
  while they back on the overlay, which the keeper goes on writing. Two lanes on different
  snapshots of one clone entity replace each other's overlay. A build whose seed fails
  leaves its reference counted (`vm_clone.go:240`).
* Leases. The baking process takes its own lease for an outer one
  (`vm_arbiter_shim.go:96,103`) and leaves it held, where `vm.go:206-208` has stop or
  destroy release it. A hostdev committed in the spec is attached to a node that requires
  nothing, and without a lease (`gpu_allocate.go:99-119`). A second create may preempt the
  holder while that is still being created: it then boots with a card whose
  lease is gone, and whichever of the two starts second fails.
* Ports. Fixed forwards do not enter the set of occupied ports
  (`vm_util_copies.go:143-146`), which is to keep an automatic one off "another
  forward's port" (`vm_create_orchestrate.go:257-259`).
* Import. A domain without a network leaves the old mode, which the next diff
  reports. `update` on an operator's own entry makes it an imported one. A domain counts
  as recorded by its name, not by the `libvirt_name` of an entry
  (`vm_import.go:268-269`): one imported under `--target` is listed again, and
  `charly-x` and `x` want one entry. Two imports share `charly.yml.tmp`, and a save
  between an import's read and its rename is lost.

## 8. What is left out

Abstractions inside the modelled parts:

* `destroy <entity> --disk` in `DiskBase` happens only to an entity no bed uses or
  builds. The code does not look; section 7 has the consequence.
* A domain that boots the base itself, without an overlay, is not modelled: beds
  always make one.
* Seed, NVRAM, autostart units and shape overrides are outside of both `VmLifecycle`
  and `VmCreate`.
* `DiskBase` has one reference for all container-disk entities. The download caches
  of the other arms belong to the sdk; their identity is in the signature.
* `SnapshotClone`: the registry belongs to the sdk; its `CreateSnapshot` refuses a
  name that is there, and the host's teardown takes back one reference per counted
  build. One operator at a time.
* `VmCreate`: commands on one deployment are serialised by their deployer, who edits its node
  and applies layers between them; one card stands for a group. `vm start` acquires nothing, as
  in the code, and neither does the arbiter's own restart: `CardFollowsLease` therefore speaks
  of guests that create booted. Extra port forwards have no ledger entry of their own, and
  driver modes of the card are left out.
* `VerbDispatch`: prints of other goroutines of the host are left out. The two pipes of a
  capture, for stdout and stderr, are one; both of its ends are closed by `Restore`
  (`provider.go:288-294`). Matchers are a choice of
  pass and fail. Guest files and freezing are in no method's list.
* `VmImport`: one import at a time; `import --list --show-drift` is one diff per entry and not a
  loop of its own; editors save atomically; XML decoding and the
  conversion of memory sizes are data; `last_synced_at` and the kind of an entry are not
  kept.
* Decoding manifests and locating the blob in a layer are pure and become a version.
* Image data, XML, log lines, wording and configuration parsing do not appear.

Components not modelled: the krun plan and the domain XML are pure translations without state;
box emission, retag, scp and copy are sequences of engine commands whose only state is
the engine's; seams and aliases are names. Diagnosis and live GPU attach are single
requests.

## 9. Plan

Of the plan this development began with, the lifecycle, the disks, the recorder, the
snapshots, create and bake, the dispatch and the import are done. What would come next:

1. **`DiskBase`**: a clone's base over `SnapshotClone`.
2. **`KrunPlan`**: the memory split as operators over bounded inputs against their
   definition.
3. **`VmLifecycle`**: `destroy` and `create` of one name by two processes with a clock, so that
   the sweep's race (`vm.go:763`) can be stated.
4. Theorems: that `VmCreate`'s commands use the domain as `VmLifecycle` allows, so that
   what is proved of the one holds of the other.
