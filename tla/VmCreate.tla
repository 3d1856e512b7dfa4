------------------------------ MODULE VmCreate ------------------------------
(***************************************************************************)
(* The lifecycle commands around a domain: the exclusive lease on the      *)
(* passthrough card that create acquires and stop and destroy release, the *)
(* hostdev block create persists, the overlay, the host port in the deploy *)
(* ledger, the ssh alias, and the bake that runs create, stop and destroy  *)
(* in one process.  A process runs one command on one domain; it may fail  *)
(* at every call and die between any two.  The domain itself is one step   *)
(* per call here: VmLifecycle has what happens inside.                     *)
(***************************************************************************)
EXTENDS Integers, FiniteSets

CONSTANTS
    Procs,         \* processes running a command
    Domains,       \* deployments, each with a domain of its own
    Claimants,     \* deployments whose node requires the card until it is edited
    Ports,         \* host ports the allocator may give out
    Commands,      \* commands in use
    Committed,     \* deployments whose committed spec has a hostdev
    AutoPort,      \* deployments whose host port is allocated for them
    FixedPort,     \* the host port of the others
    MaxSteps,      \* bound on commands started and steps of the world
    Nobody, NoPort

ASSUME CreateAssumption ==
    /\ Claimants \subseteq Domains /\ Nobody \notin Domains
    /\ Committed \subseteq Domains /\ AutoPort \subseteq Domains
    /\ Ports \subseteq Nat /\ NoPort \notin Ports /\ FixedPort \in Ports
    /\ Commands \subseteq {"create", "start", "stop", "destroy", "bake"}
    /\ MaxSteps \in Nat

VARIABLES
    requires,  \* deployments whose node requires the card now
    holder,    \* who holds the lease
    preempted, \* whom the arbiter stopped for it
    hostdev,   \* domains with a hostdev block in instance.yml
    overlay,   \* per domain, its disk.qcow2
    guest,     \* per domain: its state, whether the card is attached, the port
               \* it forwards, and whether create or start started it
    ledger,    \* per domain, the persisted port
    alias,     \* per domain, the port of its ssh-config stanza
    box,       \* what the last emitted box holds
    steps,     \* commands started and steps of the world so far
    proc       \* per process, its command and where it is

leaseVars == <<requires, holder, preempted>>
domainVars == <<overlay, guest, box>>
configVars == <<hostdev, ledger, alias>>
vars == <<leaseVars, domainVars, configVars, steps, proc>>

NoGuest == [state |-> "none", card |-> FALSE, port |-> NoPort, by |-> "create"]
Quiet == [at |-> "idle", d |-> Nobody, cmd |-> "none", lease |-> "none",
          card |-> FALSE, port |-> NoPort, release |-> FALSE, layers |-> FALSE,
          keep |-> FALSE, disk |-> FALSE]

Init ==
    /\ requires = Claimants
    /\ holder = Nobody /\ preempted = Nobody
    /\ hostdev = {}
    /\ overlay = [d \in Domains |-> "none"]
    /\ guest = [d \in Domains |-> NoGuest]
    /\ ledger = [d \in Domains |-> NoPort]
    /\ alias = [d \in Domains |-> NoPort]
    /\ box = "none" /\ steps = 0
    /\ proc = [p \in Procs |-> Quiet]

Running(d) == guest[d].state = "running"
Bound == {guest[d].port : d \in {e \in Domains : Running(e)}}
Busy(d) == \E p \in Procs : proc[p].d = d

\* The node the host's configuration has for the deployment requires the card.
Claims(d) == d \in requires

Goes(p, at) == proc' = [proc EXCEPT ![p].at = at]
\* The process ends; its environment goes with it.
Ends(p) == proc' = [proc EXCEPT ![p] = Quiet]
\* One more of the things that are bounded.
Once == steps < MaxSteps /\ steps' = steps + 1

----------------------------------------------------------------------------
(* The world.                                                              *)

\* The operator adds requires_exclusive to a node or takes it away.
EditConfig(d) ==
    /\ Once /\ ~Busy(d) /\ d \in Claimants
    /\ requires' = IF d \in requires THEN requires \ {d} ELSE requires \cup {d}
    /\ UNCHANGED <<holder, preempted, domainVars, configVars, proc>>

GuestPowersOff(d) ==
    /\ Once /\ Running(d)
    /\ guest' = [guest EXCEPT ![d].state = "off"]
    /\ UNCHANGED <<leaseVars, overlay, box, configVars, proc>>

\* charly deploy add applies layers inside the guest.
ApplyLayers(d) ==
    /\ Once /\ Running(d) /\ ~Busy(d) /\ overlay[d] = "clean"
    /\ overlay' = [overlay EXCEPT ![d] = "layered"]
    /\ UNCHANGED <<leaseVars, guest, box, configVars, proc>>

\* The process is killed; what it deferred does not run.
Die(p) ==
    /\ proc[p].at # "idle"
    /\ Ends(p)
    /\ UNCHANGED <<leaseVars, domainVars, configVars, steps>>

\* Where a command begins.
First(cmd) == CASE cmd \in {"create", "bake"} -> "acquire"
                [] cmd = "destroy"            -> "claimant"
                [] OTHER                      -> cmd

\* One command at a time per domain: its deployer runs them in sequence.  The
\* process may inherit CHARLY_PREEMPT_LEASE from an outer one.  keep is a bake's
\* --domain, layers its --candy, disk a destroy's --disk.
Invoke(p) ==
    /\ Once /\ proc[p].at = "idle"
    /\ \E d \in Domains, cmd \in Commands :
          /\ ~Busy(d)
          /\ \E layers, keep, disk \in BOOLEAN, lease \in {"none", "outer"} :
                /\ layers => cmd = "bake"
                /\ keep => cmd = "bake"
                /\ disk => cmd = "destroy"
                /\ lease = "outer" => cmd # "start"
                /\ proc' = [proc EXCEPT ![p] =
                       [Quiet EXCEPT !.at = First(cmd), !.d = d, !.cmd = cmd, !.lease = lease, !.layers = layers,
                                     !.keep = keep, !.disk = disk]]
    /\ UNCHANGED <<leaseVars, domainVars, configVars>>

----------------------------------------------------------------------------
(* create.                                                                 *)

\* Sensitivity: a deployment that acquires again is noted as its own victim.
PreemptItself(d) == holder' = d /\ preempted' = holder /\ UNCHANGED guest

\* The arbiter stops the domain of the lease's holder and hands the lease over,
\* or refuses.
Preempt(d) ==
    /\ holder' = d
    /\ preempted' = IF holder = d THEN preempted ELSE holder
    /\ guest' = IF holder \in Domains \ {d} /\ Running(holder)
                THEN [guest EXCEPT ![holder].state = "off"] ELSE guest

\* Nothing to acquire when the node requires nothing or an outer process has the
\* lease.  With a lease from the arbiter the process carries
\* CHARLY_PREEMPT_LEASE from then on, with its consent alone it does not.
Acquire(p) ==
    LET d == proc[p].d
        asks == Claims(d) /\ proc[p].lease = "none"
        Granted(lease) == proc' = [proc EXCEPT ![p].at = "allocate", ![p].lease = lease] IN
    /\ proc[p].at = "acquire"
    /\ \/ asks /\ Preempt(d) /\ Granted("own")
       \/ asks /\ Granted("inactive") /\ UNCHANGED <<holder, preempted, guest>>
       \/ ~asks /\ Goes(p, "allocate") /\ UNCHANGED <<holder, preempted, guest>>
       \/ Ends(p) /\ UNCHANGED <<holder, preempted, guest>>
    /\ UNCHANGED <<requires, overlay, box, configVars, steps>>

\* Sensitivity: a stale hostdev block is attached whoever asks.
AllocateKeepsStale(p) ==
    LET d == proc[p].d IN
    /\ proc[p].at = "allocate"
    /\ proc' = [proc EXCEPT ![p].at = "overlay", ![p].card = Claims(d) \/ d \in Committed \cup hostdev]
    /\ hostdev' = IF Claims(d) THEN hostdev \cup {d} ELSE hostdev
    /\ UNCHANGED <<leaseVars, domainVars, ledger, alias, steps>>

\* autoAllocateExclusiveGPUs: a deployment that requires no card drops the
\* instance's block, in memory only, and keeps the spec's; one that does takes
\* the block it has, of either, or detects a card and persists it, or fails.
Allocate(p) ==
    LET d == proc[p].d
        Attach(card) == proc' = [proc EXCEPT ![p].at = "overlay", ![p].card = card] IN
    /\ proc[p].at = "allocate"
    /\ \/ ~Claims(d) /\ Attach(d \in Committed) /\ UNCHANGED hostdev
       \/ Claims(d) /\ d \in Committed \cup hostdev /\ Attach(TRUE) /\ UNCHANGED hostdev
       \/ Claims(d) /\ d \notin Committed \cup hostdev /\ Attach(TRUE) /\ hostdev' = hostdev \cup {d}
       \/ Ends(p) /\ UNCHANGED hostdev
    /\ UNCHANGED <<leaseVars, domainVars, ledger, alias, steps>>

\* Sensitivity: a bake recreates the overlay as every other create does.
DropOverlayAlways(p) ==
    /\ proc[p].at = "overlay"
    /\ overlay' = [overlay EXCEPT ![proc[p].d] = "none"]
    /\ Goes(p, "recreate")
    /\ UNCHANGED <<leaseVars, guest, box, configVars, steps>>

\* The bake of a domain of the caller's keeps its disk and needs one; every
\* other create removes the old overlay first.
DropOverlay(p) ==
    LET d == proc[p].d IN
    /\ proc[p].at = "overlay"
    /\ IF proc[p].cmd = "bake" /\ proc[p].keep
       THEN /\ IF overlay[d] # "none" THEN Goes(p, "port") ELSE Ends(p)
            /\ UNCHANGED overlay
       ELSE /\ overlay' = [overlay EXCEPT ![d] = "none"]
            /\ Goes(p, "recreate")
    /\ UNCHANGED <<leaseVars, guest, box, configVars, steps>>

CreateOverlay(p) ==
    /\ proc[p].at = "recreate"
    /\ \/ overlay' = [overlay EXCEPT ![proc[p].d] = "clean"] /\ Goes(p, "port")
       \/ Ends(p) /\ UNCHANGED overlay
    /\ UNCHANGED <<leaseVars, guest, box, configVars, steps>>

\* After the seed, the installer image, the key and the firmware, each of which may
\* fail: a fixed port; or the persisted one, or, when there is none or its read
\* fails, one that is free on the host now.
ResolvePort(p) ==
    LET d == proc[p].d
        usable == IF d \in AutoPort THEN (Ports \ Bound) \cup ({ledger[d]} \ {NoPort}) ELSE {FixedPort} IN
    /\ proc[p].at = "port"
    /\ \/ \E port \in usable : proc' = [proc EXCEPT ![p].at = "persist", ![p].port = port]
       \/ Ends(p)
    /\ UNCHANGED <<leaseVars, domainVars, configVars, steps>>

\* Sensitivity: the port is not written down.
PersistNothing(p) ==
    /\ proc[p].at = "persist"
    /\ Goes(p, "define") \/ Ends(p)
    /\ UNCHANGED <<leaseVars, domainVars, configVars, steps>>

\* Only an allocated port is written to the ledger.
PersistPort(p) ==
    LET d == proc[p].d IN
    /\ proc[p].at = "persist"
    /\ \/ ledger' = (IF d \in AutoPort THEN [ledger EXCEPT ![d] = proc[p].port] ELSE ledger) /\ Goes(p, "define")
       \/ Ends(p) /\ UNCHANGED ledger
    /\ UNCHANGED <<leaseVars, domainVars, hostdev, alias, steps>>

\* Once its XML is rendered and has passed the egress validation, the domain
\* replaces whatever runs under the name; a port or a card that another guest has
\* makes the start fail.
DefineDomain(p) ==
    LET d == proc[p].d
        new == [state |-> "running", card |-> proc[p].card, port |-> proc[p].port, by |-> "create"] IN
    /\ proc[p].at = "define"
    /\ \/ /\ \A e \in Domains \ {d} :
                Running(e) => guest[e].port # proc[p].port /\ ~(guest[e].card /\ proc[p].card)
          /\ guest' = [guest EXCEPT ![d] = new]
          /\ Goes(p, "alias")
       \/ guest' = [guest EXCEPT ![d] = [new EXCEPT !.state = "off"]] /\ Ends(p)
       \/ Ends(p) /\ UNCHANGED guest
    /\ UNCHANGED <<leaseVars, overlay, box, configVars, steps>>

PublishAlias(p) ==
    /\ proc[p].at = "alias"
    /\ \/ /\ alias' = [alias EXCEPT ![proc[p].d] = proc[p].port]
          /\ IF proc[p].cmd = "bake" THEN Goes(p, "agent") ELSE Ends(p)
       \/ Ends(p) /\ UNCHANGED alias
    /\ UNCHANGED <<leaseVars, domainVars, hostdev, ledger, steps>>

----------------------------------------------------------------------------
(* start, stop and destroy.                                                *)

\* start reconnects an existing domain and acquires nothing.
Start(p) ==
    LET d == proc[p].d IN
    /\ proc[p].at = "start"
    /\ \/ /\ guest[d].state # "none"
          /\ \A e \in Domains \ {d} :
                Running(e) => guest[e].port # guest[d].port /\ ~(guest[e].card /\ guest[d].card)
          /\ guest' = [guest EXCEPT ![d].state = "running", ![d].by = IF Running(d) THEN @ ELSE "start"]
       \/ UNCHANGED guest
    /\ Ends(p)
    /\ UNCHANGED <<leaseVars, overlay, box, configVars, steps>>

\* What the process will release: nothing without claimant, nor when the lookup
\* fails.
Releasable(d) == {FALSE, Claims(d)}

\* Sensitivity: a stop releases although the guest did not go down.
StopReleasesAnyway(p) ==
    /\ proc[p].at = "stop"
    /\ \E release \in Releasable(proc[p].d) :
          proc' = [proc EXCEPT ![p].at = "release", ![p].release = release]
    /\ UNCHANGED <<leaseVars, domainVars, configVars, steps>>

\* A stop that fails, or finds nothing to stop, releases nothing; the claimant is
\* looked up afterwards.
StopDomain(p) ==
    LET d == proc[p].d IN
    /\ proc[p].at = "stop"
    /\ \/ /\ guest[d].state # "none"
          /\ guest' = [guest EXCEPT ![d].state = "off"]
          /\ \E release \in Releasable(d) :
                proc' = [proc EXCEPT ![p].at = "release", ![p].release = release]
       \/ Ends(p) /\ UNCHANGED guest
    /\ UNCHANGED <<leaseVars, overlay, box, configVars, steps>>

\* destroy looks the claimant up before anything else.
LookupClaimant(p) ==
    /\ proc[p].at = "claimant"
    /\ \E release \in Releasable(proc[p].d) :
          proc' = [proc EXCEPT ![p].at = "teardown", ![p].release = release]
    /\ UNCHANGED <<leaseVars, domainVars, configVars, steps>>

\* The domain is gone, and with --disk the state directory too; or there is none,
\* an error without --if-exists; or the teardown fails with the guest running or
\* gone.  What destroy deferred runs on every exit.
Teardown(p) ==
    LET d == proc[p].d
        exists == guest[d].state # "none" IN
    /\ proc[p].at = "teardown"
    /\ \/ /\ exists /\ Goes(p, "unalias")
          /\ guest' = [guest EXCEPT ![d] = NoGuest]
          /\ overlay' = IF proc[p].disk THEN [overlay EXCEPT ![d] = "none"] ELSE overlay
          /\ hostdev' = IF proc[p].disk THEN hostdev \ {d} ELSE hostdev
       \/ ~exists /\ Goes(p, "unalias") /\ UNCHANGED <<guest, overlay, hostdev>>
       \/ /\ Goes(p, "abandoned")
          /\ UNCHANGED guest \/ guest' = [guest EXCEPT ![d] = NoGuest]
          /\ UNCHANGED <<overlay, hostdev>>
    /\ UNCHANGED <<leaseVars, box, ledger, alias, steps>>

\* The managed stanza is removed best-effort; the entity's disk, which --disk may
\* remove next, fails the command.
RemoveAlias(p) ==
    /\ proc[p].at = "unalias"
    /\ alias' = [alias EXCEPT ![proc[p].d] = NoPort] \/ UNCHANGED alias
    /\ Goes(p, "unledger") \/ (proc[p].disk /\ Goes(p, "abandoned"))
    /\ UNCHANGED <<leaseVars, domainVars, hostdev, ledger, steps>>

\* The deploy entry goes with its VM; it stays after a bake, with --keep-deploy or
\* when its removal, which is best-effort, fails.
RemoveLedger(p) ==
    /\ proc[p].at = "unledger"
    /\ \/ ~proc[p].keep /\ ledger' = [ledger EXCEPT ![proc[p].d] = NoPort]
       \/ UNCHANGED ledger
    /\ Goes(p, "release")
    /\ UNCHANGED <<leaseVars, domainVars, hostdev, alias, steps>>

\* The release of a stop or a destroy; after that of its stop a bake goes on.
\* Nothing is released without claimant, nor by a process that carries
\* CHARLY_PREEMPT_LEASE, its own or an outer one.  The arbiter hands the lease
\* back to the one it preempted and starts it, if it can; its error is printed.
Release(p) ==
    LET d == proc[p].d
        free == proc[p].release /\ proc[p].lease \notin {"own", "outer"} /\ holder = d
        other == preempted IN
    /\ proc[p].at \in {"release", "abandoned"}
    /\ \/ free /\ holder' = other /\ preempted' = Nobody
       \/ UNCHANGED <<holder, preempted>>
    /\ \/ /\ holder' # holder /\ other # Nobody /\ guest[other].state = "off"
          /\ \A e \in Domains \ {other} :
                Running(e) => guest[e].port # guest[other].port /\ ~(guest[e].card /\ guest[other].card)
          /\ guest' = [guest EXCEPT ![other].state = "running", ![other].by = "start"]
       \/ UNCHANGED guest
    /\ IF proc[p].cmd = "bake" /\ ~proc[p].disk THEN Goes(p, "flatten") ELSE Ends(p)
    /\ UNCHANGED <<requires, overlay, box, configVars, steps>>

----------------------------------------------------------------------------
(* bake.                                                                   *)

\* Sensitivity: the disk is flattened under the running guest.
BakeAgentFlattens(p) ==
    /\ proc[p].at = "agent"
    /\ IF proc[p].layers THEN Ends(p) ELSE Goes(p, "flatten")
    /\ UNCHANGED <<leaseVars, domainVars, configVars, steps>>

\* The guest agent is enabled best-effort.  With layers to apply the command
\* returns and leaves the domain running for them.
BakeAgent(p) ==
    /\ proc[p].at = "agent"
    /\ IF proc[p].layers THEN Ends(p) ELSE Goes(p, "stop")
    /\ UNCHANGED <<leaseVars, domainVars, configVars, steps>>

Flatten(p) ==
    /\ proc[p].at = "flatten"
    /\ \/ overlay[proc[p].d] # "none" /\ Goes(p, "emit")
       \/ Ends(p)
    /\ UNCHANGED <<leaseVars, domainVars, configVars, steps>>

\* The flat copy becomes the box, and the domain is destroyed with its disk but
\* its deploy entry kept.
EmitBox(p) ==
    /\ proc[p].at = "emit"
    /\ \/ /\ box' = overlay[proc[p].d]
          /\ proc' = [proc EXCEPT ![p].at = "claimant", ![p].disk = TRUE, ![p].keep = TRUE]
       \/ Ends(p) /\ UNCHANGED box
    /\ UNCHANGED <<leaseVars, overlay, guest, configVars, steps>>

----------------------------------------------------------------------------
CreateStep(p) ==
    \/ Acquire(p) \/ Allocate(p) \/ DropOverlay(p) \/ CreateOverlay(p) \/ ResolvePort(p)
    \/ PersistPort(p) \/ DefineDomain(p) \/ PublishAlias(p)
TeardownStep(p) ==
    \/ Start(p) \/ LookupClaimant(p) \/ StopDomain(p) \/ Teardown(p) \/ RemoveAlias(p) \/ RemoveLedger(p)
    \/ Release(p)
BakeStep(p) == BakeAgent(p) \/ Flatten(p) \/ EmitBox(p)

Next ==
    \/ \E p \in Procs : Invoke(p) \/ Die(p) \/ CreateStep(p) \/ TeardownStep(p) \/ BakeStep(p)
    \/ \E d \in Domains : EditConfig(d) \/ GuestPowersOff(d) \/ ApplyLayers(d)

Spec == Init /\ [][Next]_vars

----------------------------------------------------------------------------
(* Properties.                                                             *)

Steps == {"idle", "acquire", "allocate", "overlay", "recreate", "port", "persist", "define",
          "alias", "start", "claimant", "stop", "teardown", "unalias", "unledger", "release", "abandoned", "agent",
          "flatten", "emit"}

Guest == [state : {"none", "off", "running"}, card : BOOLEAN, port : Ports \cup {NoPort},
          by : {"create", "start"}]

Process == [at : Steps, d : Domains \cup {Nobody}, cmd : Commands \cup {"none"},
            lease : {"none", "own", "outer", "inactive"}, card : BOOLEAN,
            port : Ports \cup {NoPort}, release : BOOLEAN, layers : BOOLEAN,
            keep : BOOLEAN, disk : BOOLEAN]

\* Every variable keeps its type; a process is idle exactly when it has no
\* domain, and nobody is stopped for a lease it holds itself.
TypeOK ==
    /\ requires \subseteq Claimants /\ hostdev \subseteq Claimants
    /\ {holder, preempted} \subseteq Claimants \cup {Nobody}
    /\ overlay \in [Domains -> {"none", "clean", "layered"}]
    /\ guest \in [Domains -> Guest]
    /\ ledger \in [Domains -> Ports \cup {NoPort}] /\ alias \in [Domains -> Ports \cup {NoPort}]
    /\ box \in {"none", "clean", "layered"} /\ steps \in 0..MaxSteps
    /\ proc \in [Procs -> Process]
    /\ \A p \in Procs : (proc[p].at = "idle") = (proc[p].d = Nobody)
    /\ preempted # Nobody => preempted # holder /\ holder # Nobody

\* The guest runs with the card since create booted it.
Passthrough(d) == Running(d) /\ guest[d].card /\ guest[d].by = "create"

\* create boots a guest with the card only in a process that has a lease, an outer
\* one or the arbiter's consent, unless the committed spec attaches it: a card
\* persisted for an earlier node is not attached to one that no longer asks.  And
\* a lease leaves a deployment whose guest keeps the card only when its destroy
\* failed: everyone else takes it with the guest down (gpu_allocate.go, vm.go).
CardFollowsLease ==
    [][\A d \in Domains :
         /\ guest'[d] # guest[d] /\ Passthrough(d)'
               => d \in Committed \/ \E p \in Procs : proc[p].d = d /\ proc[p].lease # "none"
         /\ Passthrough(d) /\ holder = d /\ holder' # d
               => ~Passthrough(d)' \/ \E p \in Procs : proc[p].d = d /\ proc[p].at = "abandoned"]_vars

\* What create reports is reachable: the port the ssh alias names is the one the
\* guest forwards and, when it was allocated, the one the ledger keeps for every
\* later command (vm_create_orchestrate.go, "must be stable across the").
PortsAgree ==
    [][\A d \in Domains : alias'[d] # alias[d] /\ alias'[d] # NoPort
           => alias'[d] = guest'[d].port /\ (d \in AutoPort => ledger'[d] = guest'[d].port)]_vars

\* A bake of the caller's own domain leaves its disk alone until the domain is
\* destroyed: what the layers changed is what the box gets (vm_bake.go).
BakeKeepsDisk ==
    [][\A p \in Procs : proc[p].cmd = "bake" /\ proc[p].keep /\ proc[p].at # "teardown"
           => overlay'[proc[p].d] = overlay[proc[p].d]]_vars

\* The disk is flattened, and its box emitted, only while the guest that the bake
\* booted is off (vm_bake.go, "so its overlay is a consistent file").  The arbiter
\* may start it meanwhile, when it was preempted and the lease comes back.
FlattensQuietDisk ==
    \A p \in Procs : proc[p].at \in {"flatten", "emit"} /\ Running(proc[p].d) => guest[proc[p].d].by = "start"

\* Two deployments never keep one host port: "every deploy ... gets its OWN
\* auto-allocated host port" (vm_create_orchestrate.go).  The allocator looks at
\* the ports bound now: it holds while every deployment that has a port runs.
OwnPort == \A d, e \in Domains : d # e /\ ledger[d] # NoPort => ledger[d] # ledger[e]

=============================================================================
