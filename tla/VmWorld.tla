------------------------------ MODULE VmWorld ------------------------------
(***************************************************************************)
(* What lies around the vm plugin for ONE VM name: the libvirt session     *)
(* daemon and the domain it holds, a qemu process, a containerd (krun)     *)
(* container, and the per-domain host state directory that charly's        *)
(* backends share.  The plugin's own steps are in VmLifecycle; this module *)
(* gives the state they act on, the effect of every call they make on it,  *)
(* and the steps the surroundings take by themselves.                      *)
(***************************************************************************)
EXTENDS Integers

CONSTANTS
    MaxFaults,         \* bound: outages of the daemon and of the engine
    LateCalls,         \* may a call abandoned at its bound take effect later
    Pausable,          \* may a running domain be paused (suspend, I/O error)
    InitDefined        \* may the domain be defined, and running, at the start

VARIABLES
    daemon,   \* the libvirt session daemon: "up", "down", "wedged"
    engine,   \* the containerd engine: "up", "down"
    faults,   \* outages so far
    conns,    \* the clients whose connection the daemon holds
    late,     \* libvirt calls abandoned at their bound and not yet dropped
    lv,       \* the libvirt domain of the name
    qm,       \* the qemu process and the two markers in the state directory
    kr,       \* the krun container and the launch record
    dir       \* does the per-domain state directory exist

worldVars == <<daemon, engine, faults, conns, late, lv, qm, kr, dir>>

ASSUME WorldAssumption ==
    /\ MaxFaults \in Nat
    /\ LateCalls \in BOOLEAN /\ Pausable \in BOOLEAN /\ InitDefined \in BOOLEAN

LibvirtCalls == {"shutdown", "destroy", "snapshotDelete", "undefine", "define", "boot"}

(***************************************************************************)
(* act is the run state; "shutdown" is libvirt's transient "shutting       *)
(* down".  A domain exists while it is defined or active: an active domain *)
(* that is no longer defined is a transient one.                           *)
(***************************************************************************)
Domain == [def : BOOLEAN, act : {"off", "running", "paused", "shutdown"},
           acpi : BOOLEAN, snaps : BOOLEAN]
Qemu == [cmd : BOOLEAN, pid : BOOLEAN, proc : {"none", "alive", "acpi", "quitting"}]
Krun == [rec : BOOLEAN, cont : {"none", "stopped", "running"}, off : BOOLEAN]

WorldTypeOK ==
    /\ daemon \in {"up", "down", "wedged"}
    /\ engine \in {"up", "down"}
    /\ faults \in 0..MaxFaults
    /\ late \subseteq LibvirtCalls
    /\ lv \in Domain
    /\ qm \in Qemu
    /\ kr \in Krun
    /\ dir \in BOOLEAN

NoDomain == [def |-> FALSE, act |-> "off", acpi |-> FALSE, snaps |-> FALSE]
NoQemu == [cmd |-> FALSE, pid |-> FALSE, proc |-> "none"]
NoKrun == [rec |-> FALSE, cont |-> "none", off |-> FALSE]

WorldInit ==
    /\ daemon = "up"
    /\ engine = "up"
    /\ faults = 0
    /\ conns = {}
    /\ late = {}
    /\ \/ lv = NoDomain
       \/ /\ InitDefined
          /\ \E a \in {"off", "running"} : lv = [NoDomain EXCEPT !.def = TRUE, !.act = a]
    /\ qm = NoQemu
    /\ kr = NoKrun
    /\ dir \in BOOLEAN /\ (dir => InitDefined)

----------------------------------------------------------------------------
(* The libvirt calls the plugin makes, as the daemon executes them.        *)

LvExists == lv.def \/ lv.act # "off"

Accepts(call) ==
    CASE call = "shutdown" -> lv.act = "running"
      [] call = "destroy"  -> lv.act # "off"
      [] call = "snapshotDelete" -> LvExists /\ lv.snaps
      [] call = "undefine" -> lv.def /\ (lv.snaps => lv.act # "off")
      [] call = "define"   -> TRUE
      [] call = "boot"     -> lv.def /\ lv.act = "off"

\* A domain that is neither defined nor active is gone, its snapshot records
\* and its pending shutdown request with it.
Settle(d) == IF d.def \/ d.act # "off" THEN d ELSE NoDomain

Effect(call) ==
    CASE call = "shutdown" -> [lv EXCEPT !.acpi = TRUE]
      [] call = "destroy"  -> Settle([lv EXCEPT !.act = "off", !.acpi = FALSE])
      [] call = "snapshotDelete" -> [lv EXCEPT !.snaps = FALSE]
      [] call = "undefine" -> Settle([lv EXCEPT !.def = FALSE, !.snaps = FALSE])
      [] call = "define"   -> [lv EXCEPT !.def = TRUE]
      [] call = "boot"     -> [lv EXCEPT !.act = "running"]

\* A definition can be refused (another UUID under the same name), a start can
\* fail in qemu; the other calls fail only when their precondition does.
MayFail == {"define", "boot"}

----------------------------------------------------------------------------
(* Steps of the surroundings.                                              *)

\* A daemon that dies loses its connections; one that wedges keeps them.
DaemonFails ==
    /\ faults < MaxFaults
    /\ daemon = "up"
    /\ faults' = faults + 1
    /\ \/ daemon' = "down" /\ conns' = {} /\ late' = {}
       \/ daemon' = "wedged" /\ UNCHANGED <<conns, late>>
    /\ UNCHANGED <<engine, lv, qm, kr, dir>>

\* A wedged daemon resumes, or is restarted like a dead one.
DaemonRecovers ==
    /\ daemon # "up"
    /\ daemon' = "up"
    /\ \/ conns' = {} /\ late' = {}
       \/ daemon = "wedged" /\ UNCHANGED <<conns, late>>
    /\ UNCHANGED <<engine, faults, lv, qm, kr, dir>>

\* An abandoned call completes after its caller stopped waiting, or is dropped.
LateCallEnds ==
    /\ daemon # "down"
    /\ \E call \in late :
          /\ late' = late \ {call}
          /\ \/ LateCalls /\ Accepts(call) /\ lv' = Effect(call)
             \/ UNCHANGED lv
    /\ UNCHANGED <<daemon, engine, faults, conns, qm, kr, dir>>

EngineFails ==
    /\ faults < MaxFaults
    /\ engine = "up"
    /\ faults' = faults + 1
    /\ engine' = "down"
    /\ UNCHANGED <<daemon, conns, late, lv, qm, kr, dir>>

EngineRecovers ==
    /\ engine = "down"
    /\ engine' = "up"
    /\ UNCHANGED <<daemon, faults, conns, late, lv, qm, kr, dir>>

\* The guest answers an ACPI request, finishes going down, or ignores it.
DomainGuestStep ==
    /\ \/ lv.acpi /\ lv.act = "running" /\ lv' = [lv EXCEPT !.act = "shutdown"]
       \/ lv.acpi /\ lv.act = "running" /\ lv' = [lv EXCEPT !.acpi = FALSE]
       \/ lv.act = "shutdown" /\ lv' = Settle([lv EXCEPT !.act = "off", !.acpi = FALSE])
    /\ UNCHANGED <<daemon, engine, faults, conns, late, qm, kr, dir>>

DomainPauses ==
    /\ Pausable
    /\ \/ lv.act = "running" /\ lv' = [lv EXCEPT !.act = "paused"]
       \/ lv.act = "paused" /\ lv' = [lv EXCEPT !.act = "running"]
    /\ UNCHANGED <<daemon, engine, faults, conns, late, qm, kr, dir>>

\* A snapshot record appears on the domain (a golden captured on it).
SnapshotTaken ==
    /\ lv.def /\ ~lv.snaps
    /\ lv' = [lv EXCEPT !.snaps = TRUE]
    /\ UNCHANGED <<daemon, engine, faults, conns, late, qm, kr, dir>>

\* A signalled qemu leaves; a clean exit unlinks its pidfile, a kill does not.
\* A guest may also ignore the power button.
QemuGuestStep ==
    /\ \/ /\ qm.proc \in {"acpi", "quitting"}
          /\ \E left \in BOOLEAN :
                qm' = [qm EXCEPT !.proc = "none", !.pid = left /\ qm.pid]
       \/ qm.proc = "acpi" /\ qm' = [qm EXCEPT !.proc = "alive"]
    /\ UNCHANGED <<daemon, engine, faults, conns, late, lv, kr, dir>>

KrunGuestStep ==
    /\ kr.off /\ kr.cont = "running"
    /\ kr' = [kr EXCEPT !.cont = "stopped", !.off = FALSE]
    /\ UNCHANGED <<daemon, engine, faults, conns, late, lv, qm, dir>>

WorldNext ==
    \/ DaemonFails \/ DaemonRecovers \/ LateCallEnds
    \/ EngineFails \/ EngineRecovers
    \/ DomainGuestStep \/ DomainPauses \/ SnapshotTaken
    \/ QemuGuestStep \/ KrunGuestStep

=============================================================================
