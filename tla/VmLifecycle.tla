---------------------------- MODULE VmLifecycle ----------------------------
(***************************************************************************)
(* The lifecycle commands of the vm plugin - create, start, stop, destroy, *)
(* the config-free restart of the snapshot verbs ("revive") and the orphan *)
(* sweep - run by independent processes against one VM name.  No lock is   *)
(* shared: every command probes which backend holds the name and acts on   *)
(* what it saw.                                                            *)
(*                                                                         *)
(* A libvirt operation is a connection: Connect, its calls one step each,  *)
(* then Close; "stage" names the operation and Resume says what the        *)
(* command does with the reply.                                            *)
(***************************************************************************)
EXTENDS VmWorld

CONSTANTS
    Procs,      \* the processes that run commands
    Backends,   \* the backends a command may be resolved to
    Kinds,      \* the commands the processes run
    Repin       \* may an entity be re-pinned while another backend holds it

ASSUME LifecycleAssumption ==
    /\ Backends \subseteq {"libvirt", "qemu", "krun"}
    /\ Kinds \subseteq {"create", "start", "revive", "stop", "destroy", "sweep"}
    /\ Repin \in BOOLEAN

VARIABLES
    pc,      \* where the process is
    cmd,     \* its command: kind, resolved backend, and the flag of that kind
             \* (create: raw libvirt snippets, stop: --force, destroy: --disk)
    stage,   \* the libvirt operation in progress
    reply,   \* what that operation learnt
    via,     \* the backend found to hold the name
    out,     \* what the command reported
    gate     \* has the stop grace of the poll in progress expired

localVars == <<pc, cmd, stage, reply, via, out, gate>>
vars == <<worldVars, localVars>>

Commands == [kind : Kinds, be : Backends, flag : BOOLEAN]
NoCommand == [kind |-> "none", be |-> "none", flag |-> FALSE]

Labels == {"idle", "prepare", "connect", "lookup", "state", "list", "close",
           "back", "gsState", "gsShutdown", "gsWait", "gsRecheck", "gsDestroy",
           "snapshots", "snapDelete", "undefine", "startState", "stopCall", "oldState",
           "oldDestroy", "oldUndefine", "define", "boot", "injState",
           "injDestroy", "injWait", "injDefine", "injBoot", "rmdir", "qprobe",
           "kprobe", "qcreate", "qlaunch", "qstart", "qstop", "qdestroy",
           "qremove", "kcreate", "kstart", "kboot", "kstop", "kpoll",
           "kdestroy", "kremove", "kclean", "done"}
Stages == {"none", "probe", "recheck", "stop", "poll", "start", "destroy",
           "verify", "create", "inject", "list", "sweep"}
Replies == {"none", "running", "inactive", "absent", "lost", "ok", "error"}
Outcomes == {"none", "created", "started", "stopped", "torn", "absent",
             "swept", "error"}

LocalTypeOK ==
    /\ pc \in [Procs -> Labels]
    /\ cmd \in [Procs -> Commands \cup {NoCommand}]
    /\ stage \in [Procs -> Stages]
    /\ reply \in [Procs -> Replies]
    /\ via \in [Procs -> {"none", "libvirt", "qemu", "krun"}]
    /\ out \in [Procs -> Outcomes]
    /\ gate \in [Procs -> BOOLEAN]

TypeOK == WorldTypeOK /\ LocalTypeOK /\ conns \subseteq Procs

Init ==
    /\ WorldInit
    /\ pc = [p \in Procs |-> "idle"]
    /\ cmd = [p \in Procs |-> NoCommand]
    /\ stage = [p \in Procs |-> "none"]
    /\ reply = [p \in Procs |-> "none"]
    /\ via = [p \in Procs |-> "none"]
    /\ out = [p \in Procs |-> "none"]
    /\ gate = [p \in Procs |-> FALSE]

At(p, l) == pc[p] = l
Goto(p, l) == pc' = [pc EXCEPT ![p] = l]
Reply(p, r) == reply' = [reply EXCEPT ![p] = r]

\* The command is over and reports r.
Report(p, r) ==
    /\ Goto(p, "done")
    /\ out' = [out EXCEPT ![p] = r]
    /\ UNCHANGED <<cmd, stage, reply, via, gate>>

\* The command moves on without touching its own record.
Move(p, l) == Goto(p, l) /\ UNCHANGED <<cmd, stage, reply, via, out, gate>>

\* Open a connection for operation s; a poll starts its grace afresh.
Open(p, s) ==
    /\ Goto(p, "connect")
    /\ stage' = [stage EXCEPT ![p] = s]
    /\ UNCHANGED <<cmd, reply, via, out>>

Call(p, s) == Open(p, s) /\ gate' = [gate EXCEPT ![p] = FALSE]

\* The operation is answered with r; its connection is closed next.
Answer(p, r) ==
    /\ Goto(p, "close")
    /\ Reply(p, r)
    /\ UNCHANGED <<cmd, stage, via, out, gate>>

----------------------------------------------------------------------------
(* Commands.                                                               *)

QemuMarked == dir /\ (qm.cmd \/ qm.pid)
Holders == (IF LvExists THEN {"libvirt"} ELSE {}) \cup
           (IF QemuMarked THEN {"qemu"} ELSE {}) \cup
           (IF kr.rec THEN {"krun"} ELSE {})

\* create and start go to the configured backend; stop, destroy and revive ask
\* the backends who holds the name, libvirt first.
Issue(p) ==
    /\ At(p, "idle")
    /\ \E c \in Commands :
          /\ c.kind \in {"create", "start"} => Repin \/ Holders \subseteq {c.be}
          /\ cmd' = [cmd EXCEPT ![p] = c]
          /\ CASE c.kind = "create" ->
                    Goto(p, "prepare") /\ UNCHANGED stage
               [] c.kind = "start" /\ c.be = "qemu" ->
                    Goto(p, "qstart") /\ UNCHANGED stage
               [] c.kind = "start" /\ c.be = "krun" ->
                    Goto(p, "kstart") /\ UNCHANGED stage
               [] OTHER ->
                    /\ Goto(p, "connect")
                    /\ stage' = [stage EXCEPT ![p] =
                         CASE c.kind = "start" -> "start"
                           [] c.kind = "sweep" -> "list"
                           [] OTHER -> "probe"]
    /\ UNCHANGED <<worldVars, reply, via, out, gate>>

\* A finished process may run another command.
Again(p) ==
    /\ At(p, "done")
    /\ Goto(p, "idle")
    /\ cmd' = [cmd EXCEPT ![p] = NoCommand]
    /\ stage' = [stage EXCEPT ![p] = "none"]
    /\ reply' = [reply EXCEPT ![p] = "none"]
    /\ via' = [via EXCEPT ![p] = "none"]
    /\ out' = [out EXCEPT ![p] = "none"]
    /\ gate' = [gate EXCEPT ![p] = FALSE]
    /\ UNCHANGED worldVars

\* The host side of create makes the state directory before the backend acts.
Prepare(p) ==
    /\ At(p, "prepare")
    /\ dir' = TRUE
    /\ CASE cmd[p].be = "libvirt" -> Call(p, "create")
         [] cmd[p].be = "qemu" -> Move(p, "qcreate")
         [] OTHER -> Move(p, "kcreate")
    /\ UNCHANGED <<daemon, engine, faults, conns, late, lv, qm, kr>>

----------------------------------------------------------------------------
(* One libvirt operation: connection, lookup, state.                       *)

\* The connection answers: the daemon is up and has not been restarted since.
Live(p) == daemon = "up" /\ p \in conns

StateReads == {"probe", "recheck", "poll", "verify"}

\* The handshake has no bound: it waits for as long as the daemon is wedged.
\* A refused connection reads as "no such domain" in a state read, as an error
\* everywhere else.
Connect(p) ==
    /\ At(p, "connect")
    /\ \/ /\ daemon = "up"
          /\ conns' = conns \cup {p}
          /\ Move(p, IF stage[p] = "list" THEN "list" ELSE "lookup")
       \/ /\ daemon = "down"
          /\ Goto(p, "back")
          /\ Reply(p, IF stage[p] \in StateReads THEN "lost" ELSE "error")
          /\ UNCHANGED <<conns, cmd, stage, via, out, gate>>
    /\ UNCHANGED <<daemon, engine, faults, late, lv, qm, kr, dir>>

\* A lookup that fails, for whatever reason, means "no such domain": gone for a
\* state read and for destroy, nothing to clear for create.
Lookup(p) ==
    /\ At(p, "lookup")
    /\ IF Live(p) /\ LvExists
       THEN Move(p, CASE stage[p] \in StateReads -> "state"
                      [] stage[p] = "start" -> "startState"
                      [] stage[p] = "stop" -> "stopCall"
                      [] stage[p] = "create" -> "oldState"
                      [] stage[p] = "inject" -> "injState"
                      [] OTHER -> "gsState")
       ELSE CASE stage[p] \in StateReads ->
                   Answer(p, IF Live(p) THEN "absent" ELSE "lost")
              [] stage[p] \in {"destroy", "sweep"} -> Answer(p, "ok")
              [] stage[p] = "create" -> Move(p, "define")
              [] OTHER -> Answer(p, "error")
    /\ UNCHANGED worldVars

\* An unreadable state is the zero state: the domain exists, not running.
ReadState(p) ==
    /\ At(p, "state")
    /\ Answer(p, IF Live(p) /\ lv.act = "running" THEN "running" ELSE "inactive")
    /\ UNCHANGED worldVars

\* The listing names the domain, then reads its state.
ListDomains(p) ==
    /\ At(p, "list")
    /\ CASE ~Live(p) -> Answer(p, "error")
         [] Live(p) /\ LvExists -> Move(p, "state")
         [] OTHER -> Answer(p, "absent")
    /\ UNCHANGED worldVars

\* Disconnect is a call as well, and has no bound either.
Close(p) ==
    /\ At(p, "close")
    /\ p \in conns => daemon # "wedged"
    /\ conns' = conns \ {p}
    /\ Move(p, "back")
    /\ UNCHANGED <<daemon, engine, faults, late, lv, qm, kr, dir>>

(* A mutating call: it takes effect if the daemon accepts it, fails if not or
   if the connection is gone, and is abandoned at its bound, still pending,
   when the daemon is wedged. *)
Succeeds(p, call) ==
    Live(p) /\ Accepts(call) /\ lv' = Effect(call) /\ UNCHANGED late
Fails(p, call) ==
    /\ Live(p) => ~Accepts(call) \/ call \in MayFail
    /\ late' = IF p \in conns /\ daemon = "wedged" THEN late \cup {call} ELSE late
    /\ UNCHANGED lv
NoOtherWorld == UNCHANGED <<daemon, engine, faults, conns, qm, kr, dir>>

----------------------------------------------------------------------------
(* destroy: gracefulStopDomain, removeDomainSnapshots, undefineDomain.     *)

GracefulState(p) ==
    /\ At(p, "gsState")
    /\ Move(p, CASE ~Live(p) \/ lv.act = "off" -> "snapshots"
                 [] Live(p) /\ lv.act = "running" -> "gsShutdown"
                 [] OTHER -> "gsRecheck")
    /\ UNCHANGED worldVars

GracefulShutdown(p) ==
    /\ At(p, "gsShutdown")
    /\ \/ Succeeds(p, "shutdown") /\ Goto(p, "gsWait") /\ gate' = [gate EXCEPT ![p] = FALSE]
       \/ Fails(p, "shutdown") /\ Goto(p, "gsRecheck") /\ UNCHANGED gate
    /\ NoOtherWorld
    /\ UNCHANGED <<cmd, stage, reply, via, out>>

\* The wait is for SHUTOFF, not for "not running"; an unreadable state (the
\* domain vanished) is not SHUTOFF.
GracefulWait(p) ==
    /\ At(p, "gsWait")
    /\ \/ Live(p) /\ lv.def /\ lv.act = "off"
       \/ gate[p]
    /\ Move(p, "gsRecheck")
    /\ UNCHANGED worldVars

GracefulRecheck(p) ==
    /\ At(p, "gsRecheck")
    /\ Move(p, IF Live(p) /\ lv.act # "off" THEN "gsDestroy" ELSE "snapshots")
    /\ UNCHANGED worldVars

GracefulDestroy(p) ==
    /\ At(p, "gsDestroy")
    /\ Succeeds(p, "destroy") \/ Fails(p, "destroy")
    /\ Move(p, "snapshots")
    /\ NoOtherWorld

\* The snapshot records are listed, then deleted one by one, whatever became of
\* the one before; a deletion that fails leaves records, and the undefine fails on
\* them.  lv.snaps stands for the record that is deleted last.
ListSnapshots(p) ==
    /\ At(p, "snapshots")
    /\ Move(p, IF Live(p) /\ lv.snaps THEN "snapDelete" ELSE "undefine")
    /\ UNCHANGED worldVars

DeleteSnapshot(p) ==
    /\ At(p, "snapDelete")
    /\ Succeeds(p, "snapshotDelete") \/ Fails(p, "snapshotDelete")
    /\ Move(p, "undefine")
    /\ NoOtherWorld

RemoveSnapshots(p) == ListSnapshots(p) \/ DeleteSnapshot(p)

Undefine(p) ==
    /\ At(p, "undefine")
    /\ \/ Succeeds(p, "undefine") /\ Answer(p, "ok")
       \/ Fails(p, "undefine") /\ Answer(p, "error")
    /\ NoOtherWorld

----------------------------------------------------------------------------
(* start, stop, and the define-and-start of create.                        *)

StartState(p) ==
    /\ At(p, "startState")
    /\ IF Live(p) /\ lv.act = "running" THEN Answer(p, "ok") ELSE Move(p, "boot")
    /\ UNCHANGED worldVars

\* The error of a forced destroy is dropped.
StopCall(p) ==
    /\ At(p, "stopCall")
    /\ IF cmd[p].flag
       THEN (Succeeds(p, "destroy") \/ Fails(p, "destroy")) /\ Answer(p, "ok")
       ELSE \/ Succeeds(p, "shutdown") /\ Answer(p, "ok")
            \/ Fails(p, "shutdown") /\ Answer(p, "error")
    /\ NoOtherWorld

\* A left-over domain of the same name is cleared before the definition.
OldState(p) ==
    /\ At(p, "oldState")
    /\ Move(p, IF Live(p) /\ lv.act # "off" THEN "oldDestroy" ELSE "oldUndefine")
    /\ UNCHANGED worldVars

OldDestroy(p) ==
    /\ At(p, "oldDestroy")
    /\ Succeeds(p, "destroy") \/ Fails(p, "destroy")
    /\ Move(p, "oldUndefine")
    /\ NoOtherWorld

OldUndefine(p) ==
    /\ At(p, "oldUndefine")
    /\ Succeeds(p, "undefine") \/ Fails(p, "undefine")
    /\ Move(p, "define")
    /\ NoOtherWorld

Define(p) ==
    /\ At(p, "define")
    /\ \/ Succeeds(p, "define") /\ Move(p, "boot")
       \/ Fails(p, "define") /\ Answer(p, "error")
    /\ NoOtherWorld

\* A created domain with raw snippets is redefined by a second connection.
Boot(p) ==
    /\ At(p, "boot")
    /\ \/ /\ Succeeds(p, "boot")
          /\ IF stage[p] = "create" /\ cmd[p].flag THEN Call(p, "inject") ELSE Answer(p, "ok")
       \/ Fails(p, "boot") /\ Answer(p, "error")
    /\ NoOtherWorld

----------------------------------------------------------------------------
(* InjectLibvirtXML: stop, redefine, restart; create only warns on failure.*)

InjectState(p) ==
    /\ At(p, "injState")
    /\ IF ~Live(p) THEN Answer(p, "error")
       ELSE /\ Goto(p, IF lv.act = "running" THEN "injDestroy" ELSE "injDefine")
            /\ Reply(p, IF lv.act = "running" THEN "running" ELSE "inactive")
            /\ UNCHANGED <<cmd, stage, via, out, gate>>
    /\ UNCHANGED worldVars

InjectDestroy(p) ==
    /\ At(p, "injDestroy")
    /\ \/ Succeeds(p, "destroy") /\ Move(p, "injWait")
       \/ Fails(p, "destroy") /\ Answer(p, "error")
    /\ NoOtherWorld

\* A failed lookup ends the wait, like the off state does.
InjectWait(p) ==
    /\ At(p, "injWait")
    /\ ~Live(p) \/ lv.act = "off" \/ gate[p]
    /\ Move(p, "injDefine")
    /\ UNCHANGED worldVars

InjectDefine(p) ==
    /\ At(p, "injDefine")
    /\ \/ /\ Succeeds(p, "define")
          /\ IF reply[p] = "running" THEN Move(p, "injBoot") ELSE Answer(p, "ok")
       \/ Fails(p, "define") /\ Answer(p, "error")
    /\ NoOtherWorld

InjectBoot(p) ==
    /\ At(p, "injBoot")
    /\ \/ Succeeds(p, "boot") /\ Answer(p, "ok")
       \/ Fails(p, "boot") /\ Answer(p, "error")
    /\ NoOtherWorld

----------------------------------------------------------------------------
(* What the command does with the reply of its libvirt operation.          *)

Exists(p) == reply[p] \in {"running", "inactive"}

\* The libvirt answer of the holder probe decides whose turn it is.
Probed(p) ==
    IF Exists(p)
    THEN /\ via' = [via EXCEPT ![p] = "libvirt"]
         /\ Goto(p, "connect")
         /\ stage' = [stage EXCEPT ![p] =
              CASE cmd[p].kind = "revive" -> "start"
                [] cmd[p].kind = "stop" -> "recheck"
                [] OTHER -> "destroy"]
         /\ UNCHANGED <<cmd, reply, out, gate>>
    ELSE Move(p, "qprobe")

Rechecked(p) == IF reply[p] = "running" THEN Call(p, "stop") ELSE Report(p, "stopped")
\* Sensitivity: the stop is not polled for.
StopSentBlindly(p) == Report(p, IF reply[p] = "error" THEN "error" ELSE "stopped")

StopSent(p) == IF reply[p] = "error" THEN Report(p, "error") ELSE Call(p, "poll")
\* Sensitivity: the poll has no stop grace.
PolledForever(p) ==
    IF reply[p] # "running" THEN Report(p, "stopped") ELSE Open(p, "poll") /\ UNCHANGED gate

Polled(p) ==
    CASE reply[p] # "running" -> Report(p, "stopped")
      [] reply[p] = "running" /\ gate[p] -> Report(p, "error")
      [] OTHER -> Open(p, "poll") /\ UNCHANGED gate

\* Sensitivity: destroy --disk removes the directory whatever the op replied.
DestroyedRemovesFirst(p) == IF cmd[p].flag THEN Move(p, "rmdir") ELSE Call(p, "verify")

Destroyed(p) == IF reply[p] = "error" THEN Report(p, "error") ELSE Call(p, "verify")
\* Sensitivity: destroy trusts the reply of the destroy op.
VerifiedBlindly(p) == IF cmd[p].flag THEN Move(p, "rmdir") ELSE Report(p, "torn")

Verified(p) ==
    CASE Exists(p) -> Report(p, "error")
      [] ~Exists(p) /\ cmd[p].flag -> Move(p, "rmdir")
      [] OTHER -> Report(p, "torn")

\* Sensitivity: the sweep looks for the state directory only.
ListedAnyState(p) ==
    IF reply[p] \in {"running", "inactive"} /\ ~dir THEN Call(p, "sweep") ELSE Report(p, "swept")

\* Only a domain read as "running" or with a state directory is spared.
Listed(p) ==
    CASE reply[p] = "error" -> Report(p, "error")
      [] reply[p] = "inactive" /\ ~dir -> Call(p, "sweep")
      [] OTHER -> Report(p, "swept")

Resume(p) ==
    /\ At(p, "back")
    /\ CASE stage[p] = "probe" -> Probed(p)
         [] stage[p] = "recheck" -> Rechecked(p)
         [] stage[p] = "stop" -> StopSent(p)
         [] stage[p] = "poll" -> Polled(p)
         [] stage[p] = "destroy" -> Destroyed(p)
         [] stage[p] = "verify" -> Verified(p)
         [] stage[p] = "list" -> Listed(p)
         [] stage[p] = "sweep" -> Report(p, "swept")
         [] stage[p] = "inject" -> Report(p, "created")
         [] stage[p] = "create" ->
              Report(p, IF reply[p] = "error" THEN "error" ELSE "created")
         [] OTHER -> Report(p, IF reply[p] = "error" THEN "error" ELSE "started")
    /\ UNCHANGED worldVars

\* Removing the state directory takes every backend's records with it.
DirGone ==
    /\ dir' = FALSE
    /\ qm' = [qm EXCEPT !.cmd = FALSE, !.pid = FALSE]
    /\ kr' = [kr EXCEPT !.rec = FALSE]
    /\ UNCHANGED <<daemon, engine, faults, conns, late, lv>>

RemoveStateDir(p) ==
    /\ At(p, "rmdir")
    /\ DirGone
    /\ Report(p, "torn")

----------------------------------------------------------------------------
(* qemu: a stored command line and a pidfile in the state directory.       *)

Claim(p, be, l) ==
    /\ via' = [via EXCEPT ![p] = be]
    /\ Goto(p, l)
    /\ UNCHANGED <<cmd, stage, reply, out, gate>>

QemuHolder(p) ==
    /\ At(p, "qprobe")
    /\ IF QemuMarked
       THEN Claim(p, "qemu", CASE cmd[p].kind = "revive" -> "qstart"
                               [] cmd[p].kind = "stop" -> "qstop"
                               [] OTHER -> "qdestroy")
       ELSE Move(p, "kprobe")
    /\ UNCHANGED worldVars

NoOtherThanQemu == UNCHANGED <<daemon, engine, faults, conns, late, lv, kr, dir>>

QemuStoreCommand(p) ==
    /\ At(p, "qcreate")
    /\ IF dir THEN qm' = [qm EXCEPT !.cmd = TRUE] /\ Move(p, "qlaunch")
              ELSE UNCHANGED qm /\ Report(p, "error")
    /\ NoOtherThanQemu

\* A second qemu cannot lock the pidfile, nor take the forwarded ports.
QemuLaunch(p) ==
    /\ At(p, "qlaunch")
    /\ \/ /\ qm.proc = "none" /\ dir
          /\ qm' = [qm EXCEPT !.proc = "alive", !.pid = TRUE]
          /\ Report(p, IF cmd[p].kind = "create" THEN "created" ELSE "started")
       \/ UNCHANGED qm /\ Report(p, "error")
    /\ NoOtherThanQemu

QemuStart(p) ==
    /\ At(p, "qstart")
    /\ CASE qm.pid /\ qm.proc # "none" -> Report(p, "started")
         [] ~(qm.pid /\ qm.proc # "none") /\ qm.cmd -> Move(p, "qlaunch")
         [] OTHER -> Report(p, "error")
    /\ UNCHANGED worldVars

Signal(how) == qm' = IF qm.proc # "none" /\ dir THEN [qm EXCEPT !.proc = how] ELSE qm

\* QMP powerdown, or SIGTERM when QMP fails; reported without waiting.
QemuStop(p) ==
    /\ At(p, "qstop")
    /\ IF cmd[p].flag THEN Signal("quitting")
       ELSE \E how \in {"acpi", "quitting"} : Signal(how)
    /\ Report(p, "stopped")
    /\ NoOtherThanQemu

QemuDestroy(p) ==
    /\ At(p, "qdestroy")
    /\ Signal("quitting")
    /\ Move(p, "qremove")
    /\ NoOtherThanQemu

QemuRemoveDir(p) ==
    /\ At(p, "qremove")
    /\ DirGone
    /\ Report(p, "torn")

----------------------------------------------------------------------------
(* krun: a launch record in the state directory and a container.           *)

KrunRunning == engine = "up" /\ kr.cont = "running"
NoOtherThanKrun == UNCHANGED <<daemon, engine, faults, conns, late, lv, qm, dir>>

KrunHolder(p) ==
    /\ At(p, "kprobe")
    /\ IF kr.rec
       THEN Claim(p, "krun", CASE cmd[p].kind = "revive" -> "kstart"
                               [] cmd[p].kind = "stop" -> "kstop"
                               [] OTHER -> "kdestroy")
       ELSE Report(p, "absent")
    /\ UNCHANGED worldVars

\* The record is written before the container runs.
KrunWriteRecord(p) ==
    /\ At(p, "kcreate")
    /\ dir' = TRUE
    /\ kr' = [kr EXCEPT !.rec = TRUE]
    /\ Goto(p, "kboot") /\ Reply(p, "absent")
    /\ UNCHANGED <<cmd, stage, via, out, gate>>
    /\ UNCHANGED <<daemon, engine, faults, conns, late, lv, qm>>

\* An engine that does not answer reads as "no container".
KrunStart(p) ==
    /\ At(p, "kstart")
    /\ CASE ~kr.rec -> Report(p, "error")
         [] kr.rec /\ KrunRunning -> Report(p, "started")
         [] OTHER ->
              /\ Goto(p, "kboot")
              /\ Reply(p, IF engine = "up" /\ kr.cont = "stopped" THEN "inactive" ELSE "absent")
              /\ UNCHANGED <<cmd, stage, via, out, gate>>
    /\ UNCHANGED worldVars

\* "start" needs the stopped container, "run" an unused name.
KrunBoot(p) ==
    /\ At(p, "kboot")
    /\ \/ /\ engine = "up"
          /\ kr.cont = IF reply[p] = "inactive" THEN "stopped" ELSE "none"
          /\ kr' = [kr EXCEPT !.cont = "running", !.off = FALSE]
          /\ Report(p, IF cmd[p].kind = "create" THEN "created" ELSE "started")
       \/ UNCHANGED kr /\ Report(p, "error")
    /\ NoOtherThanKrun

\* The guest is asked over ssh, never signalled; ssh does not need the engine.
KrunStop(p) ==
    /\ At(p, "kstop")
    /\ CASE ~kr.rec -> UNCHANGED kr /\ Report(p, "error")
         [] kr.rec /\ ~KrunRunning -> UNCHANGED kr /\ Report(p, "stopped")
         [] OTHER ->
              \/ /\ kr' = [kr EXCEPT !.off = TRUE]
                 /\ Goto(p, "kpoll") /\ gate' = [gate EXCEPT ![p] = FALSE]
                 /\ UNCHANGED <<cmd, stage, reply, via, out>>
              \/ UNCHANGED kr /\ Report(p, "error")
    /\ NoOtherThanKrun

KrunPoll(p) ==
    /\ At(p, "kpoll")
    /\ \/ ~KrunRunning /\ Report(p, "stopped")
       \/ KrunRunning /\ gate[p] /\ Report(p, "error")
    /\ UNCHANGED worldVars

\* Sensitivity: the record goes, the container stays.
KrunDestroyRecordOnly(p) ==
    /\ At(p, "kdestroy")
    /\ IF kr.rec THEN Move(p, "kclean") ELSE Report(p, "absent")
    /\ UNCHANGED worldVars

KrunDestroy(p) ==
    /\ At(p, "kdestroy")
    /\ CASE ~kr.rec -> Report(p, "absent")
         [] kr.rec /\ engine = "up" /\ kr.cont # "none" -> Move(p, "kremove")
         [] OTHER -> Move(p, "kclean")
    /\ UNCHANGED worldVars

KrunRemove(p) ==
    /\ At(p, "kremove")
    /\ IF engine = "up" /\ kr.cont # "none"
       THEN kr' = [kr EXCEPT !.cont = "none", !.off = FALSE] /\ Move(p, "kclean")
       ELSE UNCHANGED kr /\ Report(p, "error")
    /\ NoOtherThanKrun

\* --disk takes the whole directory, otherwise only the launch record.
KrunClean(p) ==
    /\ At(p, "kclean")
    /\ IF cmd[p].flag THEN DirGone
       ELSE kr' = [kr EXCEPT !.rec = FALSE] /\ NoOtherThanKrun
    /\ Report(p, "torn")

----------------------------------------------------------------------------
(* Time, and the whole system.                                             *)

Waiting(p) ==
    \/ pc[p] \in {"gsWait", "injWait", "kpoll"}
    \/ stage[p] = "poll" /\ ~At(p, "done")

\* The stop grace runs out.
GateExpires(p) ==
    /\ Waiting(p) /\ ~gate[p]
    /\ gate' = [gate EXCEPT ![p] = TRUE]
    /\ UNCHANGED <<worldVars, pc, cmd, stage, reply, via, out>>

LibvirtStep(p) ==
    \/ Connect(p) \/ Lookup(p) \/ ReadState(p) \/ ListDomains(p) \/ Close(p)
    \/ GracefulState(p) \/ GracefulShutdown(p) \/ GracefulWait(p)
    \/ GracefulRecheck(p) \/ GracefulDestroy(p) \/ RemoveSnapshots(p)
    \/ Undefine(p) \/ StartState(p) \/ StopCall(p) \/ OldState(p)
    \/ OldDestroy(p) \/ OldUndefine(p) \/ Define(p) \/ Boot(p)
    \/ InjectState(p) \/ InjectDestroy(p) \/ InjectWait(p)
    \/ InjectDefine(p) \/ InjectBoot(p) \/ Resume(p) \/ RemoveStateDir(p)

HostStep(p) ==
    \/ QemuHolder(p) \/ QemuStoreCommand(p) \/ QemuLaunch(p) \/ QemuStart(p)
    \/ QemuStop(p) \/ QemuDestroy(p) \/ QemuRemoveDir(p)
    \/ KrunHolder(p) \/ KrunWriteRecord(p) \/ KrunStart(p) \/ KrunBoot(p)
    \/ KrunStop(p) \/ KrunPoll(p) \/ KrunDestroy(p) \/ KrunRemove(p)
    \/ KrunClean(p)

\* What a process does by itself once its command is issued.
Step(p) == Prepare(p) \/ LibvirtStep(p) \/ HostStep(p)

Next ==
    \/ \E p \in Procs : Issue(p) \/ Again(p) \/ Step(p) \/ GateExpires(p)
    \/ WorldNext /\ UNCHANGED localVars

Spec == Init /\ [][Next]_vars

\* A command keeps running while it can, and clocks advance.
CommandFairness == \A p \in Procs : WF_vars(Step(p)) /\ WF_vars(GateExpires(p))
FairSpec == Spec /\ CommandFairness
\* A dead or wedged daemon is restarted by socket activation or by hand.
RecoveringSpec == FairSpec /\ WF_vars(DaemonRecovers /\ UNCHANGED localVars)

----------------------------------------------------------------------------
(* Properties.                                                             *)

Quiet == \A p \in Procs : pc[p] \in {"idle", "done"}
Tore(p) == At(p, "done") /\ out[p] = "torn" /\ via[p] = "libvirt"
Stopped(p) == At(p, "done") /\ out[p] = "stopped"

\* destroyVmDomain "returns torn=true only when a domain was found and
\* removed": once a destroy whose verification was answered has reported the
\* domain torn down, no domain of the name exists - neither a definition nor
\* the transient domain an undefine of a running one leaves.
VerifiedTeardown ==
    \A p \in Procs : Tore(p) /\ reply[p] # "lost" => ~LvExists

\* The same promise without the exception for a verification that libvirt
\* never answered.  It holds as long as the daemon does (MaxFaults = 0).
EveryTeardownVerified == \A p \in Procs : Tore(p) => ~LvExists

\* The state directory with the domain's overlay disk is never removed from
\* under a libvirt domain that still exists (destroy --disk), unless by a
\* destroy whose verification libvirt never answered.
NoDiskPulled ==
    [][dir /\ ~dir' => \/ ~LvExists
                       \/ \E p \in Procs : At(p, "rmdir") /\ reply[p] = "lost"]_vars

\* A libvirt or krun stop that reports "stopped" has seen the guest leave the
\* running state.
StopVerified ==
    \A p \in Procs : Stopped(p) =>
        /\ via[p] = "libvirt" => lv.act # "running"
        /\ via[p] = "krun" => kr.cont # "running"

\* Between commands a running guest is one the backends still claim: no
\* sequence of commands drops the records of a container or a qemu process
\* that goes on running, out of reach of stop and destroy.
NoLostGuest ==
    Quiet => /\ kr.cont = "running" => kr.rec
             /\ qm.proc \in {"alive", "acpi"} => QemuMarked

\* The orphan sweep never touches a domain while it runs.
SweepSparesRunning ==
    [][\A p \in Procs : stage[p] = "sweep" /\ pc'[p] # pc[p] /\ lv.act = "running"
                             => lv' = lv]_vars

\* Every command that was issued reports in the end, whatever the daemon, the
\* engine and the guests do, if the daemon is always restarted.
CommandsReport == \A p \in Procs : ~At(p, "idle") ~> At(p, "done")

\* A destroy reports even while the daemon is wedged: "every RPC in this leg
\* is bounded (a wedged virtqemud must not hang destroy)".  Handshake and
\* disconnect are not: it holds as long as the daemon does (MaxFaults = 0).
DestroyReports ==
    \A p \in Procs : cmd[p].kind = "destroy" /\ ~At(p, "done") ~> At(p, "done")

=============================================================================
