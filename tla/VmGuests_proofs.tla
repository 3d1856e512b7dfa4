--------------------------- MODULE VmGuests_proofs ---------------------------
(***************************************************************************)
(* Theorems about the guests and the disks of VmLifecycle: what a stop has *)
(* seen, what a sweep spares, which backend's records a command may remove *)
(* and that no running guest is left without its record.                   *)
(***************************************************************************)
EXTENDS VmLifecycle_proofs

----------------------------------------------------------------------------
(* The course of one command.                                              *)

\* The commands that start guests.
Starters == {"create", "start", "revive"}

\* What the place of a process says about its command, its libvirt operation
\* and the backend it found to hold the name.
Course(p) ==
    /\ pc[p] = "idle" => stage[p] = "none" /\ via[p] = "none"
    /\ \/ pc[p] \in {"oldState", "oldDestroy", "oldUndefine", "define",
                     "injState", "injDestroy", "injWait", "injDefine", "injBoot"}
       \/ stage[p] \in {"create", "inject"}
       => cmd[p].kind = "create" /\ cmd[p].be = "libvirt"
    /\ pc[p] \in {"prepare", "qcreate", "kcreate"} => cmd[p].kind = "create"
    /\ pc[p] = "qcreate" => cmd[p].be = "qemu"
    /\ pc[p] = "kcreate" => cmd[p].be = "krun"
    /\ pc[p] \in {"oldState", "oldDestroy", "oldUndefine", "define"} => stage[p] = "create"
    /\ pc[p] = "lookup" => stage[p] # "list"
    /\ pc[p] \in {"gsState", "gsShutdown", "gsWait", "gsRecheck", "gsDestroy", "snapshots",
                 "snapDelete", "undefine", "stopCall"} => stage[p] \notin {"recheck", "poll", "list"}
    /\ pc[p] = "startState" => stage[p] = "start"
    /\ pc[p] = "boot" => stage[p] \in {"start", "create"}
    /\ stage[p] = "start" \/ pc[p] \in {"kstart", "kboot"} => cmd[p].kind \in Starters
    /\ stage[p] = "probe" => cmd[p].kind \in {"revive", "stop", "destroy"}
    /\ stage[p] \in {"list", "sweep"} => cmd[p].kind = "sweep"
    /\ stage[p] \in {"recheck", "stop", "poll", "destroy", "verify"} => via[p] = "libvirt"
    /\ pc[p] \in {"qstop", "qdestroy", "qremove"} => via[p] = "qemu"
    /\ pc[p] \in {"kstop", "kpoll", "kdestroy", "kremove", "kclean"} => via[p] = "krun"
    /\ pc[p] \in {"qprobe", "kprobe"} => stage[p] = "probe"
    /\ stage[p] = "probe" => via[p] # "libvirt"
    /\ via[p] = "libvirt" => cmd[p].kind # "create"

\* The ways a command begins.
LEMMA IssueCases ==
    ASSUME NEW p \in Procs, Issue(p)
    PROVE  /\ At(p, "idle") /\ UNCHANGED <<worldVars, reply, via, out, gate>>
           /\ \E c \in Commands :
                 /\ cmd' = [cmd EXCEPT ![p] = c]
                 /\ c.kind \in {"create", "start"} => Repin \/ Holders \subseteq {c.be}
                 /\ \/ c.kind = "create" /\ Goto(p, "prepare") /\ UNCHANGED stage
                    \/ c.kind = "start" /\ c.be = "qemu" /\ Goto(p, "qstart") /\ UNCHANGED stage
                    \/ c.kind = "start" /\ c.be = "krun" /\ Goto(p, "kstart") /\ UNCHANGED stage
                    \/ /\ c.kind # "create" /\ Goto(p, "connect")
                       /\ \/ c.kind = "start" /\ stage' = [stage EXCEPT ![p] = "start"]
                          \/ c.kind = "sweep" /\ stage' = [stage EXCEPT ![p] = "list"]
                          \/ /\ c.kind \in {"revive", "stop", "destroy"}
                             /\ stage' = [stage EXCEPT ![p] = "probe"]
<1>1. PICK c \in Commands :
          /\ cmd' = [cmd EXCEPT ![p] = c]
          /\ c.kind \in {"create", "start"} => Repin \/ Holders \subseteq {c.be}
          /\ CASE c.kind = "create" -> Goto(p, "prepare") /\ UNCHANGED stage
               [] c.kind = "start" /\ c.be = "qemu" -> Goto(p, "qstart") /\ UNCHANGED stage
               [] c.kind = "start" /\ c.be = "krun" -> Goto(p, "kstart") /\ UNCHANGED stage
               [] OTHER -> /\ Goto(p, "connect")
                           /\ stage' = [stage EXCEPT ![p] =
                                CASE c.kind = "start" -> "start"
                                  [] c.kind = "sweep" -> "list"
                                  [] OTHER -> "probe"]
    BY DEF Issue
<1>2. c.kind \in {"create", "start", "revive", "stop", "destroy", "sweep"}
    BY LifecycleAssumption DEF Commands
<1>. USE <1>1 DEF Issue
<1>3. CASE c.kind = "create"
    BY <1>3
<1>4. CASE c.kind = "start"
    BY <1>4
<1>5. CASE c.kind \in {"revive", "stop", "destroy", "sweep"}
    BY <1>5
<1>. QED BY <1>2, <1>3, <1>4, <1>5

\* A command that runs has a kind and a backend of the constants.
LEMMA CommandKind ==
    ASSUME TypeOK, NEW p \in Procs
    PROVE  /\ cmd[p].kind \in Kinds \cup {"none"}
           /\ cmd[p].kind = "create" => cmd[p].be \in {"libvirt", "qemu", "krun"}
<1>1. cmd[p] \in Commands \cup {NoCommand}
    BY DEF TypeOK, LocalTypeOK
<1>2. CASE cmd[p] \in Commands
    BY <1>2, LifecycleAssumption DEF Commands
<1>3. CASE cmd[p] = NoCommand
    BY <1>3 DEF NoCommand
<1>. QED BY <1>1, <1>2, <1>3

\* What the command makes of the answer of its holder probe,
LEMMA ProbedCases ==
    ASSUME NEW p \in Procs, stage[p] = "probe", Resume(p)
    PROVE  /\ \/ /\ Exists(p)
                 /\ via' = [via EXCEPT ![p] = "libvirt"]
                 /\ Goto(p, "connect")
                 /\ \/ cmd[p].kind = "revive" /\ stage' = [stage EXCEPT ![p] = "start"]
                    \/ cmd[p].kind = "stop" /\ stage' = [stage EXCEPT ![p] = "recheck"]
                    \/ /\ cmd[p].kind \notin {"revive", "stop"}
                       /\ stage' = [stage EXCEPT ![p] = "destroy"]
                 /\ UNCHANGED <<cmd, reply, out, gate>>
              \/ ~Exists(p) /\ Move(p, "qprobe")
           /\ At(p, "back") /\ UNCHANGED worldVars
BY DEF Resume, Probed

\* The end of a krun destroy takes the directory or the record.
LEMMA KrunCleanCases ==
    ASSUME NEW p \in Procs, KrunClean(p)
    PROVE  DirGone \/ (kr' = [kr EXCEPT !.rec = FALSE] /\ NoOtherThanKrun)
BY DEF KrunClean

\* A step of a process keeps to the course of its own command and of the others.
LEMMA CourseStep ==
    ASSUME TypeOK, NEW p \in Procs, NEW q \in Procs, Course(q),
           Issue(p) \/ Again(p) \/ Step(p) \/ GateExpires(p)
    PROVE  Course(q)'
<1>. USE LifecycleAssumption DEF TypeOK, LocalTypeOK, Course, Starters,
       At, Move, Goto, Answer, Reply, Report, Call, Open, Claim, Exists
<1>1. CASE Issue(p)
    BY <1>1, IssueCases
<1>2. CASE Again(p)
    BY <1>2 DEF Again, NoCommand
<1>3. CASE Prepare(p)
    BY <1>3, CommandKind DEF Prepare
<1>4. CASE GateExpires(p)
    BY <1>4 DEF GateExpires
<1>5. CASE Connect(p) \/ Lookup(p) \/ ReadState(p) \/ ListDomains(p)
         \/ Close(p)
    BY <1>5 DEF Connect, Lookup, ReadState, ListDomains, Close, StateReads
<1>6. CASE GracefulState(p) \/ GracefulShutdown(p) \/ GracefulWait(p)
         \/ GracefulRecheck(p) \/ GracefulDestroy(p) \/ RemoveSnapshots(p)
         \/ Undefine(p)
    BY <1>6 DEF GracefulState, GracefulShutdown, GracefulWait, GracefulRecheck,
       GracefulDestroy, RemoveSnapshots, ListSnapshots, DeleteSnapshot, Undefine
<1>7. CASE StartState(p) \/ StopCall(p) \/ OldState(p) \/ OldDestroy(p)
         \/ OldUndefine(p) \/ Define(p) \/ Boot(p)
    BY <1>7 DEF StartState, StopCall, OldState, OldDestroy, OldUndefine,
       Define, Boot
<1>8. CASE InjectState(p) \/ InjectDestroy(p) \/ InjectWait(p)
         \/ InjectDefine(p) \/ InjectBoot(p)
    BY <1>8 DEF InjectState, InjectDestroy, InjectWait, InjectDefine,
       InjectBoot
<1>9. CASE QemuHolder(p) \/ QemuStoreCommand(p) \/ QemuLaunch(p)
         \/ QemuStart(p) \/ QemuStop(p) \/ QemuDestroy(p) \/ QemuRemoveDir(p)
    BY <1>9 DEF QemuHolder, QemuStoreCommand, QemuLaunch, QemuStart, QemuStop,
       QemuDestroy, QemuRemoveDir
<1>10. CASE KrunHolder(p) \/ KrunWriteRecord(p) \/ KrunStart(p) \/ KrunBoot(p)
         \/ KrunStop(p) \/ KrunPoll(p) \/ KrunDestroy(p) \/ KrunRemove(p)
         \/ KrunClean(p)
    BY <1>10 DEF KrunHolder, KrunWriteRecord, KrunStart, KrunBoot, KrunStop,
       KrunPoll, KrunDestroy, KrunRemove, KrunClean
<1>11. CASE Resume(p)
    <2>1. CASE stage[p] = "probe"
        BY <1>11, <2>1, ProbedCases
    <2>2. CASE stage[p] = "recheck"
        BY <1>11, <2>2 DEF Resume, Rechecked
    <2>3. CASE stage[p] = "stop"
        BY <1>11, <2>3 DEF Resume, StopSent
    <2>4. CASE stage[p] = "poll"
        BY <1>11, <2>4 DEF Resume, Polled
    <2>5. CASE stage[p] = "destroy"
        BY <1>11, <2>5 DEF Resume, Destroyed
    <2>6. CASE stage[p] = "verify"
        BY <1>11, <2>6 DEF Resume, Verified
    <2>7. CASE stage[p] = "list"
        BY <1>11, <2>7 DEF Resume, Listed
    <2>8. CASE stage[p] \notin {"probe", "recheck", "stop", "poll", "destroy",
                             "verify", "list"}
        BY <1>11, <2>8 DEF Resume
    <2>. QED BY <2>1, <2>2, <2>3, <2>4, <2>5, <2>6, <2>7, <2>8
<1>12. CASE RemoveStateDir(p)
    BY <1>12 DEF RemoveStateDir
<1>. QED BY <1>1, <1>2, <1>3, <1>4, <1>5, <1>6, <1>7, <1>8, <1>9, <1>10, <1>11,
            <1>12 DEF Step, LibvirtStep, HostStep

\* So every process is always on the course of its command.
LEMMA CourseKept == Spec => [](\A p \in Procs : Course(p))
<1>. DEFINE Inv == \A p \in Procs : Course(p)
<1>1. Init => Inv
    BY DEF Init, Course, NoCommand, Starters
<1>2. TypeOK /\ Inv /\ [Next]_vars => Inv'
    <2> SUFFICES ASSUME TypeOK, Inv, [Next]_vars PROVE Inv'
        OBVIOUS
    <2>1. CASE \E p \in Procs : Issue(p) \/ Again(p) \/ Step(p) \/ GateExpires(p)
        BY <2>1, CourseStep
    <2>2. CASE UNCHANGED localVars
        BY <2>2 DEF localVars, Course, Starters
    <2>. QED BY <2>1, <2>2 DEF Next, vars
<1>. QED BY <1>1, <1>2, TypeCorrect, PTL DEF Spec

----------------------------------------------------------------------------
(* What the steps leave alone.                                             *)

\* A step of a process does not touch what the others know.
LEMMA OnlyOwn ==
    ASSUME TypeOK, NEW p \in Procs, NEW q \in Procs, q # p,
           Issue(p) \/ Again(p) \/ Step(p) \/ GateExpires(p)
    PROVE  /\ pc'[q] = pc[q] /\ stage'[q] = stage[q] /\ reply'[q] = reply[q]
           /\ via'[q] = via[q] /\ out'[q] = out[q]
<1>. USE DEF TypeOK, LocalTypeOK, At, Move, Goto, Answer, Reply, Report, Call, Open, Claim
<1>1. CASE Issue(p)
    BY <1>1, IssueCases
<1>2. CASE Again(p)
    BY <1>2 DEF Again, NoCommand
<1>3. CASE Prepare(p)
    BY <1>3 DEF Prepare
<1>4. CASE GateExpires(p)
    BY <1>4 DEF GateExpires
<1>5. CASE Connect(p) \/ Lookup(p) \/ ReadState(p) \/ ListDomains(p)
         \/ Close(p)
    BY <1>5 DEF Connect, Lookup, ReadState, ListDomains, Close, StateReads
<1>6. CASE GracefulState(p) \/ GracefulShutdown(p) \/ GracefulWait(p)
         \/ GracefulRecheck(p) \/ GracefulDestroy(p) \/ RemoveSnapshots(p)
         \/ Undefine(p)
    BY <1>6 DEF GracefulState, GracefulShutdown, GracefulWait, GracefulRecheck,
       GracefulDestroy, RemoveSnapshots, ListSnapshots, DeleteSnapshot, Undefine
<1>7. CASE StartState(p) \/ StopCall(p) \/ OldState(p) \/ OldDestroy(p)
         \/ OldUndefine(p) \/ Define(p) \/ Boot(p)
    BY <1>7 DEF StartState, StopCall, OldState, OldDestroy, OldUndefine,
       Define, Boot
<1>8. CASE InjectState(p) \/ InjectDestroy(p) \/ InjectWait(p)
         \/ InjectDefine(p) \/ InjectBoot(p)
    BY <1>8 DEF InjectState, InjectDestroy, InjectWait, InjectDefine,
       InjectBoot
<1>9. CASE QemuHolder(p) \/ QemuStoreCommand(p) \/ QemuLaunch(p)
         \/ QemuStart(p) \/ QemuStop(p) \/ QemuDestroy(p) \/ QemuRemoveDir(p)
    BY <1>9 DEF QemuHolder, QemuStoreCommand, QemuLaunch, QemuStart, QemuStop,
       QemuDestroy, QemuRemoveDir
<1>10. CASE KrunHolder(p) \/ KrunWriteRecord(p) \/ KrunStart(p) \/ KrunBoot(p)
         \/ KrunStop(p) \/ KrunPoll(p) \/ KrunDestroy(p) \/ KrunRemove(p)
         \/ KrunClean(p)
    BY <1>10 DEF KrunHolder, KrunWriteRecord, KrunStart, KrunBoot, KrunStop,
       KrunPoll, KrunDestroy, KrunRemove, KrunClean
<1>11. CASE Resume(p)
    <2>1. CASE stage[p] = "probe"
        BY <1>11, <2>1, ProbedCases
    <2>2. CASE stage[p] = "recheck"
        BY <1>11, <2>2 DEF Resume, Rechecked
    <2>3. CASE stage[p] = "stop"
        BY <1>11, <2>3 DEF Resume, StopSent
    <2>4. CASE stage[p] = "poll"
        BY <1>11, <2>4 DEF Resume, Polled
    <2>5. CASE stage[p] = "destroy"
        BY <1>11, <2>5 DEF Resume, Destroyed
    <2>6. CASE stage[p] = "verify"
        BY <1>11, <2>6 DEF Resume, Verified
    <2>7. CASE stage[p] = "list"
        BY <1>11, <2>7 DEF Resume, Listed
    <2>8. CASE stage[p] \notin {"probe", "recheck", "stop", "poll", "destroy",
                             "verify", "list"}
        BY <1>11, <2>8 DEF Resume
    <2>. QED BY <2>1, <2>2, <2>3, <2>4, <2>5, <2>6, <2>7, <2>8
<1>12. CASE RemoveStateDir(p)
    BY <1>12 DEF RemoveStateDir
<1>. QED BY <1>1, <1>2, <1>3, <1>4, <1>5, <1>6, <1>7, <1>8, <1>9, <1>10, <1>11,
            <1>12 DEF Step, LibvirtStep, HostStep

HostPlaces == {"prepare", "qcreate", "qlaunch", "qstart", "qstop", "qdestroy",
               "qremove", "kcreate", "kstart", "kboot", "kstop", "kpoll",
               "kdestroy", "kremove", "kclean"}

\* A step on the libvirt backend, other than the removal of the directory,
\* touches no record of the other backends.
LEMMA LibvirtSpares ==
    ASSUME TypeOK, NEW p \in Procs, LibvirtStep(p)
    PROVE  /\ RemoveStateDir(p) \/ UNCHANGED <<qm, kr, dir>>
           /\ engine' = engine
           /\ pc'[p] \notin HostPlaces
<1>. USE DEF TypeOK, LocalTypeOK, HostPlaces, At, Move, Goto, Answer, Reply, Report,
       Call, Open, worldVars, NoOtherWorld
<1>1. CASE Connect(p) \/ Lookup(p) \/ ReadState(p) \/ ListDomains(p)
         \/ Close(p)
    BY <1>1 DEF Connect, Lookup, ReadState, ListDomains, Close, StateReads
<1>2. CASE GracefulState(p) \/ GracefulShutdown(p) \/ GracefulWait(p)
         \/ GracefulRecheck(p) \/ GracefulDestroy(p) \/ RemoveSnapshots(p)
         \/ Undefine(p)
    BY <1>2 DEF GracefulState, GracefulShutdown, GracefulWait, GracefulRecheck,
       GracefulDestroy, RemoveSnapshots, ListSnapshots, DeleteSnapshot, Undefine
<1>3. CASE StartState(p) \/ StopCall(p) \/ OldState(p) \/ OldDestroy(p)
         \/ OldUndefine(p) \/ Define(p) \/ Boot(p)
    BY <1>3 DEF StartState, StopCall, OldState, OldDestroy, OldUndefine,
       Define, Boot
<1>4. CASE InjectState(p) \/ InjectDestroy(p) \/ InjectWait(p)
         \/ InjectDefine(p) \/ InjectBoot(p)
    BY <1>4 DEF InjectState, InjectDestroy, InjectWait, InjectDefine,
       InjectBoot
<1>5. CASE Resume(p)
    <2>1. CASE stage[p] = "probe"
        BY <1>5, <2>1, ProbedCases
    <2>2. CASE stage[p] = "recheck"
        BY <1>5, <2>2 DEF Resume, Rechecked
    <2>3. CASE stage[p] = "stop"
        BY <1>5, <2>3 DEF Resume, StopSent
    <2>4. CASE stage[p] = "poll"
        BY <1>5, <2>4 DEF Resume, Polled
    <2>5. CASE stage[p] = "destroy"
        BY <1>5, <2>5 DEF Resume, Destroyed
    <2>6. CASE stage[p] = "verify"
        BY <1>5, <2>6 DEF Resume, Verified
    <2>7. CASE stage[p] = "list"
        BY <1>5, <2>7 DEF Resume, Listed
    <2>8. CASE stage[p] \notin {"probe", "recheck", "stop", "poll", "destroy",
                             "verify", "list"}
        BY <1>5, <2>8 DEF Resume
    <2>. QED BY <2>1, <2>2, <2>3, <2>4, <2>5, <2>6, <2>7, <2>8
<1>6. CASE RemoveStateDir(p)
    BY <1>6 DEF RemoveStateDir, DirGone
<1>. QED BY <1>1, <1>2, <1>3, <1>4, <1>5, <1>6 DEF LibvirtStep

\* A step on the qemu or the krun backend does not touch libvirt,
LEMMA HostSpares ==
    ASSUME NEW p \in Procs, HostStep(p)
    PROVE  UNCHANGED <<daemon, engine, conns, late, lv>>
<1>. USE DEF worldVars, NoOtherThanQemu, NoOtherThanKrun, DirGone
<1>1. CASE QemuHolder(p) \/ QemuStoreCommand(p) \/ QemuLaunch(p)
         \/ QemuStart(p) \/ QemuStop(p) \/ QemuDestroy(p) \/ QemuRemoveDir(p)
    BY <1>1 DEF QemuHolder, QemuStoreCommand, QemuLaunch, QemuStart, QemuStop,
       QemuDestroy, QemuRemoveDir
<1>2. CASE KrunHolder(p) \/ KrunWriteRecord(p) \/ KrunStart(p) \/ KrunBoot(p)
         \/ KrunStop(p) \/ KrunPoll(p) \/ KrunDestroy(p) \/ KrunRemove(p)
         \/ KrunClean(p)
    BY <1>2 DEF KrunHolder, KrunWriteRecord, KrunStart, KrunBoot, KrunStop,
       KrunPoll, KrunDestroy, KrunRemove, KrunClean
<1>. QED BY <1>1, <1>2 DEF HostStep

\* and the state directory is removed at three places only.
LEMMA DirRemoved ==
    ASSUME TypeOK, NEW p \in Procs, Issue(p) \/ Again(p) \/ Step(p) \/ GateExpires(p),
           dir, ~dir'
    PROVE  pc[p] \in {"rmdir", "qremove", "kclean"}
<1>. USE DEF At, worldVars, NoOtherThanQemu, NoOtherThanKrun
<1>1. CASE Issue(p) \/ Again(p) \/ Prepare(p) \/ GateExpires(p)
    BY <1>1 DEF Issue, Again, Prepare, GateExpires
<1>2. CASE LibvirtStep(p)
    BY <1>2, LibvirtSpares DEF RemoveStateDir
<1>3. CASE QemuHolder(p) \/ QemuStoreCommand(p) \/ QemuLaunch(p)
         \/ QemuStart(p) \/ QemuStop(p) \/ QemuDestroy(p) \/ QemuRemoveDir(p)
    BY <1>3 DEF QemuHolder, QemuStoreCommand, QemuLaunch, QemuStart, QemuStop,
       QemuDestroy, QemuRemoveDir
<1>4. CASE KrunHolder(p) \/ KrunWriteRecord(p) \/ KrunStart(p) \/ KrunBoot(p)
         \/ KrunStop(p) \/ KrunPoll(p) \/ KrunDestroy(p) \/ KrunRemove(p)
         \/ KrunClean(p)
    BY <1>4 DEF KrunHolder, KrunWriteRecord, KrunStart, KrunBoot, KrunStop,
       KrunPoll, KrunDestroy, KrunRemove, KrunClean
<1>. QED BY <1>1, <1>2, <1>3, <1>4 DEF Step, HostStep

----------------------------------------------------------------------------
(* Without outages every call is answered.                                 *)

\* Nothing is out of order with the daemon and the engine.
Steady == daemon = "up" /\ engine = "up" /\ late = {}

\* A process that reads the domain's state has its connection.
Connected(p) == pc[p] \in {"lookup", "state", "list"} => p \in conns

\* No step of a process disturbs the daemon or another process's connection.
LEMMA SteadyStep ==
    ASSUME TypeOK, NEW p \in Procs, NEW q \in Procs, Steady, Connected(q),
           Issue(p) \/ Again(p) \/ Step(p) \/ GateExpires(p)
    PROVE  Steady' /\ Connected(q)'
<1>. USE DEF TypeOK, LocalTypeOK, Steady, Connected, At, Move, Goto, Answer, Reply, Report,
       Call, Open, Claim, worldVars, NoOtherWorld, NoOtherThanQemu, NoOtherThanKrun, DirGone,
       Succeeds, Fails
<1>1. CASE Issue(p)
    BY <1>1, IssueCases
<1>2. CASE Again(p)
    BY <1>2 DEF Again, NoCommand
<1>3. CASE Prepare(p)
    BY <1>3 DEF Prepare
<1>4. CASE GateExpires(p)
    BY <1>4 DEF GateExpires
<1>5. CASE Connect(p) \/ Lookup(p) \/ ReadState(p) \/ ListDomains(p)
         \/ Close(p)
    BY <1>5 DEF Connect, Lookup, ReadState, ListDomains, Close, StateReads
<1>6. CASE GracefulState(p) \/ GracefulShutdown(p) \/ GracefulWait(p)
         \/ GracefulRecheck(p) \/ GracefulDestroy(p) \/ RemoveSnapshots(p)
         \/ Undefine(p)
    BY <1>6 DEF GracefulState, GracefulShutdown, GracefulWait, GracefulRecheck,
       GracefulDestroy, RemoveSnapshots, ListSnapshots, DeleteSnapshot, Undefine
<1>7. CASE StartState(p) \/ StopCall(p) \/ OldState(p) \/ OldDestroy(p)
         \/ OldUndefine(p) \/ Define(p) \/ Boot(p)
    BY <1>7 DEF StartState, StopCall, OldState, OldDestroy, OldUndefine,
       Define, Boot
<1>8. CASE InjectState(p) \/ InjectDestroy(p) \/ InjectWait(p)
         \/ InjectDefine(p) \/ InjectBoot(p)
    BY <1>8 DEF InjectState, InjectDestroy, InjectWait, InjectDefine,
       InjectBoot
<1>9. CASE QemuHolder(p) \/ QemuStoreCommand(p) \/ QemuLaunch(p)
         \/ QemuStart(p) \/ QemuStop(p) \/ QemuDestroy(p) \/ QemuRemoveDir(p)
    BY <1>9 DEF QemuHolder, QemuStoreCommand, QemuLaunch, QemuStart, QemuStop,
       QemuDestroy, QemuRemoveDir
<1>10. CASE KrunHolder(p) \/ KrunWriteRecord(p) \/ KrunStart(p) \/ KrunBoot(p)
         \/ KrunStop(p) \/ KrunPoll(p) \/ KrunDestroy(p) \/ KrunRemove(p)
         \/ KrunClean(p)
    BY <1>10 DEF KrunHolder, KrunWriteRecord, KrunStart, KrunBoot, KrunStop,
       KrunPoll, KrunDestroy, KrunRemove, KrunClean
<1>11. CASE Resume(p)
    <2>1. CASE stage[p] = "probe"
        BY <1>11, <2>1, ProbedCases
    <2>2. CASE stage[p] = "recheck"
        BY <1>11, <2>2 DEF Resume, Rechecked
    <2>3. CASE stage[p] = "stop"
        BY <1>11, <2>3 DEF Resume, StopSent
    <2>4. CASE stage[p] = "poll"
        BY <1>11, <2>4 DEF Resume, Polled
    <2>5. CASE stage[p] = "destroy"
        BY <1>11, <2>5 DEF Resume, Destroyed
    <2>6. CASE stage[p] = "verify"
        BY <1>11, <2>6 DEF Resume, Verified
    <2>7. CASE stage[p] = "list"
        BY <1>11, <2>7 DEF Resume, Listed
    <2>8. CASE stage[p] \notin {"probe", "recheck", "stop", "poll", "destroy",
                             "verify", "list"}
        BY <1>11, <2>8 DEF Resume
    <2>. QED BY <2>1, <2>2, <2>3, <2>4, <2>5, <2>6, <2>7, <2>8
<1>12. CASE RemoveStateDir(p)
    BY <1>12 DEF RemoveStateDir
<1>. QED BY <1>1, <1>2, <1>3, <1>4, <1>5, <1>6, <1>7, <1>8, <1>9, <1>10, <1>11,
            <1>12 DEF Step, LibvirtStep, HostStep

\* Without outages the daemon and the engine are up and no call is abandoned.
LEMMA SteadyKept ==
    ASSUME MaxFaults = 0
    PROVE  Spec => [](Steady /\ \A p \in Procs : Connected(p))
<1>. DEFINE Inv == Steady /\ \A p \in Procs : Connected(p)
<1>1. Init => Inv
    BY DEF Init, WorldInit, Steady, Connected
<1>2. TypeOK /\ Inv /\ [Next]_vars => Inv'
    <2> SUFFICES ASSUME TypeOK, Inv, [Next]_vars PROVE Inv'
        OBVIOUS
    <2>1. CASE \E p \in Procs : Issue(p) \/ Again(p) \/ Step(p) \/ GateExpires(p)
        <3>1. PICK p \in Procs : Issue(p) \/ Again(p) \/ Step(p) \/ GateExpires(p)
            BY <2>1
        <3>2. Steady'
            BY <3>1, SteadyStep
        <3>3. \A q \in Procs : Connected(q)'
            BY <3>1, SteadyStep
        <3>. QED BY <3>2, <3>3
    <2>2. CASE WorldNext /\ UNCHANGED localVars
        <3>1. faults = 0
            BY DEF TypeOK, WorldTypeOK
        <3>2. UNCHANGED <<daemon, engine, conns, late>>
            <4>1. ~DaemonFails /\ ~EngineFails /\ ~DaemonRecovers /\ ~EngineRecovers
                BY <3>1 DEF Steady, DaemonFails, EngineFails, DaemonRecovers, EngineRecovers
            <4>2. ~LateCallEnds
                BY DEF Steady, LateCallEnds
            <4>. QED BY <2>2, <4>1, <4>2 DEF WorldNext, DomainGuestStep, DomainPauses,
                     SnapshotTaken, QemuGuestStep, KrunGuestStep
        <3>. QED BY <2>2, <3>2 DEF Steady, Connected, localVars
    <2>3. CASE UNCHANGED vars
        BY <2>3 DEF vars, worldVars, localVars, Steady, Connected
    <2>. QED BY <2>1, <2>2, <2>3 DEF Next
<1>. QED BY <1>1, <1>2, TypeCorrect, PTL DEF Spec

\* Nor is any state read left unanswered.
LEMMA AnsweredStep ==
    ASSUME TypeOK, NEW p \in Procs, NEW q \in Procs, Steady, Connected(p), reply[q] # "lost",
           Issue(p) \/ Again(p) \/ Step(p) \/ GateExpires(p)
    PROVE  reply'[q] # "lost"
<1>. USE DEF TypeOK, LocalTypeOK, At, Move, Goto, Answer, Reply, Report, Call, Open, Claim
<1>1. CASE Issue(p) \/ Again(p) \/ Prepare(p) \/ GateExpires(p)
    BY <1>1 DEF Issue, Again, Prepare, GateExpires
<1>2. CASE Connect(p) \/ Lookup(p) \/ ReadState(p) \/ ListDomains(p)
         \/ Close(p)
    BY <1>2 DEF Connect, Lookup, ReadState, ListDomains, Close, Live, Steady, Connected
<1>3. CASE GracefulState(p) \/ GracefulShutdown(p) \/ GracefulWait(p)
         \/ GracefulRecheck(p) \/ GracefulDestroy(p) \/ RemoveSnapshots(p)
         \/ Undefine(p)
    BY <1>3 DEF GracefulState, GracefulShutdown, GracefulWait, GracefulRecheck,
       GracefulDestroy, RemoveSnapshots, ListSnapshots, DeleteSnapshot, Undefine
<1>4. CASE StartState(p) \/ StopCall(p) \/ OldState(p) \/ OldDestroy(p)
         \/ OldUndefine(p) \/ Define(p) \/ Boot(p)
    BY <1>4 DEF StartState, StopCall, OldState, OldDestroy, OldUndefine,
       Define, Boot
<1>5. CASE InjectState(p) \/ InjectDestroy(p) \/ InjectWait(p)
         \/ InjectDefine(p) \/ InjectBoot(p)
    BY <1>5 DEF InjectState, InjectDestroy, InjectWait, InjectDefine,
       InjectBoot
<1>6. CASE QemuHolder(p) \/ QemuStoreCommand(p) \/ QemuLaunch(p)
         \/ QemuStart(p) \/ QemuStop(p) \/ QemuDestroy(p) \/ QemuRemoveDir(p)
    BY <1>6 DEF QemuHolder, QemuStoreCommand, QemuLaunch, QemuStart, QemuStop,
       QemuDestroy, QemuRemoveDir
<1>7. CASE KrunHolder(p) \/ KrunWriteRecord(p) \/ KrunStart(p) \/ KrunBoot(p)
         \/ KrunStop(p) \/ KrunPoll(p) \/ KrunDestroy(p) \/ KrunRemove(p)
         \/ KrunClean(p)
    BY <1>7 DEF KrunHolder, KrunWriteRecord, KrunStart, KrunBoot, KrunStop,
       KrunPoll, KrunDestroy, KrunRemove, KrunClean
<1>8. CASE Resume(p)
    <2>1. CASE stage[p] = "probe"
        BY <1>8, <2>1, ProbedCases
    <2>2. CASE stage[p] = "recheck"
        BY <1>8, <2>2 DEF Resume, Rechecked
    <2>3. CASE stage[p] = "stop"
        BY <1>8, <2>3 DEF Resume, StopSent
    <2>4. CASE stage[p] = "poll"
        BY <1>8, <2>4 DEF Resume, Polled
    <2>5. CASE stage[p] = "destroy"
        BY <1>8, <2>5 DEF Resume, Destroyed
    <2>6. CASE stage[p] = "verify"
        BY <1>8, <2>6 DEF Resume, Verified
    <2>7. CASE stage[p] = "list"
        BY <1>8, <2>7 DEF Resume, Listed
    <2>8. CASE stage[p] \notin {"probe", "recheck", "stop", "poll", "destroy",
                             "verify", "list"}
        BY <1>8, <2>8 DEF Resume
    <2>. QED BY <2>1, <2>2, <2>3, <2>4, <2>5, <2>6, <2>7, <2>8
<1>9. CASE RemoveStateDir(p)
    BY <1>9 DEF RemoveStateDir
<1>. QED BY <1>1, <1>2, <1>3, <1>4, <1>5, <1>6, <1>7, <1>8, <1>9
     DEF Step, LibvirtStep, HostStep

\* Without outages no reply is ever "lost".
LEMMA AlwaysAnswered ==
    ASSUME MaxFaults = 0
    PROVE  Spec => [](\A p \in Procs : reply[p] # "lost")
<1>. DEFINE Inv == \A p \in Procs : reply[p] # "lost"
            Known == TypeOK /\ Steady /\ \A p \in Procs : Connected(p)
<1>1. Init => Inv
    BY DEF Init
<1>2. Known /\ Inv /\ [Next]_vars => Inv'
    <2> SUFFICES ASSUME Known, Inv, [Next]_vars, NEW q \in Procs PROVE reply'[q] # "lost"
        OBVIOUS
    <2>1. CASE \E p \in Procs : Issue(p) \/ Again(p) \/ Step(p) \/ GateExpires(p)
        BY <2>1, AnsweredStep
    <2>2. CASE (WorldNext /\ UNCHANGED localVars) \/ UNCHANGED vars
        BY <2>2 DEF vars, localVars
    <2>. QED BY <2>1, <2>2 DEF Next
<1>3. Spec => []Known
    BY SteadyKept, TypeCorrect, PTL
<1>. QED BY <1>1, <1>2, <1>3, PTL DEF Spec

----------------------------------------------------------------------------
(* The records of the three backends exclude each other.                   *)

QemuPlaces == {"qcreate", "qlaunch", "qstart", "qstop", "qdestroy", "qremove"}
KrunPlaces == {"kcreate", "kstart", "kboot", "kstop", "kpoll", "kdestroy",
               "kremove", "kclean"}

\* A process acts on the libvirt domain: it has found one, or it makes one.
HoldsLibvirt(p) ==
    \/ via[p] = "libvirt" /\ pc[p] # "done"
    \/ stage[p] = "probe" /\ pc[p] = "state"
    \/ stage[p] = "probe" /\ pc[p] \in {"close", "back"} /\ Exists(p)
    \/ cmd[p].kind = "create" /\ cmd[p].be = "libvirt" /\ pc[p] \notin {"idle", "done"}
HoldsQemu(p) == pc[p] \in QemuPlaces \/ (pc[p] = "prepare" /\ cmd[p].be = "qemu")
HoldsKrun(p) == pc[p] \in KrunPlaces \/ (pc[p] = "prepare" /\ cmd[p].be = "krun")

\* At most one backend holds the name, and its records are in the directory.
OneHolder ==
    /\ qm.pid => qm.cmd
    /\ qm.cmd \/ kr.rec => dir
    /\ LvExists => ~qm.cmd /\ ~kr.rec
    /\ qm.cmd => ~kr.rec

\* A process that acts on one backend has no rival there.
NoRival(p) ==
    /\ HoldsLibvirt(p) => ~qm.cmd /\ ~kr.rec
    /\ HoldsQemu(p) => ~LvExists /\ ~kr.rec
    /\ HoldsKrun(p) => ~LvExists /\ ~qm.cmd
    /\ pc[p] \in {"qlaunch", "qstop"} => qm.cmd
    /\ pc[p] = "kboot" => kr.rec

\* A process comes to act on the domain only by finding one.
LEMMA HoldsLibvirtStep ==
    ASSUME TypeOK, NEW p \in Procs, Course(p), LibvirtStep(p), HoldsLibvirt(p)'
    PROVE  HoldsLibvirt(p) \/ LvExists
<1>. USE DEF TypeOK, LocalTypeOK, HoldsLibvirt, Course, Exists, At, Move, Goto, Answer,
       Reply, Report, Call, Open
<1>1. CASE Connect(p) \/ Lookup(p) \/ ReadState(p) \/ ListDomains(p)
         \/ Close(p)
    BY <1>1 DEF Connect, Lookup, ReadState, ListDomains, Close, StateReads
<1>2. CASE GracefulState(p) \/ GracefulShutdown(p) \/ GracefulWait(p)
         \/ GracefulRecheck(p) \/ GracefulDestroy(p) \/ RemoveSnapshots(p)
         \/ Undefine(p)
    BY <1>2 DEF GracefulState, GracefulShutdown, GracefulWait, GracefulRecheck,
       GracefulDestroy, RemoveSnapshots, ListSnapshots, DeleteSnapshot, Undefine
<1>3. CASE StartState(p) \/ StopCall(p) \/ OldState(p) \/ OldDestroy(p)
         \/ OldUndefine(p) \/ Define(p) \/ Boot(p)
    BY <1>3 DEF StartState, StopCall, OldState, OldDestroy, OldUndefine,
       Define, Boot
<1>4. CASE InjectState(p) \/ InjectDestroy(p) \/ InjectWait(p)
         \/ InjectDefine(p) \/ InjectBoot(p)
    BY <1>4 DEF InjectState, InjectDestroy, InjectWait, InjectDefine,
       InjectBoot
<1>5. CASE Resume(p)
    <2>1. CASE stage[p] = "probe"
        BY <1>5, <2>1, ProbedCases
    <2>2. CASE stage[p] = "recheck"
        BY <1>5, <2>2 DEF Resume, Rechecked
    <2>3. CASE stage[p] = "stop"
        BY <1>5, <2>3 DEF Resume, StopSent
    <2>4. CASE stage[p] = "poll"
        BY <1>5, <2>4 DEF Resume, Polled
    <2>5. CASE stage[p] = "destroy"
        BY <1>5, <2>5 DEF Resume, Destroyed
    <2>6. CASE stage[p] = "verify"
        BY <1>5, <2>6 DEF Resume, Verified
    <2>7. CASE stage[p] = "list"
        BY <1>5, <2>7 DEF Resume, Listed
    <2>8. CASE stage[p] \notin {"probe", "recheck", "stop", "poll", "destroy",
                             "verify", "list"}
        BY <1>5, <2>8 DEF Resume
    <2>. QED BY <2>1, <2>2, <2>3, <2>4, <2>5, <2>6, <2>7, <2>8
<1>6. CASE RemoveStateDir(p)
    BY <1>6 DEF RemoveStateDir
<1>. QED BY <1>1, <1>2, <1>3, <1>4, <1>5, <1>6 DEF LibvirtStep

\* One process that respects the pins never has a rival: whichever backend it
\* acts on, the name is free on the other two.
LEMMA OneHolderStep ==
    ASSUME TypeOK, NEW p \in Procs, Course(p), OneHolder, NoRival(p), ~Repin,
           Issue(p) \/ Again(p) \/ Step(p) \/ GateExpires(p)
    PROVE  OneHolder' /\ NoRival(p)'
<1>. USE DEF TypeOK, WorldTypeOK, LocalTypeOK
<1>. DEFINE Locals == UNCHANGED localVars
<1>1. CASE Issue(p)
    <2>1. UNCHANGED worldVars
        BY <1>1, IssueCases
    <2>2. OneHolder'
        BY <2>1 DEF OneHolder, worldVars, LvExists
    <2>3. PICK c \in Commands :
              /\ cmd' = [cmd EXCEPT ![p] = c]
              /\ c.kind \in {"create", "start"} => Holders \subseteq {c.be}
              /\ \/ c.kind = "create" /\ Goto(p, "prepare")
                 \/ c.kind = "start" /\ c.be = "qemu" /\ Goto(p, "qstart")
                 \/ c.kind = "start" /\ c.be = "krun" /\ Goto(p, "kstart")
                 \/ c.kind # "create" /\ Goto(p, "connect")
        BY <1>1, IssueCases
    <2>4. via'[p] = "none"
        BY <1>1, IssueCases DEF Course, At
    <2>5. /\ cmd'[p] = c
          /\ \/ c.kind = "create" /\ pc'[p] = "prepare"
             \/ c.kind = "start" /\ c.be = "qemu" /\ pc'[p] = "qstart"
             \/ c.kind = "start" /\ c.be = "krun" /\ pc'[p] = "kstart"
             \/ c.kind # "create" /\ pc'[p] = "connect"
        BY <2>3 DEF Goto
    <2>6. c.kind \in {"create", "start"} =>
             /\ c.be # "libvirt" => ~LvExists'
             /\ c.be # "qemu" => ~qm'.cmd
             /\ c.be # "krun" => ~kr'.rec
        <3>1. /\ "libvirt" \notin Holders => ~LvExists
              /\ "qemu" \notin Holders => ~qm.cmd
              /\ "krun" \notin Holders => ~kr.rec
            BY DEF Holders, QemuMarked, OneHolder
        <3>2. (LvExists' <=> LvExists) /\ qm' = qm /\ kr' = kr
            BY <2>1 DEF worldVars, LvExists
        <3>. QED BY <2>3, <3>1, <3>2
    <2>7. NoRival(p)'
        <3>. HIDE DEF TypeOK, WorldTypeOK, LocalTypeOK
        <3>. QED BY <2>4, <2>5, <2>6 DEF NoRival, HoldsLibvirt, HoldsQemu, HoldsKrun,
                 QemuPlaces, KrunPlaces
    <2>. QED BY <2>2, <2>7
<1>2. CASE Again(p) \/ GateExpires(p)
    BY <1>2 DEF Again, GateExpires, Goto, OneHolder, NoRival, HoldsLibvirt, HoldsQemu,
       HoldsKrun, QemuPlaces, KrunPlaces, worldVars, LvExists, NoCommand, Exists
<1>3. CASE Prepare(p)
    BY <1>3, CommandKind DEF Prepare, Call, Open, Move, Goto, At, OneHolder, NoRival,
       HoldsLibvirt, HoldsQemu, HoldsKrun, QemuPlaces, KrunPlaces, LvExists, Exists, Course
<1>4. CASE RemoveStateDir(p)
    BY <1>4 DEF RemoveStateDir, DirGone, Report, Goto, At, OneHolder, NoRival, HoldsLibvirt,
       HoldsQemu, HoldsKrun, QemuPlaces, KrunPlaces, LvExists, Exists, Qemu, Krun
<1>5. CASE LibvirtStep(p) /\ ~RemoveStateDir(p)
    <2>1. UNCHANGED <<qm, kr, dir>> /\ pc'[p] \notin HostPlaces
        BY <1>5, LibvirtSpares
    <2>2. HoldsLibvirt(p)' => ~qm.cmd /\ ~kr.rec
        BY <1>5, HoldsLibvirtStep DEF NoRival, OneHolder
    <2>3. LvExists' => ~qm.cmd /\ ~kr.rec
        <3>1. CASE LvExists
            BY <3>1 DEF OneHolder
        <3>2. CASE pc[p] \in {"define", "injDefine"}
            BY <3>2 DEF NoRival, HoldsLibvirt, Course
        <3>3. CASE ~LvExists /\ pc[p] \notin {"define", "injDefine"}
            BY <1>5, <3>3, GoneUnderStep DEF Step
        <3>. QED BY <3>1, <3>2, <3>3
    <2>. QED BY <2>1, <2>2, <2>3 DEF OneHolder, NoRival, HoldsQemu, HoldsKrun, QemuPlaces,
               KrunPlaces, HostPlaces
<1>6. CASE HostStep(p)
    <2>1. lv' = lv
        BY <1>6, HostSpares
    <2>. USE <2>1 DEF OneHolder, NoRival, HoldsLibvirt, HoldsQemu, HoldsKrun, QemuPlaces,
           KrunPlaces, LvExists, Exists, Course, At, Move, Goto, Reply, Report, Claim,
           NoOtherThanQemu, NoOtherThanKrun, DirGone, Qemu, Krun, Signal, QemuMarked,
           worldVars
    <2>2. CASE QemuHolder(p)
        BY <2>2 DEF QemuHolder
    <2>3. CASE QemuStoreCommand(p)
        BY <2>3 DEF QemuStoreCommand
    <2>4. CASE QemuLaunch(p)
        <3>1. qm.cmd /\ dir /\ pc[p] = "qlaunch"
            BY <2>4 DEF QemuLaunch
        <3>2. /\ pc'[p] = "done" /\ UNCHANGED <<cmd, stage, via, reply, kr, dir>>
              /\ qm'.cmd = qm.cmd
            BY <2>4 DEF QemuLaunch
        <3>. QED BY <3>1, <3>2
    <2>5. CASE QemuStart(p)
        BY <2>5 DEF QemuStart
    <2>6. CASE QemuStop(p)
        BY <2>6 DEF QemuStop
    <2>7. CASE QemuDestroy(p)
        BY <2>7 DEF QemuDestroy
    <2>8. CASE QemuRemoveDir(p)
        BY <2>8 DEF QemuRemoveDir
    <2>9. CASE KrunHolder(p)
        BY <2>9 DEF KrunHolder
    <2>10. CASE KrunWriteRecord(p)
        BY <2>10 DEF KrunWriteRecord
    <2>11. CASE KrunStart(p)
        BY <2>11 DEF KrunStart
    <2>12. CASE KrunBoot(p)
        BY <2>12 DEF KrunBoot
    <2>13. CASE KrunStop(p)
        BY <2>13 DEF KrunStop
    <2>14. CASE KrunPoll(p)
        BY <2>14 DEF KrunPoll
    <2>15. CASE KrunDestroy(p)
        BY <2>15 DEF KrunDestroy
    <2>16. CASE KrunRemove(p)
        <3>1. kr' = [kr EXCEPT !.cont = "none", !.off = FALSE] \/ kr' = kr
            BY <2>16 DEF KrunRemove
        <3>2. UNCHANGED <<lv, qm, dir>>
            BY <2>16 DEF KrunRemove
        <3>3. /\ pc[p] = "kremove" /\ pc'[p] \in {"kclean", "done"}
              /\ UNCHANGED <<via, stage, cmd, reply>>
            BY <2>16 DEF KrunRemove
        <3>. QED BY <3>1, <3>2, <3>3
    <2>17. CASE KrunClean(p)
        <3>1. pc'[p] = "done" /\ UNCHANGED <<via, stage, cmd, reply>>
            BY <2>17 DEF KrunClean
        <3>2. DirGone \/ (kr' = [kr EXCEPT !.rec = FALSE] /\ NoOtherThanKrun)
            BY <2>17, KrunCleanCases
        <3>3. OneHolder'
            BY <3>2
        <3>4. NoRival(p)'
            BY <3>1
        <3>. QED BY <3>3, <3>4
    <2>. QED BY <1>6, <2>2, <2>3, <2>4, <2>5, <2>6, <2>7, <2>8, <2>9, <2>10, <2>11,
                <2>12, <2>13, <2>14, <2>15, <2>16, <2>17 DEF HostStep
<1>. QED BY <1>1, <1>2, <1>3, <1>4, <1>5, <1>6 DEF Step

\* Neither the guests nor the daemon change a record or define a domain.
LEMMA OneHolderUnderWorld ==
    ASSUME TypeOK, OneHolder, WorldNext, UNCHANGED localVars, ~LateCalls \/ Steady
    PROVE  OneHolder' /\ \A p \in Procs : NoRival(p) => NoRival(p)'
<1>1. dir' = dir /\ kr'.rec = kr.rec /\ qm'.cmd = qm.cmd /\ (qm'.pid => qm.pid)
    BY DEF WorldNext, DaemonFails, DaemonRecovers, LateCallEnds, EngineFails, EngineRecovers,
       DomainGuestStep, DomainPauses, SnapshotTaken, QemuGuestStep, KrunGuestStep, TypeOK,
       WorldTypeOK, Qemu, Krun
<1>2. LvExists' => LvExists
    BY GoneUnderWorld DEF Steady
<1>. QED BY <1>1, <1>2 DEF OneHolder, NoRival, HoldsLibvirt, HoldsQemu, HoldsKrun, localVars,
         Exists

\* One process that respects the pins never has a rival, whatever outages happen.
LEMMA OneHolderKept ==
    ASSUME ~LateCalls \/ MaxFaults = 0, ~Repin, \A p, q \in Procs : p = q
    PROVE  Spec => [](OneHolder /\ \A p \in Procs : NoRival(p))
<1>. DEFINE Inv == OneHolder /\ \A p \in Procs : NoRival(p)
            Known == TypeOK /\ (\A p \in Procs : Course(p)) /\ (~LateCalls \/ Steady)
<1>1. Init => Inv
    BY DEF Init, WorldInit, OneHolder, NoRival, HoldsLibvirt, HoldsQemu, HoldsKrun, QemuPlaces,
       KrunPlaces, NoQemu, NoKrun, NoCommand
<1>2. Known /\ Inv /\ [Next]_vars => Inv'
    <2> SUFFICES ASSUME Known, Inv, [Next]_vars PROVE Inv'
        OBVIOUS
    <2>1. CASE \E p \in Procs : Issue(p) \/ Again(p) \/ Step(p) \/ GateExpires(p)
        <3>1. PICK p \in Procs : Issue(p) \/ Again(p) \/ Step(p) \/ GateExpires(p)
            BY <2>1
        <3>2. OneHolder' /\ NoRival(p)'
            BY <3>1, OneHolderStep
        <3>. QED BY <3>2
    <2>2. CASE WorldNext /\ UNCHANGED localVars
        BY <2>2, OneHolderUnderWorld
    <2>3. CASE UNCHANGED vars
        BY <2>3 DEF vars, worldVars, localVars, OneHolder, NoRival, HoldsLibvirt, HoldsQemu,
           HoldsKrun, LvExists, Exists
    <2>. QED BY <2>1, <2>2, <2>3 DEF Next
<1>3. Spec => [](~LateCalls \/ Steady)
    <2>1. CASE MaxFaults = 0
        <3>1. Spec => [](Steady /\ \A p \in Procs : Connected(p))
            BY <2>1, SteadyKept
        <3>. QED BY <3>1, PTL
    <2>2. CASE ~LateCalls
        BY <2>2, PTL
    <2>. QED BY <2>1, <2>2
<1>. QED BY <1>1, <1>2, <1>3, TypeCorrect, CourseKept, PTL DEF Spec

\* Without create commands no qemu or krun record appears: their arms of the
\* other commands are not reached.
NoRecord == ~qm.cmd /\ ~qm.pid /\ ~kr.rec
NoHostGuest(p) ==
    pc[p] \notin {"prepare", "qcreate", "qlaunch", "qstop", "qdestroy", "qremove", "kcreate",
                 "kboot", "kstop", "kpoll", "kdestroy", "kremove", "kclean"}

\* No step leads there,
LEMMA NoHostGuestStep ==
    ASSUME TypeOK, "create" \notin Kinds, NEW p \in Procs, NoRecord, NoHostGuest(p),
           Issue(p) \/ Again(p) \/ Step(p) \/ GateExpires(p)
    PROVE  NoRecord' /\ NoHostGuest(p)' /\ \A q \in Procs \ {p} : pc'[q] = pc[q]
<1>. USE DEF TypeOK, LocalTypeOK, WorldTypeOK, Qemu, Krun, NoRecord, NoHostGuest, At, Move, Goto, Answer,
       Reply, Report, Call, Open, Claim
<1>1. CASE Issue(p)
    <2>1. "create" \notin Kinds /\ UNCHANGED worldVars
        BY <1>1, IssueCases
    <2>2. PICK c \in Commands :
              \/ c.kind = "create" /\ Goto(p, "prepare")
              \/ Goto(p, "qstart") \/ Goto(p, "kstart") \/ Goto(p, "connect")
        BY <1>1, IssueCases
    <2>3. c.kind # "create"
        BY <2>1 DEF Commands
    <2>. QED BY <2>1, <2>2, <2>3 DEF worldVars
<1>2. CASE Again(p) \/ GateExpires(p)
    BY <1>2 DEF Again, GateExpires, worldVars
<1>3. CASE LibvirtStep(p)
    <2>1. \A q \in Procs \ {p} : pc'[q] = pc[q]
        BY <1>3, OnlyOwn DEF Step
    <2>2. NoRecord'
        BY <1>3, LibvirtSpares DEF RemoveStateDir, DirGone
    <2>3. NoHostGuest(p)'
        BY <1>3, LibvirtSpares DEF HostPlaces
    <2>. QED BY <2>1, <2>2, <2>3
<1>4. CASE QemuHolder(p) \/ QemuStart(p) \/ KrunHolder(p) \/ KrunStart(p)
    BY <1>4 DEF QemuHolder, QemuStart, KrunHolder, KrunStart, QemuMarked, worldVars
<1>. QED BY <1>1, <1>2, <1>3, <1>4 DEF Step, Prepare, HostStep, QemuStoreCommand, QemuLaunch,
         QemuStop, QemuDestroy, QemuRemoveDir, KrunWriteRecord, KrunBoot, KrunStop, KrunPoll,
         KrunDestroy, KrunRemove, KrunClean

\* so nothing is ever recorded.
LEMMA NothingRecorded ==
    ASSUME "create" \notin Kinds
    PROVE  Spec => [](NoRecord /\ \A p \in Procs : NoHostGuest(p))
<1>. DEFINE Inv == NoRecord /\ \A p \in Procs : NoHostGuest(p)
<1>1. Init => Inv
    BY DEF Init, WorldInit, NoRecord, NoHostGuest, NoQemu, NoKrun
<1>2. TypeOK /\ Inv /\ [Next]_vars => Inv'
    <2> SUFFICES ASSUME TypeOK, Inv, [Next]_vars PROVE Inv'
        OBVIOUS
    <2>1. CASE \E p \in Procs : Issue(p) \/ Again(p) \/ Step(p) \/ GateExpires(p)
        <3>1. PICK p \in Procs : Issue(p) \/ Again(p) \/ Step(p) \/ GateExpires(p)
            BY <2>1
        <3>2. NoRecord' /\ NoHostGuest(p)' /\ \A q \in Procs \ {p} : pc'[q] = pc[q]
            BY <3>1, NoHostGuestStep
        <3>. QED BY <3>2 DEF NoHostGuest
    <2>2. CASE WorldNext /\ UNCHANGED localVars
        BY <2>2 DEF WorldNext, DaemonFails, DaemonRecovers, LateCallEnds, EngineFails,
           EngineRecovers, DomainGuestStep, DomainPauses, SnapshotTaken, QemuGuestStep,
           KrunGuestStep, TypeOK, WorldTypeOK, Qemu, Krun, NoRecord, NoHostGuest, localVars
    <2>3. CASE UNCHANGED vars
        BY <2>3 DEF vars, worldVars, localVars, NoRecord, NoHostGuest
    <2>. QED BY <2>1, <2>2, <2>3 DEF Next
<1>. QED BY <1>1, <1>2, TypeCorrect, PTL DEF Spec

\* destroy --disk never takes the state directory, with the overlay disk in it,
\* from under a domain that still exists, whatever outages happen, unless its
\* verification was not answered: either no process creates the domain, or one
\* process runs all commands, respects the pins, and libvirt drops the calls it
\* abandoned.
THEOREM DiskStays ==
    ASSUME \/ "create" \notin Kinds
           \/ ~LateCalls /\ ~Repin /\ \A p, q \in Procs : p = q
    PROVE  Spec => NoDiskPulled
<1>. DEFINE Free(p) == pc[p] \in {"qremove", "kclean"} => ~LvExists
            Inv == /\ TypeOK
                   /\ \A p \in Procs : TeardownInv(p) /\ (SawNoDomain(p) => ~LvExists)
                   /\ \A p \in Procs : Free(p)
<1>1. Inv /\ [Next]_vars =>
         [dir /\ ~dir' => \/ ~LvExists
                         \/ \E p \in Procs : At(p, "rmdir") /\ reply[p] = "lost"]_vars
    <2> SUFFICES ASSUME Inv, Next, dir, ~dir'
                 PROVE  \/ ~LvExists
                        \/ \E p \in Procs : At(p, "rmdir") /\ reply[p] = "lost"
        OBVIOUS
    <2>1. CASE WorldNext
        BY <2>1 DEF WorldNext, DaemonFails, DaemonRecovers, LateCallEnds, EngineFails,
           EngineRecovers, DomainGuestStep, DomainPauses, SnapshotTaken, QemuGuestStep,
           KrunGuestStep
    <2>2. CASE \E p \in Procs : Issue(p) \/ Again(p) \/ Step(p) \/ GateExpires(p)
        <3>1. PICK p \in Procs : pc[p] \in {"rmdir", "qremove", "kclean"}
            BY <2>2, DirRemoved
        <3>2. CASE pc[p] = "rmdir"
            BY <3>2 DEF TeardownInv, SawNoDomain, At
        <3>. QED BY <3>1, <3>2
    <2>. QED BY <2>1, <2>2 DEF Next
<1>2. Spec => [](\A p \in Procs : Free(p))
    <2>1. CASE "create" \notin Kinds
        <3>1. (\A p \in Procs : NoHostGuest(p)) => \A p \in Procs : Free(p)
            BY DEF NoHostGuest
        <3>. QED BY <2>1, <3>1, NothingRecorded, PTL
    <2>2. CASE "create" \in Kinds
        <3>1. (OneHolder /\ \A p \in Procs : NoRival(p))
                 => \A p \in Procs : Free(p)
            BY DEF NoRival, HoldsQemu, HoldsKrun, QemuPlaces, KrunPlaces
        <3>2. Spec => [](OneHolder /\ \A p \in Procs : NoRival(p))
            BY <2>2, OneHolderKept
        <3>. QED BY <3>1, <3>2, PTL
    <2>. QED BY <2>1, <2>2
<1>3. Spec => [](\A p \in Procs : SawNoDomain(p) => ~LvExists)
    BY TeardownSeen
<1>4. (\A p \in Procs : SawNoDomain(p) => ~LvExists) /\ (\A p \in Procs : TeardownInv(p))
         => \A p \in Procs : TeardownInv(p) /\ (SawNoDomain(p) => ~LvExists)
    OBVIOUS
<1>. QED BY <1>1, <1>2, <1>3, <1>4, TypeCorrect, TeardownRecord, PTL DEF Spec, NoDiskPulled

\* Without outages the promise has no exception: a libvirt teardown that was
\* reported leaves no domain of the name.  An outage of the daemon during the
\* verification is all it fails on.
THEOREM TeardownsVerified ==
    ASSUME MaxFaults = 0,
           "create" \notin Kinds \/ (~LateCalls /\ \A p, q \in Procs : p = q)
    PROVE  Spec => []EveryTeardownVerified
<1>1. VerifiedTeardown /\ (\A p \in Procs : reply[p] # "lost") => EveryTeardownVerified
    BY DEF VerifiedTeardown, EveryTeardownVerified
<1>2. Spec => []VerifiedTeardown
    BY TeardownFinal
<1>. QED BY <1>1, <1>2, AlwaysAnswered, PTL

----------------------------------------------------------------------------
(* No running guest is left without its record.                            *)

\* A running guest has its record, and where a record is about to be removed
\* the guest is gone.
QemuRecorded == qm.proc \in {"alive", "acpi"} => qm.cmd
KrunRecorded == kr.cont = "running" => kr.rec
QemuGone(p) == pc[p] = "qremove" => qm.proc \notin {"alive", "acpi"}
KrunGone(p) == pc[p] = "kclean" => kr.cont # "running"

\* No command removes the record of a qemu process that runs, outages or not.
LEMMA QemuRecordedStep ==
    ASSUME TypeOK, NEW p \in Procs, Course(p), TeardownInv(p), OneHolder,
           NoRival(p), QemuRecorded, QemuGone(p),
           Issue(p) \/ Again(p) \/ Step(p) \/ GateExpires(p)
    PROVE  QemuRecorded' /\ QemuGone(p)'
<1>. USE DEF TypeOK, LocalTypeOK, WorldTypeOK, QemuRecorded, QemuGone
<1>1. CASE Issue(p)
    <2>1. UNCHANGED worldVars
        BY <1>1, IssueCases
    <2>2. \E l \in {"prepare", "qstart", "kstart", "connect"} : Goto(p, l)
        BY <1>1, IssueCases
    <2>. QED BY <2>1, <2>2 DEF worldVars, Goto
<1>2. CASE Again(p) \/ GateExpires(p)
    BY <1>2 DEF Again, GateExpires, Goto, worldVars
<1>3. CASE Prepare(p)
    BY <1>3 DEF Prepare, Call, Open, Move, Goto
<1>4. CASE RemoveStateDir(p)
    <2>1. ~qm.cmd /\ ~kr.rec
        BY <1>4 DEF RemoveStateDir, Course, NoRival, HoldsLibvirt, TeardownInv, At
    <2>. QED BY <1>4, <2>1 DEF RemoveStateDir, DirGone, Report, Goto, Qemu, Krun
<1>5. CASE LibvirtStep(p) /\ ~RemoveStateDir(p)
    BY <1>5, LibvirtSpares DEF HostPlaces
<1>6. CASE HostStep(p)
    <2>. USE DEF OneHolder, NoRival, HoldsQemu, HoldsKrun, QemuPlaces, KrunPlaces, At, Move, Goto,
           Reply, Report, Claim, NoOtherThanQemu, NoOtherThanKrun, DirGone, Qemu, Krun, Signal,
           QemuMarked, KrunRunning, worldVars
    <2>1. CASE QemuHolder(p)
        BY <2>1 DEF QemuHolder
    <2>2. CASE QemuStoreCommand(p)
        BY <2>2 DEF QemuStoreCommand
    <2>3. CASE QemuLaunch(p)
        BY <2>3 DEF QemuLaunch
    <2>4. CASE QemuStart(p)
        BY <2>4 DEF QemuStart
    <2>5. CASE QemuStop(p)
        BY <2>5 DEF QemuStop
    <2>6. CASE QemuDestroy(p)
        BY <2>6 DEF QemuDestroy
    <2>7. CASE QemuRemoveDir(p)
        BY <2>7 DEF QemuRemoveDir
    <2>8. CASE KrunHolder(p)
        BY <2>8 DEF KrunHolder
    <2>9. CASE KrunWriteRecord(p)
        BY <2>9 DEF KrunWriteRecord
    <2>10. CASE KrunStart(p)
        BY <2>10 DEF KrunStart
    <2>11. CASE KrunBoot(p)
        BY <2>11 DEF KrunBoot
    <2>12. CASE KrunStop(p)
        BY <2>12 DEF KrunStop
    <2>13. CASE KrunPoll(p)
        BY <2>13 DEF KrunPoll
    <2>14. CASE KrunDestroy(p)
        BY <2>14 DEF KrunDestroy
    <2>15. CASE KrunRemove(p)
        BY <2>15 DEF KrunRemove
    <2>16. CASE KrunClean(p)
        <3>1. DirGone \/ (kr' = [kr EXCEPT !.rec = FALSE] /\ NoOtherThanKrun)
            BY <2>16, KrunCleanCases
        <3>2. pc[p] = "kclean" /\ pc'[p] = "done"
            BY <2>16 DEF KrunClean
        <3>. QED BY <3>1, <3>2
    <2>. QED BY <1>6, <2>1, <2>2, <2>3, <2>4, <2>5, <2>6, <2>7, <2>8, <2>9, <2>10, <2>11,
                <2>12, <2>13, <2>14, <2>15, <2>16 DEF HostStep
<1>. QED BY <1>1, <1>2, <1>3, <1>4, <1>5, <1>6 DEF Step

\* No command removes the record of a container that runs, if the engine answers.
LEMMA KrunRecordedStep ==
    ASSUME TypeOK, NEW p \in Procs, Steady, Course(p), TeardownInv(p), OneHolder,
           NoRival(p), KrunRecorded, KrunGone(p),
           Issue(p) \/ Again(p) \/ Step(p) \/ GateExpires(p)
    PROVE  KrunRecorded' /\ KrunGone(p)'
<1>. USE DEF TypeOK, LocalTypeOK, WorldTypeOK, KrunRecorded, KrunGone
<1>1. CASE Issue(p)
    <2>1. UNCHANGED worldVars
        BY <1>1, IssueCases
    <2>2. \E l \in {"prepare", "qstart", "kstart", "connect"} : Goto(p, l)
        BY <1>1, IssueCases
    <2>. QED BY <2>1, <2>2 DEF worldVars, Goto
<1>2. CASE Again(p) \/ GateExpires(p)
    BY <1>2 DEF Again, GateExpires, Goto, worldVars
<1>3. CASE Prepare(p)
    BY <1>3 DEF Prepare, Call, Open, Move, Goto
<1>4. CASE RemoveStateDir(p)
    <2>1. ~qm.cmd /\ ~kr.rec
        BY <1>4 DEF RemoveStateDir, Course, NoRival, HoldsLibvirt, TeardownInv, At
    <2>. QED BY <1>4, <2>1 DEF RemoveStateDir, DirGone, Report, Goto, Qemu, Krun
<1>5. CASE LibvirtStep(p) /\ ~RemoveStateDir(p)
    BY <1>5, LibvirtSpares DEF HostPlaces
<1>6. CASE HostStep(p)
    <2>. USE DEF OneHolder, NoRival, HoldsQemu, HoldsKrun, QemuPlaces, KrunPlaces, At, Move, Goto,
           Reply, Report, Claim, NoOtherThanQemu, NoOtherThanKrun, DirGone, Qemu, Krun, Signal,
           QemuMarked, KrunRunning, Steady, worldVars
    <2>1. CASE QemuHolder(p)
        BY <2>1 DEF QemuHolder
    <2>2. CASE QemuStoreCommand(p)
        BY <2>2 DEF QemuStoreCommand
    <2>3. CASE QemuLaunch(p)
        BY <2>3 DEF QemuLaunch
    <2>4. CASE QemuStart(p)
        BY <2>4 DEF QemuStart
    <2>5. CASE QemuStop(p)
        BY <2>5 DEF QemuStop
    <2>6. CASE QemuDestroy(p)
        BY <2>6 DEF QemuDestroy
    <2>7. CASE QemuRemoveDir(p)
        BY <2>7 DEF QemuRemoveDir
    <2>8. CASE KrunHolder(p)
        BY <2>8 DEF KrunHolder
    <2>9. CASE KrunWriteRecord(p)
        BY <2>9 DEF KrunWriteRecord
    <2>10. CASE KrunStart(p)
        BY <2>10 DEF KrunStart
    <2>11. CASE KrunBoot(p)
        BY <2>11 DEF KrunBoot
    <2>12. CASE KrunStop(p)
        BY <2>12 DEF KrunStop
    <2>13. CASE KrunPoll(p)
        BY <2>13 DEF KrunPoll
    <2>14. CASE KrunDestroy(p)
        BY <2>14 DEF KrunDestroy
    <2>15. CASE KrunRemove(p)
        BY <2>15 DEF KrunRemove
    <2>16. CASE KrunClean(p)
        <3>1. DirGone \/ (kr' = [kr EXCEPT !.rec = FALSE] /\ NoOtherThanKrun)
            BY <2>16, KrunCleanCases
        <3>2. pc[p] = "kclean" /\ pc'[p] = "done"
            BY <2>16 DEF KrunClean
        <3>. QED BY <3>1, <3>2
    <2>. QED BY <1>6, <2>1, <2>2, <2>3, <2>4, <2>5, <2>6, <2>7, <2>8, <2>9, <2>10, <2>11,
                <2>12, <2>13, <2>14, <2>15, <2>16 DEF HostStep
<1>. QED BY <1>1, <1>2, <1>3, <1>4, <1>5, <1>6 DEF Step

\* The commands of one operator who respects the pins never leave a running qemu
\* process without its markers, whatever outages happen, as long as libvirt drops
\* the calls it abandoned: stop and destroy always reach it.
THEOREM QemuGuestsKept ==
    ASSUME ~LateCalls \/ MaxFaults = 0, ~Repin, \A p, q \in Procs : p = q
    PROVE  Spec => [](qm.proc \in {"alive", "acpi"} => QemuMarked)
<1>. DEFINE Inv == QemuRecorded /\ \A p \in Procs : QemuGone(p)
            Known == /\ TypeOK
                     /\ \A p \in Procs : Course(p)
                     /\ \A p \in Procs : TeardownInv(p)
                     /\ OneHolder /\ \A p \in Procs : NoRival(p)
<1>1. Init => Inv
    BY DEF Init, WorldInit, NoQemu, QemuRecorded, QemuGone
<1>2. Known /\ Inv /\ [Next]_vars => Inv'
    <2> SUFFICES ASSUME Known, Inv, [Next]_vars PROVE Inv'
        OBVIOUS
    <2>1. CASE \E p \in Procs : Issue(p) \/ Again(p) \/ Step(p) \/ GateExpires(p)
        <3>1. PICK p \in Procs : Issue(p) \/ Again(p) \/ Step(p) \/ GateExpires(p)
            BY <2>1
        <3>2. QemuRecorded' /\ QemuGone(p)'
            BY <3>1, QemuRecordedStep
        <3>. QED BY <3>2
    <2>2. CASE WorldNext /\ UNCHANGED localVars
        BY <2>2 DEF WorldNext, DaemonFails, DaemonRecovers, LateCallEnds, EngineFails,
           EngineRecovers, DomainGuestStep, DomainPauses, SnapshotTaken, QemuGuestStep,
           KrunGuestStep, TypeOK, WorldTypeOK, Qemu, QemuRecorded, QemuGone, localVars
    <2>3. CASE UNCHANGED vars
        BY <2>3 DEF vars, worldVars, localVars, QemuRecorded, QemuGone
    <2>. QED BY <2>1, <2>2, <2>3 DEF Next
<1>3. Known /\ Inv => (qm.proc \in {"alive", "acpi"} => QemuMarked)
    BY DEF QemuRecorded, QemuMarked, OneHolder
<1>4. Spec => []Known
    <2>1. Spec => [](OneHolder /\ \A p \in Procs : NoRival(p))
        BY OneHolderKept
    <2>. QED BY <2>1, TypeCorrect, CourseKept, TeardownRecord, PTL
<1>. QED BY <1>1, <1>2, <1>3, <1>4, PTL DEF Spec

\* Without outages, the same holds of the containers, so that no running guest of
\* either backend is left without the record its backend finds it by.
THEOREM NoGuestLost ==
    ASSUME MaxFaults = 0, ~Repin, \A p, q \in Procs : p = q
    PROVE  Spec => []NoLostGuest
<1>. DEFINE Inv == KrunRecorded /\ \A p \in Procs : KrunGone(p)
            Known == /\ TypeOK /\ Steady
                     /\ \A p \in Procs : Course(p)
                     /\ \A p \in Procs : TeardownInv(p)
                     /\ OneHolder /\ \A p \in Procs : NoRival(p)
<1>1. Init => Inv
    BY DEF Init, WorldInit, NoKrun, KrunRecorded, KrunGone
<1>2. Known /\ Inv /\ [Next]_vars => Inv'
    <2> SUFFICES ASSUME Known, Inv, [Next]_vars PROVE Inv'
        OBVIOUS
    <2>1. CASE \E p \in Procs : Issue(p) \/ Again(p) \/ Step(p) \/ GateExpires(p)
        <3>1. PICK p \in Procs : Issue(p) \/ Again(p) \/ Step(p) \/ GateExpires(p)
            BY <2>1
        <3>2. KrunRecorded' /\ KrunGone(p)'
            BY <3>1, KrunRecordedStep
        <3>. QED BY <3>2
    <2>2. CASE WorldNext /\ UNCHANGED localVars
        BY <2>2 DEF WorldNext, DaemonFails, DaemonRecovers, LateCallEnds, EngineFails,
           EngineRecovers, DomainGuestStep, DomainPauses, SnapshotTaken, QemuGuestStep,
           KrunGuestStep, TypeOK, WorldTypeOK, Krun, KrunRecorded, KrunGone, localVars
    <2>3. CASE UNCHANGED vars
        BY <2>3 DEF vars, worldVars, localVars, KrunRecorded, KrunGone
    <2>. QED BY <2>1, <2>2, <2>3 DEF Next
<1>3. Inv /\ (qm.proc \in {"alive", "acpi"} => QemuMarked) => NoLostGuest
    BY DEF NoLostGuest, KrunRecorded
<1>4. Spec => []Known
    <2>1. Spec => [](Steady /\ \A p \in Procs : Connected(p))
        BY SteadyKept
    <2>2. Spec => [](OneHolder /\ \A p \in Procs : NoRival(p))
        BY OneHolderKept
    <2>. QED BY <2>1, <2>2, TypeCorrect, CourseKept, TeardownRecord, PTL
<1>. QED BY <1>1, <1>2, <1>3, <1>4, QemuGuestsKept, PTL DEF Spec

----------------------------------------------------------------------------
(* What a stop has seen and what a sweep spares.                           *)

\* Where a process has learnt that the domain is not running,
KnownOff(p) ==
    \/ /\ stage[p] \in {"recheck", "poll", "list"}
       /\ pc[p] \in {"close", "back"}
       /\ reply[p] # "running"
    \/ stage[p] = "sweep"
    \/ Stopped(p) /\ via[p] = "libvirt"

\* and where it has seen the container stopped.
KnownStopped(p) == Stopped(p) /\ via[p] = "krun"

\* What a process has learnt is true.
KnowsRight(p) ==
    /\ KnownOff(p) => lv.act # "running"
    /\ KnownStopped(p) => kr.cont # "running"

\* It is learnt only from a domain that is not running,
LEMMA KnownOffStep ==
    ASSUME TypeOK, NEW p \in Procs, NEW q \in Procs, Steady, Connected(p), Course(p),
           Issue(p) \/ Again(p) \/ Step(p) \/ GateExpires(p), KnownOff(q)'
    PROVE  KnownOff(q) \/ (lv.act # "running" /\ lv' = lv)
<1>. USE DEF TypeOK, LocalTypeOK, Steady, Connected, Course, KnownOff, Stopped, Exists, Live, LvExists,
       At, Move, Goto, Answer, Reply, Report, Call, Open, Claim, worldVars
<1>1. CASE Issue(p)
    BY <1>1, IssueCases
<1>2. CASE Again(p)
    BY <1>2 DEF Again, NoCommand
<1>3. CASE Prepare(p)
    BY <1>3 DEF Prepare
<1>4. CASE GateExpires(p)
    BY <1>4 DEF GateExpires
<1>5. CASE Connect(p)
    BY <1>5 DEF Connect, StateReads
<1>6. CASE Lookup(p)
    BY <1>6 DEF Lookup, StateReads
<1>7. CASE ReadState(p)
    BY <1>7 DEF ReadState
<1>8. CASE ListDomains(p)
    BY <1>8 DEF ListDomains
<1>9. CASE Close(p)
    BY <1>9 DEF Close
<1>10. CASE GracefulState(p) \/ GracefulShutdown(p) \/ GracefulWait(p)
         \/ GracefulRecheck(p) \/ GracefulDestroy(p) \/ RemoveSnapshots(p)
         \/ Undefine(p)
    BY <1>10 DEF GracefulState, GracefulShutdown, GracefulWait,
       GracefulRecheck, GracefulDestroy, RemoveSnapshots, ListSnapshots, DeleteSnapshot, Undefine
<1>11. CASE StartState(p) \/ StopCall(p) \/ OldState(p) \/ OldDestroy(p)
         \/ OldUndefine(p) \/ Define(p) \/ Boot(p)
    BY <1>11 DEF StartState, StopCall, OldState, OldDestroy, OldUndefine,
       Define, Boot
<1>12. CASE InjectState(p) \/ InjectDestroy(p) \/ InjectWait(p)
         \/ InjectDefine(p) \/ InjectBoot(p)
    BY <1>12 DEF InjectState, InjectDestroy, InjectWait, InjectDefine,
       InjectBoot
<1>13. CASE QemuHolder(p) \/ QemuStoreCommand(p) \/ QemuLaunch(p)
         \/ QemuStart(p) \/ QemuStop(p) \/ QemuDestroy(p) \/ QemuRemoveDir(p)
    BY <1>13 DEF QemuHolder, QemuStoreCommand, QemuLaunch, QemuStart, QemuStop,
       QemuDestroy, QemuRemoveDir
<1>14. CASE KrunHolder(p) \/ KrunWriteRecord(p) \/ KrunStart(p) \/ KrunBoot(p)
         \/ KrunStop(p) \/ KrunPoll(p) \/ KrunDestroy(p) \/ KrunRemove(p)
         \/ KrunClean(p)
    BY <1>14 DEF KrunHolder, KrunWriteRecord, KrunStart, KrunBoot, KrunStop,
       KrunPoll, KrunDestroy, KrunRemove, KrunClean
<1>15. CASE Resume(p)
    <2>1. CASE stage[p] = "probe"
        BY <1>15, <2>1, ProbedCases
    <2>2. CASE stage[p] = "recheck"
        BY <1>15, <2>2 DEF Resume, Rechecked
    <2>3. CASE stage[p] = "stop"
        BY <1>15, <2>3 DEF Resume, StopSent
    <2>4. CASE stage[p] = "poll"
        BY <1>15, <2>4 DEF Resume, Polled
    <2>5. CASE stage[p] = "destroy"
        BY <1>15, <2>5 DEF Resume, Destroyed
    <2>6. CASE stage[p] = "verify"
        BY <1>15, <2>6 DEF Resume, Verified
    <2>7. CASE stage[p] = "list"
        BY <1>15, <2>7 DEF Resume, Listed
    <2>8. CASE stage[p] \notin {"probe", "recheck", "stop", "poll", "destroy",
                             "verify", "list"}
        BY <1>15, <2>8 DEF Resume
    <2>. QED BY <2>1, <2>2, <2>3, <2>4, <2>5, <2>6, <2>7, <2>8
<1>16. CASE RemoveStateDir(p)
    BY <1>16 DEF RemoveStateDir
<1>. QED BY <1>1, <1>2, <1>3, <1>4, <1>5, <1>6, <1>7, <1>8, <1>9, <1>10, <1>11,
            <1>12, <1>13, <1>14, <1>15, <1>16 DEF Step, LibvirtStep, HostStep

\* or a container that is not.
LEMMA KnownStoppedStep ==
    ASSUME TypeOK, NEW p \in Procs, NEW q \in Procs, Steady, Course(p),
           Issue(p) \/ Again(p) \/ Step(p) \/ GateExpires(p), KnownStopped(q)'
    PROVE  KnownStopped(q) \/ (kr.cont # "running" /\ kr' = kr)
<1>. USE DEF TypeOK, LocalTypeOK, Steady, Course, KnownStopped, Stopped, Exists, KrunRunning,
       At, Move, Goto, Answer, Reply, Report, Call, Open, Claim, worldVars
<1>1. CASE Issue(p)
    BY <1>1, IssueCases
<1>2. CASE Again(p)
    BY <1>2 DEF Again, NoCommand
<1>3. CASE Prepare(p)
    BY <1>3 DEF Prepare
<1>4. CASE GateExpires(p)
    BY <1>4 DEF GateExpires
<1>5. CASE Connect(p) \/ Lookup(p) \/ ReadState(p) \/ ListDomains(p)
         \/ Close(p)
    BY <1>5 DEF Connect, Lookup, ReadState, ListDomains, Close, StateReads
<1>6. CASE GracefulState(p) \/ GracefulShutdown(p) \/ GracefulWait(p)
         \/ GracefulRecheck(p) \/ GracefulDestroy(p) \/ RemoveSnapshots(p)
         \/ Undefine(p)
    BY <1>6 DEF GracefulState, GracefulShutdown, GracefulWait, GracefulRecheck,
       GracefulDestroy, RemoveSnapshots, ListSnapshots, DeleteSnapshot, Undefine
<1>7. CASE StartState(p) \/ StopCall(p) \/ OldState(p) \/ OldDestroy(p)
         \/ OldUndefine(p) \/ Define(p) \/ Boot(p)
    BY <1>7 DEF StartState, StopCall, OldState, OldDestroy, OldUndefine,
       Define, Boot
<1>8. CASE InjectState(p) \/ InjectDestroy(p) \/ InjectWait(p)
         \/ InjectDefine(p) \/ InjectBoot(p)
    BY <1>8 DEF InjectState, InjectDestroy, InjectWait, InjectDefine,
       InjectBoot
<1>9. CASE QemuHolder(p) \/ QemuStoreCommand(p) \/ QemuLaunch(p)
         \/ QemuStart(p) \/ QemuStop(p) \/ QemuDestroy(p) \/ QemuRemoveDir(p)
    BY <1>9 DEF QemuHolder, QemuStoreCommand, QemuLaunch, QemuStart, QemuStop,
       QemuDestroy, QemuRemoveDir
<1>10. CASE KrunHolder(p) \/ KrunWriteRecord(p) \/ KrunStart(p) \/ KrunBoot(p)
         \/ KrunStop(p) \/ KrunPoll(p) \/ KrunDestroy(p) \/ KrunRemove(p)
         \/ KrunClean(p)
    BY <1>10 DEF KrunHolder, KrunWriteRecord, KrunStart, KrunBoot, KrunStop,
       KrunPoll, KrunDestroy, KrunRemove, KrunClean
<1>11. CASE Resume(p)
    <2>1. CASE stage[p] = "probe"
        BY <1>11, <2>1, ProbedCases
    <2>2. CASE stage[p] = "recheck"
        BY <1>11, <2>2 DEF Resume, Rechecked
    <2>3. CASE stage[p] = "stop"
        BY <1>11, <2>3 DEF Resume, StopSent
    <2>4. CASE stage[p] = "poll"
        BY <1>11, <2>4 DEF Resume, Polled
    <2>5. CASE stage[p] = "destroy"
        BY <1>11, <2>5 DEF Resume, Destroyed
    <2>6. CASE stage[p] = "verify"
        BY <1>11, <2>6 DEF Resume, Verified
    <2>7. CASE stage[p] = "list"
        BY <1>11, <2>7 DEF Resume, Listed
    <2>8. CASE stage[p] \notin {"probe", "recheck", "stop", "poll", "destroy",
                             "verify", "list"}
        BY <1>11, <2>8 DEF Resume
    <2>. QED BY <2>1, <2>2, <2>3, <2>4, <2>5, <2>6, <2>7, <2>8
<1>12. CASE RemoveStateDir(p)
    BY <1>12 DEF RemoveStateDir
<1>. QED BY <1>1, <1>2, <1>3, <1>4, <1>5, <1>6, <1>7, <1>8, <1>9, <1>10, <1>11,
            <1>12 DEF Step, LibvirtStep, HostStep

\* A domain begins to run only when a command boots it,
LEMMA RunsUnderStep ==
    ASSUME TypeOK, NEW p \in Procs, Issue(p) \/ Again(p) \/ Step(p) \/ GateExpires(p),
           lv.act # "running", pc[p] \notin {"boot", "injBoot"}
    PROVE  lv'.act # "running"
<1>. USE DEF TypeOK, WorldTypeOK, At, worldVars
<1>a. \A call \in LibvirtCalls \ {"boot"} :
         Succeeds(p, call) \/ Fails(p, call) => lv'.act # "running"
    <2>1. /\ Effect("shutdown").act # "running"
          /\ Effect("destroy").act # "running"
          /\ Effect("snapshotDelete").act # "running"
          /\ Effect("undefine").act # "running"
          /\ Effect("define").act # "running"
        BY DEF Effect, Settle, NoDomain, Domain
    <2>. QED BY <2>1 DEF Succeeds, Fails, LibvirtCalls
<1>. USE <1>a DEF LibvirtCalls, Domain, DirGone
<1>1. CASE Issue(p) \/ Again(p) \/ Prepare(p) \/ GateExpires(p)
    BY <1>1 DEF Issue, Again, Prepare, GateExpires
<1>2. CASE Connect(p) \/ Lookup(p) \/ ReadState(p) \/ ListDomains(p)
         \/ Close(p)
    BY <1>2 DEF Connect, Lookup, ReadState, ListDomains, Close, StateReads
<1>3. CASE GracefulState(p) \/ GracefulShutdown(p) \/ GracefulWait(p)
         \/ GracefulRecheck(p) \/ GracefulDestroy(p) \/ RemoveSnapshots(p)
         \/ Undefine(p)
    BY <1>3 DEF GracefulState, GracefulShutdown, GracefulWait, GracefulRecheck,
       GracefulDestroy, RemoveSnapshots, ListSnapshots, DeleteSnapshot, Undefine
<1>4. CASE StartState(p) \/ StopCall(p) \/ OldState(p) \/ OldDestroy(p)
         \/ OldUndefine(p) \/ Define(p) \/ Boot(p)
    BY <1>4 DEF StartState, StopCall, OldState, OldDestroy, OldUndefine,
       Define, Boot
<1>5. CASE InjectState(p) \/ InjectDestroy(p) \/ InjectWait(p)
         \/ InjectDefine(p) \/ InjectBoot(p)
    BY <1>5 DEF InjectState, InjectDestroy, InjectWait, InjectDefine,
       InjectBoot
<1>6. CASE Resume(p)
    <2>1. CASE stage[p] = "probe"
        BY <1>6, <2>1 DEF Resume, Probed
    <2>2. CASE stage[p] = "recheck"
        BY <1>6, <2>2 DEF Resume, Rechecked
    <2>3. CASE stage[p] = "stop"
        BY <1>6, <2>3 DEF Resume, StopSent
    <2>4. CASE stage[p] = "poll"
        BY <1>6, <2>4 DEF Resume, Polled
    <2>5. CASE stage[p] = "destroy"
        BY <1>6, <2>5 DEF Resume, Destroyed
    <2>6. CASE stage[p] = "verify"
        BY <1>6, <2>6 DEF Resume, Verified
    <2>7. CASE stage[p] = "list"
        BY <1>6, <2>7 DEF Resume, Listed
    <2>8. CASE stage[p] \notin {"probe", "recheck", "stop", "poll", "destroy",
                             "verify", "list"}
        BY <1>6, <2>8 DEF Resume
    <2>. QED BY <2>1, <2>2, <2>3, <2>4, <2>5, <2>6, <2>7, <2>8
<1>7. CASE RemoveStateDir(p)
    BY <1>7 DEF RemoveStateDir
<1>8. CASE HostStep(p)
    BY <1>8, HostSpares
<1>. QED BY <1>1, <1>8, <1>2, <1>3, <1>4, <1>5, <1>6, <1>7 DEF LibvirtStep, Step

\* and a container only when a command starts it.
LEMMA ContainerRunsUnderStep ==
    ASSUME TypeOK, NEW p \in Procs, Issue(p) \/ Again(p) \/ Step(p) \/ GateExpires(p),
           kr.cont # "running", pc[p] # "kboot"
    PROVE  kr'.cont # "running"
<1>. USE DEF TypeOK, WorldTypeOK, Krun, At, worldVars, DirGone, NoOtherThanQemu
<1>1. CASE Issue(p) \/ Again(p) \/ Prepare(p) \/ GateExpires(p)
    BY <1>1 DEF Issue, Again, Prepare, GateExpires
<1>2. CASE LibvirtStep(p)
    BY <1>2, LibvirtSpares DEF RemoveStateDir
<1>3. CASE QemuHolder(p) \/ QemuStoreCommand(p) \/ QemuLaunch(p)
         \/ QemuStart(p) \/ QemuStop(p) \/ QemuDestroy(p) \/ QemuRemoveDir(p)
    BY <1>3 DEF QemuHolder, QemuStoreCommand, QemuLaunch, QemuStart, QemuStop,
       QemuDestroy, QemuRemoveDir
<1>4. CASE KrunHolder(p) \/ KrunWriteRecord(p) \/ KrunStart(p) \/ KrunBoot(p)
         \/ KrunStop(p) \/ KrunPoll(p) \/ KrunDestroy(p) \/ KrunRemove(p)
         \/ KrunClean(p)
    BY <1>4 DEF KrunHolder, KrunWriteRecord, KrunStart, KrunBoot, KrunStop,
       KrunPoll, KrunDestroy, KrunRemove, KrunClean
<1>. QED BY <1>1, <1>2, <1>3, <1>4 DEF Step, HostStep

\* What is known of the domain and the container is true and stays true as long as
\* nobody starts the guest in between: one process runs all commands, or none of
\* them starts a guest.
LEMMA KnownKept ==
    ASSUME MaxFaults = 0, ~Pausable,
           (\A p, q \in Procs : p = q) \/ Kinds \cap Starters = {}
    PROVE  Spec => [](\A p \in Procs : KnowsRight(p))
<1>. DEFINE Inv == \A p \in Procs : KnowsRight(p)
            Known == /\ TypeOK /\ Steady
                     /\ \A p \in Procs : Connected(p)
                     /\ \A p \in Procs : Course(p)
<1>1. Init => Inv
    BY DEF Init, KnowsRight, KnownOff, KnownStopped, Stopped, At
<1>2. Known /\ Inv /\ [Next]_vars => Inv'
    <2> SUFFICES ASSUME Known, Inv, [Next]_vars, NEW q \in Procs
                 PROVE  /\ KnownOff(q)' => lv'.act # "running"
                        /\ KnownStopped(q)' => kr'.cont # "running"
        BY DEF KnowsRight
    <2>. USE DEF KnowsRight
    <2>1. CASE \E p \in Procs : Issue(p) \/ Again(p) \/ Step(p) \/ GateExpires(p)
        <3>1. PICK p \in Procs : Issue(p) \/ Again(p) \/ Step(p) \/ GateExpires(p)
            BY <2>1
        <3>2. CASE p = q
            <4>1. KnownOff(p) => pc[p] \notin {"boot", "injBoot"}
                BY DEF KnownOff, Stopped, At, Course
            <4>2. KnownStopped(p) => pc[p] # "kboot"
                BY DEF KnownStopped, Stopped, At
            <4>3. KnownOff(q)' => lv'.act # "running"
                BY <3>1, <3>2, <4>1, KnownOffStep, RunsUnderStep
            <4>4. KnownStopped(q)' => kr'.cont # "running"
                BY <3>1, <3>2, <4>2, KnownStoppedStep, ContainerRunsUnderStep
            <4>. QED BY <4>3, <4>4
        <3>3. CASE Kinds \cap Starters = {}
            <4>1. cmd[p].kind \notin Starters
                BY <3>3, CommandKind DEF Starters
            <4>2. pc[p] \notin {"boot", "injBoot", "kboot"}
                BY <4>1 DEF Course, Starters
            <4>3. KnownOff(q)' => lv'.act # "running"
                BY <3>1, <4>2, KnownOffStep, RunsUnderStep
            <4>4. KnownStopped(q)' => kr'.cont # "running"
                BY <3>1, <4>2, KnownStoppedStep, ContainerRunsUnderStep
            <4>. QED BY <4>3, <4>4
        <3>. QED BY <3>2, <3>3
    <2>2. CASE WorldNext /\ UNCHANGED localVars
        <3>1. lv.act # "running" => lv'.act # "running"
            <4>. USE DEF TypeOK, WorldTypeOK, Domain
            <4>1. Settle([lv EXCEPT !.act = "off", !.acpi = FALSE]).act = "off"
                BY DEF Settle, NoDomain
            <4>2. CASE DomainGuestStep
                BY <4>1, <4>2 DEF DomainGuestStep
            <4>3. CASE SnapshotTaken
                BY <4>3 DEF SnapshotTaken
            <4>4. ~LateCallEnds /\ ~DomainPauses
                BY DEF Steady, LateCallEnds, DomainPauses
            <4>. QED BY <2>2, <4>2, <4>3, <4>4 DEF WorldNext, DaemonFails, DaemonRecovers,
                     EngineFails, EngineRecovers, QemuGuestStep, KrunGuestStep
        <3>2. kr.cont # "running" => kr'.cont # "running"
            BY <2>2 DEF WorldNext, DaemonFails, DaemonRecovers, LateCallEnds, EngineFails,
               EngineRecovers, DomainGuestStep, DomainPauses, SnapshotTaken, QemuGuestStep,
               KrunGuestStep
        <3>3. (KnownOff(q)' => KnownOff(q)) /\ (KnownStopped(q)' => KnownStopped(q))
            BY <2>2 DEF localVars, KnownOff, KnownStopped, Stopped, At
        <3>. QED BY <3>1, <3>2, <3>3
    <2>3. CASE UNCHANGED vars
        BY <2>3 DEF vars, worldVars, localVars, KnownOff, KnownStopped, Stopped, At
    <2>. QED BY <2>1, <2>2, <2>3 DEF Next
<1>3. Spec => []Known
    <2>1. Spec => [](Steady /\ \A p \in Procs : Connected(p))
        BY SteadyKept
    <2>. QED BY <2>1, TypeCorrect, CourseKept, PTL
<1>. QED BY <1>1, <1>2, <1>3, PTL DEF Spec

\* Without outages a libvirt or krun stop that reports "stopped" has seen the guest
\* leave the running state, and it stays so until a command starts it again.
THEOREM StopsAreVerified ==
    ASSUME MaxFaults = 0, ~Pausable,
           (\A p, q \in Procs : p = q) \/ Kinds \cap Starters = {}
    PROVE  Spec => []StopVerified
<1>1. (\A p \in Procs : KnowsRight(p)) => StopVerified
    BY DEF StopVerified, KnowsRight, KnownOff, KnownStopped
<1>. QED BY <1>1, KnownKept, PTL

\* Without outages the orphan sweep never touches a running domain: what the listing
\* read as inactive is inactive when the sweep destroys it.
THEOREM SweepSpares ==
    ASSUME MaxFaults = 0, ~Pausable,
           (\A p, q \in Procs : p = q) \/ Kinds \cap Starters = {}
    PROVE  Spec => SweepSparesRunning
<1>. DEFINE Inv == \A p \in Procs : KnowsRight(p)
<1>1. Inv /\ [Next]_vars =>
         [\A p \in Procs : stage[p] = "sweep" /\ pc'[p] # pc[p] /\ lv.act = "running"
                             => lv' = lv]_vars
    BY DEF KnowsRight, KnownOff
<1>. QED BY <1>1, KnownKept, PTL DEF Spec, SweepSparesRunning

=============================================================================
