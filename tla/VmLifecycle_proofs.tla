------------------------- MODULE VmLifecycle_proofs -------------------------
(***************************************************************************)
(* Theorems about VmLifecycle, for any set of processes, backends and      *)
(* commands and any number of outages.                                     *)
(***************************************************************************)
EXTENDS VmLifecycle, TLAPS

----------------------------------------------------------------------------
(* What the building blocks of the actions preserve.                       *)

\* What a libvirt call leaves behind is a domain again.
LEMMA EffectType ==
    ASSUME lv \in Domain, NEW call \in LibvirtCalls
    PROVE  Effect(call) \in Domain
BY DEF Effect, Settle, NoDomain, Domain, LibvirtCalls

\* Moving on without a report keeps a process in type.
LEMMA MoveType ==
    ASSUME LocalTypeOK, NEW p \in Procs, NEW l \in Labels, Move(p, l)
    PROVE  LocalTypeOK'
BY DEF LocalTypeOK, Move, Goto

\* So does an answer of the plugin to the command,
LEMMA AnswerType ==
    ASSUME LocalTypeOK, NEW p \in Procs, NEW r \in Replies, Answer(p, r)
    PROVE  LocalTypeOK'
BY DEF LocalTypeOK, Answer, Goto, Reply, Labels

\* the report of the command to its caller,
LEMMA ReportType ==
    ASSUME LocalTypeOK, NEW p \in Procs, NEW r \in Outcomes, Report(p, r)
    PROVE  LocalTypeOK'
BY DEF LocalTypeOK, Report, Goto, Labels

\* and a call of the command into the plugin.
LEMMA CallLocalType ==
    ASSUME LocalTypeOK, NEW p \in Procs, NEW s \in Stages, Call(p, s)
    PROVE  LocalTypeOK'
BY DEF LocalTypeOK, Call, Open, Goto, Labels

\* So does finding the backend that holds the instance.
LEMMA ClaimType ==
    ASSUME LocalTypeOK, NEW p \in Procs, NEW l \in Labels,
           NEW be \in {"libvirt", "qemu", "krun"}, Claim(p, be, l)
    PROVE  LocalTypeOK'
BY DEF LocalTypeOK, Claim, Goto

\* A libvirt call that succeeds or fails keeps the world in type.
LEMMA CallWorldType ==
    ASSUME WorldTypeOK, conns \subseteq Procs, NEW p \in Procs,
           NEW call \in LibvirtCalls,
           Succeeds(p, call) \/ Fails(p, call), NoOtherWorld
    PROVE  WorldTypeOK' /\ conns' \subseteq Procs
<1>1. lv' \in Domain
    BY EffectType DEF Succeeds, Fails, WorldTypeOK
<1>2. late' \subseteq LibvirtCalls
    BY DEF Succeeds, Fails, WorldTypeOK
<1>. QED BY <1>1, <1>2 DEF WorldTypeOK, NoOtherWorld

\* So does the removal of the state directory,
LEMMA DirGoneType ==
    ASSUME WorldTypeOK, DirGone
    PROVE  WorldTypeOK' /\ conns' = conns
BY DEF WorldTypeOK, DirGone, Qemu, Krun

\* and every step of the daemon, the engine and the guests.
LEMMA WorldNextType ==
    ASSUME WorldTypeOK, conns \subseteq Procs, WorldNext
    PROVE  WorldTypeOK' /\ conns' \subseteq Procs
<1>1. CASE DaemonFails
    BY <1>1, WorldAssumption DEF WorldTypeOK, DaemonFails
<1>2. CASE DaemonRecovers
    BY <1>2 DEF WorldTypeOK, DaemonRecovers
<1>3. CASE LateCallEnds
    <2>1. PICK call \in late : /\ late' = late \ {call}
                               /\ lv' = Effect(call) \/ lv' = lv
        BY <1>3 DEF LateCallEnds
    <2>2. lv' \in Domain
        BY <2>1, EffectType DEF WorldTypeOK
    <2>. QED BY <1>3, <2>1, <2>2 DEF WorldTypeOK, LateCallEnds
<1>4. CASE EngineFails
    BY <1>4, WorldAssumption DEF WorldTypeOK, EngineFails
<1>5. CASE EngineRecovers
    BY <1>5 DEF WorldTypeOK, EngineRecovers
<1>6. CASE DomainGuestStep
    <2>1. [lv EXCEPT !.act = "off", !.acpi = FALSE] \in Domain
        BY DEF WorldTypeOK, Domain
    <2>2. \A d \in Domain : Settle(d) \in Domain
        BY DEF Settle, NoDomain, Domain
    <2>3. lv' \in Domain
        BY <1>6, <2>1, <2>2 DEF WorldTypeOK, DomainGuestStep, Domain
    <2>. QED BY <1>6, <2>3 DEF WorldTypeOK, DomainGuestStep
<1>7. CASE DomainPauses
    BY <1>7 DEF WorldTypeOK, DomainPauses, Domain
<1>8. CASE SnapshotTaken
    BY <1>8 DEF WorldTypeOK, SnapshotTaken, Domain
<1>9. CASE QemuGuestStep
    BY <1>9 DEF WorldTypeOK, QemuGuestStep, Qemu
<1>10. CASE KrunGuestStep
    BY <1>10 DEF WorldTypeOK, KrunGuestStep, Krun
<1>. QED BY <1>1, <1>2, <1>3, <1>4, <1>5, <1>6, <1>7, <1>8, <1>9, <1>10 DEF WorldNext

\* A step of a command on the libvirt backend keeps all types.
LEMMA LibvirtStepType ==
    ASSUME TypeOK, NEW p \in Procs, LibvirtStep(p)
    PROVE  TypeOK'
<1>. USE DEF TypeOK
<1>1. UNCHANGED worldVars => WorldTypeOK' /\ conns' \subseteq Procs
    BY DEF worldVars, WorldTypeOK
<1>2. CASE Connect(p)
    <2>1. WorldTypeOK' /\ conns' \subseteq Procs
        BY <1>2 DEF Connect, WorldTypeOK
    <2>2. CASE \E l \in Labels : Move(p, l)
        BY <2>1, <2>2, MoveType
    <2>3. CASE Goto(p, "back") /\ (\E r \in Replies : Reply(p, r)) /\ UNCHANGED <<cmd, stage, via, out, gate>>
        BY <2>1, <2>3 DEF Goto, Reply, LocalTypeOK, Labels
    <2>. QED BY <1>2, <2>2, <2>3 DEF Connect, Labels, Replies
<1>3. CASE Lookup(p)
    <2>1. (\E l \in Labels : Move(p, l)) \/ (\E r \in Replies : Answer(p, r))
        BY <1>3 DEF Labels, Lookup, Replies
    <2>. QED BY <1>3, <1>1, <2>1, MoveType, AnswerType DEF Lookup
<1>4. CASE ReadState(p)
    <2>1. (\E r \in Replies : Answer(p, r))
        BY <1>4 DEF ReadState, Replies
    <2>. QED BY <1>4, <1>1, <2>1, AnswerType DEF ReadState
<1>5. CASE ListDomains(p)
    <2>1. (\E l \in Labels : Move(p, l)) \/ (\E r \in Replies : Answer(p, r))
        BY <1>5 DEF Labels, ListDomains, Replies
    <2>. QED BY <1>5, <1>1, <2>1, MoveType, AnswerType DEF ListDomains
<1>6. CASE Close(p)
    <2>1. WorldTypeOK' /\ conns' \subseteq Procs
        BY <1>6 DEF Close, WorldTypeOK
    <2>. QED BY <1>6, <2>1, MoveType DEF Close, Labels
<1>7. CASE GracefulState(p)
    <2>1. (\E l \in Labels : Move(p, l))
        BY <1>7 DEF GracefulState, Labels
    <2>. QED BY <1>7, <1>1, <2>1, MoveType DEF GracefulState
<1>8. CASE GracefulShutdown(p)
    <2>1. WorldTypeOK' /\ conns' \subseteq Procs
        BY <1>8, CallWorldType DEF GracefulShutdown, LibvirtCalls
    <2>2. LocalTypeOK'
        BY <1>8 DEF GracefulShutdown, LocalTypeOK, Goto, Labels
    <2>. QED BY <2>1, <2>2
<1>9. CASE GracefulWait(p)
    <2>1. (\E l \in Labels : Move(p, l))
        BY <1>9 DEF GracefulWait, Labels
    <2>. QED BY <1>9, <1>1, <2>1, MoveType DEF GracefulWait
<1>10. CASE GracefulRecheck(p)
    <2>1. (\E l \in Labels : Move(p, l))
        BY <1>10 DEF GracefulRecheck, Labels
    <2>. QED BY <1>10, <1>1, <2>1, MoveType DEF GracefulRecheck
<1>11. CASE GracefulDestroy(p)
    <2>1. (\E l \in Labels : Move(p, l))
        BY <1>11 DEF GracefulDestroy, Labels
    <2>2. \E call \in LibvirtCalls : Succeeds(p, call) \/ Fails(p, call)
        BY <1>11 DEF GracefulDestroy, LibvirtCalls
    <2>3. NoOtherWorld
        BY <1>11 DEF GracefulDestroy
    <2>. QED BY <2>1, <2>2, <2>3, CallWorldType, MoveType
<1>12. CASE RemoveSnapshots(p)
    <2>1. CASE ListSnapshots(p)
        <3>1. (\E l \in Labels : Move(p, l))
            BY <2>1 DEF ListSnapshots, Labels
        <3>. QED BY <2>1, <1>1, <3>1, MoveType DEF ListSnapshots
    <2>2. CASE DeleteSnapshot(p)
        <3>1. (\E l \in Labels : Move(p, l))
            BY <2>2 DEF DeleteSnapshot, Labels
        <3>2. \E call \in LibvirtCalls : Succeeds(p, call) \/ Fails(p, call)
            BY <2>2 DEF DeleteSnapshot, LibvirtCalls
        <3>3. NoOtherWorld
            BY <2>2 DEF DeleteSnapshot
        <3>. QED BY <3>1, <3>2, <3>3, CallWorldType, MoveType
    <2>. QED BY <1>12, <2>1, <2>2 DEF RemoveSnapshots
<1>13. CASE Undefine(p)
    <2>1. (\E r \in Replies : Answer(p, r))
        BY <1>13 DEF Replies, Undefine
    <2>2. \E call \in LibvirtCalls : Succeeds(p, call) \/ Fails(p, call)
        BY <1>13 DEF Undefine, LibvirtCalls
    <2>3. NoOtherWorld
        BY <1>13 DEF Undefine
    <2>. QED BY <2>1, <2>2, <2>3, CallWorldType, AnswerType
<1>14. CASE StartState(p)
    <2>1. (\E l \in Labels : Move(p, l)) \/ (\E r \in Replies : Answer(p, r))
        BY <1>14 DEF Labels, Replies, StartState
    <2>. QED BY <1>14, <1>1, <2>1, MoveType, AnswerType DEF StartState
<1>15. CASE StopCall(p)
    <2>1. (\E r \in Replies : Answer(p, r))
        BY <1>15 DEF Replies, StopCall
    <2>2. \E call \in LibvirtCalls : Succeeds(p, call) \/ Fails(p, call)
        BY <1>15 DEF StopCall, LibvirtCalls
    <2>3. NoOtherWorld
        BY <1>15 DEF StopCall
    <2>. QED BY <2>1, <2>2, <2>3, CallWorldType, AnswerType
<1>16. CASE OldState(p)
    <2>1. (\E l \in Labels : Move(p, l))
        BY <1>16 DEF Labels, OldState
    <2>. QED BY <1>16, <1>1, <2>1, MoveType DEF OldState
<1>17. CASE OldDestroy(p)
    <2>1. (\E l \in Labels : Move(p, l))
        BY <1>17 DEF Labels, OldDestroy
    <2>2. \E call \in LibvirtCalls : Succeeds(p, call) \/ Fails(p, call)
        BY <1>17 DEF OldDestroy, LibvirtCalls
    <2>3. NoOtherWorld
        BY <1>17 DEF OldDestroy
    <2>. QED BY <2>1, <2>2, <2>3, CallWorldType, MoveType
<1>18. CASE OldUndefine(p)
    <2>1. (\E l \in Labels : Move(p, l))
        BY <1>18 DEF Labels, OldUndefine
    <2>2. \E call \in LibvirtCalls : Succeeds(p, call) \/ Fails(p, call)
        BY <1>18 DEF OldUndefine, LibvirtCalls
    <2>3. NoOtherWorld
        BY <1>18 DEF OldUndefine
    <2>. QED BY <2>1, <2>2, <2>3, CallWorldType, MoveType
<1>19. CASE Define(p)
    <2>1. (\E l \in Labels : Move(p, l)) \/ (\E r \in Replies : Answer(p, r))
        BY <1>19 DEF Define, Labels, Replies
    <2>2. \E call \in LibvirtCalls : Succeeds(p, call) \/ Fails(p, call)
        BY <1>19 DEF Define, LibvirtCalls
    <2>3. NoOtherWorld
        BY <1>19 DEF Define
    <2>. QED BY <2>1, <2>2, <2>3, CallWorldType, MoveType, AnswerType
<1>20. CASE Boot(p)
    <2>1. (\E r \in Replies : Answer(p, r)) \/ (\E s \in Stages : Call(p, s))
        BY <1>20 DEF Boot, Replies, Stages
    <2>2. \E call \in LibvirtCalls : Succeeds(p, call) \/ Fails(p, call)
        BY <1>20 DEF Boot, LibvirtCalls
    <2>3. NoOtherWorld
        BY <1>20 DEF Boot
    <2>. QED BY <2>1, <2>2, <2>3, CallWorldType, AnswerType, CallLocalType
<1>21. CASE InjectState(p)
    <2>1. CASE Answer(p, "error")
        BY <1>21, <1>1, <2>1, AnswerType DEF InjectState, Replies
    <2>2. CASE ~Answer(p, "error")
        BY <1>21, <1>1, <2>2 DEF InjectState, LocalTypeOK, Goto, Reply, Labels, Replies
    <2>. QED BY <2>1, <2>2
<1>22. CASE InjectDestroy(p)
    <2>1. (\E l \in Labels : Move(p, l)) \/ (\E r \in Replies : Answer(p, r))
        BY <1>22 DEF InjectDestroy, Labels, Replies
    <2>2. \E call \in LibvirtCalls : Succeeds(p, call) \/ Fails(p, call)
        BY <1>22 DEF InjectDestroy, LibvirtCalls
    <2>3. NoOtherWorld
        BY <1>22 DEF InjectDestroy
    <2>. QED BY <2>1, <2>2, <2>3, CallWorldType, MoveType, AnswerType
<1>23. CASE InjectWait(p)
    <2>1. (\E l \in Labels : Move(p, l))
        BY <1>23 DEF InjectWait, Labels
    <2>. QED BY <1>23, <1>1, <2>1, MoveType DEF InjectWait
<1>24. CASE InjectDefine(p)
    <2>1. (\E l \in Labels : Move(p, l)) \/ (\E r \in Replies : Answer(p, r))
        BY <1>24 DEF InjectDefine, Labels, Replies
    <2>2. \E call \in LibvirtCalls : Succeeds(p, call) \/ Fails(p, call)
        BY <1>24 DEF InjectDefine, LibvirtCalls
    <2>3. NoOtherWorld
        BY <1>24 DEF InjectDefine
    <2>. QED BY <2>1, <2>2, <2>3, CallWorldType, MoveType, AnswerType
<1>25. CASE InjectBoot(p)
    <2>1. (\E r \in Replies : Answer(p, r))
        BY <1>25 DEF InjectBoot, Replies
    <2>2. \E call \in LibvirtCalls : Succeeds(p, call) \/ Fails(p, call)
        BY <1>25 DEF InjectBoot, LibvirtCalls
    <2>3. NoOtherWorld
        BY <1>25 DEF InjectBoot
    <2>. QED BY <2>1, <2>2, <2>3, CallWorldType, AnswerType
<1>26. CASE Resume(p)
    <2>. USE DEF Outcomes, Labels, Stages
    <2>1. CASE Probed(p)
        BY <1>26, <1>1, <2>1, MoveType DEF Resume, Probed, LocalTypeOK, Goto
    <2>2. CASE Rechecked(p)
        BY <1>26, <1>1, <2>2, CallLocalType, ReportType DEF Resume, Rechecked
    <2>3. CASE StopSent(p)
        BY <1>26, <1>1, <2>3, CallLocalType, ReportType DEF Resume, StopSent
    <2>4. CASE Polled(p)
        <3>1. CASE \E r \in Outcomes : Report(p, r)
            BY <1>26, <1>1, <3>1, ReportType DEF Resume
        <3>2. CASE Open(p, "poll") /\ UNCHANGED gate
            BY <1>26, <1>1, <3>2 DEF Resume, Open, Goto, LocalTypeOK
        <3>. QED BY <2>4, <3>1, <3>2 DEF Polled
    <2>5. CASE Destroyed(p)
        BY <1>26, <1>1, <2>5, CallLocalType, ReportType DEF Resume, Destroyed
    <2>6. CASE Verified(p)
        BY <1>26, <1>1, <2>6, MoveType, ReportType DEF Resume, Verified
    <2>7. CASE Listed(p)
        BY <1>26, <1>1, <2>7, CallLocalType, ReportType DEF Resume, Listed
    <2>8. CASE \E r \in Outcomes : Report(p, r)
        BY <1>26, <1>1, <2>8, ReportType DEF Resume
    <2>. QED BY <1>26, <2>1, <2>2, <2>3, <2>4, <2>5, <2>6, <2>7, <2>8 DEF Resume
<1>27. CASE RemoveStateDir(p)
    BY <1>27, DirGoneType, ReportType DEF RemoveStateDir, Outcomes
<1>. QED BY <1>2, <1>3, <1>4, <1>5, <1>6, <1>7, <1>8, <1>9, <1>10, <1>11, <1>12, <1>13, <1>14, <1>15, <1>16, <1>17, <1>18, <1>19, <1>20, <1>21, <1>22, <1>23, <1>24, <1>25, <1>26, <1>27 DEF LibvirtStep

\* So does one on the qemu or the krun backend,
LEMMA HostStepType ==
    ASSUME TypeOK, NEW p \in Procs, HostStep(p)
    PROVE  TypeOK'
<1>. USE DEF TypeOK
<1>1. UNCHANGED worldVars => WorldTypeOK' /\ conns' \subseteq Procs
    BY DEF worldVars, WorldTypeOK
<1>2. qm' \in Qemu /\ NoOtherThanQemu => WorldTypeOK' /\ conns' \subseteq Procs
    BY DEF NoOtherThanQemu, WorldTypeOK
<1>3. kr' \in Krun /\ NoOtherThanKrun => WorldTypeOK' /\ conns' \subseteq Procs
    BY DEF NoOtherThanKrun, WorldTypeOK
<1>4. \A how \in {"acpi", "quitting"} : Signal(how) => qm' \in Qemu
    BY DEF Signal, WorldTypeOK, Qemu
<1>5. qm \in Qemu /\ kr \in Krun
    BY DEF WorldTypeOK
<1>. USE DEF Outcomes, Labels, Replies
<1>6. CASE QemuHolder(p)
    BY <1>6, <1>1, MoveType, ClaimType DEF QemuHolder
<1>7. CASE QemuStoreCommand(p)
    BY <1>7, <1>2, <1>5, MoveType, ReportType DEF QemuStoreCommand, Qemu
<1>8. CASE QemuLaunch(p)
    BY <1>8, <1>2, <1>5, ReportType DEF QemuLaunch, Qemu
<1>9. CASE QemuStart(p)
    BY <1>9, <1>1, MoveType, ReportType DEF QemuStart
<1>10. CASE QemuStop(p)
    BY <1>10, <1>2, <1>4, ReportType DEF QemuStop
<1>11. CASE QemuDestroy(p)
    BY <1>11, <1>2, <1>4, MoveType DEF QemuDestroy
<1>12. CASE QemuRemoveDir(p)
    BY <1>12, DirGoneType, ReportType DEF QemuRemoveDir
<1>13. CASE KrunHolder(p)
    BY <1>13, <1>1, ReportType, ClaimType DEF KrunHolder
<1>14. CASE KrunWriteRecord(p)
    BY <1>14, <1>5 DEF KrunWriteRecord, Krun, WorldTypeOK, LocalTypeOK, Goto, Reply
<1>15. CASE KrunStart(p)
    BY <1>15, <1>1, ReportType DEF KrunStart, LocalTypeOK, Goto, Reply
<1>16. CASE KrunBoot(p)
    BY <1>16, <1>3, <1>5, ReportType DEF KrunBoot, Krun
<1>17. CASE KrunStop(p)
    <2>1. kr' \in Krun
        BY <1>17, <1>5 DEF KrunStop, Krun
    <2>2. CASE \E r \in Outcomes : Report(p, r)
        BY <1>17, <1>3, <2>1, <2>2, ReportType DEF KrunStop
    <2>3. CASE Goto(p, "kpoll") /\ gate' = [gate EXCEPT ![p] = FALSE]
               /\ UNCHANGED <<cmd, stage, reply, via, out>>
        BY <1>17, <1>3, <2>1, <2>3 DEF KrunStop, Goto, LocalTypeOK
    <2>. QED BY <1>17, <2>2, <2>3 DEF KrunStop
<1>18. CASE KrunPoll(p)
    BY <1>18, <1>1, ReportType DEF KrunPoll
<1>19. CASE KrunDestroy(p)
    BY <1>19, <1>1, MoveType, ReportType DEF KrunDestroy
<1>20. CASE KrunRemove(p)
    BY <1>20, <1>3, <1>5, MoveType, ReportType DEF KrunRemove, Krun
<1>21. CASE KrunClean(p)
    <2>1. WorldTypeOK' /\ conns' \subseteq Procs
        BY <1>21, <1>3, <1>5, DirGoneType DEF KrunClean, Krun
    <2>. QED BY <1>21, <2>1, ReportType DEF KrunClean
<1>. QED BY <1>6, <1>7, <1>8, <1>9, <1>10, <1>11, <1>12, <1>13, <1>14, <1>15,
            <1>16, <1>17, <1>18, <1>19, <1>20, <1>21 DEF HostStep

\* and the steps that begin, repeat or give up a command.
LEMMA CommandStepType ==
    ASSUME TypeOK, NEW p \in Procs,
           Issue(p) \/ Again(p) \/ Prepare(p) \/ GateExpires(p)
    PROVE  TypeOK'
<1>. USE DEF TypeOK
<1>1. UNCHANGED worldVars => WorldTypeOK' /\ conns' \subseteq Procs
    BY DEF worldVars, WorldTypeOK
<1>2. CASE Issue(p)
    <2>1. \E c \in Commands : cmd' = [cmd EXCEPT ![p] = c]
        BY <1>2 DEF Issue
    <2>2. \E l \in Labels : Goto(p, l)
        BY <1>2 DEF Issue, Labels
    <2>3. stage' = stage \/ \E s \in Stages : stage' = [stage EXCEPT ![p] = s]
        BY <1>2 DEF Issue, Stages
    <2>. QED BY <1>1, <1>2, <2>1, <2>2, <2>3 DEF Issue, LocalTypeOK, Goto
<1>3. CASE Again(p)
    BY <1>1, <1>3 DEF Again, LocalTypeOK, Goto, Labels, Stages, Replies, Outcomes
<1>4. CASE Prepare(p)
    <2>1. WorldTypeOK' /\ conns' \subseteq Procs
        BY <1>4 DEF Prepare, WorldTypeOK
    <2>2. CASE \E l \in Labels : Move(p, l)
        BY <2>1, <2>2, MoveType
    <2>3. CASE \E s \in Stages : Call(p, s)
        BY <2>1, <2>3, CallLocalType
    <2>4. CASE cmd[p].be = "libvirt"
        BY <1>4, <2>3, <2>4 DEF Prepare, Stages
    <2>5. CASE cmd[p].be = "qemu"
        BY <1>4, <2>2, <2>5 DEF Prepare, Labels
    <2>6. CASE ~(cmd[p].be = "libvirt") /\ ~(cmd[p].be = "qemu")
        BY <1>4, <2>2, <2>6 DEF Prepare, Labels
    <2>. QED BY <2>4, <2>5, <2>6
<1>5. CASE GateExpires(p)
    BY <1>1, <1>5 DEF GateExpires, LocalTypeOK
<1>. QED BY <1>2, <1>3, <1>4, <1>5

\* The state of the system is well typed in every behaviour.
THEOREM TypeCorrect == Spec => []TypeOK
<1>1. Init => TypeOK
    <2> SUFFICES ASSUME Init PROVE TypeOK
        OBVIOUS
    <2>1. lv \in Domain
        <3>1. lv = NoDomain \/ \E a \in {"off", "running"} :
                                    lv = [NoDomain EXCEPT !.def = TRUE, !.act = a]
            BY DEF Init, WorldInit
        <3>2. NoDomain \in Domain
            BY DEF NoDomain, Domain
        <3>3. \A a \in {"off", "running"} :
                 [NoDomain EXCEPT !.def = TRUE, !.act = a] \in Domain
            BY <3>2 DEF Domain
        <3>. QED BY <3>1, <3>2, <3>3
    <2>2. WorldTypeOK
        <3>1. faults \in 0..MaxFaults
            BY WorldAssumption DEF Init, WorldInit
        <3>2. dir \in BOOLEAN
            BY DEF Init, WorldInit
        <3>3. qm \in Qemu /\ kr \in Krun
            BY DEF Init, WorldInit, Qemu, Krun, NoQemu, NoKrun
        <3>. QED BY <2>1, <3>1, <3>2, <3>3 DEF Init, WorldInit, WorldTypeOK
    <2>3. LocalTypeOK
        BY DEF Init, LocalTypeOK, Labels, Stages, Replies, Outcomes
    <2>. QED BY <2>2, <2>3 DEF TypeOK, Init, WorldInit
<1>2. TypeOK /\ [Next]_vars => TypeOK'
    <2> SUFFICES ASSUME TypeOK, [Next]_vars PROVE TypeOK'
        OBVIOUS
    <2>1. CASE \E p \in Procs : Issue(p) \/ Again(p) \/ Step(p) \/ GateExpires(p)
        BY <2>1, CommandStepType, LibvirtStepType, HostStepType DEF Step
    <2>2. CASE WorldNext /\ UNCHANGED localVars
        BY <2>2, WorldNextType DEF TypeOK, LocalTypeOK, localVars
    <2>3. CASE UNCHANGED vars
        BY <2>3 DEF vars, worldVars, localVars, TypeOK, WorldTypeOK, LocalTypeOK
    <2>. QED BY <2>1, <2>2, <2>3 DEF Next
<1>. QED BY <1>1, <1>2, PTL DEF Spec

----------------------------------------------------------------------------
(* The teardown: what a destroy that reported "torn" has learnt, and that   *)
(* it stays true.                                                          *)

\* Where a process can report a libvirt teardown, and what it knows there.
TeardownInv(p) ==
    /\ stage[p] = "verify" /\ pc[p] \in {"close", "back"} =>
          reply[p] \in {"running", "inactive", "absent", "lost"}
    /\ stage[p] = "verify" =>
          pc[p] \in {"connect", "lookup", "state", "close", "back", "rmdir", "done"}
    /\ pc[p] = "rmdir" => stage[p] = "verify" /\ reply[p] \in {"absent", "lost"}
    /\ pc[p] \in {"qdestroy", "qremove"} => via[p] = "qemu"
    /\ pc[p] \in {"kdestroy", "kremove", "kclean"} => via[p] = "krun"
    /\ out[p] # "none" => pc[p] = "done"
    /\ out[p] = "torn" /\ via[p] = "libvirt" =>
          stage[p] = "verify" /\ reply[p] \in {"absent", "lost"}

\* No process disturbs the record of a teardown, its own or another's.
LEMMA TeardownInvStep ==
    ASSUME TypeOK, NEW p \in Procs, NEW q \in Procs, TeardownInv(q),
           Issue(p) \/ Again(p) \/ Step(p) \/ GateExpires(p)
    PROVE  TeardownInv(q)'
<1>. USE DEF TypeOK, LocalTypeOK, TeardownInv, At, Move, Goto, Answer, Reply, Report,
       Call, Open, Claim, Exists
<1>1. CASE Issue(p)
    BY <1>1 DEF Issue, Commands
<1>2. CASE Again(p)
    BY <1>2 DEF Again, NoCommand
<1>3. CASE Prepare(p)
    BY <1>3 DEF Prepare
<1>4. CASE GateExpires(p)
    BY <1>4 DEF GateExpires
<1>5. CASE Connect(p)
    BY <1>5 DEF Connect, StateReads
<1>6. CASE Lookup(p)
    BY <1>6 DEF Lookup, StateReads
<1>7. CASE ReadState(p)
    BY <1>7 DEF ReadState
<1>8. CASE ListDomains(p)
    BY <1>8 DEF ListDomains
<1>9. CASE Close(p)
    BY <1>9 DEF Close
<1>10. CASE GracefulState(p)
    BY <1>10 DEF GracefulState
<1>11. CASE GracefulShutdown(p)
    BY <1>11 DEF GracefulShutdown
<1>12. CASE GracefulWait(p)
    BY <1>12 DEF GracefulWait
<1>13. CASE GracefulRecheck(p)
    BY <1>13 DEF GracefulRecheck
<1>14. CASE GracefulDestroy(p)
    BY <1>14 DEF GracefulDestroy
<1>15. CASE RemoveSnapshots(p)
    BY <1>15 DEF RemoveSnapshots, ListSnapshots, DeleteSnapshot
<1>16. CASE Undefine(p)
    BY <1>16 DEF Undefine
<1>17. CASE StartState(p)
    BY <1>17 DEF StartState
<1>18. CASE StopCall(p)
    BY <1>18 DEF StopCall
<1>19. CASE OldState(p)
    BY <1>19 DEF OldState
<1>20. CASE OldDestroy(p)
    BY <1>20 DEF OldDestroy
<1>21. CASE OldUndefine(p)
    BY <1>21 DEF OldUndefine
<1>22. CASE Define(p)
    BY <1>22 DEF Define
<1>23. CASE Boot(p)
    BY <1>23 DEF Boot
<1>24. CASE InjectState(p)
    BY <1>24 DEF InjectState
<1>25. CASE InjectDestroy(p)
    BY <1>25 DEF InjectDestroy
<1>26. CASE InjectWait(p)
    BY <1>26 DEF InjectWait
<1>27. CASE InjectDefine(p)
    BY <1>27 DEF InjectDefine
<1>28. CASE InjectBoot(p)
    BY <1>28 DEF InjectBoot
<1>29. CASE Resume(p)
    <2>1. CASE stage[p] = "probe"
        BY <1>29, <2>1 DEF Resume, Probed
    <2>2. CASE stage[p] = "recheck"
        BY <1>29, <2>2 DEF Resume, Rechecked
    <2>3. CASE stage[p] = "stop"
        BY <1>29, <2>3 DEF Resume, StopSent
    <2>4. CASE stage[p] = "poll"
        BY <1>29, <2>4 DEF Resume, Polled
    <2>5. CASE stage[p] = "destroy"
        BY <1>29, <2>5 DEF Resume, Destroyed
    <2>6. CASE stage[p] = "verify"
        BY <1>29, <2>6 DEF Resume, Verified
    <2>7. CASE stage[p] = "list"
        BY <1>29, <2>7 DEF Resume, Listed
    <2>8. CASE stage[p] \notin {"probe", "recheck", "stop", "poll", "destroy",
                             "verify", "list"}
        BY <1>29, <2>8 DEF Resume
    <2>. QED BY <1>29, <2>1, <2>2, <2>3, <2>4, <2>5, <2>6, <2>7, <2>8 DEF Resume
<1>30. CASE RemoveStateDir(p)
    BY <1>30 DEF RemoveStateDir
<1>31. CASE QemuHolder(p)
    BY <1>31 DEF QemuHolder
<1>32. CASE QemuStoreCommand(p)
    BY <1>32 DEF QemuStoreCommand
<1>33. CASE QemuLaunch(p)
    BY <1>33 DEF QemuLaunch
<1>34. CASE QemuStart(p)
    BY <1>34 DEF QemuStart
<1>35. CASE QemuStop(p)
    BY <1>35 DEF QemuStop
<1>36. CASE QemuDestroy(p)
    BY <1>36 DEF QemuDestroy
<1>37. CASE QemuRemoveDir(p)
    BY <1>37 DEF QemuRemoveDir
<1>38. CASE KrunHolder(p)
    BY <1>38 DEF KrunHolder
<1>39. CASE KrunWriteRecord(p)
    BY <1>39 DEF KrunWriteRecord
<1>40. CASE KrunStart(p)
    BY <1>40 DEF KrunStart
<1>41. CASE KrunBoot(p)
    BY <1>41 DEF KrunBoot
<1>42. CASE KrunStop(p)
    BY <1>42 DEF KrunStop
<1>43. CASE KrunPoll(p)
    BY <1>43 DEF KrunPoll
<1>44. CASE KrunDestroy(p)
    BY <1>44 DEF KrunDestroy
<1>45. CASE KrunRemove(p)
    BY <1>45 DEF KrunRemove
<1>46. CASE KrunClean(p)
    BY <1>46 DEF KrunClean
<1>. QED BY <1>1, <1>2, <1>3, <1>4, <1>5, <1>6, <1>7, <1>8, <1>9,
            <1>10, <1>11, <1>12, <1>13, <1>14, <1>15, <1>16, <1>17, <1>18,
            <1>19, <1>20, <1>21, <1>22, <1>23, <1>24, <1>25, <1>26, <1>27,
            <1>28, <1>29, <1>30, <1>31, <1>32, <1>33, <1>34, <1>35, <1>36,
            <1>37, <1>38, <1>39, <1>40, <1>41, <1>42, <1>43, <1>44, <1>45,
            <1>46 DEF Step, LibvirtStep, HostStep

\* The reply on which a teardown is reported.
SawNoDomain(p) ==
    /\ stage[p] = "verify" /\ reply[p] = "absent"
    /\ pc[p] \in {"close", "back", "rmdir", "done"}

\* It is learnt only by a lookup that finds no domain.
LEMMA SawNoDomainStep ==
    ASSUME TypeOK, NEW p \in Procs, NEW q \in Procs, TeardownInv(p),
           Issue(p) \/ Again(p) \/ Step(p) \/ GateExpires(p), SawNoDomain(q)'
    PROVE  SawNoDomain(q) \/ (~LvExists /\ lv' = lv)
<1>. USE DEF TypeOK, LocalTypeOK, TeardownInv, SawNoDomain, At, Move, Goto, Answer,
       Reply, Report, Call, Open, Claim, Exists, worldVars
<1>1. CASE Issue(p)
    BY <1>1 DEF Issue, Commands
<1>2. CASE Again(p)
    BY <1>2 DEF Again, NoCommand
<1>3. CASE Prepare(p)
    BY <1>3 DEF Prepare
<1>4. CASE GateExpires(p)
    BY <1>4 DEF GateExpires
<1>5. CASE Connect(p)
    BY <1>5 DEF Connect, StateReads
<1>6. CASE Lookup(p)
    BY <1>6 DEF Lookup, StateReads
<1>7. CASE ReadState(p)
    BY <1>7 DEF ReadState
<1>8. CASE ListDomains(p)
    BY <1>8 DEF ListDomains
<1>9. CASE Close(p)
    BY <1>9 DEF Close
<1>10. CASE GracefulState(p)
    BY <1>10 DEF GracefulState
<1>11. CASE GracefulShutdown(p)
    BY <1>11 DEF GracefulShutdown
<1>12. CASE GracefulWait(p)
    BY <1>12 DEF GracefulWait
<1>13. CASE GracefulRecheck(p)
    BY <1>13 DEF GracefulRecheck
<1>14. CASE GracefulDestroy(p)
    BY <1>14 DEF GracefulDestroy
<1>15. CASE RemoveSnapshots(p)
    BY <1>15 DEF RemoveSnapshots, ListSnapshots, DeleteSnapshot
<1>16. CASE Undefine(p)
    BY <1>16 DEF Undefine
<1>17. CASE StartState(p)
    BY <1>17 DEF StartState
<1>18. CASE StopCall(p)
    BY <1>18 DEF StopCall
<1>19. CASE OldState(p)
    BY <1>19 DEF OldState
<1>20. CASE OldDestroy(p)
    BY <1>20 DEF OldDestroy
<1>21. CASE OldUndefine(p)
    BY <1>21 DEF OldUndefine
<1>22. CASE Define(p)
    BY <1>22 DEF Define
<1>23. CASE Boot(p)
    BY <1>23 DEF Boot
<1>24. CASE InjectState(p)
    BY <1>24 DEF InjectState
<1>25. CASE InjectDestroy(p)
    BY <1>25 DEF InjectDestroy
<1>26. CASE InjectWait(p)
    BY <1>26 DEF InjectWait
<1>27. CASE InjectDefine(p)
    BY <1>27 DEF InjectDefine
<1>28. CASE InjectBoot(p)
    BY <1>28 DEF InjectBoot
<1>29. CASE Resume(p)
    <2>1. CASE stage[p] = "probe"
        BY <1>29, <2>1 DEF Resume, Probed
    <2>2. CASE stage[p] = "recheck"
        BY <1>29, <2>2 DEF Resume, Rechecked
    <2>3. CASE stage[p] = "stop"
        BY <1>29, <2>3 DEF Resume, StopSent
    <2>4. CASE stage[p] = "poll"
        BY <1>29, <2>4 DEF Resume, Polled
    <2>5. CASE stage[p] = "destroy"
        BY <1>29, <2>5 DEF Resume, Destroyed
    <2>6. CASE stage[p] = "verify"
        BY <1>29, <2>6 DEF Resume, Verified
    <2>7. CASE stage[p] = "list"
        BY <1>29, <2>7 DEF Resume, Listed
    <2>8. CASE stage[p] \notin {"probe", "recheck", "stop", "poll", "destroy",
                             "verify", "list"}
        BY <1>29, <2>8 DEF Resume
    <2>. QED BY <1>29, <2>1, <2>2, <2>3, <2>4, <2>5, <2>6, <2>7, <2>8 DEF Resume
<1>30. CASE RemoveStateDir(p)
    BY <1>30 DEF RemoveStateDir
<1>31. CASE QemuHolder(p)
    BY <1>31 DEF QemuHolder
<1>32. CASE QemuStoreCommand(p)
    BY <1>32 DEF QemuStoreCommand
<1>33. CASE QemuLaunch(p)
    BY <1>33 DEF QemuLaunch
<1>34. CASE QemuStart(p)
    BY <1>34 DEF QemuStart
<1>35. CASE QemuStop(p)
    BY <1>35 DEF QemuStop
<1>36. CASE QemuDestroy(p)
    BY <1>36 DEF QemuDestroy
<1>37. CASE QemuRemoveDir(p)
    BY <1>37 DEF QemuRemoveDir
<1>38. CASE KrunHolder(p)
    BY <1>38 DEF KrunHolder
<1>39. CASE KrunWriteRecord(p)
    BY <1>39 DEF KrunWriteRecord
<1>40. CASE KrunStart(p)
    BY <1>40 DEF KrunStart
<1>41. CASE KrunBoot(p)
    BY <1>41 DEF KrunBoot
<1>42. CASE KrunStop(p)
    BY <1>42 DEF KrunStop
<1>43. CASE KrunPoll(p)
    BY <1>43 DEF KrunPoll
<1>44. CASE KrunDestroy(p)
    BY <1>44 DEF KrunDestroy
<1>45. CASE KrunRemove(p)
    BY <1>45 DEF KrunRemove
<1>46. CASE KrunClean(p)
    BY <1>46 DEF KrunClean
<1>. QED BY <1>1, <1>2, <1>3, <1>4, <1>5, <1>6, <1>7, <1>8, <1>9,
            <1>10, <1>11, <1>12, <1>13, <1>14, <1>15, <1>16, <1>17, <1>18,
            <1>19, <1>20, <1>21, <1>22, <1>23, <1>24, <1>25, <1>26, <1>27,
            <1>28, <1>29, <1>30, <1>31, <1>32, <1>33, <1>34, <1>35, <1>36,
            <1>37, <1>38, <1>39, <1>40, <1>41, <1>42, <1>43, <1>44, <1>45,
            <1>46 DEF Step, LibvirtStep, HostStep

\* Every call but the definition needs a domain to act on.
LEMMA NeedsDomain ==
    ASSUME lv \in Domain, NEW call \in LibvirtCalls \ {"define"}, ~LvExists
    PROVE  ~Accepts(call)
BY DEF Accepts, LvExists, LibvirtCalls, Domain

\* Where no domain exists, only a definition makes one,
LEMMA GoneUnderStep ==
    ASSUME TypeOK, NEW p \in Procs, Issue(p) \/ Again(p) \/ Step(p) \/ GateExpires(p),
           ~LvExists, pc[p] \notin {"define", "injDefine"}
    PROVE  ~LvExists'
<1>. USE DEF TypeOK, WorldTypeOK, At
<1>a. lv' = lv => ~LvExists'
    BY DEF LvExists
<1>b. \A call \in LibvirtCalls \ {"define"} :
         Succeeds(p, call) \/ Fails(p, call) => lv' = lv
    BY NeedsDomain DEF Succeeds, Fails
<1>. USE DEF worldVars, NoOtherThanQemu, NoOtherThanKrun, DirGone, LibvirtCalls
<1>1. CASE Issue(p)
    BY <1>a, <1>b, <1>1 DEF Issue
<1>2. CASE Again(p)
    BY <1>a, <1>b, <1>2 DEF Again
<1>3. CASE Prepare(p)
    BY <1>a, <1>b, <1>3 DEF Prepare
<1>4. CASE GateExpires(p)
    BY <1>a, <1>b, <1>4 DEF GateExpires
<1>5. CASE Connect(p)
    BY <1>a, <1>b, <1>5 DEF Connect
<1>6. CASE Lookup(p)
    BY <1>a, <1>b, <1>6 DEF Lookup
<1>7. CASE ReadState(p)
    BY <1>a, <1>b, <1>7 DEF ReadState
<1>8. CASE ListDomains(p)
    BY <1>a, <1>b, <1>8 DEF ListDomains
<1>9. CASE Close(p)
    BY <1>a, <1>b, <1>9 DEF Close
<1>10. CASE GracefulState(p)
    BY <1>a, <1>b, <1>10 DEF GracefulState
<1>11. CASE GracefulShutdown(p)
    BY <1>a, <1>b, <1>11 DEF GracefulShutdown
<1>12. CASE GracefulWait(p)
    BY <1>a, <1>b, <1>12 DEF GracefulWait
<1>13. CASE GracefulRecheck(p)
    BY <1>a, <1>b, <1>13 DEF GracefulRecheck
<1>14. CASE GracefulDestroy(p)
    BY <1>a, <1>b, <1>14 DEF GracefulDestroy
<1>15. CASE RemoveSnapshots(p)
    BY <1>a, <1>b, <1>15 DEF RemoveSnapshots, ListSnapshots, DeleteSnapshot
<1>16. CASE Undefine(p)
    BY <1>a, <1>b, <1>16 DEF Undefine
<1>17. CASE StartState(p)
    BY <1>a, <1>b, <1>17 DEF StartState
<1>18. CASE StopCall(p)
    BY <1>a, <1>b, <1>18 DEF StopCall
<1>19. CASE OldState(p)
    BY <1>a, <1>b, <1>19 DEF OldState
<1>20. CASE OldDestroy(p)
    BY <1>a, <1>b, <1>20 DEF OldDestroy
<1>21. CASE OldUndefine(p)
    BY <1>a, <1>b, <1>21 DEF OldUndefine
<1>22. CASE Define(p)
    BY <1>22 DEF Define
<1>23. CASE Boot(p)
    BY <1>a, <1>b, <1>23 DEF Boot
<1>24. CASE InjectState(p)
    BY <1>a, <1>b, <1>24 DEF InjectState
<1>25. CASE InjectDestroy(p)
    BY <1>a, <1>b, <1>25 DEF InjectDestroy
<1>26. CASE InjectWait(p)
    BY <1>a, <1>b, <1>26 DEF InjectWait
<1>27. CASE InjectDefine(p)
    BY <1>27 DEF InjectDefine
<1>28. CASE InjectBoot(p)
    BY <1>a, <1>b, <1>28 DEF InjectBoot
<1>29. CASE Resume(p)
    BY <1>a, <1>b, <1>29 DEF Resume
<1>30. CASE RemoveStateDir(p)
    BY <1>a, <1>b, <1>30 DEF RemoveStateDir
<1>31. CASE QemuHolder(p)
    BY <1>a, <1>b, <1>31 DEF QemuHolder
<1>32. CASE QemuStoreCommand(p)
    BY <1>a, <1>b, <1>32 DEF QemuStoreCommand
<1>33. CASE QemuLaunch(p)
    BY <1>a, <1>b, <1>33 DEF QemuLaunch
<1>34. CASE QemuStart(p)
    BY <1>a, <1>b, <1>34 DEF QemuStart
<1>35. CASE QemuStop(p)
    BY <1>a, <1>b, <1>35 DEF QemuStop
<1>36. CASE QemuDestroy(p)
    BY <1>a, <1>b, <1>36 DEF QemuDestroy
<1>37. CASE QemuRemoveDir(p)
    BY <1>a, <1>b, <1>37 DEF QemuRemoveDir
<1>38. CASE KrunHolder(p)
    BY <1>a, <1>b, <1>38 DEF KrunHolder
<1>39. CASE KrunWriteRecord(p)
    BY <1>a, <1>b, <1>39 DEF KrunWriteRecord
<1>40. CASE KrunStart(p)
    BY <1>a, <1>b, <1>40 DEF KrunStart
<1>41. CASE KrunBoot(p)
    BY <1>a, <1>b, <1>41 DEF KrunBoot
<1>42. CASE KrunStop(p)
    BY <1>a, <1>b, <1>42 DEF KrunStop
<1>43. CASE KrunPoll(p)
    BY <1>a, <1>b, <1>43 DEF KrunPoll
<1>44. CASE KrunDestroy(p)
    BY <1>a, <1>b, <1>44 DEF KrunDestroy
<1>45. CASE KrunRemove(p)
    BY <1>a, <1>b, <1>45 DEF KrunRemove
<1>46. CASE KrunClean(p)
    BY <1>a, <1>b, <1>46 DEF KrunClean
<1>. QED BY <1>1, <1>2, <1>3, <1>4, <1>5, <1>6, <1>7, <1>8, <1>9,
            <1>10, <1>11, <1>12, <1>13, <1>14, <1>15, <1>16, <1>17, <1>18,
            <1>19, <1>20, <1>21, <1>22, <1>23, <1>24, <1>25, <1>26, <1>27,
            <1>28, <1>29, <1>30, <1>31, <1>32, <1>33, <1>34, <1>35, <1>36,
            <1>37, <1>38, <1>39, <1>40, <1>41, <1>42, <1>43, <1>44, <1>45,
            <1>46 DEF Step, LibvirtStep, HostStep

\* and neither a guest, the daemon nor an abandoned call does.
LEMMA GoneUnderWorld ==
    ASSUME TypeOK, WorldNext, ~LvExists, ~LateCalls \/ "define" \notin late
    PROVE  ~LvExists'
<1>. USE DEF TypeOK, WorldTypeOK, LvExists, Domain
<1>1. CASE LateCallEnds
    BY <1>1, NeedsDomain DEF LateCallEnds
<1>2. CASE DomainGuestStep \/ DomainPauses \/ SnapshotTaken
    BY <1>2 DEF DomainGuestStep, DomainPauses, SnapshotTaken
<1>3. CASE DaemonFails \/ DaemonRecovers \/ EngineFails \/ EngineRecovers
           \/ QemuGuestStep \/ KrunGuestStep
    BY <1>3 DEF DaemonFails, DaemonRecovers, EngineFails, EngineRecovers,
       QemuGuestStep, KrunGuestStep
<1>. QED BY <1>1, <1>2, <1>3 DEF WorldNext

\* Without create commands nothing defines a domain, not even late.
NoDefinition(p) ==
    /\ cmd[p].kind # "create"
    /\ stage[p] \notin {"create", "inject"}
    /\ pc[p] \notin {"prepare", "oldState", "oldDestroy", "oldUndefine", "define",
                     "injState", "injDestroy", "injWait", "injDefine", "injBoot"}

\* Without create commands no process comes near a definition.
LEMMA NoDefinitionStep ==
    ASSUME TypeOK, "create" \notin Kinds, NEW p \in Procs, NEW q \in Procs,
           NoDefinition(p), NoDefinition(q), "define" \notin late,
           Issue(p) \/ Again(p) \/ Step(p) \/ GateExpires(p)
    PROVE  NoDefinition(q)' /\ "define" \notin late'
<1>. USE DEF TypeOK, LocalTypeOK, NoDefinition, At, Move, Goto, Answer, Reply, Report,
       Call, Open, Claim, worldVars, NoOtherThanQemu, NoOtherThanKrun, DirGone,
       Succeeds, Fails
<1>1. CASE Issue(p)
    BY <1>1 DEF Issue, Commands
<1>2. CASE Again(p)
    BY <1>2 DEF Again, NoCommand
<1>3. CASE Prepare(p)
    BY <1>3 DEF Prepare
<1>4. CASE GateExpires(p)
    BY <1>4 DEF GateExpires
<1>5. CASE Connect(p)
    BY <1>5 DEF Connect, StateReads
<1>6. CASE Lookup(p)
    BY <1>6 DEF Lookup, StateReads
<1>7. CASE ReadState(p)
    BY <1>7 DEF ReadState
<1>8. CASE ListDomains(p)
    BY <1>8 DEF ListDomains
<1>9. CASE Close(p)
    BY <1>9 DEF Close
<1>10. CASE GracefulState(p)
    BY <1>10 DEF GracefulState
<1>11. CASE GracefulShutdown(p)
    BY <1>11 DEF GracefulShutdown
<1>12. CASE GracefulWait(p)
    BY <1>12 DEF GracefulWait
<1>13. CASE GracefulRecheck(p)
    BY <1>13 DEF GracefulRecheck
<1>14. CASE GracefulDestroy(p)
    BY <1>14 DEF GracefulDestroy
<1>15. CASE RemoveSnapshots(p)
    BY <1>15 DEF RemoveSnapshots, ListSnapshots, DeleteSnapshot
<1>16. CASE Undefine(p)
    BY <1>16 DEF Undefine
<1>17. CASE StartState(p)
    BY <1>17 DEF StartState
<1>18. CASE StopCall(p)
    BY <1>18 DEF StopCall
<1>19. CASE OldState(p)
    BY <1>19 DEF OldState
<1>20. CASE OldDestroy(p)
    BY <1>20 DEF OldDestroy
<1>21. CASE OldUndefine(p)
    BY <1>21 DEF OldUndefine
<1>22. CASE Define(p)
    BY <1>22 DEF Define
<1>23. CASE Boot(p)
    BY <1>23 DEF Boot
<1>24. CASE InjectState(p)
    BY <1>24 DEF InjectState
<1>25. CASE InjectDestroy(p)
    BY <1>25 DEF InjectDestroy
<1>26. CASE InjectWait(p)
    BY <1>26 DEF InjectWait
<1>27. CASE InjectDefine(p)
    BY <1>27 DEF InjectDefine
<1>28. CASE InjectBoot(p)
    BY <1>28 DEF InjectBoot
<1>29. CASE Resume(p)
    <2>1. CASE stage[p] = "probe"
        BY <1>29, <2>1 DEF Resume, Probed
    <2>2. CASE stage[p] = "recheck"
        BY <1>29, <2>2 DEF Resume, Rechecked
    <2>3. CASE stage[p] = "stop"
        BY <1>29, <2>3 DEF Resume, StopSent
    <2>4. CASE stage[p] = "poll"
        BY <1>29, <2>4 DEF Resume, Polled
    <2>5. CASE stage[p] = "destroy"
        BY <1>29, <2>5 DEF Resume, Destroyed
    <2>6. CASE stage[p] = "verify"
        BY <1>29, <2>6 DEF Resume, Verified
    <2>7. CASE stage[p] = "list"
        BY <1>29, <2>7 DEF Resume, Listed
    <2>8. CASE stage[p] \notin {"probe", "recheck", "stop", "poll", "destroy",
                             "verify", "list"}
        BY <1>29, <2>8 DEF Resume
    <2>. QED BY <1>29, <2>1, <2>2, <2>3, <2>4, <2>5, <2>6, <2>7, <2>8 DEF Resume
<1>30. CASE RemoveStateDir(p)
    BY <1>30 DEF RemoveStateDir
<1>31. CASE QemuHolder(p)
    BY <1>31 DEF QemuHolder
<1>32. CASE QemuStoreCommand(p)
    BY <1>32 DEF QemuStoreCommand
<1>33. CASE QemuLaunch(p)
    BY <1>33 DEF QemuLaunch
<1>34. CASE QemuStart(p)
    BY <1>34 DEF QemuStart
<1>35. CASE QemuStop(p)
    BY <1>35 DEF QemuStop
<1>36. CASE QemuDestroy(p)
    BY <1>36 DEF QemuDestroy
<1>37. CASE QemuRemoveDir(p)
    BY <1>37 DEF QemuRemoveDir
<1>38. CASE KrunHolder(p)
    BY <1>38 DEF KrunHolder
<1>39. CASE KrunWriteRecord(p)
    BY <1>39 DEF KrunWriteRecord
<1>40. CASE KrunStart(p)
    BY <1>40 DEF KrunStart
<1>41. CASE KrunBoot(p)
    BY <1>41 DEF KrunBoot
<1>42. CASE KrunStop(p)
    BY <1>42 DEF KrunStop
<1>43. CASE KrunPoll(p)
    BY <1>43 DEF KrunPoll
<1>44. CASE KrunDestroy(p)
    BY <1>44 DEF KrunDestroy
<1>45. CASE KrunRemove(p)
    BY <1>45 DEF KrunRemove
<1>46. CASE KrunClean(p)
    BY <1>46 DEF KrunClean
<1>. QED BY <1>1, <1>2, <1>3, <1>4, <1>5, <1>6, <1>7, <1>8, <1>9,
            <1>10, <1>11, <1>12, <1>13, <1>14, <1>15, <1>16, <1>17, <1>18,
            <1>19, <1>20, <1>21, <1>22, <1>23, <1>24, <1>25, <1>26, <1>27,
            <1>28, <1>29, <1>30, <1>31, <1>32, <1>33, <1>34, <1>35, <1>36,
            <1>37, <1>38, <1>39, <1>40, <1>41, <1>42, <1>43, <1>44, <1>45,
            <1>46 DEF Step, LibvirtStep, HostStep

\* What a finished teardown knows is always recorded as TeardownInv says.
LEMMA TeardownRecord == Spec => [](\A p \in Procs : TeardownInv(p))
<1>. DEFINE Inv == \A p \in Procs : TeardownInv(p)
<1>1. Init => Inv
    BY DEF Init, TeardownInv
<1>2. TypeOK /\ Inv /\ [Next]_vars => Inv'
    <2> SUFFICES ASSUME TypeOK, Inv, [Next]_vars PROVE Inv'
        OBVIOUS
    <2>1. CASE \E p \in Procs : Issue(p) \/ Again(p) \/ Step(p) \/ GateExpires(p)
        BY <2>1, TeardownInvStep
    <2>2. CASE UNCHANGED localVars
        BY <2>2 DEF localVars, TeardownInv
    <2>. QED BY <2>1, <2>2 DEF Next, vars
<1>. QED BY <1>1, <1>2, TypeCorrect, PTL DEF Spec

\* Without create commands nothing is ever being defined.
LEMMA NothingDefined ==
    ASSUME "create" \notin Kinds
    PROVE  Spec => []("define" \notin late /\ \A p \in Procs : NoDefinition(p))
<1>. DEFINE Inv == "define" \notin late /\ \A p \in Procs : NoDefinition(p)
<1>1. Init => Inv
    BY DEF Init, WorldInit, NoDefinition, NoCommand
<1>2. TypeOK /\ Inv /\ [Next]_vars => Inv'
    <2> SUFFICES ASSUME TypeOK, Inv, [Next]_vars PROVE Inv'
        OBVIOUS
    <2>1. CASE \E p \in Procs : Issue(p) \/ Again(p) \/ Step(p) \/ GateExpires(p)
        <3>1. PICK p \in Procs : Issue(p) \/ Again(p) \/ Step(p) \/ GateExpires(p)
            BY <2>1
        <3>2. \A q \in Procs : NoDefinition(q)' /\ "define" \notin late'
            BY <3>1, NoDefinitionStep
        <3>. QED BY <3>1, <3>2
    <2>2. CASE WorldNext /\ UNCHANGED localVars
        <3>1. "define" \notin late'
            BY <2>2 DEF WorldNext, DaemonFails, DaemonRecovers, LateCallEnds, EngineFails,
               EngineRecovers, DomainGuestStep, DomainPauses, SnapshotTaken,
               QemuGuestStep, KrunGuestStep
        <3>. QED BY <2>2, <3>1 DEF localVars, NoDefinition
    <2>3. CASE UNCHANGED vars
        BY <2>3 DEF vars, worldVars, localVars, NoDefinition
    <2>. QED BY <2>1, <2>2, <2>3 DEF Next
<1>. QED BY <1>1, <1>2, TypeCorrect, PTL DEF Spec

\* As long as nothing defines the domain behind its back, what a teardown has
\* seen stays true: there is no domain of the name.
LEMMA TeardownSeen ==
    ASSUME \/ "create" \notin Kinds
           \/ ~LateCalls /\ \A p, q \in Procs : p = q
    PROVE  Spec => [](\A p \in Procs : SawNoDomain(p) => ~LvExists)
<1>. DEFINE Inv == \A p \in Procs : SawNoDomain(p) => ~LvExists
            Known == /\ TypeOK
                     /\ \A p \in Procs : TeardownInv(p)
                     /\ "create" \notin Kinds =>
                           "define" \notin late /\ \A p \in Procs : NoDefinition(p)
<1>1. Init => Inv
    BY DEF Init, SawNoDomain
<1>2. Known /\ Inv /\ [Next]_vars => Inv'
    <2> SUFFICES ASSUME Known, Inv, [Next]_vars, NEW q \in Procs, SawNoDomain(q)'
                 PROVE  ~LvExists'
        OBVIOUS
    <2>1. CASE \E p \in Procs : Issue(p) \/ Again(p) \/ Step(p) \/ GateExpires(p)
        <3>1. PICK p \in Procs : Issue(p) \/ Again(p) \/ Step(p) \/ GateExpires(p)
            BY <2>1
        <3>2. SawNoDomain(q) \/ (~LvExists /\ lv' = lv)
            BY <3>1, SawNoDomainStep
        <3>3. CASE SawNoDomain(q)
            <4>1. pc[p] \notin {"define", "injDefine"}
                BY <3>3 DEF NoDefinition, SawNoDomain
            <4>. QED BY <3>1, <3>3, <4>1, GoneUnderStep
        <3>. QED BY <3>2, <3>3 DEF LvExists
    <2>2. CASE WorldNext /\ UNCHANGED localVars
        BY <2>2, GoneUnderWorld DEF localVars, SawNoDomain
    <2>3. CASE UNCHANGED vars
        BY <2>3 DEF vars, worldVars, localVars, SawNoDomain, LvExists
    <2>. QED BY <2>1, <2>2, <2>3 DEF Next
<1>3. Spec => []Known
    <2>1. CASE "create" \notin Kinds
        BY <2>1, TypeCorrect, TeardownRecord, NothingDefined, PTL
    <2>2. CASE "create" \in Kinds
        <3>1. TypeOK /\ (\A p \in Procs : TeardownInv(p)) => Known
            BY <2>2
        <3>. QED BY <3>1, TypeCorrect, TeardownRecord, PTL
    <2>. QED BY <2>1, <2>2
<1>. QED BY <1>1, <1>2, <1>3, PTL DEF Spec

\* A libvirt teardown that was reported after an answered verification is final,
\* whatever outages happen and however many processes run: no domain of the name
\* exists from then on until the process goes on to another command.  Either no
\* process creates the domain, or one process runs all commands and libvirt
\* drops the calls it abandoned.
THEOREM TeardownFinal ==
    ASSUME \/ "create" \notin Kinds
           \/ ~LateCalls /\ \A p, q \in Procs : p = q
    PROVE  Spec => []VerifiedTeardown
<1>1. (\A p \in Procs : TeardownInv(p)) /\ (\A p \in Procs : SawNoDomain(p) => ~LvExists)
        => VerifiedTeardown
    BY DEF VerifiedTeardown, Tore, At, TeardownInv, SawNoDomain
<1>2. Spec => [](\A p \in Procs : SawNoDomain(p) => ~LvExists)
    BY TeardownSeen
<1>. QED BY <1>1, <1>2, TeardownRecord, PTL

=============================================================================
