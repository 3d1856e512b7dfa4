---------------------------- MODULE VerbDispatch ----------------------------
(***************************************************************************)
(* The libvirt verb of the plugin: a check step names a method; its        *)
(* handler dials libvirt, makes its calls one by one and prints; the       *)
(* dispatch redirects the streams of the whole process into pipes          *)
(* meanwhile and judges what was printed.  Several invocations overlap in  *)
(* one process.  The internal operations of the host run the same calls    *)
(* without a capture.                                                      *)
(***************************************************************************)
EXTENDS Integers, Sequences

CONSTANTS
    Procs,      \* concurrent invocations
    Methods,    \* the methods each invocation may be asked for
    PipeSize,   \* units of output a pipe holds
    BigOutput,  \* units a method prints whose output the guest or libvirt decides
    MaxFaults,  \* bound on daemon outages
    Nobody, Terminal

ASSUME VerbAssumption ==
    /\ Nobody \notin Procs /\ Terminal \notin Procs
    /\ {PipeSize, BigOutput, MaxFaults} \subseteq Nat

VARIABLES
    mu,      \* who holds captureMu
    stdout,  \* whose pipe os.Stdout and os.Stderr are, or the terminal
    pipe,    \* per invocation, who wrote each unit that is in its pipes
    daemon,  \* "up", "wedged" or "down"
    domain,  \* "running", "off" or "absent"
    snap,    \* is there a snapshot of the name in question
    late,    \* changes the daemon still executes for calls abandoned at their bound
    faults,
    proc     \* per invocation, its method, its next call and what it has

worldVars == <<daemon, domain, snap, late, faults>>
streamVars == <<mu, stdout, pipe>>
vars == <<worldVars, streamVars, proc>>

----------------------------------------------------------------------------
(* The handlers, each as the calls it makes in order.                      *)

ResolveTarget == <<"connect", "lookup", "read">>
Running == <<"running">>
CaptureScreenshot == <<"read", "write">>   \* the RPC stream or virsh, decoded
MapKeys       == <<"parse">>
AgentQuery    == <<"agent", "parse">>
ExecAndWait   == <<"exec", "poll">>
DisplayEndpoint == <<"parse">>

List        == <<"connect", "read", "try", "say">>
Info        == ResolveTarget \o <<"read", "read", "try", "say">>
Screenshot  == ResolveTarget \o Running \o CaptureScreenshot \o <<"say">>
SendKey     == ResolveTarget \o Running \o MapKeys \o <<"change", "say">>
Passwd      == ResolveTarget \o Running \o <<"parse", "change", "say">>
Qmp         == ResolveTarget \o <<"parse", "change", "dump">>
DomainXML   == ResolveTarget \o <<"read", "dump">>
Console     == ResolveTarget \o <<"say">>
Events      == <<"connect", "watch">>
GuestPing   == ResolveTarget \o <<"agent", "say">>
GuestQuery  == ResolveTarget \o AgentQuery \o <<"dump">>
GuestExec   == ResolveTarget \o ExecAndWait \o <<"dump", "status">>
GuestFstrim == ResolveTarget \o <<"trim", "say">>
SnapshotList   == ResolveTarget \o <<"read", "say">>
SnapshotCreate == ResolveTarget \o <<"create", "say">>
SnapshotInfo   == ResolveTarget \o <<"find", "read", "dump">>
SnapshotRevert == ResolveTarget \o <<"find", "change", "say">>
SnapshotDelete == ResolveTarget \o <<"find", "delete", "say">>

\* Internal operations of the host: no capture, the reply is built from the
\* calls.  The session gate lets a domain pass whose state cannot be read.
PingOp    == <<"connect", "lookup", "try", "running", "agent">>
ListOp    == <<"connect", "read">>
XmlOp     == <<"connect", "lookup", "read">>
DisplayOp == ResolveTarget \o DisplayEndpoint
Gate      == <<"connect", "lookup", "gate">>

Program ==
    [list |-> List, info |-> Info, screenshot |-> Screenshot, sendkey |-> SendKey, passwd |-> Passwd, qmp |-> Qmp,
     domainxml |-> DomainXML, console |-> Console, events |-> Events, ping |-> GuestPing, query |-> GuestQuery,
     exec |-> GuestExec, fstrim |-> GuestFstrim, snaplist |-> SnapshotList, snapcreate |-> SnapshotCreate,
     snapinfo |-> SnapshotInfo, snaprevert |-> SnapshotRevert, snapdelete |-> SnapshotDelete,
     pingop |-> PingOp, listop |-> ListOp, xmlop |-> XmlOp, displayop |-> DisplayOp, gate |-> Gate]

ASSUME MethodAssumption == \A p \in Procs : Methods[p] \subseteq DOMAIN Program

Internal == {"pingop", "listop", "xmlop", "displayop", "gate"}
Local   == {"write"}   \* the picture goes to a file of the host
Changes == Local \cup {"change", "trim", "create", "delete", "exec"}

Fresh == [at |-> "idle", m |-> "list", pc |-> 1, conn |-> FALSE, fds |-> FALSE, err |-> FALSE,
          saved |-> Terminal, wrote |-> 0, out |-> << >>, done |-> FALSE, verdict |-> "none"]

Init ==
    /\ mu = Nobody /\ stdout = Terminal
    /\ pipe = [p \in Procs |-> << >>]
    /\ daemon = "up" /\ domain \in {"running", "absent"} /\ snap \in BOOLEAN
    /\ late = {} /\ faults = 0
    /\ proc = [p \in Procs |-> Fresh]

----------------------------------------------------------------------------
(* The world.                                                              *)

DaemonFails ==
    /\ daemon = "up" /\ faults < MaxFaults
    /\ daemon' \in {"wedged", "down"} /\ faults' = faults + 1
    /\ UNCHANGED <<domain, snap, late, streamVars, proc>>

Applied(calls) == IF "create" \in calls THEN TRUE ELSE IF "delete" \in calls THEN FALSE ELSE snap

\* A wedged daemon that comes round executes what it had accepted; one that is
\* restarted has forgotten it.
DaemonRecovers ==
    /\ daemon # "up"
    /\ daemon' = "up" /\ late' = {}
    /\ snap' \in {snap, IF daemon = "wedged" THEN Applied(late) ELSE snap}
    /\ UNCHANGED <<domain, faults, streamVars, proc>>

GuestPowersOff ==
    /\ domain = "running"
    /\ domain' = "off"
    /\ UNCHANGED <<daemon, snap, late, faults, streamVars, proc>>

----------------------------------------------------------------------------
(* One call of a handler.                                                  *)

Call(p) == Program[proc[p].m][proc[p].pc]
At(p, calls) == proc[p].at = "run" /\ Call(p) \in calls

\* The handler goes on, or to its deferred Close when that was its last call.
Advanced(r) ==
    IF r.pc = Len(Program[r.m]) THEN [r EXCEPT !.at = "close"] ELSE [r EXCEPT !.pc = @ + 1]
Advance(p) == proc' = [proc EXCEPT ![p] = Advanced(@)]
Fail(p) == proc' = [proc EXCEPT ![p].at = "close", ![p].err = TRUE]

\* The handshake has no bound: a wedged daemon holds it.
Connect(p) ==
    /\ At(p, {"connect"}) /\ daemon # "wedged"
    /\ \/ daemon = "up" /\ proc' = [proc EXCEPT ![p] = Advanced([@ EXCEPT !.conn = TRUE])]
       \/ daemon = "down" /\ Fail(p)
    /\ UNCHANGED <<worldVars, streamVars>>

\* What a call finds when the daemon answers.
Finds(call) ==
    CASE call \in {"lookup", "read", "change"} -> domain # "absent" \/ call = "read"
      [] call = "running"                                -> domain = "running"
      [] call \in {"agent", "trim", "exec", "poll"}      -> domain = "running"
      [] call \in {"find", "delete"}                     -> snap
      [] call = "create"                                 -> ~snap /\ domain # "absent"
      [] OTHER                                           -> TRUE

\* A bounded call that only looks.  It fails when the daemon is gone, is given up
\* at its bound when the daemon is wedged, and its answer may not parse.  The
\* handler ignores a failed try: a state shown as "unknown", an agent shown as
\* not reachable.  The gate fails when the domain is known not to run.
GoesOn(call) ==
    CASE call = "try"  -> TRUE
      [] call = "gate" -> daemon # "up" \/ domain = "running"
      [] OTHER         -> daemon = "up" /\ Finds(call)
GivesUp(call) ==
    CASE call = "try"     -> FALSE
      [] call = "gate"    -> daemon = "up" /\ domain # "running"
      [] call = "running" -> daemon # "up" \/ domain # "running"
      [] OTHER            -> TRUE

\* Sensitivity: the session gate waits for a domain that does not run.
LookAwaitsDomain(p) ==
    /\ At(p, {"lookup", "read", "running", "agent", "find", "parse", "try", "gate"})
    /\ \/ GoesOn(Call(p)) /\ Advance(p)
       \/ Call(p) # "gate" /\ GivesUp(Call(p)) /\ Fail(p)
    /\ UNCHANGED <<worldVars, streamVars>>

Look(p) ==
    /\ At(p, {"lookup", "read", "running", "agent", "find", "parse", "try", "gate"})
    /\ \/ GoesOn(Call(p)) /\ Advance(p)
       \/ GivesUp(Call(p)) /\ Fail(p)
    /\ UNCHANGED <<worldVars, streamVars>>

\* Sensitivity: the error of the call is dropped.
ChangeUnchecked(p) ==
    /\ At(p, Changes)
    /\ \/ /\ Call(p) \in Local \/ (daemon = "up" /\ Finds(Call(p)))
          /\ snap' = Applied({Call(p)})
          /\ proc' = [proc EXCEPT ![p] = Advanced([@ EXCEPT !.done = TRUE])]
       \/ Advance(p) /\ UNCHANGED snap
    /\ UNCHANGED <<daemon, domain, late, faults, streamVars>>

\* A bounded call that changes something.  Given up at the bound, it may still
\* be executed when the daemon comes round.
Change(p) ==
    /\ At(p, Changes)
    /\ \/ /\ Call(p) \in Local \/ (daemon = "up" /\ Finds(Call(p)))
          /\ snap' = Applied({Call(p)})
          /\ proc' = [proc EXCEPT ![p] = Advanced([@ EXCEPT !.done = TRUE])]
          /\ UNCHANGED late
       \/ /\ Fail(p)
          /\ late' = IF daemon = "wedged" THEN late \cup ({Call(p)} \ Local) ELSE late
          /\ UNCHANGED snap
    /\ UNCHANGED <<daemon, domain, faults, streamVars>>

\* ExecAndWait polls the guest process until it exits, a poll fails, or the
\* caller's cap passes; the guest process is left alone in all cases.
Poll(p) ==
    /\ At(p, {"poll"})
    /\ \/ daemon = "up" /\ Finds("poll") /\ Advance(p)
       \/ Fail(p)
    /\ UNCHANGED <<worldVars, streamVars>>

\* The exit status of the guest process becomes the verb's.
Status(p) ==
    /\ At(p, {"status"})
    /\ Advance(p) \/ Fail(p)
    /\ UNCHANGED <<worldVars, streamVars>>

Put(p) == \E q \in Procs :
    /\ stdout = q
    /\ proc[q].fds => Len(pipe[q]) < PipeSize
    /\ pipe' = IF proc[q].fds THEN [pipe EXCEPT ![q] = Append(@, p)] ELSE pipe

\* events lists the domains once a second and prints what changed until its
\* time is over.
Watch(p) ==
    /\ At(p, {"watch"})
    /\ \/ Advance(p) /\ UNCHANGED pipe
       \/ daemon # "up" /\ Fail(p) /\ UNCHANGED pipe
       \/ /\ daemon = "up" /\ proc[p].wrote < BigOutput
          /\ Put(p)
          /\ proc' = [proc EXCEPT ![p].wrote = @ + 1]
    /\ UNCHANGED <<worldVars, mu, stdout>>

\* A write to a full pipe waits.
Say(p) ==
    /\ At(p, {"say", "dump"})
    /\ Put(p)
    /\ LET r == [proc[p] EXCEPT !.wrote = @ + 1] IN
          proc' = [proc EXCEPT ![p] = IF Call(p) = "say" \/ r.wrote >= BigOutput THEN Advanced(r) ELSE r]
    /\ UNCHANGED <<worldVars, mu, stdout>>

\* Sensitivity: a failed handler returns without its deferred Close.
CloseOnSuccess(p) ==
    /\ proc[p].at = "close" /\ (proc[p].conn => daemon # "wedged")
    /\ proc' = [proc EXCEPT ![p].at = IF proc[p].m \in Internal THEN "judge" ELSE "restore",
                            ![p].conn = @ /\ proc[p].err]
    /\ UNCHANGED <<worldVars, streamVars>>

\* The deferred Close of the connection, unbounded like the handshake.
Close(p) ==
    /\ proc[p].at = "close" /\ (proc[p].conn => daemon # "wedged")
    /\ proc' = [proc EXCEPT ![p].at = IF proc[p].m \in Internal THEN "judge" ELSE "restore", ![p].conn = FALSE]
    /\ UNCHANGED <<worldVars, streamVars>>

----------------------------------------------------------------------------
(* The dispatch.                                                           *)

\* Box mode has no running VM to ask: a skip.  An internal operation runs
\* without a capture.
Invoke(p) ==
    /\ proc[p].at = "idle"
    /\ \E m \in Methods[p] :
          \/ proc' = [proc EXCEPT ![p] =
                 [Fresh EXCEPT !.m = m, !.at = IF m \in Internal THEN "run" ELSE "lock"]]
          \/ m \notin Internal /\ proc' = [proc EXCEPT ![p] = [Fresh EXCEPT !.at = "report", !.verdict = "skip"]]
    /\ UNCHANGED <<worldVars, streamVars>>

\* Sensitivity: the mutex guards each invocation of its own.
LockOwn(p) ==
    /\ proc[p].at = "lock"
    /\ mu' = p
    /\ proc' = [proc EXCEPT ![p].at = "pipes"]
    /\ UNCHANGED <<worldVars, stdout, pipe>>

Lock(p) ==
    /\ proc[p].at = "lock" /\ mu = Nobody
    /\ mu' = p
    /\ proc' = [proc EXCEPT ![p].at = "pipes"]
    /\ UNCHANGED <<worldVars, stdout, pipe>>

\* Sensitivity: a failed os.Pipe returns with the mutex held.
RedirectKeepsLock(p) ==
    /\ proc[p].at = "pipes"
    /\ \/ /\ proc' = [proc EXCEPT ![p].at = "run", ![p].fds = TRUE, ![p].saved = stdout]
          /\ stdout' = p
       \/ /\ proc' = [proc EXCEPT ![p].at = "judge", ![p].err = TRUE]
          /\ UNCHANGED stdout
    /\ UNCHANGED <<worldVars, mu, pipe>>

\* Both pipes are opened and the streams redirected, or none, and the deferred
\* unlock runs.
Redirect(p) ==
    /\ proc[p].at = "pipes"
    /\ \/ /\ proc' = [proc EXCEPT ![p].at = "run", ![p].fds = TRUE, ![p].saved = stdout]
          /\ stdout' = p
          /\ UNCHANGED mu
       \/ /\ proc' = [proc EXCEPT ![p].at = "judge", ![p].err = TRUE]
          /\ mu' = Nobody
          /\ UNCHANGED stdout
    /\ UNCHANGED <<worldVars, pipe>>

\* The write ends are closed, the streams put back, what is in the pipes read, the
\* read ends closed and the mutex released.  The pipes of stdout and stderr are one.
Restore(p) ==
    /\ proc[p].at = "restore"
    /\ stdout' = proc[p].saved /\ mu' = Nobody
    /\ pipe' = [pipe EXCEPT ![p] = << >>]
    /\ proc' = [proc EXCEPT ![p].at = "judge", ![p].fds = FALSE, ![p].out = pipe[p]]
    /\ UNCHANGED <<worldVars>>

\* A step expects success unless it says otherwise.  The wrong exit status
\* fails it, then the matchers decide; a gate that fails is a skip.
Judge(p) ==
    /\ proc[p].at = "judge"
    /\ \E wantFailure \in BOOLEAN :
       \E verdict \in IF proc[p].m = "gate" /\ proc[p].err THEN {"skip"}
                      ELSE IF proc[p].err # wantFailure THEN {"fail"} ELSE {"pass", "fail"} :
          proc' = [proc EXCEPT ![p].at = "report", ![p].verdict = verdict]
    /\ UNCHANGED <<worldVars, streamVars>>

\* The reply leaves; nothing of the invocation stays.
Report(p) ==
    /\ proc[p].at = "report"
    /\ proc' = [proc EXCEPT ![p] = Fresh]
    /\ UNCHANGED <<worldVars, streamVars>>

----------------------------------------------------------------------------
Handler(p) ==
    \/ Connect(p) \/ Look(p) \/ Change(p) \/ Poll(p) \/ Status(p) \/ Watch(p) \/ Say(p)
    \/ Close(p)
Dispatch(p) == Redirect(p) \/ Restore(p) \/ Judge(p) \/ Report(p)
World == DaemonFails \/ DaemonRecovers \/ GuestPowersOff

Next == World \/ \E p \in Procs : Invoke(p) \/ Lock(p) \/ Handler(p) \/ Dispatch(p)

Spec == Init /\ [][Next]_vars

\* Go runs every goroutine and hands a mutex to its waiters in order; a wedged
\* daemon is restarted in the end.
FairSpec ==
    /\ Spec
    /\ \A p \in Procs : WF_vars(Handler(p) \/ Dispatch(p)) /\ SF_vars(Lock(p))
    /\ WF_vars(DaemonRecovers)

----------------------------------------------------------------------------
(* Properties.                                                             *)

Holding == {"pipes", "run", "close", "restore"}

Invocation == [at : Holding \cup {"idle", "lock", "judge", "report"}, m : DOMAIN Program, pc : 1..8,
               conn : BOOLEAN, fds : BOOLEAN, err : BOOLEAN, saved : Procs \cup {Terminal}, wrote : Nat,
               out : Seq(Procs), done : BOOLEAN, verdict : {"none", "pass", "fail", "skip"}]

\* Every variable keeps its type, and the mutex is held by exactly the
\* invocation that captures.
TypeOK ==
    /\ mu \in Procs \cup {Nobody} /\ stdout \in Procs \cup {Terminal}
    /\ pipe \in [Procs -> Seq(Procs)]
    /\ daemon \in {"up", "wedged", "down"} /\ domain \in {"running", "off", "absent"} /\ snap \in BOOLEAN
    /\ late \subseteq Changes /\ faults \in 0..MaxFaults
    /\ proc \in [Procs -> Invocation]
    /\ \A p \in Procs : (mu = p) = (proc[p].at \in Holding /\ proc[p].m \notin Internal)

\* The output a step is judged by is what its own handler printed, all of it and
\* nothing of another verb's (provider.go, "verb Invokes can overlap and the
\* redirect is process-global").
OwnOutputWhole ==
    \A p \in Procs : proc[p].at \in {"judge", "report"} =>
        Len(proc[p].out) = proc[p].wrote /\ \A i \in DOMAIN proc[p].out : proc[p].out[i] = p

\* The process has its own streams back whenever nobody captures, also after
\* handlers that failed.
StreamsComeBack == mu = Nobody => stdout = Terminal

\* An invocation that has reported holds no connection and no pipe, whichever
\* of its calls failed.
NothingLeftOpen == \A p \in Procs : proc[p].at \in {"judge", "report"} => ~proc[p].conn /\ ~proc[p].fds

\* A step that expects success and passes has made its change: a snapshot
\* created, deleted or reverted to, keys sent, a guest process started.
PassMeansDone ==
    \A p \in Procs :
        /\ proc[p].at = "report" /\ proc[p].verdict = "pass" /\ ~proc[p].err
        /\ \E i \in DOMAIN Program[proc[p].m] : Program[proc[p].m][i] \in Changes
        => proc[p].done

\* Every invocation reports in the end.
EveryVerbReports == \A p \in Procs : proc[p].at # "idle" ~> proc[p].at = "idle"

=============================================================================
