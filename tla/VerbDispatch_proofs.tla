------------------------- MODULE VerbDispatch_proofs -------------------------
(* Theorems about the verb's dispatch, for any number of invocations, any     *)
(* methods they are asked for, and any sizes of pipes and outputs.            *)
EXTENDS VerbDispatch, TLAPS

LEMMA Bounds == PipeSize \in Nat /\ BigOutput \in Nat /\ MaxFaults \in Nat
BY VerbAssumption

LEMMA Ids == Nobody \notin Procs /\ Terminal \notin Procs
BY VerbAssumption

-----------------------------------------------------------------------------
(* The handlers as sequences.                                                 *)

Handlers ==
    {List, Info, Screenshot, SendKey, Passwd, Qmp, DomainXML, Console, Events, GuestPing,
     GuestQuery, GuestExec, GuestFstrim, SnapshotList, SnapshotCreate, SnapshotInfo,
     SnapshotRevert, SnapshotDelete, PingOp, ListOp, XmlOp, DisplayOp, Gate}

LEMMA ProgramFacts ==
    ASSUME NEW m \in DOMAIN Program
    PROVE  Len(Program[m]) \in 1..8
<1>1. Program[m] \in Handlers
  BY DEF Program, Handlers
<1>2. \A h \in Handlers : Len(h) \in 1..8
  BY DEF Handlers, List, Info, Screenshot, SendKey, Passwd, Qmp, DomainXML, Console, Events,
         GuestPing, GuestQuery, GuestExec, GuestFstrim, SnapshotList, SnapshotCreate, SnapshotInfo,
         SnapshotRevert, SnapshotDelete, PingOp, ListOp, XmlOp, DisplayOp, Gate, ResolveTarget,
         Running, CaptureScreenshot, MapKeys, AgentQuery, ExecAndWait, DisplayEndpoint
<1> QED BY <1>1, <1>2

LEMMA FirstCall == ASSUME NEW m \in DOMAIN Program PROVE 1 \in 1..Len(Program[m])
<1>1. \A l \in 1..8 : 1 \in 1..l
  OBVIOUS
<1> QED BY <1>1, ProgramFacts

\* An internal operation prints nothing.
LEMMA InternalSilent ==
    ASSUME NEW m \in Internal, NEW i \in 1..Len(Program[m])
    PROVE  Program[m][i] \notin {"say", "dump", "watch"}
<1>1. Program[m] \in {PingOp, ListOp, XmlOp, DisplayOp, Gate}
  BY DEF Program, Internal
<1>2. \A h \in {PingOp, ListOp, XmlOp, DisplayOp, Gate} :
        \A k \in 1..Len(h) : h[k] \notin {"say", "dump", "watch"}
  BY DEF PingOp, ListOp, XmlOp, DisplayOp, Gate, ResolveTarget, DisplayEndpoint
<1> QED BY <1>1, <1>2

-----------------------------------------------------------------------------
(* What holds of one invocation r, whose pipes hold u, when os.Stdout is so.  *)

Placed(r) ==
    /\ r.at \in {"lock", "pipes", "restore"} => r.m \notin Internal
    /\ r.fds <=> (r.at \in {"run", "close", "restore"} /\ r.m \notin Internal)
    /\ r.conn => r.at \in {"run", "close"}
    /\ r.at = "run" => r.pc \in 1..Len(Program[r.m])

Captured(r, u, p, so) ==
    /\ r.fds => /\ so = p /\ r.saved = Terminal
                /\ Len(u) = r.wrote /\ \A i \in DOMAIN u : u[i] = p
    /\ ~r.fds => u = << >>
    /\ ~r.fds /\ r.at \notin {"judge", "report"} => r.wrote = 0 /\ r.out = << >>
    /\ r.at \in {"judge", "report"} =>
            Len(r.out) = r.wrote /\ \A i \in DOMAIN r.out : r.out[i] = p

\* The changes among the first n calls have been made.
Made(r, n) == \A i \in 1..n : Program[r.m][i] \in Changes => r.done

Credible(r) ==
    /\ r.at \in {"lock", "pipes"} => r.pc = 1
    /\ r.at = "run" => Made(r, r.pc - 1)
    /\ r.at \in {"close", "restore", "judge"} /\ ~r.err => Made(r, Len(Program[r.m]))
    /\ r.at = "report" /\ r.verdict = "pass" /\ ~r.err => Made(r, Len(Program[r.m]))

VerbInv ==
    /\ TypeOK
    /\ \A p \in Procs : Placed(proc[p])
    /\ \A p \in Procs : Captured(proc[p], pipe[p], p, stdout)
    /\ \A p \in Procs : Credible(proc[p])
    /\ stdout # Terminal => proc[stdout].fds

LEMMA InvImplies ==
    VerbInv => OwnOutputWhole /\ StreamsComeBack /\ NothingLeftOpen /\ PassMeansDone
<1> SUFFICES ASSUME VerbInv PROVE OwnOutputWhole /\ StreamsComeBack /\ NothingLeftOpen /\ PassMeansDone
  OBVIOUS
<1>1. OwnOutputWhole
  BY DEF VerbInv, OwnOutputWhole, Captured
<1>2. StreamsComeBack
  BY Ids DEF VerbInv, TypeOK, StreamsComeBack, Placed, Holding
<1>3. NothingLeftOpen
  BY DEF VerbInv, NothingLeftOpen, Placed
<1>4. PassMeansDone
  <2> SUFFICES ASSUME NEW p \in Procs, proc[p].at = "report", proc[p].verdict = "pass", ~proc[p].err,
                      NEW i \in DOMAIN Program[proc[p].m], Program[proc[p].m][i] \in Changes
               PROVE  proc[p].done
    BY DEF PassMeansDone
  <2>1. Made(proc[p], Len(Program[proc[p].m]))
    BY DEF VerbInv, Credible
  <2>2. Program[proc[p].m] \in Handlers
    BY DEF VerbInv, TypeOK, Invocation, Program, Handlers
  <2>3. i \in 1..Len(Program[proc[p].m])
    <3>1. \A h \in Handlers : DOMAIN h = 1..Len(h)
      BY DEF Handlers, List, Info, Screenshot, SendKey, Passwd, Qmp, DomainXML, Console, Events,
             GuestPing, GuestQuery, GuestExec, GuestFstrim, SnapshotList, SnapshotCreate,
             SnapshotInfo, SnapshotRevert, SnapshotDelete, PingOp, ListOp, XmlOp, DisplayOp, Gate,
             ResolveTarget, Running, CaptureScreenshot, MapKeys, AgentQuery, ExecAndWait,
             DisplayEndpoint
    <3> QED BY <2>2, <3>1
  <2> QED BY <2>1, <2>3 DEF Made
<1> QED BY <1>1, <1>2, <1>3, <1>4

-----------------------------------------------------------------------------
(* The initial states, and the steps of the surroundings.                     *)

LEMMA FreshFacts ==
    /\ Fresh \in Invocation
    /\ Fresh.at = "idle" /\ ~Fresh.fds /\ ~Fresh.conn /\ ~Fresh.err /\ Fresh.wrote = 0
    /\ Fresh.out = << >> /\ Fresh.pc = 1 /\ Fresh.verdict = "none"
<1>1. << >> \in Seq(Procs) /\ "list" \in DOMAIN Program
  BY DEF Program
<1>2. Fresh \in Invocation
  BY <1>1 DEF Fresh, Invocation
<1>3. Fresh.at = "idle" /\ Fresh.out = << >> /\ Fresh.verdict = "none"
  BY Zenon DEF Fresh
<1>4. Fresh.pc = 1 /\ Fresh.wrote = 0
  BY Zenon DEF Fresh
<1>5. Fresh.fds = FALSE /\ Fresh.conn = FALSE /\ Fresh.err = FALSE
  BY Zenon DEF Fresh
<1> QED BY <1>2, <1>3, <1>4, <1>5

LEMMA VerbInit == Init => VerbInv
<1> SUFFICES ASSUME Init PROVE VerbInv
  OBVIOUS
<1>1. pipe \in [Procs -> Seq(Procs)] /\ \A p \in Procs : pipe[p] = << >>
  BY DEF Init
<1>2. TypeOK
  <2>1. proc \in [Procs -> Invocation] /\ \A p \in Procs : mu # p /\ proc[p].at \notin Holding
    BY FreshFacts, Ids DEF Init, Holding
  <2>2. \A p \in Procs : (mu = p) = (proc[p].at \in Holding /\ proc[p].m \notin Internal)
    BY <2>1
  <2>3. faults \in 0..MaxFaults
    BY Bounds DEF Init
  <2> QED BY <1>1, <2>1, <2>2, <2>3 DEF Init, TypeOK
<1>3. \A p \in Procs : proc[p] = Fresh
  BY DEF Init
<1>4. \A p \in Procs : Placed(proc[p]) /\ Credible(proc[p])
  BY <1>3, FreshFacts DEF Placed, Credible
<1>5. \A p \in Procs : Captured(proc[p], pipe[p], p, stdout)
  BY <1>1, <1>3, FreshFacts DEF Captured
<1> QED BY <1>2, <1>4, <1>5 DEF VerbInv, Init

\* What does not touch the invocations keeps the invariant.
LEMMA WorldStep ==
    ASSUME VerbInv, UNCHANGED <<streamVars, proc>>, daemon' \in {"up", "wedged", "down"},
           domain' \in {"running", "off", "absent"}, snap' \in BOOLEAN, late' \subseteq Changes,
           faults' \in 0..MaxFaults
    PROVE  VerbInv'
<1>1. mu' = mu /\ stdout' = stdout /\ pipe' = pipe /\ proc' = proc
  BY DEF streamVars
<1>2. TypeOK'
  BY <1>1 DEF VerbInv, TypeOK
<1> QED BY <1>1, <1>2 DEF VerbInv

LEMMA WorldKeeps == VerbInv /\ (World \/ UNCHANGED vars) => VerbInv'
<1> SUFFICES ASSUME VerbInv, World \/ UNCHANGED vars PROVE VerbInv'
  OBVIOUS
<1>1. UNCHANGED <<streamVars, proc>>
  BY DEF World, DaemonFails, DaemonRecovers, GuestPowersOff, vars
<1>2. daemon' \in {"up", "wedged", "down"} /\ domain' \in {"running", "off", "absent"}
  BY DEF World, DaemonFails, DaemonRecovers, GuestPowersOff, vars, worldVars, VerbInv, TypeOK
<1>3. snap' \in BOOLEAN /\ late' \subseteq Changes
  BY DEF World, DaemonFails, DaemonRecovers, GuestPowersOff, vars, worldVars, VerbInv, TypeOK,
         Applied
<1>4. faults' \in 0..MaxFaults
  BY Bounds DEF World, DaemonFails, DaemonRecovers, GuestPowersOff, vars, worldVars, VerbInv, TypeOK
<1> QED BY <1>1, <1>2, <1>3, <1>4, WorldStep

-----------------------------------------------------------------------------
(* One invocation steps.                                                      *)

\* If the new record of p satisfies the invariant and the others are let alone,
\* so does the new state.
LEMMA OneSteps ==
    ASSUME VerbInv, NEW p \in Procs, NEW r \in Invocation,
           proc' = [proc EXCEPT ![p] = r],
           UNCHANGED <<daemon, domain, faults>>, snap' \in BOOLEAN, late' \subseteq Changes,
           mu' \in Procs \cup {Nobody}, stdout' \in Procs \cup {Terminal},
           pipe' \in [Procs -> Seq(Procs)],
           \A q \in Procs \ {p} : pipe'[q] = pipe[q],
           \A q \in Procs \ {p} : (mu' = q) = (mu = q),
           (mu' = p) = (r.at \in Holding /\ r.m \notin Internal),
           stdout' = stdout \/ \A q \in Procs \ {p} : ~proc[q].fds,
           stdout' # Terminal => IF stdout' = p THEN r.fds ELSE proc[stdout'].fds,
           Placed(r), Captured(r, pipe'[p], p, stdout'), Credible(r)
    PROVE  VerbInv'
<1>1. /\ proc \in [Procs -> Invocation] /\ proc' \in [Procs -> Invocation]
      /\ proc'[p] = r /\ \A q \in Procs \ {p} : proc'[q] = proc[q]
  BY DEF VerbInv, TypeOK
<1>2. TypeOK'
  <2>1. \A q \in Procs : (mu = q) = (proc[q].at \in Holding /\ proc[q].m \notin Internal)
    BY DEF VerbInv, TypeOK
  <2>2. \A q \in Procs : (mu' = q) = (proc'[q].at \in Holding /\ proc'[q].m \notin Internal)
    BY <1>1, <2>1
  <2> QED BY <1>1, <2>2 DEF VerbInv, TypeOK
<1>3. \A q \in Procs : Placed(proc'[q]) /\ Credible(proc'[q])
  BY <1>1 DEF VerbInv
<1>4. \A q \in Procs : Captured(proc'[q], pipe'[q], q, stdout')
  <2> SUFFICES ASSUME NEW q \in Procs \ {p} PROVE Captured(proc[q], pipe[q], q, stdout')
    BY <1>1
  <2>1. Captured(proc[q], pipe[q], q, stdout)
    BY DEF VerbInv
  <2> QED BY <2>1 DEF Captured
<1>5. stdout' # Terminal => proc'[stdout'].fds
  BY <1>1
<1> QED BY <1>2, <1>3, <1>4, <1>5 DEF VerbInv

\* A step of a handler that does not print: streams and pipes stay.
LEMMA QuietStep ==
    ASSUME VerbInv, NEW p \in Procs, NEW r \in Invocation,
           proc' = [proc EXCEPT ![p] = r],
           UNCHANGED <<streamVars, daemon, domain, faults>>, snap' \in BOOLEAN, late' \subseteq Changes,
           r.m = proc[p].m, r.fds = proc[p].fds, r.saved = proc[p].saved, r.wrote = proc[p].wrote,
           r.out = proc[p].out, proc[p].at \in {"run", "close"},
           r.at \in {"run", "close", "restore"} \/ (r.at = "judge" /\ r.m \in Internal),
           Placed(r), Credible(r)
    PROVE  VerbInv'
<1>1. mu' = mu /\ stdout' = stdout /\ pipe' = pipe
  BY DEF streamVars
<1>2. /\ mu \in Procs \cup {Nobody} /\ stdout \in Procs \cup {Terminal} /\ pipe \in [Procs -> Seq(Procs)]
      /\ proc[p] \in Invocation
  BY DEF VerbInv, TypeOK
<1>3. (mu = p) = (r.at \in Holding /\ r.m \notin Internal)
  <2>1. (mu = p) = (proc[p].at \in Holding /\ proc[p].m \notin Internal)
    BY DEF VerbInv, TypeOK
  <2> QED BY <2>1 DEF Holding
<1>4. Captured(r, pipe[p], p, stdout)
  <2>1. Captured(proc[p], pipe[p], p, stdout) /\ Placed(proc[p])
    BY DEF VerbInv
  <2>2. CASE r.at \in {"run", "close", "restore"}
    BY <2>1, <2>2 DEF Captured
  <2>3. CASE r.at = "judge" /\ r.m \in Internal
    <3>1. r.wrote = 0 /\ r.out = << >> /\ ~r.fds
      BY <2>1, <2>3 DEF Captured, Placed
    <3>2. pipe[p] = << >>
      BY <2>1, <3>1 DEF Captured
    <3> QED BY <2>3, <3>1, <3>2 DEF Captured
  <2> QED BY <2>2, <2>3
<1>5. stdout # Terminal => IF stdout = p THEN r.fds ELSE proc[stdout].fds
  BY DEF VerbInv
<1> QED BY <1>1, <1>2, <1>3, <1>4, <1>5, OneSteps

\* A handler that goes on: the call is done, or was not a change.
LEMMA AdvancedFacts ==
    ASSUME NEW r \in Invocation, r.at = "run", Placed(r),
           r.done \/ (Made(r, r.pc - 1) /\ Program[r.m][r.pc] \notin Changes)
    PROVE  LET n == Advanced(r)
           IN  /\ n \in Invocation /\ n.at \in {"run", "close"} /\ n.m = r.m /\ n.fds = r.fds
               /\ n.saved = r.saved /\ n.wrote = r.wrote /\ n.out = r.out /\ n.conn = r.conn
               /\ n.err = r.err
               /\ Placed(n) /\ Credible(n)
<1> DEFINE n == Advanced(r)
<1>1. Len(Program[r.m]) \in 1..8 /\ r.pc \in 1..Len(Program[r.m])
  BY ProgramFacts DEF Placed, Invocation
<1>2. /\ n.m = r.m /\ n.fds = r.fds /\ n.saved = r.saved /\ n.wrote = r.wrote /\ n.out = r.out
      /\ n.conn = r.conn /\ n.done = r.done /\ n.err = r.err
  BY DEF Advanced, Invocation
<1>3. Made(r, r.pc)
  BY <1>1 DEF Made
<1>4. CASE r.pc = Len(Program[r.m])
  <2>1. n = [r EXCEPT !.at = "close"] /\ n \in Invocation /\ n.at = "close"
    BY <1>4 DEF Advanced, Invocation, Holding
  <2>2. Made(n, Len(Program[n.m]))
    BY <1>2, <1>3, <1>4 DEF Made
  <2> HIDE DEF n
  <2>3. Placed(n)
    BY <1>2, <2>1 DEF Placed
  <2>4. Credible(n)
    BY <2>1, <2>2 DEF Credible
  <2> QED BY <1>2, <2>1, <2>3, <2>4 DEF n
<1>5. CASE r.pc # Len(Program[r.m])
  <2>0. r.pc + 1 \in 1..8
    <3>1. \A l \in 1..8 : \A k \in 1..l : k # l => k + 1 \in 1..8
      OBVIOUS
    <3> QED BY <1>1, <1>5, <3>1
  <2>1. n = [r EXCEPT !.pc = @ + 1] /\ r.pc + 1 \in 1..8
    BY <1>5, <2>0 DEF Advanced
  <2>2. n \in Invocation /\ n.at = "run" /\ n.pc = r.pc + 1
    BY <2>1 DEF Invocation
  <2>3. Made(n, n.pc - 1)
    BY <1>1, <1>2, <1>3, <2>2 DEF Made
  <2> HIDE DEF n
  <2>4. Placed(n)
    BY <1>1, <1>2, <1>5, <2>2 DEF Placed
  <2>5. Credible(n)
    BY <2>2, <2>3 DEF Credible
  <2> QED BY <1>2, <2>2, <2>4, <2>5 DEF n
<1> QED BY <1>4, <1>5

\* A handler that fails.
LEMMA FailedFacts ==
    ASSUME NEW r \in Invocation, r.at = "run", Placed(r)
    PROVE  LET n == [r EXCEPT !.at = "close", !.err = TRUE]
           IN  /\ n \in Invocation /\ n.at = "close" /\ n.m = r.m /\ n.fds = r.fds
               /\ n.saved = r.saved /\ n.wrote = r.wrote /\ n.out = r.out
               /\ Placed(n) /\ Credible(n)
<1> DEFINE n == [r EXCEPT !.at = "close", !.err = TRUE]
<1>1. n \in Invocation /\ n.at = "close"
  BY DEF Invocation, Holding
<1>2. /\ n.m = r.m /\ n.fds = r.fds /\ n.saved = r.saved /\ n.wrote = r.wrote /\ n.out = r.out
      /\ n.conn = r.conn
  BY DEF Invocation
<1>3. n.err = TRUE
  BY DEF Invocation
<1> HIDE DEF n
<1>4. Placed(n) /\ Credible(n)
  BY <1>1, <1>2, <1>3 DEF Placed, Credible
<1> QED BY <1>1, <1>2, <1>4 DEF n

-----------------------------------------------------------------------------
(* The steps of a handler.                                                    *)

\* Going on without a change, and failing, as steps.
LEMMA AdvanceStep ==
    ASSUME VerbInv, NEW p \in Procs, At(p, {Call(p)}), Call(p) \notin Changes, Advance(p),
           UNCHANGED <<streamVars, daemon, domain, faults>>, snap' \in BOOLEAN, late' \subseteq Changes
    PROVE  VerbInv'
<1>1. proc[p] \in Invocation /\ proc[p].at = "run" /\ Placed(proc[p]) /\ Credible(proc[p])
  BY DEF VerbInv, TypeOK, At
<1>2. Made(proc[p], proc[p].pc - 1) /\ Program[proc[p].m][proc[p].pc] \notin Changes
  BY <1>1 DEF Credible, Call
<1>3. proc' = [proc EXCEPT ![p] = Advanced(proc[p])]
  BY DEF Advance
<1> QED BY <1>1, <1>2, <1>3, AdvancedFacts, QuietStep

LEMMA FailStep ==
    ASSUME VerbInv, NEW p \in Procs, proc[p].at = "run", Fail(p),
           UNCHANGED <<streamVars, daemon, domain, faults>>, snap' \in BOOLEAN, late' \subseteq Changes
    PROVE  VerbInv'
<1>1. proc[p] \in Invocation /\ Placed(proc[p])
  BY DEF VerbInv, TypeOK
<1>2. proc' = [proc EXCEPT ![p] = [proc[p] EXCEPT !.at = "close", !.err = TRUE]]
  BY <1>1 DEF Fail, VerbInv, TypeOK
<1> QED BY <1>1, <1>2, FailedFacts, QuietStep

\* A call that leaves the world alone and is no change.
LEMMA LookingStep ==
    ASSUME VerbInv, NEW p \in Procs, proc[p].at = "run", Call(p) \notin Changes,
           Advance(p) \/ Fail(p), UNCHANGED <<worldVars, streamVars>>
    PROVE  VerbInv'
<1>1. UNCHANGED <<streamVars, daemon, domain, faults>> /\ snap' \in BOOLEAN /\ late' \subseteq Changes
  BY DEF worldVars, VerbInv, TypeOK
<1>2. At(p, {Call(p)})
  BY DEF At
<1> QED BY <1>1, <1>2, AdvanceStep, FailStep

LEMMA ConnectStep == ASSUME VerbInv, NEW p \in Procs, Connect(p) PROVE VerbInv'
<1>1. proc[p].at = "run" /\ Call(p) = "connect" /\ UNCHANGED <<worldVars, streamVars>>
  BY DEF Connect, At
<1>2. Call(p) \notin Changes
  BY <1>1 DEF Changes, Local
<1>3. CASE Fail(p)
  BY <1>1, <1>2, <1>3, LookingStep
<1>4. CASE proc' = [proc EXCEPT ![p] = Advanced([@ EXCEPT !.conn = TRUE])]
  <2> DEFINE r == [proc[p] EXCEPT !.conn = TRUE]
  <2>1. proc[p] \in Invocation /\ Placed(proc[p]) /\ Credible(proc[p])
    BY DEF VerbInv, TypeOK
  <2>2. r \in Invocation
    BY <2>1 DEF Invocation
  <2>3. /\ r.at = "run" /\ r.m = proc[p].m /\ r.pc = proc[p].pc /\ r.fds = proc[p].fds
        /\ r.saved = proc[p].saved /\ r.wrote = proc[p].wrote /\ r.out = proc[p].out
        /\ r.done = proc[p].done
    BY <1>1, <2>1 DEF Invocation
  <2>4. proc' = [proc EXCEPT ![p] = Advanced(r)]
    BY <1>4, <2>1 DEF VerbInv, TypeOK
  <2> HIDE DEF r
  <2>5. Placed(r) /\ Made(r, r.pc - 1) /\ Program[r.m][r.pc] \notin Changes
    BY <1>1, <1>2, <2>1, <2>3 DEF Placed, Credible, Made, Call
  <2>6. UNCHANGED <<streamVars, daemon, domain, faults>> /\ snap' \in BOOLEAN /\ late' \subseteq Changes
    BY <1>1 DEF worldVars, VerbInv, TypeOK
  <2> QED BY <1>1, <2>2, <2>3, <2>4, <2>5, <2>6, AdvancedFacts, QuietStep
<1> QED BY <1>3, <1>4 DEF Connect

LEMMA LookStep == ASSUME VerbInv, NEW p \in Procs, Look(p) \/ Poll(p) \/ Status(p) PROVE VerbInv'
<1>1. proc[p].at = "run" /\ Call(p) \notin Changes
  BY DEF Look, Poll, Status, At, Changes, Local
<1>2. (Advance(p) \/ Fail(p)) /\ UNCHANGED <<worldVars, streamVars>>
  BY DEF Look, Poll, Status
<1> QED BY <1>1, <1>2, LookingStep

LEMMA ChangeStep == ASSUME VerbInv, NEW p \in Procs, Change(p) PROVE VerbInv'
<1>1. /\ proc[p].at = "run" /\ Call(p) \in Changes
      /\ UNCHANGED <<streamVars, daemon, domain, faults>>
  BY DEF Change, At
<1>2. snap' \in BOOLEAN /\ late' \subseteq Changes
  BY <1>1 DEF Change, Applied, VerbInv, TypeOK
<1>3. CASE Fail(p)
  BY <1>1, <1>2, <1>3, FailStep
<1>4. CASE proc' = [proc EXCEPT ![p] = Advanced([@ EXCEPT !.done = TRUE])]
  <2> DEFINE r == [proc[p] EXCEPT !.done = TRUE]
  <2>1. proc[p] \in Invocation /\ Placed(proc[p])
    BY DEF VerbInv, TypeOK
  <2>2. r \in Invocation
    BY <2>1 DEF Invocation
  <2>3. /\ r.at = "run" /\ r.m = proc[p].m /\ r.pc = proc[p].pc /\ r.fds = proc[p].fds
        /\ r.saved = proc[p].saved /\ r.wrote = proc[p].wrote /\ r.out = proc[p].out
        /\ r.conn = proc[p].conn
    BY <1>1, <2>1 DEF Invocation
  <2>4. r.done = TRUE
    BY <2>1 DEF Invocation
  <2>5. proc' = [proc EXCEPT ![p] = Advanced(r)]
    BY <1>4, <2>1 DEF VerbInv, TypeOK
  <2> HIDE DEF r
  <2>6. Placed(r)
    <3>1. r.at = proc[p].at
      BY <1>1, <2>3
    <3> QED BY <2>1, <2>3, <3>1 DEF Placed
  <2>7. r.done \/ (Made(r, r.pc - 1) /\ Program[r.m][r.pc] \notin Changes)
    BY <2>4
  <2>8. LET n == Advanced(r)
        IN  /\ n \in Invocation /\ n.at \in {"run", "close"} /\ n.m = r.m /\ n.fds = r.fds
            /\ n.saved = r.saved /\ n.wrote = r.wrote /\ n.out = r.out
            /\ Placed(n) /\ Credible(n)
    BY <2>2, <2>3, <2>6, <2>7, AdvancedFacts
  <2> QED BY <1>1, <1>2, <2>3, <2>5, <2>8, QuietStep
<1> QED BY <1>3, <1>4 DEF Change

LEMMA CloseStep == ASSUME VerbInv, NEW p \in Procs, Close(p) PROVE VerbInv'
<1> DEFINE at == IF proc[p].m \in Internal THEN "judge" ELSE "restore"
           r == [proc[p] EXCEPT !.at = at, !.conn = FALSE]
<1>1. proc[p] \in Invocation /\ Placed(proc[p]) /\ Credible(proc[p]) /\ proc[p].at = "close"
  BY DEF VerbInv, TypeOK, Close
<1>2. r \in Invocation /\ r.at = at
  BY <1>1 DEF Invocation, Holding
<1>3. /\ r.m = proc[p].m /\ r.fds = proc[p].fds /\ r.saved = proc[p].saved /\ r.wrote = proc[p].wrote
      /\ r.out = proc[p].out /\ r.err = proc[p].err /\ r.done = proc[p].done
  BY <1>1 DEF Invocation
<1>4. r.conn = FALSE
  BY <1>1 DEF Invocation
<1>5. proc' = [proc EXCEPT ![p] = r]
  BY <1>1 DEF Close, VerbInv, TypeOK
<1>6. UNCHANGED <<streamVars, daemon, domain, faults>> /\ snap' \in BOOLEAN /\ late' \subseteq Changes
  BY DEF Close, worldVars, VerbInv, TypeOK
<1> HIDE DEF r
<1>7. Placed(r)
  BY <1>1, <1>2, <1>3, <1>4 DEF Placed
<1>8. Credible(r)
  BY <1>1, <1>2, <1>3 DEF Credible, Made
<1> QED BY <1>1, <1>2, <1>3, <1>5, <1>6, <1>7, <1>8, QuietStep

-----------------------------------------------------------------------------
(* Printing.                                                                  *)

\* Who prints is captured, so what is printed goes into the printer's own pipe.
LEMMA PutOwn ==
    ASSUME VerbInv, NEW p \in Procs, proc[p].at = "run", Call(p) \in {"say", "dump", "watch"}, Put(p)
    PROVE  /\ proc[p].fds /\ stdout = p
           /\ pipe' = [pipe EXCEPT ![p] = Append(@, p)]
<1>1. proc[p] \in Invocation /\ Placed(proc[p])
  BY DEF VerbInv, TypeOK
<1>2. proc[p].m \notin Internal
  BY <1>1, InternalSilent DEF Placed, Call
<1>3. proc[p].fds
  BY <1>1, <1>2 DEF Placed
<1>4. stdout = p
  BY <1>3 DEF VerbInv, Captured
<1> QED BY <1>3, <1>4 DEF Put

LEMMA Appended ==
    ASSUME VerbInv, NEW p \in Procs, proc[p].fds, pipe' = [pipe EXCEPT ![p] = Append(@, p)]
    PROVE  /\ pipe' \in [Procs -> Seq(Procs)] /\ \A q \in Procs \ {p} : pipe'[q] = pipe[q]
           /\ Len(pipe'[p]) = proc[p].wrote + 1 /\ \A i \in DOMAIN pipe'[p] : pipe'[p][i] = p
<1>1. pipe \in [Procs -> Seq(Procs)] /\ pipe[p] \in Seq(Procs) /\ pipe'[p] = Append(pipe[p], p)
  BY DEF VerbInv, TypeOK
<1>2. Len(pipe[p]) = proc[p].wrote /\ \A i \in DOMAIN pipe[p] : pipe[p][i] = p
  BY DEF VerbInv, Captured
<1>3. Append(pipe[p], p) \in Seq(Procs)
  BY <1>1
<1>4. pipe' \in [Procs -> Seq(Procs)] /\ \A q \in Procs \ {p} : pipe'[q] = pipe[q]
  BY <1>1, <1>3
<1>5. Len(pipe'[p]) = proc[p].wrote + 1
  BY <1>1, <1>2
<1>6. \A i \in DOMAIN pipe'[p] : pipe'[p][i] = p
  BY <1>1, <1>2
<1> QED BY <1>4, <1>5, <1>6

\* A printing handler, with the record it goes on with.
LEMMA PrintStep ==
    ASSUME VerbInv, NEW p \in Procs, proc[p].at = "run", Call(p) \in {"say", "dump", "watch"}, Put(p),
           NEW r \in Invocation, proc' = [proc EXCEPT ![p] = r],
           r.at \in {"run", "close"}, r.m = proc[p].m, r.fds = proc[p].fds,
           r.saved = proc[p].saved, r.wrote = proc[p].wrote + 1,
           Placed(r), Credible(r), UNCHANGED <<worldVars, mu, stdout>>
    PROVE  VerbInv'
<1>1. proc[p].fds /\ stdout = p /\ pipe' = [pipe EXCEPT ![p] = Append(@, p)]
  BY PutOwn
<1>2. /\ pipe' \in [Procs -> Seq(Procs)] /\ \A q \in Procs \ {p} : pipe'[q] = pipe[q]
      /\ Len(pipe'[p]) = r.wrote /\ \A i \in DOMAIN pipe'[p] : pipe'[p][i] = p
  BY <1>1, Appended
<1>3. Captured(r, pipe'[p], p, stdout')
  <2>1. r.fds /\ r.saved = Terminal /\ stdout' = p
    BY <1>1 DEF VerbInv, Captured
  <2> QED BY <1>2, <2>1 DEF Captured
<1>4. UNCHANGED <<daemon, domain, faults>> /\ snap' \in BOOLEAN /\ late' \subseteq Changes
  BY DEF worldVars, VerbInv, TypeOK
<1>5. /\ mu' \in Procs \cup {Nobody} /\ stdout' \in Procs \cup {Terminal} /\ mu' = mu
      /\ stdout' = stdout
  BY DEF VerbInv, TypeOK
<1>6. (mu' = p) = (r.at \in Holding /\ r.m \notin Internal)
  <2>1. (mu = p) = (proc[p].at \in Holding /\ proc[p].m \notin Internal)
    BY DEF VerbInv, TypeOK
  <2> QED BY <2>1 DEF Holding
<1>7. stdout' # Terminal => IF stdout' = p THEN r.fds ELSE proc[stdout'].fds
  BY <1>1
<1> QED BY <1>2, <1>3, <1>4, <1>5, <1>6, <1>7, OneSteps

\* One unit more is written.
LEMMA WroteFacts ==
    ASSUME NEW r \in Invocation, r.at = "run", Placed(r), Credible(r)
    PROVE  LET n == [r EXCEPT !.wrote = @ + 1]
           IN  /\ n \in Invocation /\ n.at = "run" /\ n.m = r.m /\ n.pc = r.pc /\ n.fds = r.fds
               /\ n.saved = r.saved /\ n.wrote = r.wrote + 1
               /\ Placed(n) /\ Credible(n)
<1> DEFINE n == [r EXCEPT !.wrote = @ + 1]
<1>1. r.wrote + 1 \in Nat
  BY DEF Invocation
<1>2. n \in Invocation /\ n.wrote = r.wrote + 1
  BY <1>1 DEF Invocation
<1>3. /\ n.at = r.at /\ n.m = r.m /\ n.pc = r.pc /\ n.fds = r.fds /\ n.saved = r.saved
      /\ n.conn = r.conn /\ n.done = r.done
  BY DEF Invocation
<1> HIDE DEF n
<1>4. Placed(n)
  BY <1>3 DEF Placed
<1>5. Credible(n)
  BY <1>3 DEF Credible, Made
<1> QED BY <1>2, <1>3, <1>4, <1>5 DEF n

LEMMA SayStep == ASSUME VerbInv, NEW p \in Procs, Say(p) PROVE VerbInv'
<1>1. /\ proc[p].at = "run" /\ Call(p) \in {"say", "dump"} /\ Put(p)
      /\ UNCHANGED <<worldVars, mu, stdout>>
  BY DEF Say, At
<1>2. proc[p] \in Invocation /\ Placed(proc[p]) /\ Credible(proc[p])
  BY DEF VerbInv, TypeOK
<1> DEFINE r == [proc[p] EXCEPT !.wrote = @ + 1]
<1>3. /\ r \in Invocation /\ r.at = "run" /\ r.m = proc[p].m /\ r.pc = proc[p].pc
      /\ r.fds = proc[p].fds /\ r.saved = proc[p].saved /\ r.wrote = proc[p].wrote + 1
      /\ Placed(r) /\ Credible(r)
  BY <1>1, <1>2, WroteFacts
<1>4. proc' = [proc EXCEPT ![p] = Advanced(r)] \/ proc' = [proc EXCEPT ![p] = r]
  BY DEF Say
<1> HIDE DEF r
<1>5. Made(r, r.pc - 1) /\ Program[r.m][r.pc] \notin Changes
  BY <1>1, <1>3 DEF Credible, Call, Changes, Local
<1>6. CASE proc' = [proc EXCEPT ![p] = Advanced(r)]
  BY <1>1, <1>3, <1>5, <1>6, AdvancedFacts, PrintStep
<1>7. CASE proc' = [proc EXCEPT ![p] = r]
  BY <1>1, <1>3, <1>7, PrintStep
<1> QED BY <1>4, <1>6, <1>7

LEMMA WatchStep == ASSUME VerbInv, NEW p \in Procs, Watch(p) PROVE VerbInv'
<1>1. proc[p].at = "run" /\ Call(p) = "watch" /\ UNCHANGED <<worldVars, mu, stdout>>
  BY DEF Watch, At
<1>2. CASE (Advance(p) \/ Fail(p)) /\ UNCHANGED pipe
  BY <1>1, <1>2, LookingStep DEF Changes, Local, streamVars
<1>3. CASE Put(p) /\ proc' = [proc EXCEPT ![p].wrote = @ + 1]
  <2>1. proc[p] \in Invocation /\ Placed(proc[p]) /\ Credible(proc[p])
    BY DEF VerbInv, TypeOK
  <2> DEFINE r == [proc[p] EXCEPT !.wrote = @ + 1]
  <2>2. /\ r \in Invocation /\ r.at = "run" /\ r.m = proc[p].m /\ r.pc = proc[p].pc
        /\ r.fds = proc[p].fds /\ r.saved = proc[p].saved /\ r.wrote = proc[p].wrote + 1
        /\ Placed(r) /\ Credible(r)
    BY <1>1, <2>1, WroteFacts
  <2>3. proc' = [proc EXCEPT ![p] = r]
    BY <1>3
  <2> HIDE DEF r
  <2> QED BY <1>1, <1>3, <2>2, <2>3, PrintStep
<1> QED BY <1>2, <1>3 DEF Watch

-----------------------------------------------------------------------------
(* The dispatch.                                                              *)

\* A step of the dispatch that leaves the streams alone.
LEMMA StillStep ==
    ASSUME VerbInv, NEW p \in Procs, NEW r \in Invocation, proc' = [proc EXCEPT ![p] = r],
           UNCHANGED <<worldVars, streamVars>>, proc[p].at \in {"idle", "judge", "report"},
           r.at \in {"idle", "lock", "judge", "report"} \/ (r.at = "run" /\ r.m \in Internal),
           Placed(r), Credible(r), Captured(r, << >>, p, stdout)
    PROVE  VerbInv'
<1>1. /\ UNCHANGED <<daemon, domain, faults, mu, stdout, pipe>> /\ snap' \in BOOLEAN
      /\ late' \subseteq Changes
  BY DEF worldVars, streamVars, VerbInv, TypeOK
<1>2. /\ mu \in Procs \cup {Nobody} /\ stdout \in Procs \cup {Terminal}
      /\ pipe \in [Procs -> Seq(Procs)]
  BY DEF VerbInv, TypeOK
<1>3. ~proc[p].fds /\ ~r.fds
  BY DEF VerbInv, Placed
<1>4. pipe[p] = << >>
  BY <1>3 DEF VerbInv, Captured
<1>5. (mu = p) = (r.at \in Holding /\ r.m \notin Internal)
  <2>1. (mu = p) = (proc[p].at \in Holding /\ proc[p].m \notin Internal)
    BY DEF VerbInv, TypeOK
  <2>2. proc[p].at \notin Holding
    BY DEF Holding
  <2>3. ~(r.at \in Holding /\ r.m \notin Internal)
    BY DEF Holding
  <2> QED BY <2>1, <2>2, <2>3
<1>6. stdout # Terminal => IF stdout = p THEN r.fds ELSE proc[stdout].fds
  BY <1>3 DEF VerbInv
<1> QED BY <1>1, <1>2, <1>4, <1>5, <1>6, OneSteps

LEMMA InvokeStep == ASSUME VerbInv, NEW p \in Procs, Invoke(p) PROVE VerbInv'
<1>1. proc[p].at = "idle" /\ UNCHANGED <<worldVars, streamVars>>
  BY DEF Invoke
<1>2. PICK m \in Methods[p] :
        \/ proc' = [proc EXCEPT ![p] =
               [Fresh EXCEPT !.m = m, !.at = IF m \in Internal THEN "run" ELSE "lock"]]
        \/ m \notin Internal /\ proc' = [proc EXCEPT ![p] = [Fresh EXCEPT !.at = "report", !.verdict = "skip"]]
  BY DEF Invoke
<1>3. m \in DOMAIN Program
  BY MethodAssumption
<1>4. CASE proc' = [proc EXCEPT ![p] =
               [Fresh EXCEPT !.m = m, !.at = IF m \in Internal THEN "run" ELSE "lock"]]
  <2> DEFINE r == [Fresh EXCEPT !.m = m, !.at = IF m \in Internal THEN "run" ELSE "lock"]
  <2>1. r \in Invocation /\ r.m = m /\ r.at = IF m \in Internal THEN "run" ELSE "lock"
    BY <1>3, FreshFacts DEF Invocation, Holding
  <2>2. /\ r.pc = 1 /\ r.wrote = 0 /\ r.out = << >> /\ r.fds = Fresh.fds /\ r.conn = Fresh.conn
    BY FreshFacts DEF Invocation
  <2> HIDE DEF r
  <2>3. r.pc \in 1..Len(Program[r.m])
    BY <1>3, <2>1, <2>2, FirstCall
  <2>4. Placed(r)
    BY <2>1, <2>2, <2>3, FreshFacts DEF Placed
  <2>5. Credible(r)
    <3>1. r.pc - 1 = 0
      BY <2>2
    <3>2. Made(r, 0)
      BY DEF Made
    <3> QED BY <2>1, <3>1, <3>2 DEF Credible
  <2>6. Captured(r, << >>, p, stdout)
    BY <2>1, <2>2, FreshFacts DEF Captured
  <2> QED BY <1>1, <1>4, <2>1, <2>4, <2>5, <2>6, StillStep DEF r
<1>5. CASE proc' = [proc EXCEPT ![p] = [Fresh EXCEPT !.at = "report", !.verdict = "skip"]]
  <2> DEFINE r == [Fresh EXCEPT !.at = "report", !.verdict = "skip"]
  <2>1. r \in Invocation /\ r.at = "report" /\ r.verdict = "skip"
    BY FreshFacts DEF Invocation
  <2>2. r.wrote = 0 /\ r.out = << >> /\ r.fds = Fresh.fds /\ r.conn = Fresh.conn
    BY FreshFacts DEF Invocation
  <2>3. proc' = [proc EXCEPT ![p] = r]
    BY <1>5
  <2> HIDE DEF r
  <2>4. Placed(r) /\ Credible(r) /\ Captured(r, << >>, p, stdout)
    BY <2>1, <2>2, FreshFacts DEF Placed, Credible, Captured
  <2> QED BY <1>1, <2>1, <2>3, <2>4, StillStep
<1> QED BY <1>2, <1>4, <1>5

LEMMA JudgeStep == ASSUME VerbInv, NEW p \in Procs, Judge(p) PROVE VerbInv'
<1>1. proc[p].at = "judge" /\ UNCHANGED <<worldVars, streamVars>>
  BY DEF Judge
<1>2. PICK v \in {"pass", "fail", "skip"} :
        proc' = [proc EXCEPT ![p].at = "report", ![p].verdict = v]
  BY DEF Judge
<1> DEFINE r == [proc[p] EXCEPT !.at = "report", !.verdict = v]
<1>3. /\ proc[p] \in Invocation /\ Placed(proc[p]) /\ Credible(proc[p])
      /\ Captured(proc[p], pipe[p], p, stdout) /\ proc \in [Procs -> Invocation]
  BY DEF VerbInv, TypeOK
<1>4. r \in Invocation /\ r.at = "report"
  BY <1>3 DEF Invocation
<1>5. /\ r.m = proc[p].m /\ r.fds = proc[p].fds /\ r.conn = proc[p].conn /\ r.wrote = proc[p].wrote
      /\ r.out = proc[p].out /\ r.err = proc[p].err /\ r.done = proc[p].done
  BY <1>3 DEF Invocation
<1>6. proc' = [proc EXCEPT ![p] = r]
  BY <1>2, <1>3
<1> HIDE DEF r
<1>7. Placed(r)
  BY <1>1, <1>3, <1>4, <1>5 DEF Placed
<1>8. Credible(r)
  BY <1>1, <1>3, <1>4, <1>5 DEF Credible, Made
<1>9. Captured(r, << >>, p, stdout)
  BY <1>1, <1>3, <1>4, <1>5 DEF Captured, Placed
<1> QED BY <1>1, <1>4, <1>6, <1>7, <1>8, <1>9, StillStep

LEMMA ReportStep == ASSUME VerbInv, NEW p \in Procs, Report(p) PROVE VerbInv'
<1>1. /\ proc[p].at = "report" /\ UNCHANGED <<worldVars, streamVars>>
      /\ proc' = [proc EXCEPT ![p] = Fresh]
  BY DEF Report
<1>2. Placed(Fresh) /\ Credible(Fresh) /\ Captured(Fresh, << >>, p, stdout)
  BY FreshFacts DEF Placed, Credible, Captured
<1> QED BY <1>1, <1>2, FreshFacts, StillStep

\* Only one invocation is between Lock and Restore, so the streams are the
\* terminal's until it redirects them.
LEMMA NobodyElse ==
    ASSUME VerbInv, NEW p \in Procs, mu \in {p, Nobody}
    PROVE  /\ \A q \in Procs \ {p} : ~proc[q].fds
           /\ ~proc[p].fds => stdout = Terminal
<1>1. \A q \in Procs \ {p} : ~proc[q].fds
  <2> SUFFICES ASSUME NEW q \in Procs \ {p} PROVE ~proc[q].fds
    OBVIOUS
  <2>1. mu # q
    BY Ids
  <2>2. (mu = q) = (proc[q].at \in Holding /\ proc[q].m \notin Internal)
    BY DEF VerbInv, TypeOK
  <2>3. Placed(proc[q])
    BY DEF VerbInv
  <2> QED BY <2>1, <2>2, <2>3 DEF Placed, Holding
<1>2. ~proc[p].fds => stdout = Terminal
  BY <1>1 DEF VerbInv, TypeOK
<1> QED BY <1>1, <1>2

LEMMA LockStep == ASSUME VerbInv, NEW p \in Procs, Lock(p) PROVE VerbInv'
<1>1. proc[p].at = "lock" /\ mu = Nobody /\ mu' = p /\ UNCHANGED <<worldVars, stdout, pipe>>
  BY DEF Lock
<1> DEFINE r == [proc[p] EXCEPT !.at = "pipes"]
<1>2. /\ proc[p] \in Invocation /\ Placed(proc[p]) /\ Captured(proc[p], pipe[p], p, stdout)
      /\ Credible(proc[p]) /\ proc \in [Procs -> Invocation]
  BY DEF VerbInv, TypeOK
<1>3. r \in Invocation /\ r.at = "pipes"
  BY <1>2 DEF Invocation, Holding
<1>4. /\ r.m = proc[p].m /\ r.pc = proc[p].pc /\ r.fds = proc[p].fds /\ r.conn = proc[p].conn /\ r.wrote = proc[p].wrote
      /\ r.out = proc[p].out
  BY <1>2 DEF Invocation
<1>5. proc' = [proc EXCEPT ![p] = r]
  BY <1>2 DEF Lock
<1> HIDE DEF r
<1>6. Placed(r)
  BY <1>1, <1>2, <1>3, <1>4 DEF Placed
<1>7. Credible(r)
  BY <1>1, <1>2, <1>3, <1>4 DEF Credible
<1>8. Captured(r, pipe[p], p, stdout)
  <2>1. proc[p].fds = FALSE
    BY <1>1, <1>2 DEF Placed, Invocation
  <2>2. pipe[p] = << >> /\ proc[p].wrote = 0 /\ proc[p].out = << >>
    BY <1>1, <1>2, <2>1 DEF Captured
  <2> QED BY <1>3, <1>4, <2>1, <2>2 DEF Captured
<1>9. /\ UNCHANGED <<daemon, domain, faults, stdout, pipe>> /\ snap' \in BOOLEAN /\ late' \subseteq Changes
      /\ stdout \in Procs \cup {Terminal} /\ pipe \in [Procs -> Seq(Procs)]
  BY <1>1 DEF worldVars, VerbInv, TypeOK
<1>10. (mu' = p) = (r.at \in Holding /\ r.m \notin Internal)
  BY <1>1, <1>2, <1>3, <1>4 DEF Placed, Holding
<1>11. \A q \in Procs \ {p} : (mu' = q) = (mu = q)
  BY <1>1, Ids
<1>12. stdout = Terminal
  BY <1>1, <1>2, NobodyElse DEF Placed
<1> QED BY <1>1, <1>3, <1>5, <1>6, <1>7, <1>8, <1>9, <1>10, <1>11, <1>12, OneSteps

LEMMA RedirectStep == ASSUME VerbInv, NEW p \in Procs, Redirect(p) PROVE VerbInv'
<1>1. proc[p].at = "pipes" /\ UNCHANGED <<worldVars, pipe>>
  BY DEF Redirect
<1>2. /\ proc[p] \in Invocation /\ Placed(proc[p]) /\ Captured(proc[p], pipe[p], p, stdout)
      /\ Credible(proc[p]) /\ proc \in [Procs -> Invocation] /\ pipe \in [Procs -> Seq(Procs)]
  BY DEF VerbInv, TypeOK
<1>3. proc[p].m \notin Internal /\ proc[p].fds = FALSE /\ ~proc[p].conn
  BY <1>1, <1>2 DEF Placed, Invocation
<1>4. mu = p
  BY <1>1, <1>3 DEF VerbInv, TypeOK, Holding
<1>5. stdout = Terminal /\ \A q \in Procs \ {p} : ~proc[q].fds
  BY <1>3, <1>4, NobodyElse
<1>6. /\ UNCHANGED <<daemon, domain, faults, pipe>> /\ snap' \in BOOLEAN /\ late' \subseteq Changes
  BY <1>1 DEF worldVars, VerbInv, TypeOK
<1>7. proc[p].wrote = 0 /\ proc[p].out = << >> /\ pipe[p] = << >>
  BY <1>1, <1>2, <1>3 DEF Captured
<1>8. CASE /\ proc' = [proc EXCEPT ![p].at = "run", ![p].fds = TRUE, ![p].saved = stdout]
           /\ stdout' = p /\ UNCHANGED mu
  <2> DEFINE r == [proc[p] EXCEPT !.at = "run", !.fds = TRUE, !.saved = Terminal]
  <2>1. r \in Invocation /\ r.at = "run" /\ r.saved = Terminal
    BY <1>2 DEF Invocation, Holding
  <2>2. r.fds = TRUE
    BY <1>2 DEF Invocation
  <2>3. r.m = proc[p].m /\ r.pc = proc[p].pc /\ r.conn = proc[p].conn /\ r.wrote = proc[p].wrote
    BY <1>2 DEF Invocation
  <2>4. proc' = [proc EXCEPT ![p] = r]
    BY <1>2, <1>5, <1>8
  <2> HIDE DEF r
  <2>5. r.pc = 1
    BY <1>1, <1>2, <2>3 DEF Credible
  <2>6. Placed(r)
    <3>1. r.pc \in 1..Len(Program[r.m])
      BY <1>2, <2>3, <2>5, FirstCall DEF Invocation
    <3> QED BY <1>3, <2>1, <2>2, <2>3, <3>1 DEF Placed
  <2>7. Credible(r)
    <3>1. r.pc - 1 = 0
      BY <2>5
    <3>2. Made(r, 0)
      BY DEF Made
    <3> QED BY <2>1, <3>1, <3>2 DEF Credible
  <2>8. Captured(r, pipe[p], p, stdout')
    <3>1. Len(pipe[p]) = 0 /\ DOMAIN pipe[p] = {}
      BY <1>7
    <3> QED BY <1>7, <1>8, <2>1, <2>2, <2>3, <3>1 DEF Captured
  <2>9. (mu' = p) = (r.at \in Holding /\ r.m \notin Internal)
    BY <1>3, <1>4, <1>8, <2>1, <2>3 DEF Holding
  <2> QED BY <1>2, <1>4, <1>5, <1>6, <1>8, <2>1, <2>2, <2>4, <2>6, <2>7, <2>8, <2>9, OneSteps
<1>9. CASE /\ proc' = [proc EXCEPT ![p].at = "judge", ![p].err = TRUE] /\ mu' = Nobody
           /\ UNCHANGED stdout
  <2> DEFINE r == [proc[p] EXCEPT !.at = "judge", !.err = TRUE]
  <2>1. r \in Invocation /\ r.at = "judge"
    BY <1>2 DEF Invocation
  <2>2. r.err = TRUE
    BY <1>2 DEF Invocation
  <2>3. /\ r.m = proc[p].m /\ r.fds = proc[p].fds /\ r.conn = proc[p].conn /\ r.wrote = proc[p].wrote
        /\ r.out = proc[p].out
    BY <1>2 DEF Invocation
  <2>4. proc' = [proc EXCEPT ![p] = r]
    BY <1>2, <1>9
  <2> HIDE DEF r
  <2>5. Placed(r) /\ Credible(r)
    BY <1>3, <2>1, <2>2, <2>3 DEF Placed, Credible
  <2>6. Captured(r, pipe[p], p, stdout')
    <3>1. Len(r.out) = 0 /\ DOMAIN r.out = {}
      BY <1>7, <2>3
    <3> QED BY <1>3, <1>7, <2>1, <2>3, <3>1 DEF Captured
  <2>7. mu' # p /\ r.at \notin Holding /\ \A q \in Procs \ {p} : (mu' = q) = (mu = q)
    BY <1>4, <1>9, <2>1, Ids DEF Holding
  <2> QED BY <1>2, <1>5, <1>6, <1>9, <2>1, <2>4, <2>5, <2>6, <2>7, OneSteps
<1> QED BY <1>8, <1>9 DEF Redirect

LEMMA RestoreStep == ASSUME VerbInv, NEW p \in Procs, Restore(p) PROVE VerbInv'
<1>1. /\ proc[p].at = "restore" /\ UNCHANGED worldVars /\ stdout' = proc[p].saved /\ mu' = Nobody
      /\ pipe' = [pipe EXCEPT ![p] = << >>]
  BY DEF Restore
<1>2. /\ proc[p] \in Invocation /\ Placed(proc[p]) /\ Captured(proc[p], pipe[p], p, stdout)
      /\ Credible(proc[p])
      /\ proc \in [Procs -> Invocation] /\ pipe \in [Procs -> Seq(Procs)] /\ pipe[p] \in Seq(Procs)
  BY DEF VerbInv, TypeOK
<1>3. proc[p].m \notin Internal /\ proc[p].fds /\ ~proc[p].conn
  BY <1>1, <1>2 DEF Placed
<1>4. /\ stdout' = Terminal /\ Len(pipe[p]) = proc[p].wrote /\ \A i \in DOMAIN pipe[p] : pipe[p][i] = p
  BY <1>1, <1>2, <1>3 DEF Captured
<1>5. mu = p
  BY <1>1, <1>3 DEF VerbInv, TypeOK, Holding
<1>6. \A q \in Procs \ {p} : ~proc[q].fds
  BY <1>5, NobodyElse
<1> DEFINE r == [proc[p] EXCEPT !.at = "judge", !.fds = FALSE, !.out = pipe[p]]
<1>7. r \in Invocation /\ r.at = "judge" /\ r.out = pipe[p]
  BY <1>2 DEF Invocation
<1>8. r.fds = FALSE
  BY <1>2 DEF Invocation
<1>9. /\ r.m = proc[p].m /\ r.conn = proc[p].conn /\ r.wrote = proc[p].wrote /\ r.err = proc[p].err
      /\ r.done = proc[p].done
  BY <1>2 DEF Invocation
<1>10. proc' = [proc EXCEPT ![p] = r]
  BY <1>2 DEF Restore
<1> HIDE DEF r
<1>11. Placed(r)
  BY <1>3, <1>7, <1>8, <1>9 DEF Placed
<1>12. Credible(r)
  BY <1>1, <1>2, <1>7, <1>9 DEF Credible, Made
<1>13. pipe' \in [Procs -> Seq(Procs)] /\ pipe'[p] = << >> /\ \A q \in Procs \ {p} : pipe'[q] = pipe[q]
  BY <1>1, <1>2
<1>14. Captured(r, pipe'[p], p, stdout')
  BY <1>4, <1>7, <1>8, <1>9, <1>13 DEF Captured
<1>15. /\ UNCHANGED <<daemon, domain, faults>> /\ snap' \in BOOLEAN /\ late' \subseteq Changes
  BY <1>1 DEF worldVars, VerbInv, TypeOK
<1>16. mu' # p /\ r.at \notin Holding /\ \A q \in Procs \ {p} : (mu' = q) = (mu = q)
  BY <1>1, <1>5, <1>7, Ids DEF Holding
<1> QED BY <1>1, <1>4, <1>6, <1>7, <1>10, <1>11, <1>12, <1>13, <1>14, <1>15, <1>16, OneSteps

-----------------------------------------------------------------------------
(* The theorems.                                                              *)

LEMMA VerbStep == VerbInv /\ [Next]_vars => VerbInv'
<1> SUFFICES ASSUME VerbInv, [Next]_vars PROVE VerbInv'
  OBVIOUS
<1>1. CASE World \/ UNCHANGED vars
  BY <1>1, WorldKeeps
<1>2. CASE \E p \in Procs : Invoke(p) \/ Lock(p) \/ Handler(p) \/ Dispatch(p)
  <2>1. PICK p \in Procs : Invoke(p) \/ Lock(p) \/ Handler(p) \/ Dispatch(p)
    BY <1>2
  <2>2. CASE Handler(p)
    BY <2>2, ConnectStep, LookStep, ChangeStep, WatchStep, SayStep, CloseStep DEF Handler
  <2>3. CASE Dispatch(p)
    BY <2>3, RedirectStep, RestoreStep, JudgeStep, ReportStep DEF Dispatch
  <2> QED BY <2>1, <2>2, <2>3, InvokeStep, LockStep
<1> QED BY <1>1, <1>2 DEF Next

LEMMA VerbTrue == Spec => []VerbInv
BY VerbInit, VerbStep, PTL DEF Spec

\* Every variable keeps its type, and the mutex is held by exactly the
\* invocation that captures, for any number of overlapping verbs.
THEOREM TypeCorrect == Spec => []TypeOK
BY VerbTrue, PTL DEF VerbInv

\* A verb is judged by its own whole output, whichever others overlap it.
THEOREM OutputIsOwn == Spec => []OwnOutputWhole
BY VerbTrue, InvImplies, PTL

\* The process has its streams back whenever nobody captures.
THEOREM StreamsAreBack == Spec => []StreamsComeBack
BY VerbTrue, InvImplies, PTL

\* A reported verb holds no connection and no pipe.
THEOREM NothingStaysOpen == Spec => []NothingLeftOpen
BY VerbTrue, InvImplies, PTL

\* A step that expects success passes only when its change was made.
THEOREM PassIsTrue == Spec => []PassMeansDone
BY VerbTrue, InvImplies, PTL

=============================================================================
