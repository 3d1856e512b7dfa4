----------------------- MODULE SessionRecorder_proofs -----------------------
(* Theorems about the session recorder, for any failure limit and any number *)
(* of sessions, frames and wedges.                                           *)
EXTENDS SessionRecorder, TLAPS

\* The flags and the rest of the types, apart because the provers are.
Flags ==
    /\ done \in BOOLEAN /\ wedged \in BOOLEAN
    /\ fresh \in BOOLEAN /\ waits \in BOOLEAN
    /\ (gate = "none") <=> (method = "none")

Data ==
    /\ session \in 0..MaxSessions
    /\ rec \in Running \cup {"none", "finalized", "failed", "killed"}
    /\ fails \in 0..FailLimit /\ count \in 0..MaxFrames
    /\ frames \in [of : 0..MaxSessions, n : 0..MaxFrames]
    /\ final \in [of : 0..MaxSessions, n : 0..MaxFrames, whole : BOOLEAN]
    /\ method \in {"none", "start", "stop"} /\ gate \in AtGate \cup {"none"}
    /\ row \in [of : 0..MaxSessions, whole : BOOLEAN]
    /\ stop \in Reported \cup {"none", "ladder", "wait"}
    /\ seen \in 0..MaxSessions /\ wedges \in 0..MaxWedges

LEMMA Limits ==
    /\ FailLimit \in Nat /\ FailLimit # 0
    /\ MaxSessions \in Nat /\ MaxFrames \in Nat /\ MaxWedges \in Nat
BY RecorderAssumption

LEMMA FlagsStep == Flags /\ [Next]_vars => Flags'
<1> SUFFICES ASSUME Flags, [Next]_vars PROVE Flags'
  OBVIOUS
<1> USE DEF Flags, worldVars, callerVars, recorderVars, gateVars
<1>1. CASE AskStart \/ AskStop \/ KillAfterGrace
  BY <1>1 DEF AskStart, AskStop, KillAfterGrace
<1>2. CASE GateStep
  <2>1. CASE GateConnect \/ GateLookup \/ GateState
    BY <2>1 DEF GateConnect, GateLookup, GateState, GateMoves, Unsent
  <2>2. CASE GateClose \/ Refused
    BY <2>2 DEF GateClose, Refused, GateMoves, Unsent
  <2>3. CASE SessionStart
    BY <2>3 DEF SessionStart
  <2>4. CASE SessionStop
    BY <2>4 DEF SessionStop
  <2> QED BY <1>2, <2>1, <2>2, <2>3, <2>4 DEF GateStep
<1>3. CASE RecorderStep
  BY <1>3 DEF RecorderStep, InstallHandler, Dial, Tick, DoneSeen, FrameWritten,
     FrameRejected, PollFails, CreateFinal, FillFinal,
     CreateRow, FillRow
<1>4. CASE StopStep
  BY <1>4 DEF StopStep, RunnerReturns, ReadRow, RowDeadline
<1>5. CASE Wedge \/ Unwedge
  BY <1>5 DEF Wedge, Unwedge
<1>6. CASE UNCHANGED vars
  BY <1>6 DEF vars
<1> QED BY <1>1, <1>2, <1>3, <1>4, <1>5, <1>6 DEF Next

\* Below the limit while polls go on, and a start at the gate has a session to
\* start; from the dial on, the stream is the session's and holds what was
\* counted.
StreamInv ==
    /\ rec \in {"boot", "dial", "loop", "shot"} => fails < FailLimit
    /\ rec \in {"boot", "dial"} => count = 0
    /\ method = "start" => session < MaxSessions
    /\ frames.of <= session
    /\ rec \in {"loop", "shot", "final", "finalFill", "row", "rowFill", "finalized"} =>
            frames = [of |-> session, n |-> count]

LEMMA DataStep == Data /\ StreamInv /\ [Next]_vars => Data' /\ StreamInv'
<1> SUFFICES ASSUME Data, StreamInv, [Next]_vars PROVE Data' /\ StreamInv'
  OBVIOUS
<1> USE Limits DEF Data, StreamInv, Running, Reported, AtGate, Nobody, NoFile, NoMarker,
        NoRow, gateVars, fileVars, recorderVars, stopVars, worldVars, callerVars
<1>1. CASE AskStart \/ AskStop \/ KillAfterGrace
  BY <1>1 DEF AskStart, AskStop, KillAfterGrace
<1>2. CASE GateStep
  <2>1. CASE GateConnect \/ GateLookup \/ GateState
    BY <2>1 DEF GateConnect, GateLookup, GateState, GateMoves, Unsent
  <2>2. CASE GateClose \/ Refused
    BY <2>2 DEF GateClose, Refused, GateMoves, Unsent
  <2>3. CASE SessionStart
    <3>1. session < MaxSessions
      BY <2>3 DEF SessionStart
    <3>2. CASE frames' = NoFile /\ final' = NoMarker /\ row' = NoRow
      BY <2>3, <3>1, <3>2 DEF SessionStart
    <3>3. CASE UNCHANGED fileVars
      BY <2>3, <3>1, <3>3 DEF SessionStart
    <3> QED BY <2>3, <3>2, <3>3 DEF SessionStart
  <2>4. CASE SessionStop
    BY <2>4 DEF SessionStop
  <2> QED BY <1>2, <2>1, <2>2, <2>3, <2>4 DEF GateStep
<1>3. CASE RecorderStep
  <2>1. CASE InstallHandler \/ Tick \/ DoneSeen \/ FrameRejected
    BY <2>1 DEF InstallHandler, Tick, DoneSeen, FrameRejected
  <2>2. CASE Dial
    <3>1. CASE rec' = "loop" /\ frames' = [of |-> session, n |-> 0]
      <4>1. count = 0
        BY <2>2 DEF Dial
      <4> QED BY <2>2, <3>1, <4>1 DEF Dial
    <3>2. CASE rec' = "failed" /\ UNCHANGED frames
      BY <2>2, <3>2 DEF Dial
    <3> QED BY <2>2, <3>1, <3>2 DEF Dial
  <2>3. CASE FrameWritten
    BY <2>3 DEF FrameWritten
  <2>4. CASE PollFails
    BY <2>4 DEF PollFails
  <2>5. CASE CreateFinal \/ FillFinal
    <3>1. /\ [of |-> session, n |-> 0, whole |-> FALSE]
             \in [of : 0..MaxSessions, n : 0..MaxFrames, whole : BOOLEAN]
          /\ [of |-> session, n |-> count, whole |-> TRUE]
             \in [of : 0..MaxSessions, n : 0..MaxFrames, whole : BOOLEAN]
      OBVIOUS
    <3>2. final' \in [of : 0..MaxSessions, n : 0..MaxFrames, whole : BOOLEAN]
      BY <2>5, <3>1 DEF CreateFinal, FillFinal
    <3> QED BY <2>5, <3>2 DEF CreateFinal, FillFinal
  <2>6. CASE CreateRow
    <3>1. [of |-> session, whole |-> FALSE] \in [of : 0..MaxSessions, whole : BOOLEAN]
      OBVIOUS
    <3>2. row' \in [of : 0..MaxSessions, whole : BOOLEAN]
      BY <2>6, <3>1 DEF CreateRow
    <3> QED BY <2>6, <3>2 DEF CreateRow
  <2>7. CASE FillRow
    BY <2>7 DEF FillRow
  <2> QED BY <1>3, <2>1, <2>2, <2>3, <2>4, <2>5, <2>6, <2>7 DEF RecorderStep
<1>4. CASE StopStep
  BY <1>4 DEF StopStep, RunnerReturns, ReadRow, RowDeadline
<1>5. CASE Wedge \/ Unwedge
  BY <1>5 DEF Wedge, Unwedge
<1>6. CASE UNCHANGED vars
  BY <1>6 DEF vars
<1> QED BY <1>1, <1>2, <1>3, <1>4, <1>5, <1>6 DEF Next

LEMMA StreamTrue == Spec => [](TypeOK /\ StreamInv)
<1>1. Init => Flags
  BY DEF Init, Flags
<1>2. Init => Data
  BY Limits DEF Init, Data, Nobody, NoFile, NoMarker, NoRow, Running
<1>3. Init => StreamInv
  BY Limits DEF Init, StreamInv, Nobody, NoFile
<1>4. Flags /\ Data => TypeOK
  BY DEF Flags, Data, TypeOK
<1> QED BY <1>1, <1>2, <1>3, <1>4, FlagsStep, DataStep, PTL DEF Spec

\* Every variable keeps its type: the count of consecutive failures stays within
\* its limit, however long libvirt is wedged.
THEOREM TypeCorrect == Spec => []TypeOK
BY StreamTrue, PTL

-----------------------------------------------------------------------------
(* What the files say, at each place of the recorder.                        *)

\* Before it finalizes, a session has no marker; when it has begun one, that one
\* is there until the next session, complete from the row on.
MarkerInv ==
    /\ final.of <= session
    /\ rec \in {"boot", "dial", "loop", "shot", "final"} => final.of < session
    /\ rec = "finalFill" => final.of = session /\ ~final.whole
    /\ rec \in {"row", "rowFill", "finalized"} =>
            final = [of |-> session, n |-> count, whole |-> TRUE]

\* The same of the row, and a row of the session is whole only at the end.
RowInv ==
    /\ row.of <= session
    /\ rec \in {"boot", "dial", "loop", "shot", "final", "finalFill", "row"} =>
            row.of < session
    /\ rec = "rowFill" => row = [of |-> session, whole |-> FALSE]
    /\ rec = "none" => session = Nobody /\ row = NoRow

FilesInv == MarkerInv /\ RowInv /\ MarkerCountsFrames /\ RowMeansFinalized

LEMMA FilesStep == TypeOK /\ StreamInv /\ FilesInv /\ [Next]_vars => FilesInv'
<1> SUFFICES ASSUME TypeOK, StreamInv, FilesInv, [Next]_vars PROVE FilesInv'
  OBVIOUS
<1> USE Limits DEF TypeOK, FilesInv, StreamInv, MarkerInv, RowInv,
        MarkerCountsFrames, RowMeansFinalized, Running, Alive, Nobody, NoFile, NoMarker,
        NoRow, gateVars, fileVars, recorderVars, stopVars, worldVars, callerVars
<1>1. CASE AskStart \/ AskStop
  BY <1>1 DEF AskStart, AskStop
<1>2. CASE GateStep
  <2>1. CASE GateConnect \/ GateLookup \/ GateState
    BY <2>1 DEF GateConnect, GateLookup, GateState, GateMoves, Unsent
  <2>2. CASE GateClose \/ Refused
    BY <2>2 DEF GateClose, Refused, GateMoves, Unsent
  <2>3. CASE SessionStart
    BY <2>3 DEF SessionStart
  <2>4. CASE SessionStop
    BY <2>4 DEF SessionStop
  <2> QED BY <1>2, <2>1, <2>2, <2>3, <2>4 DEF GateStep
<1>3. CASE KillAfterGrace
  BY <1>3 DEF KillAfterGrace
<1>4. CASE RecorderStep
  <2>1. CASE InstallHandler \/ Tick \/ DoneSeen \/ FrameRejected \/ PollFails
    BY <2>1 DEF InstallHandler, Tick, DoneSeen, FrameRejected, PollFails
  <2>2. CASE Dial
    <3>1. CASE rec' = "loop" /\ frames' = [of |-> session, n |-> 0]
      BY <2>2, <3>1 DEF Dial
    <3>2. CASE rec' = "failed" /\ UNCHANGED frames
      BY <2>2, <3>2 DEF Dial
    <3> QED BY <2>2, <3>1, <3>2 DEF Dial
  <2>3. CASE FrameWritten
    BY <2>3 DEF FrameWritten
  <2>4. CASE CreateFinal
    BY <2>4 DEF CreateFinal
  <2>7. CASE FillFinal
    BY <2>7 DEF FillFinal
  <2>5. CASE CreateRow
    BY <2>5 DEF CreateRow
  <2>6. CASE FillRow
    BY <2>6 DEF FillRow
  <2> QED BY <1>4, <2>1, <2>2, <2>3, <2>4, <2>5, <2>6, <2>7 DEF RecorderStep
<1>5. CASE StopStep
  BY <1>5 DEF StopStep, RunnerReturns, ReadRow, RowDeadline
<1>6. CASE Wedge \/ Unwedge
  BY <1>6 DEF Wedge, Unwedge
<1>7. CASE UNCHANGED vars
  BY <1>7 DEF vars
<1> QED BY <1>1, <1>2, <1>3, <1>4, <1>5, <1>6, <1>7 DEF Next

LEMMA FilesTrue == Spec => [](TypeOK /\ FilesInv)
<1>1. Init => FilesInv
  BY DEF Init, FilesInv, MarkerInv, RowInv,
     MarkerCountsFrames, RowMeansFinalized, Nobody, NoFile, NoMarker, NoRow
<1> QED BY <1>1, FilesStep, StreamTrue, PTL DEF Spec

\* The FINAL marker states how many frames its stream holds, in sessions that
\* end well, fail or are killed, and in directories that are used again.
THEOREM MarkerCounts == Spec => []MarkerCountsFrames
BY FilesTrue, PTL DEF FilesInv

\* A complete evidence row vouches for a finalized recording.
THEOREM RowVouches == Spec => []RowMeansFinalized
BY FilesTrue, PTL DEF FilesInv

-----------------------------------------------------------------------------
(* What the stop step concludes from them.                                   *)

\* In a directory of its own a row is the session's; the next session waits for
\* the recorder of the last one, and a stop at the gate has no answer yet.
StopInv ==
    /\ fresh => row = NoRow \/ row.of = session
    /\ method = "start" \/ session = Nobody => ~Alive
    /\ method = "stop" => stop = "none"
    /\ StopOkMeansFinalized

LEMMA StopStays == TypeOK /\ FilesInv /\ StopInv /\ [Next]_vars => StopInv'
<1> SUFFICES ASSUME TypeOK, FilesInv, StopInv, [Next]_vars PROVE StopInv'
  OBVIOUS
<1> USE RecorderAssumption DEF TypeOK, StopInv, StopOkMeansFinalized, Running, Alive,
        Reported, Nobody, NoFile, NoMarker, NoRow, gateVars, fileVars, recorderVars,
        stopVars, worldVars, callerVars
<1>1. CASE AskStart \/ AskStop
  BY <1>1 DEF AskStart, AskStop
<1>2. CASE GateStep
  <2>1. CASE GateConnect \/ GateLookup \/ GateState
    BY <2>1 DEF GateConnect, GateLookup, GateState, GateMoves, Unsent
  <2>2. CASE GateClose \/ Refused
    BY <2>2 DEF GateClose, Refused, GateMoves, Unsent
  <2>3. CASE SessionStart
    BY <2>3 DEF SessionStart
  <2>4. CASE SessionStop
    BY <2>4 DEF SessionStop
  <2> QED BY <1>2, <2>1, <2>2, <2>3, <2>4 DEF GateStep
<1>3. CASE KillAfterGrace
  BY <1>3 DEF KillAfterGrace
<1>4. CASE RecorderStep
  <2>1. Alive
    BY <1>4 DEF RecorderStep, InstallHandler, Dial, Tick, DoneSeen, FrameWritten,
       FrameRejected, PollFails, CreateFinal, FillFinal, CreateRow, FillRow
  <2>2. /\ fresh => stop # "ok"
        /\ method # "start" /\ session # Nobody
        /\ UNCHANGED <<fresh, stop, session, method>>
    BY <1>4, <2>1 DEF RecorderStep, InstallHandler, Dial, Tick, DoneSeen, FrameWritten,
       FrameRejected, PollFails, CreateFinal, FillFinal, CreateRow, FillRow
  <2>3. fresh => row' = NoRow \/ row'.of = session
    <3>1. CASE CreateRow
      BY <3>1 DEF CreateRow
    <3>2. CASE FillRow
      BY <3>2 DEF FillRow, FilesInv, RowInv
    <3>3. CASE UNCHANGED row
      BY <3>3
    <3> QED BY <1>4, <3>1, <3>2, <3>3 DEF RecorderStep, InstallHandler, Dial, Tick,
          DoneSeen, FrameWritten, FrameRejected, PollFails, CreateFinal, FillFinal
  <2> QED BY <2>2, <2>3
<1>5. CASE StopStep
  <2>1. CASE RunnerReturns
    BY <2>1 DEF RunnerReturns
  <2>2. CASE ReadRow
    BY <2>2 DEF ReadRow, FilesInv, RowMeansFinalized, MarkerInv
  <2>3. CASE RowDeadline
    BY <2>3 DEF RowDeadline
  <2> QED BY <1>5, <2>1, <2>2, <2>3 DEF StopStep
<1>6. CASE Wedge \/ Unwedge
  BY <1>6 DEF Wedge, Unwedge
<1>7. CASE UNCHANGED vars
  BY <1>7 DEF vars
<1> QED BY <1>1, <1>2, <1>3, <1>4, <1>5, <1>6, <1>7 DEF Next

\* In a directory of its own, a stop that succeeds has read the complete row of
\* the session it stopped, whose recording is finalized.
THEOREM StopVouches == Spec => []StopOkMeansFinalized
<1>1. Init => StopInv
  BY DEF Init, StopInv, StopOkMeansFinalized, Nobody, NoRow, Alive, Running
<1>2. Spec => []StopInv
  BY <1>1, StopStays, FilesTrue, PTL DEF Spec
<1> QED BY <1>2, PTL DEF StopInv

=============================================================================
