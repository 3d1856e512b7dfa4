-------------------------- MODULE SessionRecorder --------------------------
(***************************************************************************)
(* A check session's screen recording: the detached recorder process polls *)
(* the framebuffer into frames.mjpeg and, on SIGTERM, finalizes with the   *)
(* FINAL marker and the evidence row; "session stop" has the runner signal *)
(* the recorder and then waits for the row.  The two share the files of    *)
(* the state directory and nothing else.  Before a start or a stop does    *)
(* anything, the provider asks libvirt whether the domain runs: the gate.  *)
(***************************************************************************)
EXTENDS Integers

CONSTANTS
    FailLimit,     \* consecutive failed polls that end a recording
    MaxSessions, MaxFrames, MaxWedges      \* bounds

ASSUME RecorderAssumption ==
    /\ FailLimit \in Nat \ {0}
    /\ MaxSessions \in Nat /\ MaxFrames \in Nat /\ MaxWedges \in Nat

VARIABLES
    method,   \* the session method that is at the gate
    gate,     \* how far the gate is with it
    session,  \* number of the current session
    rec,      \* the recorder process
    done,     \* has its signal handler closed the done channel
    fails,    \* consecutive polls without an image
    count,    \* frames it has counted
    frames,   \* frames.mjpeg: whose it is, frames in it
    final,    \* the FINAL marker: whose it is, its count, completely written or not
    row,      \* row.json: whose it is, completely written or not
    stop,     \* the stop step
    seen,     \* the session whose row the stop has read
    wedged,   \* is libvirt wedged
    wedges,   \* how often it has wedged
    fresh,    \* does the caller give every session a state directory of its own
    waits     \* does the runner's stop return only once the recorder is gone

gateVars == <<method, gate>>
recorderVars == <<session, rec, done, fails, count>>
fileVars == <<frames, final, row>>
stopVars == <<stop, seen>>
callerVars == <<fresh, waits>>
worldVars == <<wedged, wedges, callerVars>>
vars == <<gateVars, recorderVars, fileVars, stopVars, worldVars>>

Nobody == 0
NoFile == [of |-> Nobody, n |-> 0]
NoMarker == [of |-> Nobody, n |-> 0, whole |-> FALSE]
NoRow == [of |-> Nobody, whole |-> FALSE]

Running == {"boot", "dial", "loop", "shot", "final", "finalFill", "row", "rowFill"}
Alive == rec \in Running

AtGate == {"connect", "lookup", "state", "pass", "skip", "through"}
Reported == {"unsent", "ok", "failed"}

TypeOK ==
    /\ method \in {"none", "start", "stop"}
    /\ gate \in AtGate \cup {"none"}
    /\ gate = "none" <=> method = "none"
    /\ session \in 0..MaxSessions
    /\ rec \in Running \cup {"none", "finalized", "failed", "killed"}
    /\ done \in BOOLEAN
    /\ fails \in 0..FailLimit
    /\ count \in 0..MaxFrames
    /\ frames \in [of : 0..MaxSessions, n : 0..MaxFrames]
    /\ final \in [of : 0..MaxSessions, n : 0..MaxFrames, whole : BOOLEAN]
    /\ row \in [of : 0..MaxSessions, whole : BOOLEAN]
    /\ stop \in Reported \cup {"none", "ladder", "wait"}
    /\ seen \in 0..MaxSessions
    /\ wedged \in BOOLEAN
    /\ wedges \in 0..MaxWedges
    /\ fresh \in BOOLEAN /\ waits \in BOOLEAN

Init ==
    /\ method = "none"
    /\ gate = "none"
    /\ session = Nobody
    /\ rec = "none"
    /\ done = FALSE
    /\ fails = 0
    /\ count = 0
    /\ frames = NoFile
    /\ final = NoMarker
    /\ row = NoRow
    /\ stop = "none"
    /\ seen = Nobody
    /\ wedged = FALSE
    /\ wedges = 0
    /\ fresh \in BOOLEAN
    /\ waits \in BOOLEAN

----------------------------------------------------------------------------
(* The gate, resolveLibvirtSessionEndpoint: a connection of its own, the   *)
(* domain and its state are looked up, the connection is closed again.     *)
(* The handshake and the closing have no bound, the lookups have one.      *)

\* The next session begins when the stop of the last one has reported and its
\* recorder is gone.
AskStart ==
    /\ method = "none" /\ session < MaxSessions
    /\ session = Nobody \/ (stop \in Reported /\ ~Alive)
    /\ method' = "start" /\ gate' = "connect"
    /\ UNCHANGED <<recorderVars, fileVars, stopVars, worldVars>>

\* A stop that never reached the runner may be repeated.
AskStop ==
    /\ method = "none" /\ session # Nobody
    /\ stop \in {"none", "unsent"}
    /\ method' = "stop" /\ gate' = "connect"
    /\ stop' = "none"
    /\ UNCHANGED <<recorderVars, fileVars, seen, worldVars>>

\* The method ends at the gate, skipped or refused: no request, no signal.
Unsent ==
    /\ method' = "none" /\ gate' = "none"
    /\ stop' = IF method = "stop" THEN "unsent" ELSE stop
    /\ UNCHANGED <<recorderVars, fileVars, seen, worldVars>>

GateMoves(next) ==
    /\ gate' \in next
    /\ UNCHANGED <<method, recorderVars, fileVars, stopVars, worldVars>>

\* No daemon refuses the connection, a wedged one never answers it.
GateConnect == gate = "connect" /\ ~wedged /\ (GateMoves({"lookup"}) \/ Unsent)

\* A lookup that fails or runs into its bound means: no such domain.
GateLookup ==
    /\ gate = "lookup"
    /\ GateMoves(IF wedged THEN {"skip"} ELSE {"state", "skip"})

\* A state that cannot be read lets the method through.
GateState ==
    /\ gate = "state"
    /\ GateMoves(IF wedged THEN {"pass"} ELSE {"pass", "skip"})

GateClose ==
    /\ ~wedged
    /\ \/ gate = "pass" /\ GateMoves({"through"})
       \/ gate = "skip" /\ Unsent

\* There is no recorder binary, the runner is out of reach or knows no such
\* session.
Refused == gate = "through" /\ Unsent

\* sessionStart: the runner spawns a recorder; nothing in the state directory
\* of an earlier session of the same id is cleared.
SessionStart ==
    /\ gate = "through" /\ method = "start"
    /\ method' = "none" /\ gate' = "none"
    /\ session' = session + 1
    /\ rec' = "boot" /\ done' = FALSE /\ fails' = 0 /\ count' = 0
    /\ stop' = "none" /\ seen' = Nobody
    /\ IF fresh THEN frames' = NoFile /\ final' = NoMarker /\ row' = NoRow
                ELSE UNCHANGED fileVars
    /\ UNCHANGED worldVars

\* sessionStop: the runner sends SIGTERM, which kills a recorder that has no
\* handler yet.
SessionStop ==
    /\ gate = "through" /\ method = "stop"
    /\ method' = "none" /\ gate' = "none"
    /\ stop' = "ladder"
    /\ rec' = IF rec = "boot" THEN "killed" ELSE rec
    /\ done' = (rec \in Running \ {"boot"})
    /\ UNCHANGED <<session, fails, count, fileVars, seen, worldVars>>

GateStep ==
    \/ GateConnect \/ GateLookup \/ GateState \/ GateClose
    \/ Refused \/ SessionStart \/ SessionStop

----------------------------------------------------------------------------
(* The recorder.                                                           *)

\* recorderMain installs its signal handler, then dials.
InstallHandler ==
    /\ rec = "boot"
    /\ rec' = "dial"
    /\ UNCHANGED <<gateVars, session, done, fails, count, fileVars, stopVars, worldVars>>

\* The connection, the domain and its running state are checked, then
\* frames.mjpeg is created (truncated).  A wedged libvirt holds the dial.
Dial ==
    /\ rec = "dial"
    /\ ~wedged
    /\ \/ rec' = "loop" /\ frames' = [of |-> session, n |-> 0]
       \/ rec' = "failed" /\ UNCHANGED frames
    /\ UNCHANGED <<gateVars, session, done, fails, count, final, row, stopVars, worldVars>>

\* The select of writeFrames: a tick starts a poll, also when done is closed.
Tick ==
    /\ rec = "loop"
    /\ rec' = "shot"
    /\ UNCHANGED <<gateVars, session, done, fails, count, fileVars, stopVars, worldVars>>

DoneSeen ==
    /\ rec = "loop" /\ done
    /\ rec' = "final"
    /\ UNCHANGED <<gateVars, session, done, fails, count, fileVars, stopVars, worldVars>>

\* An image is appended to the stream; writing it may fail.
FrameWritten ==
    /\ rec = "shot" /\ ~wedged
    /\ fails' = 0
    /\ \/ /\ count < MaxFrames
          /\ frames' = [frames EXCEPT !.n = @ + 1]
          /\ count' = count + 1
          /\ rec' = "loop"
       \/ rec' = "failed" /\ UNCHANGED <<frames, count>>
    /\ UNCHANGED <<gateVars, session, done, final, row, stopVars, worldVars>>

\* Sensitivity: a rejected image is counted.
FrameRejectedCounted ==
    /\ rec = "shot" /\ ~wedged /\ count < MaxFrames
    /\ fails' = 0
    /\ count' = count + 1
    /\ rec' = "loop"
    /\ UNCHANGED <<gateVars, session, done, fileVars, stopVars, worldVars>>

\* The encoder rejects the image: no frame, and no failure either.
FrameRejected ==
    /\ rec = "shot" /\ ~wedged
    /\ fails' = 0
    /\ rec' = "loop"
    /\ UNCHANGED <<gateVars, session, done, count, fileVars, stopVars, worldVars>>

\* Sensitivity: the failure count starts over at every failure.
PollForgets ==
    /\ rec = "shot"
    /\ fails' = 1
    /\ rec' = IF fails' >= FailLimit THEN "failed" ELSE "loop"
    /\ UNCHANGED <<gateVars, session, done, count, fileVars, stopVars, worldVars>>

\* Sensitivity: failed polls do not end a recording.
PollNeverGivesUp ==
    /\ rec = "shot"
    /\ fails' = fails + 1
    /\ rec' = "loop"
    /\ UNCHANGED <<gateVars, session, done, count, fileVars, stopVars, worldVars>>

\* A poll without an image, at the latest when its bound runs out.
PollFails ==
    /\ rec = "shot"
    /\ fails' = fails + 1
    /\ rec' = IF fails' >= FailLimit THEN "failed" ELSE "loop"
    /\ UNCHANGED <<gateVars, session, done, count, fileVars, stopVars, worldVars>>

\* Sensitivity: the evidence row is written before the marker.
CreateFinalLast ==
    /\ rec = "final"
    /\ rec' = "row"
    /\ UNCHANGED <<gateVars, session, done, fails, count, fileVars, stopVars, worldVars>>

\* finalizeSession: the marker, then the row; each is created empty (or emptied),
\* then filled.
CreateFinal ==
    /\ rec = "final"
    /\ \/ final' = [of |-> session, n |-> 0, whole |-> FALSE] /\ rec' = "finalFill"
       \/ rec' = "failed" /\ UNCHANGED final
    /\ UNCHANGED <<gateVars, session, done, fails, count, frames, row, stopVars, worldVars>>

FillFinal ==
    /\ rec = "finalFill"
    /\ \/ final' = [of |-> session, n |-> count, whole |-> TRUE] /\ rec' = "row"
       \/ rec' = "failed" /\ UNCHANGED final
    /\ UNCHANGED <<gateVars, session, done, fails, count, frames, row, stopVars, worldVars>>

CreateRow ==
    /\ rec = "row"
    /\ \/ row' = [of |-> session, whole |-> FALSE] /\ rec' = "rowFill"
       \/ rec' = "failed" /\ UNCHANGED row
    /\ UNCHANGED <<gateVars, session, done, fails, count, frames, final, stopVars, worldVars>>

FillRow ==
    /\ rec = "rowFill"
    /\ \/ row' = [row EXCEPT !.whole = TRUE] /\ rec' = "finalized"
       \/ rec' = "failed" /\ UNCHANGED row
    /\ UNCHANGED <<gateVars, session, done, fails, count, frames, final, stopVars, worldVars>>

RecorderStep ==
    \/ InstallHandler \/ Dial \/ Tick \/ DoneSeen \/ FrameWritten
    \/ FrameRejected \/ PollFails
    \/ CreateFinal \/ FillFinal \/ CreateRow \/ FillRow

----------------------------------------------------------------------------
(* The runner's stop ladder and the rest of sessionStop.                   *)

\* Sensitivity: the ladder ends at SIGTERM.
NoKillAfterGrace ==
    /\ stop = "ladder" /\ rec = "boot"
    /\ rec' = "killed"
    /\ UNCHANGED <<gateVars, session, done, fails, count, fileVars, stopVars, worldVars>>

\* The ladder's SIGKILL after its grace.
KillAfterGrace ==
    /\ stop = "ladder" /\ Alive
    /\ rec' = "killed"
    /\ UNCHANGED <<gateVars, session, done, fails, count, fileVars, stopVars, worldVars>>

\* The runner answers, or reports that its ladder failed.
RunnerReturns ==
    /\ stop = "ladder"
    /\ waits => ~Alive
    /\ stop' \in {"wait", "failed"}
    /\ UNCHANGED <<gateVars, recorderVars, fileVars, seen, worldVars>>

\* Sensitivity: any row, whole or not, counts as evidence.
ReadRowUnparsed ==
    /\ stop = "wait" /\ row # NoRow
    /\ stop' = "ok"
    /\ seen' = row.of
    /\ UNCHANGED <<gateVars, recorderVars, fileVars, worldVars>>

\* waitForEvidenceRow returns the first file it can read; a row that does not
\* parse fails the stop.
ReadRow ==
    /\ stop = "wait" /\ row # NoRow
    /\ stop' = IF row.whole THEN "ok" ELSE "failed"
    /\ seen' = row.of
    /\ UNCHANGED <<gateVars, recorderVars, fileVars, worldVars>>

RowDeadline ==
    /\ stop = "wait" /\ row = NoRow
    /\ stop' = "failed"
    /\ UNCHANGED <<gateVars, recorderVars, fileVars, seen, worldVars>>

StopStep == RunnerReturns \/ ReadRow \/ RowDeadline

----------------------------------------------------------------------------

Wedge ==
    /\ ~wedged /\ wedges < MaxWedges
    /\ wedged' = TRUE /\ wedges' = wedges + 1
    /\ UNCHANGED <<gateVars, recorderVars, fileVars, stopVars, callerVars>>

Unwedge ==
    /\ wedged
    /\ wedged' = FALSE
    /\ UNCHANGED <<gateVars, recorderVars, fileVars, stopVars, wedges, callerVars>>

Next ==
    \/ AskStart \/ AskStop \/ GateStep \/ KillAfterGrace
    \/ RecorderStep \/ StopStep \/ Wedge \/ Unwedge

Spec == Init /\ [][Next]_vars

\* The gate, the recorder and the stop step run while they can; the grace of the
\* ladder and the deadline of the wait pass.
FairSpec ==
    /\ Spec /\ WF_vars(GateStep)
    /\ WF_vars(RecorderStep) /\ WF_vars(StopStep) /\ WF_vars(KillAfterGrace)

----------------------------------------------------------------------------
(* Properties.                                                             *)

\* A complete FINAL marker states how many frames the stream of its session
\* holds.
MarkerCountsFrames == final.whole /\ final.of = frames.of => final.n = frames.n

\* A complete evidence row vouches for a finalized recording: the complete marker
\* of the same session precedes it (a later session may have begun another one),
\* and the recording neither failed nor was killed.
RowMeansFinalized ==
    row.whole => /\ final.of > row.of \/ (final.of = row.of /\ final.whole)
                 /\ row.of = session => rec = "finalized"

\* sessionStop "verifies the recorder's finalize actually landed": in a directory
\* of the session's own, a stop that succeeds has read the complete row of the
\* session it stopped, also when the runner did not wait for the recorder.
StopOkMeansFinalized ==
    fresh /\ stop = "ok" => /\ seen = session /\ rec = "finalized"
                   /\ final.of = session /\ final.whole

\* A stop reports unless libvirt stays wedged while it is at the gate; one that
\* got through signals the recorder and reports whatever libvirt does, with the
\* recorder gone if the runner waited for it.
StopReports ==
    /\ []<>~wedged => (method = "stop" ~> stop \in Reported)
    /\ stop = "ladder" ~> stop \in {"ok", "failed"} /\ (waits => ~Alive)

\* A libvirt that stays wedged ends the recording instead of abandoning one
\* blocked poll per tick for ever.
WedgeEndsRecording == <>[]wedged => []<>(rec \notin {"loop", "shot"})

=============================================================================
