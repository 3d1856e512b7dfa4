--------------------------- MODULE VmCreate_proofs ---------------------------
(* Theorems about the commands around a domain, for any processes,            *)
(* deployments, ports and number of commands.                                 *)
EXTENDS VmCreate, TLAPS

LEMMA Names == Claimants \subseteq Domains /\ Nobody \notin Domains /\ NoPort \notin Ports
BY CreateAssumption

LEMMA StepBound == MaxSteps \in Nat
BY CreateAssumption

LEMMA QuietFacts ==
    /\ Quiet \in Process /\ Quiet.at = "idle" /\ Quiet.d = Nobody /\ Quiet.cmd = "none"
    /\ Quiet.lease = "none"
<1>1. Quiet \in Process
  BY DEF Quiet, Process, Steps
<1>2. Quiet.at = "idle" /\ Quiet.d = Nobody /\ Quiet.cmd = "none"
  BY Zenon DEF Quiet
<1>3. Quiet.lease = "none"
  BY Zenon DEF Quiet
<1> QED BY <1>1, <1>2, <1>3

LEMMA NoGuestFacts == NoGuest \in Guest /\ NoGuest.state = "none"
BY DEF NoGuest, Guest

-----------------------------------------------------------------------------
(* What holds of a process r when req claim the card, and the guests and the   *)
(* ledger are gs and ls.                                                      *)

\* The guest runs since create booted it.
Booted(g) == g.state = "running" /\ g.by = "create"

Place(r, req, gs, ls) ==
    /\ r.at = "idle" => r.cmd = "none"
    /\ r.at = "allocate" /\ r.d \in req => r.lease # "none"
    /\ r.at \in {"overlay", "recreate", "port", "persist", "define"} /\ r.card =>
            r.lease # "none" \/ r.d \in Committed
    /\ r.at \in {"define", "alias"} /\ r.d \in AutoPort => ls[r.d] = r.port
    /\ r.at = "alias" => gs[r.d].port = r.port
    /\ r.at \in {"flatten", "emit", "unalias", "unledger", "release"} => ~Booted(gs[r.d])
    /\ r.at = "recreate" => ~(r.cmd = "bake" /\ r.keep)
    /\ r.at \in {"claimant", "teardown", "abandoned"} /\ r.cmd = "bake" => r.disk

\* No two processes work on one domain.
OwnDomain == \A p, q \in Procs : p # q /\ proc[p].at # "idle" => proc[p].d # proc[q].d

CreateInv ==
    /\ TypeOK
    /\ OwnDomain
    /\ \A p \in Procs : Place(proc[p], requires, guest, ledger)

LEMMA CreateInit == Init => CreateInv
<1> SUFFICES ASSUME Init PROVE CreateInv
  OBVIOUS
<1>1. \A p \in Procs : proc[p] = Quiet
  BY DEF Init
<1>2. OwnDomain
  BY <1>1, QuietFacts DEF OwnDomain
<1>3. \A p \in Procs : Place(proc[p], requires, guest, ledger)
  BY <1>1, QuietFacts DEF Place
<1>4. TypeOK
  <2>1. proc \in [Procs -> Process] /\ \A p \in Procs : (proc[p].at = "idle") = (proc[p].d = Nobody)
    BY <1>1, QuietFacts DEF Init
  <2>2. guest \in [Domains -> Guest] /\ steps \in 0..MaxSteps
    BY NoGuestFacts, StepBound DEF Init
  <2> QED BY <2>1, <2>2 DEF Init, TypeOK
<1> QED BY <1>2, <1>3, <1>4 DEF CreateInv

-----------------------------------------------------------------------------
(* One process steps.                                                         *)

\* The types of what all processes share.
SharedTyped ==
    /\ requires \subseteq Claimants /\ hostdev \subseteq Claimants
    /\ {holder, preempted} \subseteq Claimants \cup {Nobody}
    /\ overlay \in [Domains -> {"none", "clean", "layered"}]
    /\ guest \in [Domains -> Guest]
    /\ ledger \in [Domains -> Ports \cup {NoPort}] /\ alias \in [Domains -> Ports \cup {NoPort}]
    /\ box \in {"none", "clean", "layered"} /\ steps \in 0..MaxSteps
    /\ preempted # Nobody => preempted # holder /\ holder # Nobody

\* The step of p leaves the ledger and the port of every other domain, and boots
\* none of them.
OthersKept(p) ==
    \A d \in Domains : proc[p].d # d =>
        /\ guest'[d].port = guest[d].port /\ ledger'[d] = ledger[d]
        /\ Booted(guest'[d]) => Booted(guest[d])

\* If the step of p leaves the domains of the others alone and its own record
\* fits, the invariant holds again.
LEMMA OneSteps ==
    ASSUME CreateInv, NEW p \in Procs, NEW r \in Process,
           proc' = [proc EXCEPT ![p] = r],
           r.d = Nobody \/ \A q \in Procs \ {p} : proc[q].d # r.d,
           (r.at = "idle") = (r.d = Nobody),
           SharedTyped', requires' = requires,
           OthersKept(p),
           Place(r, requires', guest', ledger')
    PROVE  CreateInv'
<1>1. /\ proc \in [Procs -> Process] /\ proc' \in [Procs -> Process]
      /\ proc'[p] = r /\ \A q \in Procs \ {p} : proc'[q] = proc[q]
  BY DEF CreateInv, TypeOK
<1>2. TypeOK'
  BY <1>1 DEF CreateInv, TypeOK, SharedTyped
<1>3. OwnDomain'
  <2> SUFFICES ASSUME NEW q1 \in Procs, NEW q2 \in Procs, q1 # q2, proc'[q1].at # "idle"
               PROVE  proc'[q1].d # proc'[q2].d
    BY DEF OwnDomain
  <2>1. CASE q1 # p /\ q2 # p
    BY <1>1, <2>1 DEF CreateInv, OwnDomain
  <2>2. CASE q1 = p
    BY <1>1, <2>2
  <2>3. CASE q2 = p
    <3>1. proc[q1].d # Nobody
      BY <1>1, <2>3 DEF CreateInv, TypeOK
    <3> QED BY <1>1, <2>3, <3>1
  <2> QED BY <2>1, <2>2, <2>3
<1>4. \A q \in Procs : Place(proc'[q], requires', guest', ledger')
  <2> SUFFICES ASSUME NEW q \in Procs \ {p} PROVE Place(proc[q], requires', guest', ledger')
    BY <1>1
  <2>1. Place(proc[q], requires, guest, ledger)
    BY DEF CreateInv
  <2>2. CASE proc[q].at = "idle"
    BY <2>1, <2>2 DEF Place
  <2>3. CASE proc[q].at # "idle"
    <3>1. proc[q].d \in Domains /\ proc[p].d # proc[q].d
      BY <1>1, <2>3 DEF CreateInv, TypeOK, OwnDomain, Process
    <3>2. LET d == proc[q].d
          IN  /\ guest'[d].port = guest[d].port /\ ledger'[d] = ledger[d]
              /\ Booted(guest'[d]) => Booted(guest[d])
      BY <3>1 DEF OthersKept
    <3> QED BY <2>1, <3>2 DEF Place
  <2> QED BY <2>2, <2>3
<1> QED BY <1>2, <1>3, <1>4 DEF CreateInv

LEMMA Typed == CreateInv => SharedTyped
BY DEF CreateInv, TypeOK, SharedTyped

\* A step that goes on within its command.
LEMMA GoesOn ==
    ASSUME CreateInv, NEW p \in Procs, NEW r \in Process, proc[p].at # "idle",
           proc' = [proc EXCEPT ![p] = r], r.d = proc[p].d, r.at # "idle",
           SharedTyped', requires' = requires,
           OthersKept(p),
           Place(r, requires', guest', ledger')
    PROVE  CreateInv'
<1>1. r.d # Nobody /\ \A q \in Procs \ {p} : proc[q].d # r.d
  BY DEF CreateInv, TypeOK, OwnDomain
<1> QED BY <1>1, OneSteps

\* A step that ends its command.
LEMMA EndsWell ==
    ASSUME CreateInv, NEW p \in Procs, Ends(p), SharedTyped', requires' = requires,
           OthersKept(p)
    PROVE  CreateInv'
<1>1. Place(Quiet, requires', guest', ledger')
  BY QuietFacts DEF Place
<1> QED BY <1>1, QuietFacts, OneSteps DEF Ends

\* The facts of a process under way.
LEMMA UnderWay ==
    ASSUME CreateInv, NEW p \in Procs, proc[p].at # "idle"
    PROVE  /\ proc \in [Procs -> Process] /\ proc[p] \in Process
           /\ proc[p].d \in Domains
           /\ Place(proc[p], requires, guest, ledger)
BY DEF CreateInv, TypeOK, Process

\* Only the place changes.
LEMMA AtFacts ==
    ASSUME NEW r \in Process, NEW at \in Steps
    PROVE  LET n == [r EXCEPT !.at = at]
           IN  /\ n \in Process /\ n.at = at /\ n.d = r.d /\ n.cmd = r.cmd /\ n.port = r.port
               /\ n.lease = r.lease /\ n.card = r.card /\ n.keep = r.keep
               /\ n.disk = r.disk
BY DEF Process

\* Nothing shared changes.
LEMMA SharedStays ==
    ASSUME CreateInv, UNCHANGED <<leaseVars, domainVars, configVars, steps>>
    PROVE  /\ SharedTyped' /\ requires' = requires /\ guest' = guest /\ ledger' = ledger
           /\ \A p \in Procs : OthersKept(p)
BY Typed DEF SharedTyped, OthersKept, leaseVars, domainVars, configVars

LEMMA EndsStill ==
    ASSUME CreateInv, NEW p \in Procs, Ends(p), UNCHANGED <<leaseVars, domainVars, configVars, steps>>
    PROVE  CreateInv'
BY SharedStays, EndsWell

LEMMA GoesStill ==
    ASSUME CreateInv, NEW p \in Procs, NEW at \in Steps \ {"idle"}, proc[p].at # "idle", Goes(p, at),
           UNCHANGED <<leaseVars, domainVars, configVars, steps>>,
           Place([proc[p] EXCEPT !.at = at], requires, guest, ledger)
    PROVE  CreateInv'
<1>1. proc \in [Procs -> Process] /\ proc[p] \in Process
  BY UnderWay
<1> DEFINE r == [proc[p] EXCEPT !.at = at]
<1>2. proc' = [proc EXCEPT ![p] = r]
  BY <1>1 DEF Goes
<1>3. r \in Process /\ r.at = at /\ r.d = proc[p].d
  BY <1>1, AtFacts
<1>4. Place(r, requires, guest, ledger)
  OBVIOUS
<1> HIDE DEF r
<1> QED BY <1>2, <1>3, <1>4, SharedStays, GoesOn

-----------------------------------------------------------------------------
(* The actions.                                                               *)

LEMMA FlagFacts ==
    ASSUME NEW r \in Process, NEW layers \in BOOLEAN, NEW keep \in BOOLEAN, NEW disk \in BOOLEAN
    PROVE  [r EXCEPT !.layers = layers, !.keep = keep, !.disk = disk] \in Process
<1>1. \A k \in Process : [k EXCEPT !.layers = TRUE] \in Process /\ [k EXCEPT !.layers = FALSE] \in Process
  BY DEF Process
<1>2. \A k \in Process : [k EXCEPT !.keep = TRUE] \in Process /\ [k EXCEPT !.keep = FALSE] \in Process
  BY DEF Process
<1>3. \A k \in Process : [k EXCEPT !.disk = TRUE] \in Process /\ [k EXCEPT !.disk = FALSE] \in Process
  BY DEF Process
<1> QED BY <1>1, <1>2, <1>3

LEMMA CardFacts ==
    ASSUME NEW r \in Process, NEW card \in BOOLEAN
    PROVE  LET n == [r EXCEPT !.at = "overlay", !.card = card]
           IN  n \in Process /\ n.at = "overlay" /\ n.d = r.d /\ n.lease = r.lease /\ n.card = card
<1>1. CASE card
  <2>1. [r EXCEPT !.at = "overlay", !.card = TRUE] \in Process
    BY DEF Process, Steps
  <2> QED BY <1>1, <2>1 DEF Process
<1>2. CASE ~card
  <2>1. [r EXCEPT !.at = "overlay", !.card = FALSE] \in Process
    BY DEF Process, Steps
  <2> QED BY <1>2, <2>1 DEF Process
<1> QED BY <1>1, <1>2

LEMMA InvokeStep == ASSUME CreateInv, NEW p \in Procs, Invoke(p) PROVE CreateInv'
<1>1. PICK d \in Domains, cmd \in Commands :
        /\ ~Busy(d)
        /\ \E layers, keep, disk \in BOOLEAN, lease \in {"none", "outer"} :
             /\ layers => cmd = "bake"
             /\ keep => cmd = "bake"
             /\ disk => cmd = "destroy"
             /\ lease = "outer" => cmd # "start"
             /\ proc' = [proc EXCEPT ![p] =
                  [Quiet EXCEPT !.at = First(cmd), !.d = d, !.cmd = cmd, !.lease = lease,
                                !.layers = layers, !.keep = keep, !.disk = disk]]
  BY Zenon DEF Invoke
<1>2. /\ First(cmd) \in {"acquire", "claimant", "start", "stop"}
      /\ First(cmd) = "claimant" => cmd = "destroy"
  BY CreateAssumption DEF First
<1>3. PICK layers, keep, disk \in BOOLEAN, lease \in {"none", "outer"} :
             proc' = [proc EXCEPT ![p] =
               [Quiet EXCEPT !.at = First(cmd), !.d = d, !.cmd = cmd, !.lease = lease,
                             !.layers = layers, !.keep = keep, !.disk = disk]]
  BY <1>1, Zenon
<1> DEFINE r == [Quiet EXCEPT !.at = First(cmd), !.d = d, !.cmd = cmd, !.lease = lease,
                              !.layers = layers, !.keep = keep, !.disk = disk]
<1>4. r \in Process /\ r.at = First(cmd) /\ r.d = d /\ r.cmd = cmd
  <2> DEFINE s == [Quiet EXCEPT !.at = First(cmd), !.d = d, !.cmd = cmd, !.lease = lease]
  <2>1. s \in Process /\ s.at = First(cmd) /\ s.d = d /\ s.cmd = cmd
    BY <1>2, QuietFacts DEF Process, Steps
  <2>3. r = [s EXCEPT !.layers = layers, !.keep = keep, !.disk = disk]
    OBVIOUS
  <2> HIDE DEF s, r
  <2>4. s \in Process
    BY <2>1
  <2>5. [s EXCEPT !.layers = layers, !.keep = keep, !.disk = disk] \in Process
    BY <2>4, FlagFacts
  <2>6. LET n == [s EXCEPT !.layers = layers, !.keep = keep, !.disk = disk]
        IN  n.at = s.at /\ n.d = s.d /\ n.cmd = s.cmd
    BY <2>4 DEF Process
  <2> QED BY <2>1, <2>3, <2>5, <2>6, Zenon
<1> HIDE DEF r
<1>5. proc[p].at = "idle" /\ proc[p].d = Nobody
  BY DEF Invoke, CreateInv, TypeOK
<1>6. Place(r, requires, guest, ledger)
  BY <1>2, <1>4, QuietFacts DEF Place
<1>7. UNCHANGED <<leaseVars, domainVars, configVars>> /\ steps' \in 0..MaxSteps
  BY StepBound DEF Invoke, Once, CreateInv, TypeOK
<1>8. /\ SharedTyped' /\ requires' = requires /\ guest' = guest /\ ledger' = ledger
      /\ OthersKept(p)
  BY <1>7, Typed DEF SharedTyped, OthersKept, leaseVars, domainVars, configVars
<1>9. \A q \in Procs \ {p} : proc[q].d # d
  BY <1>1 DEF Busy
<1>10. d # Nobody /\ r.at # "idle"
  BY <1>2, <1>4, Names
<1>11. proc' = [proc EXCEPT ![p] = r]
  BY <1>3 DEF r
<1> QED BY <1>11, <1>4, <1>6, <1>8, <1>9, <1>10, OneSteps

LEMMA LeaseFacts ==
    ASSUME NEW r \in Process, NEW lease \in {"own", "inactive"}
    PROVE  LET n == [r EXCEPT !.at = "allocate", !.lease = lease]
           IN  n \in Process /\ n.at = "allocate" /\ n.d = r.d /\ n.lease = lease
BY DEF Process, Steps

LEMMA AcquireStep == ASSUME CreateInv, NEW p \in Procs, Acquire(p) PROVE CreateInv'
<1> DEFINE d == proc[p].d
           Unmoved == UNCHANGED <<holder, preempted, guest>>
           Granted(lease) == proc' = [proc EXCEPT ![p].at = "allocate", ![p].lease = lease]
<1>1. /\ proc[p].at = "acquire" /\ UNCHANGED <<requires, overlay, box, configVars, steps>>
  BY DEF Acquire
<1>2. /\ proc \in [Procs -> Process] /\ proc[p] \in Process /\ d \in Domains
      /\ Place(proc[p], requires, guest, ledger)
  BY <1>1, UnderWay
<1>3. Unmoved => UNCHANGED <<leaseVars, domainVars, configVars, steps>>
  BY <1>1 DEF leaseVars, domainVars
<1>4. CASE Ends(p) /\ Unmoved
  BY <1>3, <1>4, EndsStill
<1>5. CASE ~(Claims(d) /\ proc[p].lease = "none") /\ Goes(p, "allocate") /\ Unmoved
  <2>1. proc[p].at # "idle" /\ "allocate" \in Steps \ {"idle"}
    BY <1>1 DEF Steps
  <2>2. Place([proc[p] EXCEPT !.at = "allocate"], requires, guest, ledger)
    BY <1>2, <1>5, <2>1, AtFacts DEF Place, Claims
  <2> QED BY <1>3, <1>5, <2>1, <2>2, GoesStill
<1>6. ASSUME NEW lease \in {"own", "inactive"}, Granted(lease), SharedTyped', OthersKept(p)
      PROVE  CreateInv'
  <2> DEFINE r == [proc[p] EXCEPT !.at = "allocate", !.lease = lease]
  <2>1. r \in Process /\ r.at = "allocate" /\ r.d = d /\ r.lease = lease
    BY <1>2, LeaseFacts
  <2>2. proc' = [proc EXCEPT ![p] = r]
    BY <1>2, <1>6
  <2> HIDE DEF r
  <2>3. Place(r, requires', guest', ledger')
    BY <1>6, <2>1 DEF Place
  <2> QED BY <1>1, <1>6, <2>1, <2>2, <2>3, GoesOn
<1>7. CASE Granted("inactive") /\ Unmoved
  BY <1>3, <1>6, <1>7, SharedStays
<1>8. CASE Claims(d) /\ Preempt(d) /\ Granted("own")
  <2>1. d \in Claimants /\ holder \in Claimants \cup {Nobody} /\ d # Nobody
        /\ guest \in [Domains -> Guest]
    BY <1>2, <1>8, Names DEF CreateInv, TypeOK, Claims
  <2>2. guest' \in [Domains -> Guest]
        /\ \A e \in Domains : guest'[e].port = guest[e].port /\ (Booted(guest'[e]) => Booted(guest[e]))
    <3>1. CASE guest' = guest
      BY <2>1, <3>1
    <3>2. CASE holder \in Domains \ {d} /\ guest' = [guest EXCEPT ![holder].state = "off"]
      <4>1. LET off == [guest[holder] EXCEPT !.state = "off"]
            IN  off \in Guest /\ off.port = guest[holder].port /\ ~Booted(off)
        BY <2>1, <3>2 DEF Guest, Booted
      <4> QED BY <2>1, <3>2, <4>1
    <3> QED BY <1>8, <3>1, <3>2 DEF Preempt
  <2>3. preempted' \in Claimants \cup {Nobody} /\ (preempted' # Nobody => preempted' # holder')
        /\ holder' = d
    BY <1>8, <2>1 DEF Preempt, CreateInv, TypeOK
  <2>4. SharedTyped'
    BY <1>1, <2>1, <2>2, <2>3, Typed DEF SharedTyped, configVars
  <2>5. OthersKept(p)
    BY <1>1, <2>2 DEF OthersKept, configVars
  <2> QED BY <1>6, <1>8, <2>4, <2>5
<1> QED BY <1>4, <1>5, <1>7, <1>8 DEF Acquire

LEMMA AllocateStep == ASSUME CreateInv, NEW p \in Procs, Allocate(p) PROVE CreateInv'
<1> DEFINE d == proc[p].d
           Attach(card) == proc' = [proc EXCEPT ![p].at = "overlay", ![p].card = card]
<1>1. proc[p].at = "allocate" /\ UNCHANGED <<leaseVars, domainVars, ledger, alias, steps>>
  BY DEF Allocate
<1>2. /\ proc \in [Procs -> Process] /\ proc[p] \in Process /\ d \in Domains
      /\ Place(proc[p], requires, guest, ledger)
  BY <1>1, UnderWay
<1>3. hostdev' \subseteq Claimants
  BY DEF Allocate, CreateInv, TypeOK, Claims
<1>4. SharedTyped' /\ requires' = requires /\ guest' = guest /\ ledger' = ledger /\ OthersKept(p)
  BY <1>1, <1>3, Typed DEF SharedTyped, OthersKept, leaseVars, domainVars
<1>5. CASE Ends(p)
  BY <1>4, <1>5, EndsWell
<1>6. ASSUME NEW card \in BOOLEAN, card => Claims(d) \/ d \in Committed, Attach(card) PROVE CreateInv'
  <2> DEFINE r == [proc[p] EXCEPT !.at = "overlay", !.card = card]
  <2>1. r \in Process /\ r.at = "overlay" /\ r.d = d /\ r.lease = proc[p].lease /\ r.card = card
    BY <1>2, CardFacts
  <2>2. proc' = [proc EXCEPT ![p] = r]
    BY <1>2, <1>6
  <2> HIDE DEF r
  <2>3. Place(r, requires, guest, ledger)
    BY <1>1, <1>2, <1>6, <2>1 DEF Place, Claims
  <2> QED BY <1>1, <1>4, <2>1, <2>2, <2>3, GoesOn
<1>7. CASE Attach(d \in Committed)
  <2>1. (d \in Committed) \in BOOLEAN
    OBVIOUS
  <2> QED BY <1>6, <1>7, <2>1
<1>8. CASE Claims(d) /\ Attach(TRUE)
  BY <1>6, <1>8
<1> QED BY <1>5, <1>7, <1>8 DEF Allocate

\* No other domain is touched.
LEMMA Elsewhere ==
    ASSUME NEW p \in Procs,
           \A d \in Domains : proc[p].d # d => guest'[d] = guest[d] /\ ledger'[d] = ledger[d]
    PROVE  OthersKept(p)
BY DEF OthersKept

\* A step that goes to another place while one of the shared variables changes.
LEMMA GoesWith ==
    ASSUME CreateInv, NEW p \in Procs, NEW at \in Steps \ {"idle"}, proc[p].at # "idle", Goes(p, at),
           SharedTyped', requires' = requires,
           OthersKept(p),
           Place([proc[p] EXCEPT !.at = at], requires, guest', ledger')
    PROVE  CreateInv'
<1>1. proc \in [Procs -> Process] /\ proc[p] \in Process
  BY UnderWay
<1> DEFINE r == [proc[p] EXCEPT !.at = at]
<1>2. proc' = [proc EXCEPT ![p] = r]
  BY <1>1 DEF Goes
<1>3. r \in Process /\ r.at = at /\ r.d = proc[p].d
  BY <1>1, AtFacts
<1>4. Place(r, requires', guest', ledger')
  OBVIOUS
<1> HIDE DEF r
<1> QED BY <1>2, <1>3, <1>4, GoesOn

LEMMA OverlayStep ==
    ASSUME CreateInv, NEW p \in Procs, DropOverlay(p) \/ CreateOverlay(p) PROVE CreateInv'
<1> DEFINE d == proc[p].d
<1>1. /\ proc[p].at \in {"overlay", "recreate"}
      /\ UNCHANGED <<leaseVars, guest, box, configVars, steps>>
  BY DEF DropOverlay, CreateOverlay
<1>2. /\ proc[p] \in Process /\ d \in Domains /\ Place(proc[p], requires, guest, ledger)
  BY <1>1, UnderWay
<1>3. overlay' \in [Domains -> {"none", "clean", "layered"}]
  BY <1>2 DEF DropOverlay, CreateOverlay, CreateInv, TypeOK
<1>4. /\ SharedTyped' /\ requires' = requires /\ guest' = guest
      /\ ledger' = ledger
  BY <1>1, <1>3, Typed DEF SharedTyped, leaseVars, configVars
<1>e. OthersKept(p)
  BY <1>4, Elsewhere
<1>5. CASE Ends(p)
  BY <1>4, <1>e, <1>5, EndsWell
<1>6. CASE Goes(p, "port")
  <2>1. "port" \in Steps \ {"idle"} /\ proc[p].at # "idle"
    BY <1>1 DEF Steps
  <2>2. Place([proc[p] EXCEPT !.at = "port"], requires, guest, ledger)
    BY <1>1, <1>2, <2>1, AtFacts DEF Place
  <2> QED BY <1>4, <1>e, <1>6, <2>1, <2>2, GoesWith
<1>7. CASE Goes(p, "recreate") /\ ~(proc[p].cmd = "bake" /\ proc[p].keep)
  <2>1. "recreate" \in Steps \ {"idle"} /\ proc[p].at # "idle"
    BY <1>1 DEF Steps
  <2>2. Place([proc[p] EXCEPT !.at = "recreate"], requires, guest, ledger)
    BY <1>1, <1>2, <1>7, <2>1, AtFacts DEF Place
  <2> QED BY <1>4, <1>e, <1>7, <2>1, <2>2, GoesWith
<1> QED BY <1>5, <1>6, <1>7 DEF DropOverlay, CreateOverlay

LEMMA ResolveStep == ASSUME CreateInv, NEW p \in Procs, ResolvePort(p) PROVE CreateInv'
<1>1. proc[p].at = "port" /\ UNCHANGED <<leaseVars, domainVars, configVars, steps>>
  BY DEF ResolvePort
<1>2. /\ proc \in [Procs -> Process] /\ proc[p] \in Process /\ proc[p].d \in Domains
      /\ Place(proc[p], requires, guest, ledger)
  BY <1>1, UnderWay
<1>3. CASE Ends(p)
  BY <1>1, <1>3, EndsStill
<1>4. ASSUME NEW port \in Ports, proc' = [proc EXCEPT ![p].at = "persist", ![p].port = port]
      PROVE  CreateInv'
  <2>1. proc' = [proc EXCEPT ![p].at = "persist", ![p].port = port]
    BY <1>4
  <2> DEFINE r == [proc[p] EXCEPT !.at = "persist", !.port = port]
  <2>2. r \in Process /\ r.at = "persist" /\ r.d = proc[p].d
    BY <1>2 DEF Process, Steps
  <2>3. r.lease = proc[p].lease /\ r.card = proc[p].card
    BY <1>2 DEF Process
  <2>4. proc' = [proc EXCEPT ![p] = r]
    BY <1>2, <2>1
  <2> HIDE DEF r
  <2>5. Place(r, requires, guest, ledger)
    BY <1>1, <1>2, <2>2, <2>3 DEF Place
  <2> QED BY <1>1, <2>2, <2>4, <2>5, SharedStays, GoesOn
<1>5. (Ports \ Bound) \cup ({ledger[proc[p].d]} \ {NoPort}) \subseteq Ports /\ FixedPort \in Ports
  BY <1>2, CreateAssumption DEF CreateInv, TypeOK
<1> QED BY <1>3, <1>4, <1>5 DEF ResolvePort

LEMMA PersistStep == ASSUME CreateInv, NEW p \in Procs, PersistPort(p) PROVE CreateInv'
<1> DEFINE d == proc[p].d
<1>1. proc[p].at = "persist" /\ UNCHANGED <<leaseVars, domainVars, hostdev, alias, steps>>
  BY DEF PersistPort
<1>2. /\ proc[p] \in Process /\ d \in Domains /\ Place(proc[p], requires, guest, ledger)
      /\ proc[p].port \in Ports \cup {NoPort} /\ ledger \in [Domains -> Ports \cup {NoPort}]
  BY <1>1, UnderWay DEF Process, CreateInv, TypeOK
<1>3. CASE Ends(p) /\ UNCHANGED ledger
  BY <1>1, <1>3, EndsStill DEF configVars
<1>4. CASE /\ ledger' = (IF d \in AutoPort THEN [ledger EXCEPT ![d] = proc[p].port] ELSE ledger)
           /\ Goes(p, "define")
  <2>1. /\ ledger' \in [Domains -> Ports \cup {NoPort}] /\ (d \in AutoPort => ledger'[d] = proc[p].port)
        /\ \A e \in Domains : d # e => ledger'[e] = ledger[e]
    BY <1>2, <1>4
  <2>2. SharedTyped' /\ requires' = requires /\ guest' = guest
    BY <1>1, <2>1, Typed DEF SharedTyped, leaseVars, domainVars
  <2>3. "define" \in Steps \ {"idle"} /\ proc[p].at # "idle"
    BY <1>1 DEF Steps
  <2>4. Place([proc[p] EXCEPT !.at = "define"], requires, guest, ledger')
    BY <1>1, <1>2, <2>1, <2>3, AtFacts DEF Place
  <2>5. OthersKept(p)
    BY <2>1, <2>2, Elsewhere
  <2> QED BY <1>4, <2>2, <2>3, <2>4, <2>5, GoesWith
<1> QED BY <1>3, <1>4 DEF PersistPort

LEMMA DefineStep == ASSUME CreateInv, NEW p \in Procs, DefineDomain(p) PROVE CreateInv'
<1> DEFINE d == proc[p].d
           new == [state |-> "running", card |-> proc[p].card, port |-> proc[p].port, by |-> "create"]
<1>1. proc[p].at = "define" /\ UNCHANGED <<leaseVars, overlay, box, configVars, steps>>
  BY DEF DefineDomain
<1>2. /\ proc[p] \in Process /\ d \in Domains /\ Place(proc[p], requires, guest, ledger)
      /\ guest \in [Domains -> Guest]
  BY <1>1, UnderWay DEF CreateInv, TypeOK
<1>3. new \in Guest /\ new.port = proc[p].port
  BY <1>2 DEF Guest, Process
<1>4. [new EXCEPT !.state = "off"] \in Guest
  BY <1>3 DEF Guest
<1>5. requires' = requires /\ ledger' = ledger
  BY <1>1 DEF leaseVars, configVars
<1>6. guest' \in [Domains -> Guest] => SharedTyped'
  BY <1>1, Typed DEF SharedTyped, leaseVars, configVars
<1> HIDE DEF new
<1>7. CASE guest' = [guest EXCEPT ![d] = new] /\ Goes(p, "alias")
  <2>1. /\ guest' \in [Domains -> Guest] /\ guest'[d].port = proc[p].port
        /\ \A e \in Domains : d # e => guest'[e] = guest[e]
    BY <1>2, <1>3, <1>7
  <2>2. "alias" \in Steps \ {"idle"} /\ proc[p].at # "idle"
    BY <1>1 DEF Steps
  <2>3. Place([proc[p] EXCEPT !.at = "alias"], requires, guest', ledger)
    BY <1>1, <1>2, <2>1, <2>2, AtFacts DEF Place
  <2>4. OthersKept(p)
    BY <1>5, <2>1, Elsewhere
  <2> QED BY <1>5, <1>6, <1>7, <2>1, <2>2, <2>3, <2>4, GoesWith
<1>8. CASE guest' = [guest EXCEPT ![d] = [new EXCEPT !.state = "off"]] /\ Ends(p)
  <2>1. guest' \in [Domains -> Guest] /\ \A e \in Domains : d # e => guest'[e] = guest[e]
    BY <1>2, <1>4, <1>8
  <2> QED BY <1>5, <1>6, <1>8, <2>1, Elsewhere, EndsWell
<1>9. CASE Ends(p) /\ UNCHANGED guest
  BY <1>2, <1>5, <1>6, <1>9, Elsewhere, EndsWell
<1> QED BY <1>7, <1>8, <1>9 DEF DefineDomain, new

LEMMA AliasStep == ASSUME CreateInv, NEW p \in Procs, PublishAlias(p) PROVE CreateInv'
<1>1. proc[p].at = "alias" /\ UNCHANGED <<leaseVars, domainVars, hostdev, ledger, steps>>
  BY DEF PublishAlias
<1>2. /\ proc[p] \in Process /\ proc[p].d \in Domains /\ Place(proc[p], requires, guest, ledger)
      /\ proc[p].port \in Ports \cup {NoPort}
  BY <1>1, UnderWay DEF Process
<1>3. alias' \in [Domains -> Ports \cup {NoPort}]
  BY <1>2 DEF PublishAlias, CreateInv, TypeOK
<1>4. SharedTyped' /\ requires' = requires /\ guest' = guest
  BY <1>1, <1>3, Typed DEF SharedTyped, leaseVars, domainVars
<1>e. ledger' = ledger /\ OthersKept(p)
  BY <1>1, <1>4, Elsewhere
<1>5. CASE Ends(p)
  BY <1>4, <1>e, <1>5, EndsWell
<1>6. CASE Goes(p, "agent")
  <2>1. "agent" \in Steps \ {"idle"} /\ proc[p].at # "idle"
    BY <1>1 DEF Steps
  <2>2. Place([proc[p] EXCEPT !.at = "agent"], requires, guest, ledger)
    BY <1>1, <1>2, <2>1, AtFacts DEF Place
  <2> QED BY <1>4, <1>e, <1>6, <2>1, <2>2, GoesWith
<1> QED BY <1>5, <1>6 DEF PublishAlias

LEMMA ReleaseFacts ==
    ASSUME NEW r \in Process, NEW at \in {"teardown", "release"}, NEW release \in BOOLEAN
    PROVE  [r EXCEPT !.at = at, !.release = release] \in Process
<1>1. at \in Steps
  BY DEF Steps
<1>2. \A k \in Process : [k EXCEPT !.at = at, !.release = TRUE] \in Process
  BY <1>1 DEF Process
<1>3. \A k \in Process : [k EXCEPT !.at = at, !.release = FALSE] \in Process
  BY <1>1 DEF Process
<1> QED BY <1>2, <1>3

\* A step that notes what to release.
LEMMA NotesRelease ==
    ASSUME CreateInv, NEW p \in Procs, proc[p].at # "idle", NEW at \in {"teardown", "release"},
           NEW release \in Releasable(proc[p].d),
           proc' = [proc EXCEPT ![p].at = at, ![p].release = release],
           SharedTyped', requires' = requires, OthersKept(p),
           at = "release" => ~Booted(guest'[proc[p].d]),
           at = "teardown" => proc[p].at = "claimant"
    PROVE  CreateInv'
<1> DEFINE r == [proc[p] EXCEPT !.at = at, !.release = release]
<1>1. /\ proc \in [Procs -> Process] /\ proc[p] \in Process /\ proc[p].d \in Domains
      /\ Place(proc[p], requires, guest, ledger)
  BY UnderWay
<1>2. release \in BOOLEAN
  <2>1. Releasable(proc[p].d) \subseteq BOOLEAN
    BY DEF Releasable, Claims
  <2> QED BY <2>1
<1>3. r \in Process /\ r.at = at /\ r.d = proc[p].d /\ r.cmd = proc[p].cmd /\ r.disk = proc[p].disk
  <2>1. proc[p] \in Process /\ at \in {"teardown", "release"} /\ release \in BOOLEAN
    BY <1>1, <1>2
  <2>2. r \in Process
    BY <2>1, ReleaseFacts
  <2> QED BY <2>1, <2>2 DEF Process
<1>4. proc' = [proc EXCEPT ![p] = r]
  BY <1>1
<1> HIDE DEF r
<1>5. Place(r, requires', guest', ledger')
  BY <1>1, <1>3 DEF Place
<1> QED BY <1>3, <1>4, <1>5, GoesOn

\* The steps of stop, destroy and bake that change nothing shared.
LEMMA LookupStep == ASSUME CreateInv, NEW p \in Procs, LookupClaimant(p) PROVE CreateInv'
<1>1. proc[p].at = "claimant" /\ UNCHANGED <<leaseVars, domainVars, configVars, steps>>
  BY DEF LookupClaimant
<1>2. PICK release \in Releasable(proc[p].d) :
          proc' = [proc EXCEPT ![p].at = "teardown", ![p].release = release]
  BY DEF LookupClaimant
<1> QED BY <1>1, <1>2, SharedStays, NotesRelease

LEMMA BakeQuietStep == ASSUME CreateInv, NEW p \in Procs, BakeAgent(p) \/ Flatten(p) PROVE CreateInv'
<1>1. proc[p].at \in {"agent", "flatten"} /\ UNCHANGED <<leaseVars, domainVars, configVars, steps>>
  BY DEF BakeAgent, Flatten
<1>2. proc[p] \in Process /\ Place(proc[p], requires, guest, ledger)
  BY <1>1, UnderWay
<1>3. CASE Ends(p)
  BY <1>1, <1>3, EndsStill
<1>4. CASE proc[p].at = "agent" /\ Goes(p, "stop")
  <2>1. proc[p].at # "idle" /\ "stop" \in Steps \ {"idle"}
    BY <1>4 DEF Steps
  <2>2. Place([proc[p] EXCEPT !.at = "stop"], requires, guest, ledger)
    BY <1>2, <1>4, <2>1, AtFacts DEF Place
  <2> QED BY <1>1, <1>4, <2>1, <2>2, GoesStill
<1>5. CASE proc[p].at = "flatten" /\ Goes(p, "emit")
  <2>1. proc[p].at # "idle" /\ "emit" \in Steps \ {"idle"}
    BY <1>5 DEF Steps
  <2>2. Place([proc[p] EXCEPT !.at = "emit"], requires, guest, ledger)
    BY <1>2, <1>5, <2>1, AtFacts DEF Place
  <2> QED BY <1>1, <1>5, <2>1, <2>2, GoesStill
<1> QED BY <1>3, <1>4, <1>5 DEF BakeAgent, Flatten

LEMMA EmitStep == ASSUME CreateInv, NEW p \in Procs, EmitBox(p) PROVE CreateInv'
<1> DEFINE r == [proc[p] EXCEPT !.at = "claimant", !.disk = TRUE, !.keep = TRUE]
<1>1. proc[p].at = "emit" /\ UNCHANGED <<leaseVars, overlay, guest, configVars, steps>>
  BY DEF EmitBox
<1>2. /\ proc \in [Procs -> Process] /\ proc[p] \in Process /\ proc[p].d \in Domains
      /\ Place(proc[p], requires, guest, ledger)
  BY <1>1, UnderWay
<1>3. box' \in {"none", "clean", "layered"}
  BY <1>2 DEF EmitBox, CreateInv, TypeOK
<1>4. SharedTyped' /\ requires' = requires /\ guest' = guest /\ ledger' = ledger
  BY <1>1, <1>3, Typed DEF SharedTyped, leaseVars, configVars
<1>5. OthersKept(p)
  BY <1>4, Elsewhere
<1>6. CASE Ends(p)
  BY <1>4, <1>5, <1>6, EndsWell
<1>7. CASE proc' = [proc EXCEPT ![p].at = "claimant", ![p].disk = TRUE, ![p].keep = TRUE]
  <2>1. r \in Process /\ r.at = "claimant" /\ r.d = proc[p].d /\ r.disk
    BY <1>2 DEF Process, Steps
  <2>2. proc' = [proc EXCEPT ![p] = r]
    BY <1>2, <1>7
  <2> HIDE DEF r
  <2>3. Place(r, requires, guest, ledger)
    BY <1>2, <2>1 DEF Place
  <2> QED BY <1>1, <1>4, <1>5, <2>1, <2>2, <2>3, GoesOn
<1> QED BY <1>6, <1>7 DEF EmitBox

LEMMA StartStep == ASSUME CreateInv, NEW p \in Procs, Start(p) PROVE CreateInv'
<1> DEFINE d == proc[p].d
<1>1. proc[p].at = "start" /\ Ends(p) /\ UNCHANGED <<leaseVars, overlay, box, configVars, steps>>
  BY DEF Start
<1>2. d \in Domains /\ guest \in [Domains -> Guest]
  BY <1>1, UnderWay DEF CreateInv, TypeOK
<1>3. guest' \in [Domains -> Guest] /\ \A e \in Domains : d # e => guest'[e] = guest[e]
  <2>1. CASE UNCHANGED guest
    BY <1>2, <2>1
  <2>2. CASE guest' = [guest EXCEPT ![d].state = "running", ![d].by = IF Running(d) THEN @ ELSE "start"]
    <3> DEFINE by == IF Running(d) THEN guest[d].by ELSE "start"
    <3>1. by \in {"create", "start"}
      BY <1>2 DEF Guest
    <3>2. guest' = [guest EXCEPT ![d] = [guest[d] EXCEPT !.state = "running", !.by = by]]
      BY <1>2, <2>2 DEF Guest
    <3> HIDE DEF by
    <3>3. [guest[d] EXCEPT !.state = "running", !.by = by] \in Guest
      BY <1>2, <3>1 DEF Guest
    <3> QED BY <1>2, <3>2, <3>3
  <2> QED BY <2>1, <2>2 DEF Start
<1>4. SharedTyped' /\ requires' = requires /\ ledger' = ledger
  BY <1>1, <1>3, Typed DEF SharedTyped, leaseVars, configVars
<1> QED BY <1>1, <1>3, <1>4, Elsewhere, EndsWell

LEMMA StopStep == ASSUME CreateInv, NEW p \in Procs, StopDomain(p) PROVE CreateInv'
<1> DEFINE d == proc[p].d
<1>1. proc[p].at = "stop" /\ UNCHANGED <<leaseVars, overlay, box, configVars, steps>>
  BY DEF StopDomain
<1>2. d \in Domains /\ guest \in [Domains -> Guest]
  BY <1>1, UnderWay DEF CreateInv, TypeOK
<1>3. requires' = requires /\ ledger' = ledger
  BY <1>1 DEF leaseVars, configVars
<1>4. guest' \in [Domains -> Guest] => SharedTyped'
  BY <1>1, Typed DEF SharedTyped, leaseVars, configVars
<1>5. CASE Ends(p) /\ UNCHANGED guest
  BY <1>2, <1>3, <1>4, <1>5, Elsewhere, EndsWell
<1>6. ASSUME guest' = [guest EXCEPT ![d].state = "off"], NEW release \in Releasable(d),
             proc' = [proc EXCEPT ![p].at = "release", ![p].release = release]
      PROVE  CreateInv'
  <2>1. LET off == [guest[d] EXCEPT !.state = "off"] IN off \in Guest /\ ~Booted(off)
    BY <1>2 DEF Guest, Booted
  <2>2. /\ guest' \in [Domains -> Guest] /\ ~Booted(guest'[d])
        /\ \A e \in Domains : d # e => guest'[e] = guest[e]
    BY <1>2, <1>6, <2>1
  <2>3. SharedTyped' /\ OthersKept(p)
    BY <1>3, <1>4, <2>2, Elsewhere
  <2> QED BY <1>1, <1>3, <1>6, <2>2, <2>3, NotesRelease
<1> QED BY <1>5, <1>6 DEF StopDomain

LEMMA TeardownDone == ASSUME CreateInv, NEW p \in Procs, Teardown(p) PROVE CreateInv'
<1> DEFINE d == proc[p].d
<1>1. proc[p].at = "teardown" /\ UNCHANGED <<leaseVars, box, ledger, alias, steps>>
  BY DEF Teardown
<1>2. /\ proc[p] \in Process /\ d \in Domains /\ Place(proc[p], requires, guest, ledger)
      /\ guest \in [Domains -> Guest] /\ overlay \in [Domains -> {"none", "clean", "layered"}]
      /\ hostdev \subseteq Claimants
  BY <1>1, UnderWay DEF CreateInv, TypeOK
<1>3. overlay' \in [Domains -> {"none", "clean", "layered"}] /\ hostdev' \subseteq Claimants
  BY <1>2 DEF Teardown
<1>4. guest' = guest \/ guest' = [guest EXCEPT ![d] = NoGuest]
  BY DEF Teardown
<1>5. guest' \in [Domains -> Guest] /\ \A e \in Domains : d # e => guest'[e] = guest[e]
  BY <1>2, <1>4, NoGuestFacts
<1>6. SharedTyped' /\ requires' = requires
  BY <1>1, <1>3, <1>5, Typed DEF SharedTyped, leaseVars
<1>7. OthersKept(p)
  BY <1>1, <1>5, Elsewhere
<1>8. PICK at \in {"unalias", "abandoned"} : Goes(p, at)
  BY DEF Teardown
<1>9. at \in Steps \ {"idle"} /\ proc[p].at # "idle"
  BY <1>1 DEF Steps
<1>10. at = "unalias" => ~Booted(guest'[d])
  <2>1. CASE Goes(p, "abandoned")
    <3>1. at # "unalias"
      BY <1>2, <1>8, <2>1 DEF Goes, Process, CreateInv, TypeOK
    <3> QED BY <3>1
  <2>2. CASE ~Goes(p, "abandoned")
    <3>1. guest'[d].state = "none"
      BY <1>2, <2>2, NoGuestFacts DEF Teardown
    <3> QED BY <3>1 DEF Booted
  <2> QED BY <2>1, <2>2
<1>11. Place([proc[p] EXCEPT !.at = at], requires, guest', ledger')
  <2> DEFINE n == [proc[p] EXCEPT !.at = at]
  <2>1. n.at = at /\ n.d = d /\ n.cmd = proc[p].cmd /\ n.disk = proc[p].disk
    BY <1>2, <1>9, AtFacts
  <2> HIDE DEF n
  <2>2. Place(n, requires, guest', ledger')
    BY <1>1, <1>2, <1>8, <1>10, <2>1 DEF Place
  <2> QED BY <2>2 DEF n
<1> QED BY <1>6, <1>7, <1>8, <1>9, <1>11, GoesWith

LEMMA UnaliasStep == ASSUME CreateInv, NEW p \in Procs, RemoveAlias(p) \/ RemoveLedger(p) PROVE CreateInv'
<1> DEFINE d == proc[p].d
<1>1. proc[p].at \in {"unalias", "unledger"} /\ UNCHANGED <<leaseVars, domainVars, hostdev, steps>>
  BY DEF RemoveAlias, RemoveLedger
<1>2. /\ proc[p] \in Process /\ d \in Domains /\ Place(proc[p], requires, guest, ledger)
      /\ ledger \in [Domains -> Ports \cup {NoPort}] /\ alias \in [Domains -> Ports \cup {NoPort}]
  BY <1>1, UnderWay DEF CreateInv, TypeOK
<1>3. /\ alias' \in [Domains -> Ports \cup {NoPort}] /\ ledger' \in [Domains -> Ports \cup {NoPort}]
      /\ \A e \in Domains : d # e => ledger'[e] = ledger[e]
  BY <1>2 DEF RemoveAlias, RemoveLedger
<1>4. SharedTyped' /\ requires' = requires /\ guest' = guest
  BY <1>1, <1>3, Typed DEF SharedTyped, leaseVars, domainVars
<1>5. OthersKept(p)
  BY <1>3, <1>4, Elsewhere
<1>6. PICK at \in {"unledger", "release", "abandoned"} : Goes(p, at) /\ (at = "abandoned" => proc[p].disk)
  BY DEF RemoveAlias, RemoveLedger
<1>7. at \in Steps \ {"idle"} /\ proc[p].at # "idle"
  BY <1>1 DEF Steps
<1>8. Place([proc[p] EXCEPT !.at = at], requires, guest, ledger')
  <2> DEFINE n == [proc[p] EXCEPT !.at = at]
  <2>1. n.at = at /\ n.d = d /\ n.cmd = proc[p].cmd /\ n.disk = proc[p].disk
    BY <1>2, <1>7, AtFacts
  <2> HIDE DEF n
  <2>2. Place(n, requires, guest, ledger')
    BY <1>1, <1>2, <1>6, <2>1 DEF Place
  <2> QED BY <2>2 DEF n
<1> QED BY <1>4, <1>5, <1>6, <1>7, <1>8, GoesWith

\* What a release does to the guests: none, or the preempted one is started, which
\* is not the releasing process's own.
LEMMA ReleasedGuests ==
    ASSUME CreateInv, NEW p \in Procs, Release(p)
    PROVE  /\ guest' \in [Domains -> Guest]
           /\ guest'[proc[p].d] = guest[proc[p].d]
           /\ \A e \in Domains :
                  /\ guest'[e].port = guest[e].port /\ guest'[e].card = guest[e].card
                  /\ guest'[e] = guest[e] \/ guest'[e].by = "start"
<1>1. proc[p].at # "idle" /\ guest \in [Domains -> Guest] /\ preempted \in Claimants \cup {Nobody}
  BY DEF Release, CreateInv, TypeOK
<1>2. proc[p].d \in Domains
  BY <1>1, UnderWay
<1>3. CASE UNCHANGED guest
  BY <1>1, <1>3
<1>4. CASE /\ holder' # holder /\ preempted # Nobody
           /\ guest' = [guest EXCEPT ![preempted].state = "running", ![preempted].by = "start"]
  <2>1. preempted \in Domains
    BY <1>1, <1>4, Names
  <2>2. holder = proc[p].d /\ preempted # holder
    BY <1>4 DEF Release, CreateInv, TypeOK
  <2>3. LET g == [guest[preempted] EXCEPT !.state = "running", !.by = "start"]
        IN  /\ g \in Guest /\ g.port = guest[preempted].port /\ g.card = guest[preempted].card
            /\ g.by = "start"
    BY <1>1, <2>1 DEF Guest
  <2>4. guest' = [guest EXCEPT ![preempted] = [guest[preempted] EXCEPT !.state = "running", !.by = "start"]]
    BY <1>1, <1>4, <2>1
  <2> QED BY <1>1, <1>2, <2>1, <2>2, <2>3, <2>4
<1> QED BY <1>3, <1>4 DEF Release

LEMMA ReleaseStep == ASSUME CreateInv, NEW p \in Procs, Release(p) PROVE CreateInv'
<1> DEFINE d == proc[p].d
<1>1. proc[p].at \in {"release", "abandoned"} /\ UNCHANGED <<requires, overlay, box, configVars, steps>>
  BY DEF Release
<1>2. /\ proc[p] \in Process /\ d \in Domains /\ Place(proc[p], requires, guest, ledger)
      /\ preempted \in Claimants \cup {Nobody} /\ guest \in [Domains -> Guest]
  BY <1>1, UnderWay DEF CreateInv, TypeOK
<1>3. (holder' = preempted /\ preempted' = Nobody) \/ UNCHANGED <<holder, preempted>>
  BY DEF Release
<1>4. /\ {holder', preempted'} \subseteq Claimants \cup {Nobody}
      /\ preempted' # Nobody => preempted' # holder' /\ holder' # Nobody
  BY <1>2, <1>3 DEF CreateInv, TypeOK
<1>5. SharedTyped' /\ requires' = requires /\ ledger' = ledger
  BY <1>1, <1>4, ReleasedGuests, Typed DEF SharedTyped, configVars
<1>6. OthersKept(p)
  <2>1. ASSUME NEW e \in Domains PROVE guest'[e].port = guest[e].port /\ (Booted(guest'[e]) => Booted(guest[e]))
    <3>1. guest'[e].port = guest[e].port /\ (guest'[e] = guest[e] \/ guest'[e].by = "start")
      BY ReleasedGuests
    <3> QED BY <3>1 DEF Booted
  <2> QED BY <1>5, <2>1 DEF OthersKept
<1>7. CASE Ends(p)
  BY <1>5, <1>6, <1>7, EndsWell
<1>8. CASE proc[p].cmd = "bake" /\ ~proc[p].disk /\ Goes(p, "flatten")
  <2>1. "flatten" \in Steps \ {"idle"} /\ proc[p].at # "idle"
    BY <1>1 DEF Steps
  <2>2. Place([proc[p] EXCEPT !.at = "flatten"], requires, guest', ledger')
    <3>1. proc[p].at = "release"
      BY <1>1, <1>2, <1>8 DEF Place
    <3> QED BY <1>2, <2>1, <3>1, AtFacts, ReleasedGuests DEF Place
  <2> QED BY <1>5, <1>6, <1>8, <2>1, <2>2, GoesWith
<1> QED BY <1>7, <1>8 DEF Release

\* A step of the world: no process moves.
LEMMA WorldSteps ==
    ASSUME CreateInv, UNCHANGED <<proc, ledger>>, SharedTyped',
           \A p \in Procs : proc[p].at # "idle" =>
               Place(proc[p], requires', guest', ledger)
    PROVE  CreateInv'
<1>1. TypeOK'
  BY DEF CreateInv, TypeOK, SharedTyped
<1>2. OwnDomain'
  BY DEF CreateInv, OwnDomain
<1>3. \A p \in Procs : proc[p].at = "idle" => Place(proc[p], requires', guest', ledger)
  BY DEF CreateInv, Place
<1> QED BY <1>1, <1>2, <1>3 DEF CreateInv

LEMMA EditStep == ASSUME CreateInv, NEW d \in Domains, EditConfig(d) PROVE CreateInv'
<1>1. UNCHANGED <<holder, preempted, domainVars, configVars, proc>> /\ ~Busy(d)
      /\ steps' \in 0..MaxSteps
      /\ requires' \subseteq Claimants /\ \A e \in Domains \ {d} : (e \in requires') = (e \in requires)
  BY StepBound DEF EditConfig, Once, CreateInv, TypeOK
<1>2. SharedTyped'
  BY <1>1, Typed DEF SharedTyped, domainVars, configVars
<1>3. ASSUME NEW p \in Procs, proc[p].at # "idle" PROVE Place(proc[p], requires', guest', ledger)
  <2>1. proc[p].d \in Domains \ {d} /\ Place(proc[p], requires, guest, ledger)
    BY <1>1, <1>3, UnderWay DEF Busy
  <2> QED BY <1>1, <2>1 DEF Place, domainVars
<1> QED BY <1>1, <1>2, <1>3, WorldSteps DEF configVars

LEMMA PowerOffStep == ASSUME CreateInv, NEW d \in Domains, GuestPowersOff(d) PROVE CreateInv'
<1>1. UNCHANGED <<leaseVars, overlay, box, configVars, proc>> /\ steps' \in 0..MaxSteps
      /\ guest' = [guest EXCEPT ![d].state = "off"] /\ guest \in [Domains -> Guest]
  BY StepBound DEF GuestPowersOff, Once, CreateInv, TypeOK
<1>2. /\ [guest[d] EXCEPT !.state = "off"] \in Guest
      /\ [guest[d] EXCEPT !.state = "off"].state = "off" /\ [guest[d] EXCEPT !.state = "off"].port = guest[d].port
  BY <1>1 DEF Guest
<1>3. /\ guest' \in [Domains -> Guest]
      /\ \A e \in Domains : guest'[e].port = guest[e].port /\ (Booted(guest'[e]) => Booted(guest[e]))
  BY <1>1, <1>2 DEF Booted
<1>4. SharedTyped'
  BY <1>1, <1>3, Typed DEF SharedTyped, leaseVars, configVars
<1>5. ASSUME NEW p \in Procs, proc[p].at # "idle" PROVE Place(proc[p], requires', guest', ledger)
  <2>1. proc[p].d \in Domains /\ Place(proc[p], requires, guest, ledger)
    BY <1>5, UnderWay
  <2> QED BY <1>1, <1>3, <2>1 DEF Place, leaseVars
<1> QED BY <1>1, <1>4, <1>5, WorldSteps DEF leaseVars, configVars

LEMMA LayersStep == ASSUME CreateInv, NEW d \in Domains, ApplyLayers(d) PROVE CreateInv'
<1>1. UNCHANGED <<leaseVars, guest, box, configVars, proc>> /\ steps' \in 0..MaxSteps
      /\ overlay' \in [Domains -> {"none", "clean", "layered"}]
  BY StepBound DEF ApplyLayers, Once, CreateInv, TypeOK
<1>2. SharedTyped'
  BY <1>1, Typed DEF SharedTyped, leaseVars, configVars
<1>3. \A p \in Procs : Place(proc[p], requires', guest', ledger)
  BY <1>1 DEF CreateInv, leaseVars
<1> QED BY <1>1, <1>2, <1>3, WorldSteps DEF leaseVars, configVars

LEMMA IdleStep == ASSUME CreateInv, UNCHANGED vars PROVE CreateInv'
BY DEF CreateInv, TypeOK, OwnDomain, vars, leaseVars, domainVars, configVars

\* CreateInv is inductive.
LEMMA InvStep == ASSUME CreateInv, [Next]_vars PROVE CreateInv'
<1>1. ASSUME NEW p \in Procs, Invoke(p) \/ Die(p) PROVE CreateInv'
  BY <1>1, InvokeStep, EndsStill DEF Die
<1>2. ASSUME NEW p \in Procs, CreateStep(p) PROVE CreateInv'
  BY <1>2, AcquireStep, AllocateStep, OverlayStep, ResolveStep, PersistStep, DefineStep, AliasStep
     DEF CreateStep
<1>3. ASSUME NEW p \in Procs, TeardownStep(p) PROVE CreateInv'
  BY <1>3, StartStep, LookupStep, StopStep, TeardownDone, UnaliasStep, ReleaseStep DEF TeardownStep
<1>4. ASSUME NEW p \in Procs, BakeStep(p) PROVE CreateInv'
  BY <1>4, BakeQuietStep, EmitStep DEF BakeStep
<1>5. ASSUME NEW d \in Domains, EditConfig(d) \/ GuestPowersOff(d) \/ ApplyLayers(d) PROVE CreateInv'
  BY <1>5, EditStep, PowerOffStep, LayersStep
<1>6. CASE UNCHANGED vars
  BY <1>6, IdleStep
<1> QED BY <1>1, <1>2, <1>3, <1>4, <1>5, <1>6 DEF Next

LEMMA InvHolds == Spec => []CreateInv
<1>1. CreateInv /\ [Next]_vars => CreateInv'
  BY InvStep
<1> QED BY <1>1, CreateInit, PTL DEF Spec

-----------------------------------------------------------------------------
(* The theorems.                                                              *)

\* Every variable keeps its type, a process is idle exactly when it has no
\* domain, and nobody is noted as stopped for a lease it holds itself.
THEOREM TypeCorrect == Spec => []TypeOK
<1>1. CreateInv => TypeOK
  BY DEF CreateInv
<1> QED BY <1>1, InvHolds, PTL

\* The guest that a bake booted is off when its disk is flattened (vm_bake.go): the
\* stop precedes, and no other command may start the domain.  Only a release of
\* another deployment's lease, which the arbiter follows up, can.
THEOREM FlattensQuiet == Spec => []FlattensQuietDisk
<1>1. ASSUME CreateInv PROVE FlattensQuietDisk
  <2> SUFFICES ASSUME NEW p \in Procs, proc[p].at \in {"flatten", "emit"}, Running(proc[p].d)
               PROVE  guest[proc[p].d].by = "start"
    BY DEF FlattensQuietDisk
  <2>1. ~Booted(guest[proc[p].d]) /\ guest[proc[p].d] \in Guest
    BY <1>1, UnderWay DEF Place, CreateInv, TypeOK
  <2> QED BY <2>1 DEF Booted, Running, Guest
<1> QED BY <1>1, InvHolds, PTL

\* A port that appears in the ssh alias is the one the guest forwards and, when it
\* was allocated, the one the ledger keeps (vm_create_orchestrate.go): persisted
\* before the domain is defined, and published last.
THEOREM PortsStayTogether == Spec => PortsAgree
<1> DEFINE Published == \A d \in Domains : alias'[d] # alias[d] /\ alias'[d] # NoPort
                            => alias'[d] = guest'[d].port /\ (d \in AutoPort => ledger'[d] = guest'[d].port)
<1>1. ASSUME CreateInv, [Next]_vars PROVE Published
  <2>1. alias \in [Domains -> Ports \cup {NoPort}]
    BY <1>1 DEF CreateInv, TypeOK
  <2>2. ASSUME NEW p \in Procs, PublishAlias(p) PROVE Published
    <3>1. proc[p].at = "alias" /\ guest' = guest /\ ledger' = ledger
      BY <2>2 DEF PublishAlias, domainVars
    <3>2. /\ guest[proc[p].d].port = proc[p].port
          /\ proc[p].d \in AutoPort => ledger[proc[p].d] = proc[p].port
      BY <1>1, <3>1, UnderWay DEF Place
    <3>3. \A d \in Domains : alias'[d] # alias[d] => d = proc[p].d /\ alias'[d] = proc[p].port
      BY <2>1, <2>2 DEF PublishAlias
    <3> QED BY <3>1, <3>2, <3>3
  <2>3. ASSUME NEW p \in Procs, RemoveAlias(p) PROVE Published
    BY <2>1, <2>3 DEF RemoveAlias
  <2>4. CASE UNCHANGED alias
    BY <2>4
  <2>5. ASSUME NEW p \in Procs, CreateStep(p), ~PublishAlias(p) PROVE UNCHANGED alias
    BY <2>5 DEF CreateStep, Acquire, Allocate, DropOverlay, CreateOverlay, ResolvePort,
                PersistPort, DefineDomain, configVars
  <2>6. ASSUME NEW p \in Procs, TeardownStep(p), ~RemoveAlias(p) PROVE UNCHANGED alias
    BY <2>6 DEF TeardownStep, Start, LookupClaimant, StopDomain, Teardown, RemoveLedger, Release, configVars
  <2>7. ASSUME NEW p \in Procs, Invoke(p) \/ Die(p) \/ BakeStep(p) PROVE UNCHANGED alias
    BY <2>7 DEF Invoke, Die, BakeStep, BakeAgent, Flatten, EmitBox, configVars
  <2>8. ASSUME NEW d \in Domains, EditConfig(d) \/ GuestPowersOff(d) \/ ApplyLayers(d) PROVE UNCHANGED alias
    BY <2>8 DEF EditConfig, GuestPowersOff, ApplyLayers, configVars
  <2>9. UNCHANGED vars => UNCHANGED alias
    BY DEF vars, configVars
  <2> QED BY <1>1, <2>2, <2>3, <2>4, <2>5, <2>6, <2>7, <2>8, <2>9 DEF Next
<1>2. CreateInv /\ [Next]_vars => [Published]_vars
  BY <1>1
<1> QED BY <1>2, InvHolds, PTL DEF Spec, PortsAgree

\* Until it is destroyed, the disk of a domain that the caller bakes and keeps
\* is rewritten by no step of the bake, of another process or of the world
\* (vm_bake.go).
THEOREM BakeKeeps == Spec => BakeKeepsDisk
<1> DEFINE Kept == \A p \in Procs : proc[p].cmd = "bake" /\ proc[p].keep /\ proc[p].at # "teardown"
                       => overlay'[proc[p].d] = overlay[proc[p].d]
<1>1. ASSUME CreateInv, [Next]_vars PROVE Kept
  <2> SUFFICES ASSUME NEW p \in Procs, proc[p].cmd = "bake", proc[p].keep, proc[p].at # "teardown"
               PROVE  overlay'[proc[p].d] = overlay[proc[p].d]
    OBVIOUS
  <2>1. overlay \in [Domains -> {"none", "clean", "layered"}]
    BY <1>1 DEF CreateInv, TypeOK
  <2>2. CASE UNCHANGED overlay
    BY <2>2
  <2>3. ASSUME NEW q \in Procs, DropOverlay(q) \/ CreateOverlay(q) \/ Teardown(q)
        PROVE  overlay'[proc[p].d] = overlay[proc[p].d]
    <3>1. proc[q].at # "idle" /\ \A d \in Domains : d # proc[q].d => overlay'[d] = overlay[d]
      BY <2>1, <2>3 DEF DropOverlay, CreateOverlay, Teardown
    <3>2. proc[p].d \in Domains
      <4>1. Place(proc[p], requires, guest, ledger)
        BY <1>1 DEF CreateInv
      <4> QED BY <1>1, <4>1, UnderWay DEF Place
    <3>3. CASE p # q
      BY <1>1, <3>1, <3>2, <3>3 DEF CreateInv, OwnDomain
    <3>4. CASE p = q
      <4>1. Place(proc[p], requires, guest, ledger)
        BY <1>1 DEF CreateInv
      <4> QED BY <2>3, <3>4, <4>1 DEF Place, DropOverlay, CreateOverlay, Teardown
    <3> QED BY <3>3, <3>4
  <2>4. ASSUME NEW d \in Domains, ApplyLayers(d) PROVE overlay'[proc[p].d] = overlay[proc[p].d]
    BY <2>1, <2>4 DEF ApplyLayers, Busy
  <2>5. ASSUME NEW q \in Procs, CreateStep(q), ~DropOverlay(q), ~CreateOverlay(q) PROVE UNCHANGED overlay
    BY <2>5 DEF CreateStep, Acquire, Allocate, ResolvePort, PersistPort, DefineDomain,
                PublishAlias, domainVars
  <2>6. ASSUME NEW q \in Procs, TeardownStep(q), ~Teardown(q) PROVE UNCHANGED overlay
    BY <2>6 DEF TeardownStep, Start, LookupClaimant, StopDomain, RemoveAlias, RemoveLedger, Release, domainVars
  <2>7. ASSUME NEW q \in Procs, Invoke(q) \/ Die(q) \/ BakeStep(q) PROVE UNCHANGED overlay
    BY <2>7 DEF Invoke, Die, BakeStep, BakeAgent, Flatten, EmitBox, domainVars
  <2>8. ASSUME NEW d \in Domains, EditConfig(d) \/ GuestPowersOff(d) PROVE UNCHANGED overlay
    BY <2>8 DEF EditConfig, GuestPowersOff, domainVars
  <2>9. UNCHANGED vars => UNCHANGED overlay
    BY DEF vars, domainVars
  <2> QED BY <1>1, <2>2, <2>3, <2>4, <2>5, <2>6, <2>7, <2>8, <2>9 DEF Next
<1>2. CreateInv /\ [Next]_vars => [Kept]_vars
  BY <1>1
<1> QED BY <1>2, InvHolds, PTL DEF Spec, BakeKeepsDisk

\* The guests and the lease move by few actions.
LEMMA OnlyThese ==
    ASSUME CreateInv, [Next]_vars
    PROVE  \/ UNCHANGED <<guest, holder>>
           \/ \E d \in Domains : GuestPowersOff(d)
           \/ \E p \in Procs : \/ Acquire(p) \/ DefineDomain(p) \/ Start(p) \/ StopDomain(p)
                             \/ Teardown(p) \/ Release(p)
<1>1. ASSUME NEW p \in Procs, CreateStep(p), ~Acquire(p), ~DefineDomain(p) PROVE UNCHANGED <<guest, holder>>
  BY <1>1 DEF CreateStep, Allocate, DropOverlay, CreateOverlay, ResolvePort, PersistPort, PublishAlias,
              leaseVars, domainVars
<1>2. ASSUME NEW p \in Procs, LookupClaimant(p) \/ RemoveAlias(p) \/ RemoveLedger(p)
      PROVE  UNCHANGED <<guest, holder>>
  BY <1>2 DEF LookupClaimant, RemoveAlias, RemoveLedger, leaseVars, domainVars
<1>3. ASSUME NEW p \in Procs, Invoke(p) \/ Die(p) \/ BakeStep(p) PROVE UNCHANGED <<guest, holder>>
  BY <1>3 DEF Invoke, Die, BakeStep, BakeAgent, Flatten, EmitBox, leaseVars, domainVars
<1>4. ASSUME NEW d \in Domains, EditConfig(d) \/ ApplyLayers(d) PROVE UNCHANGED <<guest, holder>>
  BY <1>4 DEF EditConfig, ApplyLayers, leaseVars, domainVars
<1>5. UNCHANGED vars => UNCHANGED <<guest, holder>>
  BY DEF vars, leaseVars, domainVars
<1> QED BY <1>1, <1>2, <1>3, <1>4, <1>5 DEF Next, TeardownStep

\* create boots a guest with the card only with a lease or for a committed hostdev,
\* and the lease leaves a deployment whose guest keeps the card only behind a
\* destroy that failed (gpu_allocate.go, vm.go).
THEOREM LeaseFollowed == Spec => CardFollowsLease
<1> DEFINE Asked(d) == guest'[d] # guest[d] /\ Passthrough(d)'
                          => d \in Committed \/ \E p \in Procs : proc[p].d = d /\ proc[p].lease # "none"
           Left(d) == Passthrough(d) /\ holder = d /\ holder' # d
                          => ~Passthrough(d)' \/ \E p \in Procs : proc[p].d = d /\ proc[p].at = "abandoned"
           Followed == \A d \in Domains :
               /\ guest'[d] # guest[d] /\ Passthrough(d)'
                     => d \in Committed \/ \E p \in Procs : proc[p].d = d /\ proc[p].lease # "none"
               /\ Passthrough(d) /\ holder = d /\ holder' # d
                     => ~Passthrough(d)' \/ \E p \in Procs : proc[p].d = d /\ proc[p].at = "abandoned"
<1>1. ASSUME CreateInv, [Next]_vars PROVE Followed
  <2>1. guest \in [Domains -> Guest]
    BY <1>1 DEF CreateInv, TypeOK
  <2>2. ASSUME holder' = holder, NEW e \in Domains, \A d \in Domains \ {e} : guest'[d] = guest[d], Asked(e)
        PROVE  Followed
    BY <2>2
  <2>3. CASE UNCHANGED <<guest, holder>>
    BY <2>3
  <2>4. ASSUME NEW d \in Domains, GuestPowersOff(d) PROVE Followed
    <3>1. holder' = holder /\ guest' = [guest EXCEPT ![d].state = "off"]
      BY <2>4 DEF GuestPowersOff, leaseVars
    <3>2. guest'[d].state = "off"
      BY <2>1, <3>1 DEF Guest
    <3>3. Asked(d)
      BY <3>2 DEF Passthrough, Running
    <3> QED BY <2>1, <2>2, <3>1, <3>3
  <2>5. ASSUME NEW p \in Procs, Acquire(p) PROVE Followed
    <3>1. CASE UNCHANGED <<guest, holder>>
      BY <2>3, <3>1
    <3>2. CASE Preempt(proc[p].d)
      <4>1. proc[p].d \in Domains
        BY <1>1, <2>5, UnderWay DEF Acquire
      <4>2. CASE guest' = guest
        <5>1. ASSUME NEW d \in Domains, Passthrough(d), holder = d, holder' # d PROVE FALSE
          <6>1. guest' = [guest EXCEPT ![d].state = "off"]
            BY <3>2, <5>1 DEF Preempt, Passthrough
          <6> QED BY <2>1, <4>2, <5>1, <6>1 DEF Guest, Passthrough, Running
        <5> QED BY <4>2, <5>1
      <4>3. CASE /\ holder \in Domains /\ guest' = [guest EXCEPT ![holder].state = "off"]
        <5>1. guest'[holder].state = "off" /\ \A d \in Domains \ {holder} : guest'[d] = guest[d]
          BY <2>1, <4>3 DEF Guest
        <5>2. \A d \in Domains : d = holder => guest'[d].state = "off"
          BY <5>1
        <5>3. \A d \in Domains : d = holder => ~Passthrough(d)'
          BY <5>2 DEF Passthrough, Running
        <5> QED BY <5>1, <5>3
      <4> QED BY <3>2, <4>2, <4>3 DEF Preempt
    <3> QED BY <2>5, <3>1, <3>2 DEF Acquire
  <2>6. ASSUME NEW p \in Procs, DefineDomain(p) \/ Start(p) \/ StopDomain(p) \/ Teardown(p) PROVE Followed
    <3>1. proc[p].at # "idle" /\ holder' = holder
      BY <2>6 DEF DefineDomain, Start, StopDomain, Teardown, leaseVars
    <3>2. PICK e \in Domains : e = proc[p].d
      BY <1>1, <3>1, UnderWay
    <3>3. \A d \in Domains \ {e} : guest'[d] = guest[d]
      BY <2>1, <2>6, <3>2 DEF DefineDomain, Start, StopDomain, Teardown
    <3>4. Asked(e)
      <4>1. CASE DefineDomain(p)
        <5>1. proc[p].at = "define" /\ (proc[p].card => proc[p].lease # "none" \/ e \in Committed)
          BY <1>1, <3>1, <3>2, <4>1, UnderWay DEF Place, DefineDomain
        <5>2. guest'[e] = guest[e] \/ guest'[e].card = proc[p].card
          BY <2>1, <3>2, <4>1 DEF DefineDomain
        <5>3. proc[p].card \in BOOLEAN
          BY <1>1, <3>1, UnderWay DEF Process
        <5> QED BY <3>2, <5>1, <5>2, <5>3 DEF Passthrough
      <4>2. CASE Start(p)
        <5>1. guest'[e] = guest[e] \/ guest'[e].by = "start"
          BY <2>1, <3>2, <4>2 DEF Start, Guest, Running
        <5> QED BY <5>1 DEF Passthrough
      <4>3. CASE StopDomain(p) \/ Teardown(p)
        <5>1. guest'[e] = guest[e] \/ guest'[e].state # "running"
          BY <2>1, <3>2, <4>3, NoGuestFacts DEF StopDomain, Teardown, Guest
        <5> QED BY <5>1 DEF Passthrough, Running
      <4> QED BY <2>6, <4>1, <4>2, <4>3
    <3> QED BY <2>2, <3>1, <3>3, <3>4
  <2>7. ASSUME NEW p \in Procs, Release(p) PROVE Followed
    <3>1. ASSUME NEW d \in Domains PROVE Asked(d)
      BY <1>1, <2>7, ReleasedGuests DEF Passthrough
    <3>2. ASSUME NEW d \in Domains, Passthrough(d), holder = d, holder' # d PROVE Left(d)
      <4>1. proc[p].d = d /\ proc[p].at \in {"release", "abandoned"}
        BY <2>7, <3>2 DEF Release
      <4>2. CASE proc[p].at = "release"
        BY <1>1, <3>2, <4>1, <4>2, UnderWay DEF Place, Passthrough, Running, Booted
      <4> QED BY <4>1, <4>2
    <3> QED BY <3>1, <3>2
  <2> QED BY <1>1, <2>3, <2>4, <2>5, <2>6, <2>7, OnlyThese
<1>2. CreateInv /\ [Next]_vars => [Followed]_vars
  BY <1>1
<1> QED BY <1>2, InvHolds, PTL DEF Spec, CardFollowsLease

=============================================================================
