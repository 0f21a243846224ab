------------------------------ MODULE Tracking ------------------------------
(***************************************************************************)
(* Antenna pointing: the per-tick pointing of the main loop                *)
(* (control/tracking.c), the sky scan (control/scan_sky.c), the operator's *)
(* keys and commands that move the antenna (ui/input.c, ui/cmd_line.c) and *)
(* the azimuth arithmetic of hw/antenna_rotator.c.                         *)
(*                                                                         *)
(* Azimuths are integers in units of 360/Turn degrees, unwrapped: the      *)
(* shaft of the rotator can be wound beyond one turn.  Elevation is left   *)
(* out: it has no turns to unwind.  The controller is external: it takes   *)
(* the short way to the azimuth of a SET, and for a while after a SET its  *)
(* STATUS reports that azimuth instead of the shaft's.  Of the worker of   *)
(* hw/antenna_rotator_async.c only the queue is here, an order being sent  *)
(* when it is taken (module RotatorAsync has its interior).                *)
(***************************************************************************)
EXTENDS Integers, Sequences

CONSTANTS
    Turn,          \* units of a full turn, even
    MinAz, MaxAz,  \* ANTENNA_ROTATOR_MINIMUM_AZIMUTH, ..._MAXIMUM_AZIMUTH
    Tol,           \* HOME_ECHO_TOLERANCE_DEG
    Slew,          \* units the shaft turns at most between two readings
    EchoLen,       \* readings at most that report the target of a SET
    Starts,        \* azimuths the shaft may have at start-up
    SkyStarts,     \* azimuths at which a satellite rises
    SkyStep, PassLen,  \* how far, and how often, it moves before it sets
    Grid,          \* scan.targets
    Jogs,          \* steps of the jog keys
    Modes,         \* "sat", "fixed" (--rotator-target-azimuth), "scan" (--scan-sky)
    MaxEvents,     \* bound on keys, commands and failed readings
    MaxPasses,     \* bound on the passes of one behaviour
    None

ASSUME TrackingAssumption ==
    /\ Turn \in Nat /\ Turn > 0 /\ Turn % 2 = 0
    /\ MinAz \in Int /\ MaxAz \in Int /\ MinAz <= 0 /\ 0 <= MaxAz
    /\ MaxAz - MinAz >= Turn
    /\ Starts \subseteq MinAz..MaxAz
    /\ Modes \subseteq {"sat", "fixed", "scan"}
    /\ None \notin Int

ASSUME BoundAssumption ==
    /\ {Tol, Slew, EchoLen, PassLen, MaxEvents, MaxPasses} \subseteq Nat
    /\ SkyStarts \subseteq Int /\ SkyStep \in Int /\ Jogs \subseteq Int

\* scan_build_targets: from the northern horizon over the sky, within the range.
ASSUME GridAssumption ==
    /\ Grid \in Seq(MinAz..MaxAz)
    /\ Len(Grid) > 0 /\ Grid[1] = 0

VARIABLES
    at,            \* the main loop: "predict", "tick", "redraw", "key"
    mode,          \* what the command line asked for
    p,             \* the pointing state: antenna_rotator_t and its request
    az,            \* antenna_rotator.azimuth: the last reading
    fresh,         \* the snapshot is good and not stale
    lastAz,        \* tracking_tick: its static last_az
    scan,          \* state->scan
    pos, goal, set,    \* the controller: the shaft, where it turns to, the SET
    echo,          \* readings that may still report the target of the SET
    pass,          \* the prediction: in range or not, where, how high
    events, passes,
    home,          \* history: the home in progress, None once disturbed
    stopped,       \* history: s was the last key that commands the antenna
    late,          \* history: the SET that was queued at that s and still is
    dropped,       \* history: the pass was given up (limit, no reading)
    retracked      \* history: T was pressed while tracking

shaftVars == <<pos, goal, set, echo>>
bounds == <<events, passes>>
history == <<home, stopped, late, dropped, retracked>>
vars == <<at, mode, p, az, fresh, lastAz, scan, shaftVars, pass, bounds,
          history>>

Half == Turn \div 2
Abs(n) == IF n < 0 THEN -n ELSE n
Clamp(a) == IF a < MinAz THEN MinAz ELSE IF a > MaxAz THEN MaxAz ELSE a

NoPass == [in |-> FALSE, sky |-> 0, left |-> 0, high |-> FALSE]
Passes == [in : {TRUE}, sky : SkyStarts, left : {PassLen}, high : BOOLEAN]

Init ==
    /\ at = "predict"
    /\ mode \in Modes
    /\ pos \in Starts /\ goal = pos /\ set = None /\ echo = 0
    /\ az = pos /\ lastAz = 0 /\ fresh \in BOOLEAN
    \* hw_rotator_init seeds the targets from the first STATUS, if it came
    /\ p = [tgt |-> IF fresh /\ mode # "fixed" THEN pos ELSE 0,
            valid |-> fresh \/ mode = "fixed",
            moving |-> FALSE, homing |-> FALSE, final |-> 0,
            sat |-> FALSE, under |-> TRUE,
            tracking |-> FALSE, latch |-> FALSE, flip |-> FALSE,
            stop |-> FALSE, wire |-> None]
    /\ scan = [active |-> FALSE, idx |-> 1, dwell |-> FALSE]
    /\ pass = NoPass
    /\ events = 0 /\ passes = 0
    /\ home = None /\ stopped = FALSE /\ late = None
    /\ dropped = FALSE /\ retracked = FALSE

-----------------------------------------------------------------------------
(* Azimuth arithmetic.                                                     *)

\* antenna_rotator_wrap_to_pm180: into (-180, 180].
Wrap(d) == ((d + Half - 1) % Turn) - (Half - 1)

\* antenna_rotator_accumulate_unwrapped: the co-terminal of a nearest to prev.
Accumulate(prev, a) == prev + Wrap(a - prev)

\* antenna_rotator_home_unwrapped_target: the co-terminal in range with the
\* least rotation, toward prev when two have the same.
HomeTarget(prev, a) ==
    LET C == {c \in {a + k * Turn : k \in -2..2} : MinAz <= c /\ c <= MaxAz}
    IN  CHOOSE c \in C : \A d \in C :
            \/ Abs(c) < Abs(d)
            \/ Abs(c) = Abs(d) /\ Abs(c - prev) <= Abs(d - prev)

\* Mutant: the second leg does not wait for the unwinding side.
Leg2ReadyAnywhere(cur, mid, fin) == Abs(Wrap(cur - mid)) > Tol

\* Mutant: the echo gate also wants the antenna near the middle.
Leg2ReadyNever(cur, mid, fin) == Abs(Wrap(cur - mid)) > Turn

\* antenna_rotator_home_leg2_ready: a real reading, from which the short way
\* to the target is the unwinding one.
Leg2Ready(cur, mid, fin) ==
    LET remaining == Wrap(fin - cur)
    IN  /\ Abs(Wrap(cur - mid)) > Tol
        /\ \/ remaining = 0
           \/ (remaining > 0) = (fin - mid > 0)

-----------------------------------------------------------------------------
(* Operations on the pointing state q.                                     *)

\* main_rotator_submit_set and its callers, which set antenna_is_moving when
\* it succeeds.
SubmitSet(q, a) ==
    IF a \in MinAz..MaxAz
    THEN [q EXCEPT !.tgt = a, !.valid = TRUE, !.wire = a, !.moving = TRUE]
    ELSE q

\* main_rotator_refresh_targets_from_snapshot.
Refresh(q, ok, reading) ==
    IF ok THEN [q EXCEPT !.tgt = reading, !.valid = TRUE] ELSE q

ClearFlip(q) == [q EXCEPT !.flip = FALSE, !.latch = FALSE]

\* start_tracking.
StartTracking(q) ==
    LET r == ClearFlip([q EXCEPT !.sat = TRUE, !.under = TRUE])
    IN  IF mode = "fixed" THEN SubmitSet(r, r.tgt) ELSE r

\* The queue after a STOP was submitted and the bounded wait is over.  sent: the
\* worker has sent what was queued; if not, STOP and SET are still queued.
SubmitStop(q, sent) ==
    [q EXCEPT !.stop = ~sent, !.wire = IF sent THEN None ELSE @]

\* Mutant: a home under way survives the stop.
StopTrackingKeepsHome(q, sent, ok, reading) ==
    ClearFlip([Refresh(SubmitStop(q, sent), ok, reading) EXCEPT
        !.sat = FALSE, !.under = FALSE, !.moving = FALSE])

\* stop_tracking.  ok: a good STATUS came within the wait, and the targets
\* follow it.
StopTracking(q, sent, ok, reading) ==
    ClearFlip([Refresh(SubmitStop(q, sent), ok, reading) EXCEPT
        !.sat = FALSE, !.under = FALSE, !.moving = FALSE,
        !.homing = FALSE, !.final = 0])

\* point_to_stationary_target.  level: the elevation is already right.
PointTo(q, a, ok, reading, level) ==
    LET r   == Refresh(ClearFlip([q EXCEPT !.sat = FALSE, !.under = FALSE]),
                       ok, reading)
        fin == HomeTarget(r.tgt, a)
        d   == fin - r.tgt
        mid == Clamp(r.tgt + (IF d < 0 THEN -(Abs(d) \div 2) ELSE d \div 2))
    IN  CASE ~r.valid -> r
          [] r.valid /\ d = 0 /\ level ->
                [r EXCEPT !.homing = FALSE, !.final = 0]
          [] r.valid /\ Abs(d) > Half ->
                SubmitSet([r EXCEPT !.homing = TRUE, !.final = fin], mid)
          [] OTHER ->
                SubmitSet([r EXCEPT !.homing = FALSE, !.final = 0], fin)

\* The home that PointTo(q, a, ...) begins, as the history records it: from a
\* reading of the shaft's own azimuth, at rest and with no order on its way.
Homing(q, a, ok, reading, still) ==
    IF ok /\ reading = pos /\ still /\ q.wire = None /\ ~q.stop
    THEN [from |-> reading, to |-> HomeTarget(reading, a)]
    ELSE None

-----------------------------------------------------------------------------
(* tracking_tick, part by part.                                            *)

\* Mutant: settled only when the reading is the target's.
SettleAtTarget(q) ==
    IF q.moving /\ az = q.tgt THEN [q EXCEPT !.moving = FALSE] ELSE q

\* Motion-settle: two readings alike.
Settle(q) ==
    IF q.moving /\ az = lastAz THEN [q EXCEPT !.moving = FALSE] ELSE q

\* The second leg of a two-step home.
LegTwo(q) ==
    IF q.homing /\ Leg2Ready(az, q.tgt, q.final)
    THEN [SubmitSet(q, q.final) EXCEPT !.homing = FALSE, !.final = 0]
    ELSE q

InRange == p.sat /\ pass.in

\* Entering the pass: the flip decision, once.
Enter(q) ==
    IF ~q.tracking /\ mode # "fixed" /\ ~q.latch
    THEN [q EXCEPT !.flip = pass.high, !.latch = TRUE, !.tracking = TRUE]
    ELSE q

\* A pass given up: no reading to start from, or the next azimuth is out of
\* the rotator's range.
GivesUp(q, next) ==
    /\ q.tracking /\ q.under
    /\ \/ ~q.valid /\ ~fresh
       \/ q.valid /\ ~q.moving /\ next # q.tgt /\ next \notin MinAz..MaxAz

\* The aim: the satellite's azimuth (or the plan's waypoint for it), once the
\* antenna has settled and is off by the deadband.
Aim(q, next) ==
    CASE GivesUp(q, next) -> [q EXCEPT !.tracking = FALSE]
      [] q.tracking /\ q.under /\ ~q.valid /\ fresh -> Refresh(q, fresh, az)
      [] q.tracking /\ q.under /\ q.valid /\ ~q.moving
         /\ next # q.tgt /\ next \in MinAz..MaxAz -> SubmitSet(q, next)
      [] OTHER -> q

\* Mutant: the end of the pass does not release the tracking.
ReleaseKeepsTracking(q) == IF q.tracking THEN ClearFlip(q) ELSE q

\* Out of range: the pass is released.
Release(q) ==
    IF q.tracking
    THEN ClearFlip([q EXCEPT !.tracking = FALSE]) ELSE q

\* scan_sky_tick: nothing while the antenna moves, then a dwell, then the
\* next target, or the end.  over: the dwell has lasted SCAN_DWELL_S.
ScanStep(q, over) ==
    LET last == scan.idx = Len(Grid)
    IN  CASE ~scan.active \/ q.moving -> [scan |-> scan, to |-> None]
          [] scan.active /\ ~q.moving /\ ~scan.dwell ->
                [scan |-> [scan EXCEPT !.dwell = TRUE], to |-> None]
          [] scan.active /\ ~q.moving /\ scan.dwell /\ ~over ->
                [scan |-> scan, to |-> None]
          [] OTHER -> IF last
                      THEN [scan |-> [active |-> FALSE, idx |-> 1,
                                      dwell |-> FALSE], to |-> None]
                      ELSE [scan |-> [scan EXCEPT !.idx = @ + 1,
                                                  !.dwell = FALSE],
                            to |-> Grid[scan.idx + 1]]

\* tracking_tick.
TickWith(over) ==
    /\ at = "tick"
    /\ at' = "redraw"
    /\ lastAz' = IF p.moving THEN az ELSE lastAz
    /\ \E level \in BOOLEAN :
        LET a == LegTwo(Settle(p))
            s == ScanStep(a, over)
            b == IF s.to = None THEN a ELSE PointTo(a, s.to, fresh, az, level)
            c == Enter(b)
            next == Accumulate(c.tgt, pass.sky)
            d == Aim(c, next)
            in == b.sat /\ pass.in
        IN  /\ over => scan.active /\ scan.dwell
            /\ level => s.to # None
            /\ scan' = s.scan
            /\ p' = IF in THEN d ELSE Release(b)
            /\ home' = IF s.to # None
                       THEN Homing(p, s.to, fresh, az, pos = goal /\ echo = 0)
                       ELSE IF in /\ d.tgt # c.tgt THEN None ELSE home
            /\ dropped' = IF in /\ GivesUp(c, next) THEN TRUE
                          ELSE dropped /\ p'.latch
            /\ retracked' = (retracked /\ p'.tracking)
    /\ UNCHANGED <<mode, az, fresh, shaftVars, pass, bounds, stopped, late>>

Tick == \E over \in BOOLEAN : TickWith(over)

-----------------------------------------------------------------------------
(* The redraw, which reads the snapshot, and the operator.                 *)

\* The shaft turns toward its goal; the reading is the shaft's azimuth or,
\* soon after a SET, the target of the SET.
Moved(n) == IF pos < goal THEN (IF pos + n < goal THEN pos + n ELSE goal)
            ELSE (IF pos - n > goal THEN pos - n ELSE goal)

Reading(x) == IF echo > 0 THEN {x, set} ELSE {x}

RedrawGood ==
    /\ at = "redraw"
    /\ \E n \in 0..Slew :
        /\ n = 0 => pos = goal \/ echo > 0
        /\ pos' = Moved(n)
    /\ az' \in Reading(pos')
    /\ IF echo > 1 THEN echo' = echo - 1 /\ UNCHANGED set
                   ELSE echo' = 0 /\ set' = None
    /\ fresh' = TRUE
    /\ at' = "key"
    /\ UNCHANGED <<mode, p, lastAz, scan, goal, pass, bounds, history>>

\* The STATUS failed or is stale: the reading stays.
RedrawStale ==
    /\ at = "redraw"
    /\ events < MaxEvents
    /\ events' = events + 1
    /\ pos' \in {Moved(n) : n \in 0..Slew}
    /\ fresh' = FALSE
    /\ home' = None
    /\ at' = "key"
    /\ UNCHANGED <<mode, p, az, lastAz, scan, goal, set, echo, pass, passes,
                   stopped, late, dropped, retracked>>

\* No redraw is due: the loop runs faster while the prompt or a modal is open.
RedrawSkipped ==
    /\ at = "redraw"
    /\ at' = "key"
    /\ UNCHANGED <<mode, p, az, fresh, lastAz, scan, shaftVars, pass, bounds,
                   history>>

Key ==
    /\ at = "key"
    /\ events < MaxEvents
    /\ events' = events + 1
    /\ at' = "predict"
    /\ UNCHANGED <<mode, lastAz, pass, passes>>

NoKey ==
    /\ at = "key"
    /\ at' = "predict"
    /\ UNCHANGED <<mode, p, az, fresh, lastAz, scan, shaftVars, pass, bounds,
                   history>>

\* The operator asks for a movement.
Asked == stopped' = FALSE /\ late' = None

\* kb_act_track outside --scan-sky, and :track anywhere.
KeyTrack ==
    /\ Key
    /\ p' = StartTracking(p)
    /\ home' = None /\ Asked /\ dropped' = FALSE
    /\ retracked' = (retracked \/ p.tracking)
    /\ UNCHANGED <<az, fresh, scan, shaftVars>>

\* kb_act_track under --scan-sky: scan_sky_start.
KeyScan ==
    /\ Key
    /\ mode = "scan" /\ ~scan.active
    /\ scan' = [active |-> TRUE, idx |-> 1, dwell |-> FALSE]
    /\ \E level \in BOOLEAN :
         p' = PointTo([p EXCEPT !.tracking = FALSE], Grid[1], fresh, az, level)
    /\ home' = Homing(p, Grid[1], fresh, az, pos = goal /\ echo = 0)
    /\ Asked /\ dropped' = FALSE /\ retracked' = FALSE
    /\ UNCHANGED <<az, fresh, shaftVars>>

\* The controller takes a SET: the short way, within the rotator's range.
Controller(a) ==
    LET g == pos + Wrap(a - pos)
    IN  /\ goal' = Clamp(g)
        /\ set' = a
        /\ echo' = EchoLen

\* The worker sends what it has taken: a STOP, if any, goes out first, and the
\* SET after it.
SendQueued ==
    IF p.wire = None THEN goal' = pos /\ echo' = 0 /\ set' = None
                     ELSE Controller(p.wire)

\* The line during stop_tracking.  The STATUS that ends the wait was asked for
\* before or after the orders went out; without one the wait gives up.
WireStop(sent, ok, reading) ==
    /\ IF sent THEN SendQueued ELSE UNCHANGED <<goal, set, echo>>
    /\ ok => reading \in Reading(pos) \cup (IF echo' > 0 THEN {set'} ELSE {})
    /\ ~ok => reading = az
    /\ az' = reading
    /\ fresh' = (fresh \/ ok)
    /\ UNCHANGED pos

\* scan_sky_stop.
ScanStopped == [active |-> FALSE, idx |-> 1, dwell |-> FALSE]

\* kb_act_stop.
KeyStop ==
    /\ Key
    /\ \E sent, ok \in BOOLEAN, reading \in Reading(pos) \cup {az, p.wire} :
         /\ WireStop(sent, ok, reading)
         /\ p' = StopTracking(p, sent, ok, reading)
    /\ scan' = ScanStopped
    /\ stopped' = TRUE /\ late' = p'.wire
    /\ home' = None /\ dropped' = FALSE
    /\ UNCHANGED retracked

\* :stop, which leaves a scan running.
CmdStop ==
    /\ Key
    /\ \E sent, ok \in BOOLEAN, reading \in Reading(pos) \cup {az, p.wire} :
         /\ WireStop(sent, ok, reading)
         /\ p' = StopTracking(p, sent, ok, reading)
         /\ late' = IF sent THEN None ELSE late
    /\ home' = None /\ dropped' = FALSE
    /\ UNCHANGED <<scan, stopped, retracked>>

\* kb_act_reset and :home: stop_tracking, then point_to_stationary_target(0,0);
\* a scan goes on.
KeyReset ==
    /\ Key
    /\ \E sent, ok, level \in BOOLEAN,
           reading \in Reading(pos) \cup {az, p.wire} :
        LET q == StopTracking(p, sent, ok, reading)
        IN  /\ WireStop(sent, ok, reading)
            /\ p' = PointTo(q, 0, fresh', reading, level)
            /\ home' = Homing(q, 0, fresh', reading, goal' = pos /\ echo' = 0)
    /\ Asked /\ dropped' = FALSE
    /\ UNCHANGED <<scan, retracked>>

\* kb_act_jog: manual, but a home under way is not forgotten.
KeyJog(d) ==
    /\ Key
    /\ p' = SubmitSet([p EXCEPT !.sat = FALSE, !.under = FALSE], p.tgt + d)
    /\ home' = None /\ Asked
    /\ UNCHANGED <<az, fresh, scan, shaftVars, dropped, retracked>>

\* retarget_to_tle: another satellite, perhaps in its pass.
Retarget ==
    /\ at = "key"
    /\ events < MaxEvents
    /\ events' = events + 1
    /\ at' = "predict"
    /\ p' = ClearFlip([p EXCEPT !.tracking = FALSE])
    /\ \/ pass' = NoPass
       \/ p.sat /\ pass' \in Passes
    /\ dropped' = FALSE /\ retracked' = FALSE
    /\ UNCHANGED <<mode, az, fresh, lastAz, scan, shaftVars, passes, home,
                   stopped, late>>

-----------------------------------------------------------------------------
(* The worker, the controller and the sky.                                 *)

\* The worker takes what is queued and sends it.
WorkerSend ==
    /\ at = "redraw"
    /\ p.stop \/ p.wire # None
    /\ SendQueued
    /\ p' = [p EXCEPT !.stop = FALSE, !.wire = None]
    /\ late' = None
    /\ UNCHANGED <<at, mode, az, fresh, lastAz, scan, pos, pass, bounds, home,
                   stopped, dropped, retracked>>

\* The prediction at the top of the loop: a satellite comes into range, moves
\* on, or is gone.  Nothing looks at it while satellite_tracking is off, so
\* a pass begins with it on.
Predict ==
    /\ at = "predict"
    /\ at' = "tick"
    /\ \/ ~pass.in /\ UNCHANGED <<pass, passes>>
       \/ /\ ~pass.in /\ p.sat /\ passes < MaxPasses
          /\ passes' = passes + 1
          /\ pass' \in Passes
       \/ /\ pass.in /\ pass.left > 0
          /\ pass' = [pass EXCEPT !.sky = (@ + SkyStep) % Turn, !.left = @ - 1]
          /\ UNCHANGED passes
       \/ /\ pass.in /\ pass.left = 0
          /\ pass' = NoPass
          /\ UNCHANGED passes
    /\ UNCHANGED <<mode, p, az, fresh, lastAz, scan, shaftVars, events, history>>

Next ==
    \/ Tick \/ RedrawGood \/ RedrawStale \/ RedrawSkipped \/ NoKey
    \/ KeyTrack \/ KeyScan \/ KeyStop \/ CmdStop \/ KeyReset \/ Retarget
    \/ \E d \in Jogs : KeyJog(d)
    \/ WorkerSend \/ Predict

Spec == Init /\ [][Next]_vars

\* The loop goes on and good readings come again and again, the worker sends
\* what it is given, and a dwell lasts SCAN_DWELL_S, not for ever.
FairSpec ==
    /\ Spec
    /\ []<><<RedrawGood>>_vars
    /\ []<>(p.wire = None /\ ~p.stop)
    /\ []<>~(scan.active /\ scan.dwell) \/ []<><<TickWith(TRUE)>>_vars

-----------------------------------------------------------------------------
(* Properties.                                                             *)

Azimuths == MinAz..MaxAz
Pointing ==
    [tgt : Azimuths, valid : BOOLEAN, moving : BOOLEAN, homing : BOOLEAN,
     final : Azimuths, sat : BOOLEAN, under : BOOLEAN, tracking : BOOLEAN,
     latch : BOOLEAN, flip : BOOLEAN,
     stop : BOOLEAN, wire : Azimuths \cup {None}]

TypeOK ==
    /\ at \in {"predict", "tick", "redraw", "key"} /\ mode \in Modes
    /\ p \in Pointing
    /\ {az, lastAz, pos, goal} \subseteq Azimuths /\ fresh \in BOOLEAN
    /\ scan \in [active : BOOLEAN, idx : 1..Len(Grid), dwell : BOOLEAN]
    /\ echo \in 0..EchoLen /\ set \in Azimuths \cup {None}
    /\ echo > 0 => set # None
    /\ pass \in [in : BOOLEAN, sky : Int, left : Nat, high : BOOLEAN]
    /\ events \in 0..MaxEvents /\ passes \in 0..MaxPasses
    /\ home \in [from : Azimuths, to : Azimuths] \cup {None}
    /\ late \in Azimuths \cup {None}
    /\ {stopped, dropped, retracked} \subseteq BOOLEAN

\* A two-step home is meant for less than a turn; half a turn has no short way.
Unwindable(h) == LET d == Abs(h.to - h.from) IN d < Turn /\ d # Half

\* A reading is certain to fall between the unwinding side and the middle,
\* after the last that may still be the echo.
Seen(h) ==
    LET d == Abs(h.to - h.from)
    IN  \/ d < Half
        \/ /\ d \div 2 > Tol + Slew * (EchoLen + 1)
           /\ Half - (d - d \div 2) > Tol + Slew

Between(x, a, b) == (a <= x /\ x <= b) \/ (b <= x /\ x <= a)

\* A home (r, :home, a scan target) that nothing disturbs only ever unwinds:
\* the shaft stays between where it was and the target, never the long way.
HomeUnwinds ==
    home # None /\ Unwindable(home) => Between(pos, home.from, home.to)

\* ... and the antenna gets there, through the second leg where there is one.
HomeOwed == home # None /\ Unwindable(home) /\ Seen(home)
HomeReached == HomeOwed ~> (~HomeOwed \/ pos = home.to)

\* A scan ends: the settle test never wedges antenna_is_moving.
ScanEnds == scan.active ~> ~scan.active

\* After s nothing commands the antenna until the operator asks for it: no scan
\* step, no second leg, no aim puts a SET on the wire.  The exception is the one
\* SET that was queued when s was pressed and that the worker had not taken: it
\* goes out behind the STOP, perhaps after the bounded wait has given up.
StopIsFinal == stopped => p.wire = late

\* Within a pass the antenna tracks, with the flip decision of that pass,
\* unless the pass was given up or T was pressed again while tracking.
PassTracked ==
    at = "redraw" /\ InRange /\ mode # "fixed" /\ ~dropped /\ ~retracked
        => p.tracking /\ p.flip = pass.high

\* antenna_rotator.h of the latch: "Cleared at LOS / s / r".
LatchClearedAtLos == at = "redraw" /\ ~pass.in => ~p.latch
=============================================================================
