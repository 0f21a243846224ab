--------------------------- MODULE PointingProofs ---------------------------
(***************************************************************************)
(* Proofs about the two halves of antenna pointing.                        *)
(*                                                                         *)
(* Tracking, for every range of the rotator, every slew rate, echo and     *)
(* scan grid: s is final, a pass is tracked with its own flip decision,    *)
(* and a home that nothing disturbs only ever unwinds.                     *)
(*                                                                         *)
(* RotatorAsync, for any pointings and any number of orders: the last      *)
(* order wins, the serial line outlives the worker, and the worker         *)
(* implements RotatorOrders.                                               *)
(***************************************************************************)
EXTENDS Tracking, RotatorAsync, SequenceTheorems, TLAPS

\* After s the queue holds at most the SET it held then, and there is nothing
\* left that could ask for another.
Quiet ==
    stopped => /\ p.wire = late /\ ~p.homing /\ ~p.sat
               /\ ~scan.active

\* What tracking, latch and flip say of the pass that is in range, and of the
\* ones that were given up.
Followed ==
    mode # "fixed" =>
        /\ p.latch /\ ~p.tracking => dropped
        /\ p.tracking /\ p.latch /\ pass.in => p.flip = pass.high
        /\ p.tracking /\ p.sat => p.latch \/ retracked
        /\ at # "tick" /\ ~pass.in => ~p.tracking
        /\ at = "redraw" /\ InRange => p.tracking \/ dropped

\* Where a two-step home goes first.
Middle(h) ==
    LET d == h.to - h.from
    IN  h.from + (IF d < 0 THEN -(Abs(d) \div 2) ELSE d \div 2)

\* The controller's short way is the way itself.
Short(d) == -Half < d /\ d <= Half

\* The stages of a home: each leg is asked for, then sent.
FirstLeg(h) ==
    /\ p.homing /\ p.final = h.to /\ p.tgt = Middle(h)
    /\ Abs(h.to - h.from) > Half
    /\ \/ /\ p.wire = Middle(h) /\ pos = h.from /\ goal = pos
          /\ echo = 0 /\ az = pos
       \/ /\ p.wire = None /\ goal = Middle(h) /\ Between(pos, h.from, goal)
          /\ echo > 0 => set = goal
          /\ az \in {pos, goal}

SecondLeg(h) ==
    /\ ~p.homing
    /\ Between(pos, h.from, h.to)
    /\ \/ p.wire = h.to /\ Short(h.to - pos) /\ Between(goal, pos, h.to)
       \/ p.wire = None /\ goal = h.to

Unwinding ==
    home # None =>
        /\ ~p.sat /\ ~p.stop
        /\ Unwindable(home) => FirstLeg(home) \/ SecondLeg(home)

IInv == TypeOK /\ Quiet /\ Followed /\ Unwinding

-----------------------------------------------------------------------------
(* Azimuth arithmetic.                                                     *)

\* Half a turn.
LEMMA HalfTurn == Half \in Nat /\ Half > 0 /\ Turn = 2 * Half
BY TrackingAssumption DEF Half

\* wrap_to_pm180 changes nothing within half a turn, and turns the sign of what
\* is beyond it.
LEMMA WrapIs ==
    ASSUME NEW d \in Int
    PROVE  /\ Wrap(d) \in Int
           /\ Wrap(d) = d <=> Short(d)
           /\ -Turn < d /\ d <= -Half => Wrap(d) > 0
           /\ Half < d /\ d < Turn => Wrap(d) < 0
<1> USE TrackingAssumption, HalfTurn
<1> DEFINE x == d + Half - 1
<1>1. x \in Int /\ x % Turn \in 0 .. (Turn - 1)
  OBVIOUS
<1>2. Wrap(d) = (x % Turn) - (Half - 1)
  BY DEF Wrap
<1>3. 0 <= x /\ x < Turn => x % Turn = x
  BY <1>1
<1>4. Turn <= x /\ x < 2 * Turn => x % Turn = x - Turn
  BY <1>1
<1>5. -Turn <= x /\ x < 0 => x % Turn = x + Turn
  BY <1>1
<1> HIDE DEF x
<1>6. x = d + Half - 1
  BY DEF x
<1>7. Wrap(d) \in Int /\ -Half < Wrap(d) /\ Wrap(d) <= Half
  BY <1>1, <1>2
<1>8. Short(d) => Wrap(d) = d
  BY <1>2, <1>3, <1>6 DEF Short
<1>9. Wrap(d) = d => Short(d)
  BY <1>7 DEF Short
<1>10. -Turn < d /\ d <= -Half => Wrap(d) > 0
  BY <1>2, <1>5, <1>6
<1>11. Half < d /\ d < Turn => Wrap(d) < 0
  BY <1>2, <1>4, <1>6
<1> QED
  BY <1>7, <1>8, <1>9, <1>10, <1>11

\* The order in which antenna_rotator_home_unwrapped_target prefers, and the
\* best of some candidates.
Before(prev, c, d) ==
    \/ Abs(c) < Abs(d)
    \/ Abs(c) = Abs(d) /\ Abs(c - prev) <= Abs(d - prev)
Least(prev, C) == \E c \in C : \A d \in C : Before(prev, c, d)

\* The order is total: with one more candidate there is still a best one.
LEMMA LeastAdd ==
    ASSUME NEW prev \in Int, NEW C \in SUBSET Int, NEW x \in Int,
           C = {} \/ Least(prev, C)
    PROVE  Least(prev, C \cup {x})
<1>1. \A n \in Int : Abs(n) \in Nat
  BY DEF Abs
<1>2. \A c \in Int : c - prev \in Int
  OBVIOUS
<1>3. \A c, d \in Int : Before(prev, c, d) \/ Before(prev, d, c)
  BY <1>1, <1>2 DEF Before
<1>4. \A c, d, e \in Int :
        Before(prev, c, d) /\ Before(prev, d, e) => Before(prev, c, e)
  BY <1>1, <1>2 DEF Before
<1>5. CASE C = {}
  BY <1>3, <1>5 DEF Least
<1>6. CASE C # {}
  <2>1. PICK c \in C : \A d \in C : Before(prev, c, d)
    BY <1>6 DEF Least
  <2>2. CASE Before(prev, c, x)
    BY <1>3, <2>1, <2>2 DEF Least
  <2>3. CASE Before(prev, x, c)
    <3>1. \A d \in C \cup {x} : Before(prev, x, d)
      BY <1>3, <1>4, <2>1, <2>3
    <3> QED
      BY <3>1 DEF Least
  <2> QED
    BY <1>3, <2>1, <2>2, <2>3
<1> QED
  BY <1>5, <1>6

\* The co-terminal a home goes to is in the rotator's range.
LEMMA HomeInRange ==
    ASSUME NEW prev \in Int, NEW a \in Azimuths
    PROVE  HomeTarget(prev, a) \in Azimuths
<1> DEFINE all == {a + k * Turn : k \in -2..2}
           C == {c \in all : MinAz <= c /\ c <= MaxAz}
           ok(c) == MinAz <= c /\ c <= MaxAz
           S1 == IF ok(a) THEN {a} ELSE {}
           S2 == IF ok(a + Turn) THEN S1 \cup {a + Turn} ELSE S1
           S3 == IF ok(a - Turn) THEN S2 \cup {a - Turn} ELSE S2
           S4 == IF ok(a + 2 * Turn) THEN S3 \cup {a + 2 * Turn} ELSE S3
           S5 == IF ok(a - 2 * Turn) THEN S4 \cup {a - 2 * Turn} ELSE S4
<1> USE TrackingAssumption DEF Azimuths
<1>1. a \in Int /\ ok(a) /\ Turn \in Int
  OBVIOUS
<1>2. all = {a - 2 * Turn, a - Turn, a, a + Turn, a + 2 * Turn}
  <2>1. -2..2 = {-2, -1, 0, 1, 2}
    OBVIOUS
  <2>2. all = {a + k * Turn : k \in {-2, -1, 0, 1, 2}}
    BY <2>1
  <2>3. all = {a + (-2) * Turn, a + (-1) * Turn, a + 0 * Turn, a + 1 * Turn, a + 2 * Turn}
    BY <2>2
  <2> QED
    BY <1>1, <2>3
<1>3. C = S5
  <2>1. C = {c \in all : ok(c)}
    OBVIOUS
  <2> HIDE DEF ok, C
  <2>2. ASSUME NEW c
        PROVE  c \in C <=> c \in S5
    BY <1>2, <2>1
  <2> HIDE DEF S5
  <2> QED
    BY <2>2
<1>4. S1 # {} /\ S1 \subseteq Int /\ S2 \subseteq Int /\ S3 \subseteq Int /\ S4 \subseteq Int
  BY <1>1
<1> HIDE DEF ok, all, C
<1>5. Least(prev, S1)
  <2>1. Before(prev, a, a)
    BY <1>1 DEF Before, Abs
  <2> QED
    BY <1>1, <2>1 DEF Least
<1> HIDE DEF S1
<1>6. Least(prev, S2)
  BY <1>1, <1>4, <1>5, LeastAdd
<1> HIDE DEF S2
<1>7. Least(prev, S3)
  BY <1>1, <1>4, <1>6, LeastAdd
<1> HIDE DEF S3
<1>8. Least(prev, S4)
  BY <1>1, <1>4, <1>7, LeastAdd
<1> HIDE DEF S4
<1>9. Least(prev, C)
  BY <1>1, <1>3, <1>4, <1>8, LeastAdd
<1>10. HomeTarget(prev, a) = CHOOSE c \in C : \A d \in C : Before(prev, c, d)
  BY DEF HomeTarget, C, all, Before
<1>11. HomeTarget(prev, a) \in C
  BY <1>9, <1>10 DEF Least
<1> QED
  BY <1>1, <1>2, <1>11 DEF C
-----------------------------------------------------------------------------
(* Operations on the pointing state, field by field.                       *)

\* North is in range, and azimuths are integers.
LEMMA AzimuthInt == 0 \in Azimuths /\ \A a \in Azimuths : a \in Int
BY TrackingAssumption DEF Azimuths

\* The scan has a first target, and its targets are in range.
LEMMA GridIs ==
    /\ Len(Grid) \in Nat /\ Len(Grid) > 0
    /\ \A i \in 1..Len(Grid) : Grid[i] \in Azimuths
<1>1. Grid \in Seq(Azimuths) /\ Len(Grid) > 0
  BY GridAssumption DEF Azimuths
<1>2. Len(Grid) \in Nat
  BY <1>1
<1>3. \A i \in 1..Len(Grid) : Grid[i] \in Azimuths
  BY <1>1
<1> QED
  BY <1>1, <1>2, <1>3

\* What a request to the rotator leaves alone.
SameAim(q, r) ==
    /\ r.tgt = q.tgt /\ r.homing = q.homing /\ r.final = q.final
    /\ r.stop = q.stop /\ r.wire = q.wire
SamePass(q, r) == r.tracking = q.tracking /\ r.latch = q.latch /\ r.flip = q.flip

\* A SET in range becomes the target and is put on the wire.
LEMMA SubmitFields ==
    ASSUME NEW q \in Pointing, NEW a, NEW r, r = SubmitSet(q, a)
    PROVE  /\ r \in Pointing /\ SamePass(q, r)
           /\ r.sat = q.sat /\ r.homing = q.homing /\ r.final = q.final
           /\ r.stop = q.stop
           /\ a \in Azimuths => r.tgt = a /\ r.wire = a /\ r.moving
           /\ a \notin Azimuths => r = q
BY DEF SubmitSet, Pointing, Azimuths, SamePass

\* The targets follow a good STATUS.
LEMMA RefreshFields ==
    ASSUME NEW q \in Pointing, NEW ok \in BOOLEAN, NEW reading \in Azimuths,
           NEW r, r = Refresh(q, ok, reading)
    PROVE  /\ r \in Pointing /\ SamePass(q, r)
           /\ r.sat = q.sat /\ r.homing = q.homing /\ r.final = q.final
           /\ r.stop = q.stop /\ r.wire = q.wire
           /\ ok => r.tgt = reading /\ r.valid
BY DEF Refresh, Pointing, SamePass

\* The flip decision is taken back.
LEMMA ClearFields ==
    ASSUME NEW q \in Pointing, NEW r, r = ClearFlip(q)
    PROVE  /\ r \in Pointing /\ SameAim(q, r)
           /\ r.sat = q.sat /\ r.valid = q.valid /\ r.moving = q.moving
           /\ r.tracking = q.tracking /\ ~r.latch /\ ~r.flip
BY DEF ClearFlip, Pointing, SameAim

\* start_tracking.
LEMMA StartFields ==
    ASSUME NEW q \in Pointing, NEW r, r = StartTracking(q)
    PROVE  r \in Pointing /\ r.tracking = q.tracking /\ ~r.latch
<1> DEFINE q1 == [q EXCEPT !.sat = TRUE, !.under = TRUE]
           q2 == ClearFlip(q1)
<1>1. q1 \in Pointing /\ q1.tracking = q.tracking
  BY DEF Pointing
<1> HIDE DEF q1
<1>2. q2 \in Pointing /\ q2.tracking = q.tracking /\ ~q2.latch
  BY <1>1, ClearFields
<1>3. r = IF mode = "fixed" THEN SubmitSet(q2, q2.tgt) ELSE q2
  BY DEF StartTracking, q1
<1> HIDE DEF q2
<1> QED
  BY <1>2, <1>3, SubmitFields DEF SamePass

\* stop_tracking.
LEMMA StopFields ==
    ASSUME NEW q \in Pointing, NEW out \in BOOLEAN, NEW ok \in BOOLEAN,
           NEW reading \in Azimuths, NEW r, r = StopTracking(q, out, ok, reading)
    PROVE  /\ r \in Pointing /\ ~r.sat /\ ~r.homing
           /\ r.stop = ~out /\ r.wire = IF out THEN None ELSE q.wire
           /\ r.tracking = q.tracking /\ ~r.latch
<1> DEFINE q1 == SubmitStop(q, out)
           q2 == Refresh(q1, ok, reading)
           q3 == [q2 EXCEPT !.sat = FALSE, !.under = FALSE, !.moving = FALSE,
                            !.homing = FALSE, !.final = 0]
<1>1. /\ q1 \in Pointing /\ q1.tracking = q.tracking
      /\ q1.stop = ~out /\ q1.wire = IF out THEN None ELSE q.wire
  <2>1. CASE out
    <3>1. q1 = [q EXCEPT !.stop = FALSE, !.wire = None]
      BY <2>1 DEF SubmitStop
    <3> QED
      BY <2>1, <3>1 DEF Pointing
  <2>2. CASE ~out
    <3>1. q1 = [q EXCEPT !.stop = TRUE, !.wire = q.wire]
      BY <2>2 DEF SubmitStop
    <3> QED
      BY <2>2, <3>1 DEF Pointing
  <2> QED
    BY <2>1, <2>2
<1>2. r = ClearFlip(q3)
  BY DEF StopTracking
<1> HIDE DEF q1
<1>3. /\ q2 \in Pointing /\ q2.tracking = q1.tracking
      /\ q2.stop = q1.stop /\ q2.wire = q1.wire
  BY <1>1, RefreshFields DEF SamePass
<1> HIDE DEF q2
<1>4. /\ q3 \in Pointing /\ ~q3.sat /\ ~q3.homing /\ q3.tracking = q2.tracking
      /\ q3.stop = q2.stop /\ q3.wire = q2.wire
  BY <1>3, AzimuthInt DEF Pointing
<1> HIDE DEF q3
<1>5. /\ r \in Pointing /\ ~r.sat /\ ~r.homing /\ r.tracking = q3.tracking
      /\ ~r.latch /\ r.stop = q3.stop /\ r.wire = q3.wire
  BY <1>2, <1>4, ClearFields DEF SameAim
<1> QED
  BY <1>1, <1>3, <1>4, <1>5, Zenon

Homes == [from : Azimuths, to : Azimuths]

\* What a home h asks for first: nothing, its middle or its end.
Begun(r, h, wire) ==
    \/ h.to = h.from /\ ~r.homing /\ r.wire = wire
    \/ /\ Abs(h.to - h.from) > Half
       /\ r.homing /\ r.final = h.to
       /\ Middle(h) \in Azimuths => r.tgt = Middle(h) /\ r.wire = Middle(h)
    \/ /\ Abs(h.to - h.from) <= Half
       /\ ~r.homing /\ r.wire = h.to

\* point_to_stationary_target: manual from now on, and from a good reading the
\* target at once or by way of the middle.
LEMMA PointFields ==
    ASSUME NEW q \in Pointing, NEW a \in Azimuths, NEW ok \in BOOLEAN,
           NEW reading \in Azimuths, NEW level \in BOOLEAN,
           NEW r, r = PointTo(q, a, ok, reading, level),
           NEW h, h = [from |-> reading, to |-> HomeTarget(reading, a)]
    PROVE  /\ r \in Pointing /\ ~r.sat /\ r.tracking = q.tracking /\ ~r.latch
           /\ r.stop = q.stop
           /\ h \in Homes
           /\ ok => Begun(r, h, q.wire)
<1> DEFINE q1 == [q EXCEPT !.sat = FALSE, !.under = FALSE]
           q2 == ClearFlip(q1)
           q3 == Refresh(q2, ok, reading)
           fin == HomeTarget(q3.tgt, a)
           d == fin - q3.tgt
           go == q3.tgt + (IF d < 0 THEN -(Abs(d) \div 2) ELSE d \div 2)
           two == [q3 EXCEPT !.homing = TRUE, !.final = fin]
           one == [q3 EXCEPT !.homing = FALSE, !.final = 0]
<1>1. q1 \in Pointing /\ ~q1.sat /\ q1.tracking = q.tracking /\ q1.wire = q.wire
      /\ q1.stop = q.stop
  BY DEF Pointing
<1> HIDE DEF q1
<1>2. /\ q2 \in Pointing /\ ~q2.sat /\ q2.tracking = q.tracking /\ ~q2.latch
      /\ q2.wire = q.wire /\ q2.stop = q.stop
  BY <1>1, ClearFields DEF SameAim
<1> HIDE DEF q2
<1>3. /\ q3 \in Pointing /\ ~q3.sat /\ q3.tracking = q.tracking /\ ~q3.latch
      /\ q3.wire = q.wire /\ q3.stop = q.stop
      /\ ok => q3.tgt = reading /\ q3.valid
  BY <1>2, RefreshFields DEF SamePass
<1>4. r = CASE ~q3.valid -> q3
            [] q3.valid /\ d = 0 /\ level -> one
            [] q3.valid /\ Abs(d) > Half -> SubmitSet(two, Clamp(go))
            [] OTHER -> SubmitSet(one, fin)
  BY DEF PointTo, q1, q2
<1> HIDE DEF q3
<1>5. q3.tgt \in Azimuths /\ q3.tgt \in Int /\ reading \in Int
  BY <1>3, AzimuthInt DEF Pointing
<1>6. fin \in Azimuths /\ fin \in Int /\ d \in Int
  <2>1. fin \in Azimuths
    BY <1>5, HomeInRange
  <2> HIDE DEF fin
  <2>2. fin \in Int
    BY <2>1, AzimuthInt
  <2> QED
    BY <1>5, <2>1, <2>2
<1>7. ok => fin = h.to /\ d = h.to - reading /\ go = Middle(h)
  BY <1>3 DEF Middle
<1>8. h \in Homes /\ h.from = reading
  BY <1>5, HomeInRange DEF Homes
<1>9. Clamp(go) \in Azimuths /\ (go \in Azimuths => Clamp(go) = go)
  <2> HIDE DEF d
  <2>1. go \in Int
    BY <1>5, <1>6 DEF Abs
  <2> HIDE DEF go
  <2> QED
    BY <2>1, TrackingAssumption DEF Clamp, Azimuths
<1> HIDE DEF fin, go
<1>10. /\ one \in Pointing /\ ~one.homing /\ ~one.sat /\ one.tracking = q.tracking
       /\ ~one.latch /\ one.wire = q.wire /\ one.stop = q.stop
  BY <1>3, AzimuthInt DEF Pointing
<1>11. /\ two \in Pointing /\ two.homing /\ two.final = fin /\ ~two.sat
       /\ two.tracking = q.tracking /\ ~two.latch /\ two.stop = q.stop
  BY <1>3, <1>6 DEF Pointing
<1> HIDE DEF one, two
<1>12. d = 0 => fin = q3.tgt
  BY <1>5, <1>6
<1> HIDE DEF d
<1>13. CASE ~q3.valid
  BY <1>3, <1>4, <1>8, <1>13
<1>14. CASE q3.valid /\ d = 0 /\ level
  <2>0. ~(Abs(d) > Half)
    BY <1>14, HalfTurn DEF Abs
  <2>1. r = one
    BY <1>4, <1>14, <2>0
  <2>2. ok => h.to = reading
    BY <1>3, <1>7, <1>12, <1>14
  <2> QED
    BY <1>8, <1>10, <2>1, <2>2 DEF Begun
<1>15. CASE q3.valid /\ ~(d = 0 /\ level) /\ Abs(d) > Half
  <2>1. r = SubmitSet(two, Clamp(go))
    BY <1>4, <1>15
  <2>2. /\ r \in Pointing /\ ~r.sat /\ r.tracking = q.tracking /\ ~r.latch
        /\ r.homing /\ r.final = fin /\ r.tgt = Clamp(go) /\ r.wire = Clamp(go)
        /\ r.stop = q.stop
    <3>1. PICK w \in Pointing, b \in Azimuths : w = two /\ b = Clamp(go)
      BY <1>9, <1>11
    <3>2. r = SubmitSet(w, b)
      BY <2>1, <3>1
    <3>3. /\ r \in Pointing /\ SamePass(w, r)
          /\ r.sat = w.sat /\ r.homing = w.homing /\ r.final = w.final
          /\ r.tgt = b /\ r.wire = b /\ r.stop = w.stop
      BY <3>2 DEF SubmitSet, Pointing, Azimuths, SamePass
    <3> QED
      BY <1>11, <3>1, <3>3 DEF SamePass
  <2> QED
    BY <1>7, <1>8, <1>9, <1>15, <2>2 DEF Begun
<1>16. CASE q3.valid /\ ~(d = 0 /\ level) /\ ~(Abs(d) > Half)
  <2>1. r = SubmitSet(one, fin)
    BY <1>4, <1>16
  <2>2. /\ r \in Pointing /\ ~r.sat /\ r.tracking = q.tracking /\ ~r.latch
        /\ ~r.homing /\ r.tgt = fin /\ r.wire = fin /\ r.stop = q.stop
    <3>1. PICK w \in Pointing, b \in Azimuths : w = one /\ b = fin
      BY <1>6, <1>10
    <3>2. r = SubmitSet(w, b)
      BY <2>1, <3>1
    <3>3. /\ r \in Pointing /\ SamePass(w, r)
          /\ r.sat = w.sat /\ r.homing = w.homing /\ r.tgt = b /\ r.wire = b
          /\ r.stop = w.stop
      BY <3>2 DEF SubmitSet, Pointing, Azimuths, SamePass
    <3> QED
      BY <1>10, <3>1, <3>3 DEF SamePass
  <2>3. Abs(d) <= Half
    BY <1>6, <1>16, HalfTurn DEF Abs
  <2> QED
    BY <1>7, <1>8, <2>2, <2>3 DEF Begun
<1> QED
  BY <1>13, <1>14, <1>15, <1>16
-----------------------------------------------------------------------------
(* The parts of tracking_tick.                                             *)

\* The settle test touches antenna_is_moving only.
LEMMA SettleFields ==
    ASSUME NEW q \in Pointing, NEW r, r = Settle(q)
    PROVE  r \in Pointing /\ SameAim(q, r) /\ SamePass(q, r) /\ r.sat = q.sat
BY DEF Settle, Pointing, SameAim, SamePass

\* The second leg, when the reading allows it, is a SET to the home's target.
LEMMA LegTwoFields ==
    ASSUME NEW q \in Pointing, NEW r, r = LegTwo(q)
    PROVE  /\ r \in Pointing /\ SamePass(q, r) /\ r.sat = q.sat /\ r.stop = q.stop
           /\ IF q.homing /\ Leg2Ready(az, q.tgt, q.final)
              THEN ~r.homing /\ r.wire = q.final /\ r.moving
              ELSE r = q
<1>1. CASE q.homing /\ Leg2Ready(az, q.tgt, q.final)
  <2> DEFINE q1 == SubmitSet(q, q.final)
  <2>1. q.final \in Azimuths
    BY DEF Pointing
  <2>2. q1 \in Pointing /\ SamePass(q, q1) /\ q1.sat = q.sat /\ q1.wire = q.final /\ q1.moving
      /\ q1.stop = q.stop
    BY <2>1, SubmitFields
  <2>3. r = [q1 EXCEPT !.homing = FALSE, !.final = 0]
    BY <1>1 DEF LegTwo
  <2> HIDE DEF q1
  <2>4. r \in Pointing /\ SamePass(q1, r) /\ r.sat = q1.sat /\ r.wire = q1.wire
        /\ r.stop = q1.stop
        /\ r.moving = q1.moving /\ ~r.homing
    BY <2>2, <2>3, AzimuthInt DEF Pointing, SamePass
  <2> QED
    BY <1>1, <2>2, <2>4 DEF SamePass
<1>2. CASE ~(q.homing /\ Leg2Ready(az, q.tgt, q.final))
  BY <1>2 DEF LegTwo, SamePass
<1> QED
  BY <1>1, <1>2

\* The flip decision is taken on the way into the pass.
LEMMA EnterFields ==
    ASSUME TypeOK, NEW q \in Pointing, NEW r, r = Enter(q)
    PROVE  /\ r \in Pointing /\ r.sat = q.sat /\ r.tgt = q.tgt
           /\ mode # "fixed" /\ ~q.tracking /\ ~q.latch =>
                r.flip = pass.high /\ r.latch /\ r.tracking
           /\ mode = "fixed" \/ q.tracking \/ q.latch => r = q
BY DEF TypeOK, Enter, Pointing

\* The aim: a SET, a refreshed target, or the pass given up.
LEMMA AimFields ==
    ASSUME TypeOK, NEW q \in Pointing, NEW next, NEW r, r = Aim(q, next)
    PROVE  /\ r \in Pointing /\ r.sat = q.sat /\ r.latch = q.latch /\ r.flip = q.flip
           /\ r.tracking = (q.tracking /\ ~GivesUp(q, next))
<1>1. CASE GivesUp(q, next)
  <2>1. r = [q EXCEPT !.tracking = FALSE]
    BY <1>1 DEF Aim, GivesUp
  <2> QED
    BY <1>1, <2>1 DEF Pointing
<1>2. CASE ~GivesUp(q, next)
  <2>1. \/ r = Refresh(q, fresh, az)
        \/ r = SubmitSet(q, next)
        \/ r = q
    BY <1>2 DEF Aim
  <2>2. r \in Pointing /\ r.sat = q.sat /\ SamePass(q, r)
    <3>1. CASE r = Refresh(q, fresh, az)
      <4>1. az \in Azimuths /\ fresh \in BOOLEAN
        BY DEF TypeOK
      <4> QED
        BY <3>1, <4>1, RefreshFields
    <3>2. CASE r = SubmitSet(q, next)
      BY <3>2, SubmitFields
    <3>3. CASE r = q
      BY <3>3 DEF SamePass
    <3> QED
      BY <2>1, <3>1, <3>2, <3>3
  <2> QED
    BY <1>2, <2>2 DEF SamePass, Pointing
<1> QED
  BY <1>1, <1>2

\* The end of the pass releases what tracks, and its flip decision.
LEMMA ReleaseFields ==
    ASSUME NEW q \in Pointing, NEW r, r = Release(q)
    PROVE  /\ r \in Pointing /\ SameAim(q, r) /\ r.sat = q.sat /\ ~r.tracking
           /\ r.latch => q.latch /\ ~q.tracking
<1>1. CASE q.tracking
  <2> DEFINE q1 == [q EXCEPT !.tracking = FALSE]
  <2>1. q1 \in Pointing /\ SameAim(q, q1) /\ q1.sat = q.sat /\ ~q1.tracking
    BY DEF Pointing, SameAim
  <2> HIDE DEF q1
  <2>2. r = ClearFlip(q1)
    BY <1>1 DEF Release, q1
  <2> QED
    BY <2>1, <2>2, ClearFields DEF SameAim
<1>2. CASE ~q.tracking
  BY <1>2 DEF Release, SameAim
<1> QED
  BY <1>1, <1>2

\* A scan step needs an antenna at rest, and goes to a target of the grid.
LEMMA ScanFields ==
    ASSUME TypeOK, NEW q \in Pointing, NEW over \in BOOLEAN, NEW s, s = ScanStep(q, over)
    PROVE  /\ s.scan \in [active : BOOLEAN, idx : 1..Len(Grid), dwell : BOOLEAN]
           /\ s.scan.active => scan.active
           /\ s.to = None \/ (s.to \in Azimuths /\ scan.active /\ ~q.moving)
<1>1. scan.idx \in 1..Len(Grid) /\ scan.active \in BOOLEAN /\ scan.dwell \in BOOLEAN
      /\ q.moving \in BOOLEAN /\ Len(Grid) \in Int
  BY DEF TypeOK, Pointing
<1>2. CASE ~scan.active \/ q.moving
  BY <1>1, <1>2 DEF ScanStep, TypeOK
<1>3. CASE scan.active /\ ~q.moving /\ ~scan.dwell
  BY <1>1, <1>3 DEF ScanStep, TypeOK
<1>4. CASE scan.active /\ ~q.moving /\ scan.dwell /\ ~over
  BY <1>1, <1>4 DEF ScanStep, TypeOK
<1>5. CASE scan.active /\ ~q.moving /\ scan.dwell /\ over
  <2>1. CASE scan.idx = Len(Grid)
    BY <1>1, <1>5, <2>1, GridIs DEF ScanStep, TypeOK
  <2>2. CASE scan.idx # Len(Grid)
    <3>1. scan.idx + 1 \in 1..Len(Grid)
      BY <1>1, <2>2
    <3>2. s.scan = [scan EXCEPT !.idx = scan.idx + 1, !.dwell = FALSE]
      BY <1>1, <1>5, <2>2 DEF ScanStep
    <3>3. s.to = Grid[scan.idx + 1]
      BY <1>1, <1>5, <2>2 DEF ScanStep
    <3>4. s.to \in Azimuths
      BY <3>1, <3>3, GridIs DEF Azimuths
    <3>5. s.scan \in [active : BOOLEAN, idx : 1..Len(Grid), dwell : BOOLEAN]
      BY <3>1, <3>2 DEF TypeOK
    <3> QED
      BY <1>5, <3>4, <3>5
  <2> QED
    BY <2>1, <2>2
<1> QED
  BY <1>1, <1>2, <1>3, <1>4, <1>5
-----------------------------------------------------------------------------
(* The two legs of a home.                                                 *)

\* The middle is between the ends and in range, and less than half a turn from
\* where the home began.
LEMMA MiddleIs ==
    ASSUME NEW h \in Homes
    PROVE  /\ h.from \in Int /\ h.to \in Int
           /\ Middle(h) \in Azimuths /\ Middle(h) \in Int
           /\ h.from < h.to => h.from <= Middle(h) /\ Middle(h) < h.to
           /\ h.to < h.from => h.to < Middle(h) /\ Middle(h) <= h.from
           /\ Unwindable(h) => Short(Middle(h) - h.from)
<1>1. h.from \in Azimuths /\ h.to \in Azimuths
  BY DEF Homes
<1>2. h.from \in Int /\ h.to \in Int
  BY <1>1, AzimuthInt
<1> DEFINE d == h.to - h.from
           m == IF d < 0 THEN -(Abs(d) \div 2) ELSE d \div 2
<1>3. d \in Int /\ m \in Int /\ Middle(h) = h.from + m
  BY <1>2 DEF Middle, Abs
<1>4. /\ 0 < d => 0 <= m /\ m < d /\ 2 * m <= d
      /\ d < 0 => d < m /\ m <= 0 /\ d <= 2 * m
      /\ d = 0 => m = 0
  BY <1>3 DEF Abs
<1>5. Unwindable(h) => -Turn < d /\ d < Turn
  BY <1>2, HalfTurn DEF Unwindable, Abs
<1> HIDE DEF m
<1>6. Middle(h) \in Azimuths
  BY <1>1, <1>2, <1>3, <1>4, TrackingAssumption DEF Azimuths
<1>7. Unwindable(h) => Short(m)
  BY <1>3, <1>4, <1>5, HalfTurn DEF Short
<1> QED
  BY <1>2, <1>3, <1>4, <1>6, <1>7

\* home_leg2_ready holds only of a real reading, from which the short way to the
\* target is the unwinding one.
LEMMA ReadyIsShort ==
    ASSUME NEW h \in Homes, Unwindable(h), Abs(h.to - h.from) > Half,
           NEW x \in Int, Between(x, h.from, Middle(h)) \/ x = Middle(h),
           Leg2Ready(x, Middle(h), h.to)
    PROVE  x # Middle(h) /\ Short(h.to - x)
<1>1. /\ h.from \in Int /\ h.to \in Int /\ Middle(h) \in Int
      /\ h.from < h.to => h.from <= Middle(h) /\ Middle(h) < h.to
      /\ h.to < h.from => h.to < Middle(h) /\ Middle(h) <= h.from
  BY MiddleIs
<1>2. x # Middle(h)
  <2>1. Wrap(0) = 0
    BY WrapIs, HalfTurn DEF Short
  <2>2. x = Middle(h) => x - Middle(h) = 0
    BY <1>1
  <2> QED
    BY <2>1, <2>2, BoundAssumption DEF Leg2Ready, Abs
<1> DEFINE rest == h.to - x
           w == Wrap(rest)
<1>3. rest \in Int /\ w \in Int /\ (w = 0 \/ ((w > 0) = (h.to - Middle(h) > 0)))
  BY <1>1, WrapIs DEF Leg2Ready
<1>4. /\ -Turn < rest /\ rest <= -Half => w > 0
      /\ Half < rest /\ rest < Turn => w < 0
  BY <1>3, WrapIs
<1> HIDE DEF w
<1>5. h.from # h.to /\ -Turn < h.to - h.from /\ h.to - h.from < Turn
  BY <1>1, HalfTurn DEF Unwindable, Abs
<1>6. CASE h.from < h.to
  <2>1. 0 < rest /\ rest < Turn /\ h.to - Middle(h) > 0
    BY <1>1, <1>2, <1>5, <1>6, HalfTurn DEF Between
  <2> QED
    BY <1>2, <1>3, <1>4, <2>1, HalfTurn DEF Short
<1>7. CASE h.to < h.from
  <2>1. -Turn < rest /\ rest < 0 /\ ~(h.to - Middle(h) > 0)
    BY <1>1, <1>2, <1>5, <1>7, HalfTurn DEF Between
  <2> QED
    BY <1>2, <1>3, <1>4, <2>1, HalfTurn DEF Short
<1> QED
  BY <1>1, <1>5, <1>6, <1>7

\* The controller goes straight to a SET that is within half a turn.
LEMMA ShortWay ==
    ASSUME NEW x \in Int, NEW a \in Azimuths, Short(a - x)
    PROVE  Clamp(x + Wrap(a - x)) = a
<1>1. a \in Int /\ a - x \in Int
  BY AzimuthInt
<1>2. Wrap(a - x) = a - x
  BY <1>1, WrapIs
<1>3. x + Wrap(a - x) = a
  BY <1>1, <1>2
<1> QED
  BY <1>3, TrackingAssumption DEF Clamp, Azimuths

\* A home that PointTo begins at rest is in its first leg, or in its only one.
LEMMA HomeBegins ==
    ASSUME NEW h \in Homes, Unwindable(h),
           p' \in Pointing, pos' = h.from, goal' = h.from, echo' = 0, az' = h.from,
           Begun(p', h, None)
    PROVE  FirstLeg(h)' \/ SecondLeg(h)'
<1>1. h.from \in Int /\ h.to \in Int /\ Middle(h) \in Azimuths
  BY MiddleIs
<1>2. Between(h.from, h.from, h.to)
  BY <1>1 DEF Between
<1>3. CASE h.to = h.from /\ ~p'.homing /\ p'.wire = None
  BY <1>2, <1>3 DEF SecondLeg
<1>4. CASE /\ Abs(h.to - h.from) > Half
           /\ p'.homing /\ p'.final = h.to
           /\ Middle(h) \in Azimuths => p'.tgt = Middle(h) /\ p'.wire = Middle(h)
  BY <1>1, <1>4 DEF FirstLeg
<1>5. CASE /\ Abs(h.to - h.from) <= Half
           /\ ~p'.homing /\ p'.wire = h.to
  <2>1. Short(h.to - h.from)
    BY <1>1, <1>5, HalfTurn DEF Unwindable, Abs, Short
  <2> QED
    BY <1>2, <1>5, <2>1 DEF SecondLeg
<1> QED
  BY <1>3, <1>4, <1>5 DEF Begun
-----------------------------------------------------------------------------
(* The steps.                                                              *)

\* A tick of the main loop: the settle test, the second leg, the scan, then the
\* aim or the release of the pass.
LEMMA TickStep ==
    ASSUME IInv, Tick
    PROVE  IInv'
<1> USE DEF IInv
<1>0. PICK over \in BOOLEAN : TickWith(over)
  BY DEF Tick
<1> DEFINE a == LegTwo(Settle(p))
           s == ScanStep(a, over)
<1>1. PICK level \in BOOLEAN :
        LET b == IF s.to = None THEN a ELSE PointTo(a, s.to, fresh, az, level)
            c == Enter(b)
            next == Accumulate(c.tgt, pass.sky)
            d == Aim(c, next)
            in == b.sat /\ pass.in
        IN  /\ scan' = s.scan
            /\ p' = IF in THEN d ELSE Release(b)
            /\ home' = IF s.to # None THEN Homing(p, s.to, fresh, az, pos = goal /\ echo = 0)
                       ELSE IF in /\ d.tgt # c.tgt THEN None ELSE home
            /\ dropped' = IF in /\ GivesUp(c, next) THEN TRUE
                          ELSE dropped /\ p'.latch
            /\ retracked' = (retracked /\ p'.tracking)
  BY <1>0 DEF TickWith
<1> DEFINE b == IF s.to = None THEN a ELSE PointTo(a, s.to, fresh, az, level)
           c == Enter(b)
           next == Accumulate(c.tgt, pass.sky)
           d == Aim(c, next)
           in == b.sat /\ pass.in
           ready == p.homing /\ Leg2Ready(az, p.tgt, p.final)
<1>2. /\ at = "tick" /\ at' = "redraw"
      /\ lastAz' = IF p.moving THEN az ELSE lastAz
      /\ UNCHANGED <<mode, az, fresh, pos, goal, set, echo, pass, events, passes, stopped,
                     late>>
  BY <1>0 DEF TickWith, shaftVars, bounds
<1>3. /\ scan' = s.scan
      /\ p' = IF in THEN d ELSE Release(b)
      /\ home' = IF s.to # None THEN Homing(p, s.to, fresh, az, pos = goal /\ echo = 0)
                 ELSE IF in /\ d.tgt # c.tgt THEN None ELSE home
      /\ dropped' = IF in /\ GivesUp(c, next) THEN TRUE ELSE dropped /\ p'.latch
      /\ retracked' = (retracked /\ p'.tracking)
  BY <1>1
<1>4. p \in Pointing /\ az \in Azimuths /\ fresh \in BOOLEAN /\ pass.in \in BOOLEAN
      /\ pass.high \in BOOLEAN
  BY DEF TypeOK
<1>5. /\ a \in Pointing /\ SamePass(p, a) /\ a.sat = p.sat /\ a.stop = p.stop
      /\ ready => ~a.homing /\ a.wire = p.final /\ a.moving
      /\ ~ready => SameAim(p, a)
  <2> DEFINE q == Settle(p)
  <2>1. q \in Pointing /\ SameAim(p, q) /\ SamePass(p, q) /\ q.sat = p.sat
    BY <1>4, SettleFields
  <2> HIDE DEF q
  <2>2. a = LegTwo(q)
    BY DEF q
  <2>3. /\ a \in Pointing /\ SamePass(q, a) /\ a.sat = q.sat /\ a.stop = q.stop
        /\ IF q.homing /\ Leg2Ready(az, q.tgt, q.final)
           THEN ~a.homing /\ a.wire = q.final /\ a.moving
           ELSE a = q
    BY <2>1, <2>2, LegTwoFields
  <2> QED
    BY <2>1, <2>3 DEF SameAim, SamePass
<1> HIDE DEF a
<1>6. /\ s.scan \in [active : BOOLEAN, idx : 1..Len(Grid), dwell : BOOLEAN]
      /\ s.scan.active => scan.active
      /\ s.to = None \/ (s.to \in Azimuths /\ scan.active /\ ~a.moving)
  BY <1>5, ScanFields
<1> HIDE DEF s
<1> DEFINE h == [from |-> az, to |-> HomeTarget(az, s.to)]
<1>7. ASSUME s.to # None
      PROVE  /\ b \in Pointing /\ ~b.sat /\ b.tracking = p.tracking /\ ~b.latch
             /\ b.stop = p.stop
             /\ h \in Homes
             /\ fresh => Begun(b, h, a.wire)
  <2>1. b = PointTo(a, s.to, fresh, az, level)
    BY <1>7
  <2>2. s.to \in Azimuths
    BY <1>6, <1>7
  <2>3. h = [from |-> az, to |-> HomeTarget(az, s.to)]
    OBVIOUS
  <2> HIDE DEF b, h
  <2>4. /\ b \in Pointing /\ ~b.sat /\ b.tracking = a.tracking /\ ~b.latch
        /\ b.stop = a.stop
        /\ h \in Homes
        /\ fresh => Begun(b, h, a.wire)
    BY <1>4, <1>5, <2>1, <2>2, <2>3, PointFields
  <2> QED
    BY <1>5, <2>4 DEF SamePass
<1>8. s.to = None => b = a
  OBVIOUS
<1> HIDE DEF b, h
<1>9. /\ b \in Pointing /\ b.tracking = p.tracking
      /\ b.latch => p.latch
      /\ b.sat => s.to = None /\ p.sat /\ b = a
  BY <1>5, <1>7, <1>8 DEF SamePass
<1>10. /\ c \in Pointing /\ c.sat = b.sat
       /\ mode # "fixed" /\ ~b.tracking /\ ~b.latch =>
            c.flip = pass.high /\ c.latch /\ c.tracking
       /\ mode = "fixed" \/ b.tracking \/ b.latch => c = b
  BY <1>9, EnterFields
<1> HIDE DEF c
<1>11. /\ d \in Pointing /\ d.sat = c.sat /\ d.latch = c.latch /\ d.flip = c.flip
       /\ d.tracking = (c.tracking /\ ~GivesUp(c, next))
  BY <1>10, AimFields
<1> HIDE DEF d, next
<1>12. ASSUME ~in
       PROVE  /\ p' \in Pointing /\ SameAim(b, p') /\ p'.sat = b.sat /\ ~p'.tracking
              /\ p'.latch => b.latch /\ ~b.tracking
  BY <1>3, <1>9, <1>12, ReleaseFields
<1>13. in \in BOOLEAN
  BY <1>4, <1>9 DEF Pointing
<1>14. p' \in Pointing
  BY <1>3, <1>11, <1>12
<1>15. in => p' = d /\ c.sat /\ b = a
  BY <1>3, <1>9, <1>10
<1>16. TypeOK'
  <2>1. home' \in Homes \cup {None}
    BY <1>3, <1>7 DEF TypeOK, Homing, Homes, h
  <2>2. {dropped', retracked'} \subseteq BOOLEAN
    BY <1>3, <1>14 DEF TypeOK, Pointing
  <2>3. lastAz' \in Azimuths /\ scan' \in [active : BOOLEAN, idx : 1..Len(Grid), dwell : BOOLEAN]
    BY <1>2, <1>3, <1>6 DEF TypeOK
  <2> QED
    BY <1>2, <1>14, <2>1, <2>2, <2>3 DEF TypeOK, Homes
<1>17. Quiet'
  <2> SUFFICES ASSUME stopped
               PROVE  p'.wire = late /\ ~p'.homing /\ ~p'.sat /\ ~scan'.active
    BY <1>2 DEF Quiet
  <2>1. p.wire = late /\ ~p.homing /\ ~p.sat /\ ~scan.active
    BY DEF Quiet
  <2>2. s.to = None /\ ~in /\ SameAim(p, a) /\ ~a.sat
    BY <1>5, <1>6, <1>9, <2>1
  <2> QED
    BY <1>3, <1>6, <1>8, <1>12, <2>1, <2>2 DEF SameAim
<1>18. Followed'
  <2> SUFFICES ASSUME mode # "fixed"
               PROVE  /\ p'.latch /\ ~p'.tracking => dropped'
                      /\ p'.tracking /\ p'.latch /\ pass.in => p'.flip = pass.high
                      /\ p'.tracking /\ p'.sat => p'.latch \/ retracked'
                      /\ ~pass.in => ~p'.tracking
                      /\ p'.sat /\ pass.in => p'.tracking \/ dropped'
    BY <1>2 DEF Followed, InRange
  <2>1. /\ p.latch /\ ~p.tracking => dropped
        /\ p.tracking /\ p.latch /\ pass.in => p.flip = pass.high
        /\ p.tracking /\ p.sat => p.latch \/ retracked
    BY DEF Followed
  <2>2. CASE ~in
    <3>1. ~p'.tracking /\ (p'.latch => p.latch /\ ~p.tracking)
      BY <1>9, <1>12, <2>2
    <3>2. p'.latch => dropped'
      BY <1>3, <2>1, <2>2, <3>1
    <3>3. ~(p'.sat /\ pass.in)
      BY <1>12, <2>2
    <3> QED
      BY <3>1, <3>2, <3>3
  <2>3. CASE in
    <3>1. /\ p' = d /\ b = a /\ pass.in
          /\ b.tracking = p.tracking /\ b.latch = p.latch /\ b.flip = p.flip
          /\ p.sat
      BY <1>5, <1>9, <1>15, <2>3 DEF SamePass
    <3>2. CASE ~p.tracking /\ ~p.latch
      <4>1. c.flip = pass.high /\ c.latch /\ c.tracking
        BY <1>10, <3>1, <3>2
      <4> QED
        BY <1>3, <1>11, <2>3, <3>1, <4>1
    <3>3. CASE p.tracking \/ p.latch
      <4>1. c = b
        BY <1>10, <3>1, <3>3
      <4>2. p'.latch = p.latch /\ p'.flip = p.flip
            /\ p'.tracking = (p.tracking /\ ~GivesUp(c, next))
        BY <1>11, <3>1, <4>1
      <4>3. dropped' = IF GivesUp(c, next) THEN TRUE ELSE dropped /\ p.latch
        BY <1>3, <2>3, <4>2
      <4>4. p.tracking \in BOOLEAN /\ p.latch \in BOOLEAN
        BY <1>4 DEF Pointing
      <4>5. p'.tracking => p.tracking /\ retracked' = retracked
        BY <1>3, <1>4, <4>2 DEF TypeOK
      <4>6. p'.tracking \/ dropped'
        BY <2>1, <3>3, <4>2, <4>3, <4>4
      <4> QED
        BY <2>1, <3>1, <4>2, <4>5, <4>6
    <3> QED
      BY <3>2, <3>3
  <2> QED
    BY <1>13, <2>2, <2>3
<1>19. Unwinding'
  <2> SUFFICES ASSUME home' # None
               PROVE  /\ ~p'.sat /\ ~p'.stop
                      /\ (Unwindable(home') => FirstLeg(home)' \/ SecondLeg(home)')
    BY DEF Unwinding
  <2>1. CASE s.to # None
    <3>1. home' = h /\ fresh /\ az = pos /\ pos = goal /\ echo = 0 /\ p.wire = None
          /\ ~p.stop
      BY <1>3, <2>1 DEF Homing, h
    <3>2. ~in /\ ~b.sat
      BY <1>7, <2>1
    <3>3. ~ready
      BY <1>5, <1>6, <2>1
    <3>4. a.wire = None
      BY <1>5, <3>1, <3>3 DEF SameAim
    <3>5. SameAim(b, p') /\ ~p'.sat /\ ~p'.stop
      BY <1>7, <1>12, <2>1, <3>1, <3>2 DEF SameAim
    <3>6. h \in Homes /\ h.from = az
      BY <1>7, <2>1 DEF h
    <3>7. Begun(p', h, None)
      BY <1>7, <2>1, <3>1, <3>4, <3>5 DEF SameAim, Begun
    <3>8. pos' = h.from /\ goal' = h.from /\ echo' = 0 /\ az' = h.from
      BY <1>2, <3>1, <3>6
    <3>9. PICK k : k = h
      OBVIOUS
    <3> HIDE DEF h
    <3>10. Unwindable(k) => FirstLeg(k)' \/ SecondLeg(k)'
      BY <1>14, <3>6, <3>7, <3>8, <3>9, HomeBegins
    <3> QED
      BY <3>1, <3>5, <3>9, <3>10 DEF FirstLeg, SecondLeg
  <2>2. CASE s.to = None
    <3>1. home # None /\ ~p.sat /\ ~p.stop
      BY <1>3, <2>2 DEF Unwinding
    <3>2. ~in /\ b = a
      BY <1>8, <1>9, <2>2, <3>1
    <3>3. home' = home /\ SameAim(a, p') /\ ~p'.sat /\ ~p'.stop
      BY <1>3, <1>5, <1>12, <2>2, <3>1, <3>2 DEF SameAim
    <3>4. CASE ~ready
      <4>1. SameAim(p, p')
        BY <1>5, <3>3, <3>4 DEF SameAim
      <4> QED
        BY <1>2, <3>1, <3>3, <4>1 DEF Unwinding, FirstLeg, SecondLeg, SameAim
    <3>5. CASE ready /\ Unwindable(home)
      <4>1. FirstLeg(home)
        BY <3>1, <3>5 DEF Unwinding, SecondLeg
      <4>2. home \in Homes /\ pos \in Int
        BY <3>1, AzimuthInt DEF TypeOK, Homes
      <4>3. /\ home.from \in Int /\ home.to \in Int /\ Middle(home) \in Int
            /\ home.from < home.to => home.from <= Middle(home) /\ Middle(home) < home.to
            /\ home.to < home.from => home.to < Middle(home) /\ Middle(home) <= home.from
        BY <4>2, MiddleIs
      <4>4. /\ Between(pos, home.from, Middle(home))
            /\ az \in {pos, Middle(home)}
            /\ goal \in {pos, Middle(home)}
            /\ Abs(home.to - home.from) > Half
            /\ Leg2Ready(az, Middle(home), home.to)
        BY <3>5, <4>1, <4>2, <4>3 DEF FirstLeg, Between
      <4>5. az = pos /\ Short(home.to - pos)
        BY <3>5, <4>2, <4>3, <4>4, ReadyIsShort
      <4>6. Between(pos, home.from, home.to) /\ Between(goal, pos, home.to)
        BY <4>2, <4>3, <4>4, HalfTurn DEF Between, Abs
      <4>7. ~p'.homing /\ p'.wire = home.to
        BY <1>5, <3>3, <3>5, <4>1 DEF FirstLeg, SameAim
      <4> QED
        BY <1>2, <3>3, <4>5, <4>6, <4>7 DEF SecondLeg
    <3> QED
      BY <3>3, <3>4, <3>5
  <2> QED
    BY <2>1, <2>2
<1> QED
  BY <1>16, <1>17, <1>18, <1>19
\* The shaft moves toward its goal, never past it.
LEMMA MovedIs ==
    ASSUME TypeOK, NEW n \in 0..Slew
    PROVE  /\ Moved(n) \in Azimuths /\ Moved(n) \in Int
           /\ Between(Moved(n), pos, goal)
<1>1. pos \in Azimuths /\ goal \in Azimuths /\ pos \in Int /\ goal \in Int /\ n \in Nat
  BY AzimuthInt, BoundAssumption DEF TypeOK
<1>2. Moved(n) \in Int /\ Between(Moved(n), pos, goal)
  BY <1>1 DEF Moved, Between
<1>3. Moved(n) \in Azimuths
  BY <1>1, <1>2, TrackingAssumption DEF Azimuths, Between
<1> QED
  BY <1>2, <1>3

\* A reading: the shaft's azimuth, or the echo of the last SET.
LEMMA RedrawStep ==
    ASSUME IInv, RedrawGood
    PROVE  IInv'
<1> USE DEF IInv
<1>1. PICK n \in 0..Slew : pos' = Moved(n)
  BY DEF RedrawGood
<1>2. /\ at = "redraw" /\ at' = "key" /\ fresh' = TRUE
      /\ az' \in Reading(pos')
      /\ IF echo > 1 THEN echo' = echo - 1 /\ set' = set ELSE echo' = 0 /\ set' = None
      /\ UNCHANGED <<mode, p, lastAz, scan, goal, pass, events, passes,
                     home, stopped, late, dropped, retracked>>
  BY DEF RedrawGood, bounds, history
<1>3. pos' \in Azimuths /\ pos' \in Int /\ Between(pos', pos, goal)
  BY <1>1, MovedIs
<1>4. az' = pos' \/ (echo > 0 /\ az' = set)
  BY <1>2 DEF Reading
<1>0. /\ pos \in Azimuths /\ goal \in Azimuths /\ EchoLen \in Nat
      /\ echo \in 0..EchoLen /\ set \in Azimuths \cup {None}
      /\ echo > 0 => set # None
  BY BoundAssumption DEF TypeOK
<1>5. /\ echo \in Int /\ pos \in Int /\ goal \in Int
      /\ echo' > 0 => echo > 0 /\ set' = set
  <2>1. CASE echo > 1
    BY <1>0, <1>2, <2>1, AzimuthInt
  <2>2. CASE ~(echo > 1)
    BY <1>0, <1>2, <2>2, AzimuthInt
  <2> QED
    BY <2>1, <2>2
<1>6. TypeOK'
  <2>1. az' \in Azimuths
    BY <1>3, <1>4 DEF TypeOK
  <2>2. echo' \in 0..EchoLen /\ set' \in Azimuths \cup {None} /\ (echo' > 0 => set' # None)
    <3>1. CASE echo > 1
      BY <1>0, <1>2, <3>1
    <3>2. CASE ~(echo > 1)
      BY <1>0, <1>2, <3>2
    <3> QED
      BY <3>1, <3>2
  <2> QED
    BY <1>2, <1>3, <2>1, <2>2 DEF TypeOK
<1>7. Quiet' /\ Followed'
  BY <1>2 DEF Quiet, Followed, InRange
<1>8. Unwinding'
  <2> SUFFICES ASSUME home # None, Unwindable(home)
               PROVE  FirstLeg(home)' \/ SecondLeg(home)'
    BY <1>2 DEF Unwinding
  <2>1. home \in Homes
    BY DEF TypeOK, Homes
  <2>2. /\ home.from \in Int /\ home.to \in Int /\ Middle(home) \in Int
        /\ home.from < home.to => home.from <= Middle(home) /\ Middle(home) < home.to
        /\ home.to < home.from => home.to < Middle(home) /\ Middle(home) <= home.from
    BY <2>1, MiddleIs
  <2>3. CASE FirstLeg(home) /\ p.wire # None
    <3>1. pos' = pos
      BY <1>3, <1>5, <2>3 DEF FirstLeg, Between
    <3>2. az' = pos' /\ echo' = 0
      BY <1>2, <1>4, <2>3 DEF FirstLeg
    <3> QED
      BY <1>2, <2>3, <3>1, <3>2 DEF FirstLeg
  <2>4. CASE FirstLeg(home) /\ p.wire = None
    <3>1. goal = Middle(home) /\ Between(pos, home.from, goal) /\ (echo > 0 => set = goal)
      BY <2>2, <2>4, TrackingAssumption DEF FirstLeg
    <3>2. Between(pos', home.from, goal)
      BY <1>3, <1>5, <2>2, <3>1 DEF Between
    <3>3. az' \in {pos', goal} /\ (echo' > 0 => set' = goal)
      BY <1>4, <1>5, <3>1
    <3> QED
      BY <1>2, <2>4, <3>1, <3>2, <3>3 DEF FirstLeg
  <2>5. CASE SecondLeg(home)
    <3>1. Between(pos, home.from, home.to) /\ Between(goal, pos, home.to)
      BY <1>5, <2>2, <2>5 DEF SecondLeg, Between
    <3>2. Between(pos', home.from, home.to) /\ Between(goal, pos', home.to)
      BY <1>3, <1>5, <2>2, <3>1 DEF Between
    <3>3. Short(home.to - pos) => Short(home.to - pos')
      BY <1>3, <1>5, <2>2, <3>1, HalfTurn DEF Between, Short
    <3> QED
      BY <1>2, <2>5, <3>2, <3>3 DEF SecondLeg
  <2> QED
    BY <2>3, <2>4, <2>5 DEF Unwinding
<1> QED
  BY <1>6, <1>7, <1>8

\* The controller's new goal is in range.
LEMMA ClampIn ==
    ASSUME NEW x \in Int
    PROVE  Clamp(x) \in Azimuths
BY TrackingAssumption DEF Clamp, Azimuths

\* What the controller is left with by what the worker sends.
LEMMA SentIs ==
    ASSUME TypeOK, SendQueued
    PROVE  /\ goal' \in Azimuths
           /\ echo' \in 0..EchoLen /\ set' \in Azimuths \cup {None}
           /\ echo' > 0 => set' # None /\ set' = p.wire
           /\ p.wire # None => goal' = Clamp(pos + Wrap(p.wire - pos))
                              /\ set' = p.wire /\ echo' = EchoLen
<1>1. EchoLen \in 0..EchoLen /\ 0 \in 0..EchoLen /\ ~(0 > 0)
  BY BoundAssumption
<1>2. CASE p.wire = None
  BY <1>1, <1>2 DEF SendQueued, TypeOK
<1>3. CASE p.wire # None
  <2>1. p.wire \in Azimuths /\ p.wire \in Int /\ pos \in Int
    BY <1>3, AzimuthInt DEF TypeOK, Pointing
  <2>2. pos + Wrap(p.wire - pos) \in Int
    BY <2>1, WrapIs
  <2>3. goal' = Clamp(pos + Wrap(p.wire - pos)) /\ set' = p.wire /\ echo' = EchoLen
    BY <1>3 DEF SendQueued, Controller
  <2>4. goal' \in Azimuths
    BY <2>2, <2>3, ClampIn
  <2> QED
    BY <1>1, <1>3, <2>1, <2>3, <2>4
<1> QED
  BY <1>2, <1>3

\* The worker sends a SET, and the controller goes to it by the way the home is
\* to go; no STOP stands before a SET of the home.
LEMMA WorkerStep ==
    ASSUME IInv, WorkerSend
    PROVE  IInv'
<1> USE DEF IInv
<1>1. /\ p.stop \/ p.wire # None
      /\ p' = [p EXCEPT !.stop = FALSE, !.wire = None] /\ late' = None
      /\ SendQueued
      /\ UNCHANGED <<at, mode, az, fresh, lastAz, scan, pos, pass, events, passes,
                     home, stopped, dropped, retracked>>
  BY DEF WorkerSend, bounds
<1>2. /\ p' \in Pointing /\ p'.wire = None /\ ~p'.stop
      /\ SamePass(p, p') /\ p'.sat = p.sat
      /\ p'.homing = p.homing /\ p'.final = p.final /\ p'.tgt = p.tgt
  BY <1>1 DEF TypeOK, Pointing, SamePass
<1>3. /\ goal' \in Azimuths
      /\ echo' \in 0..EchoLen /\ set' \in Azimuths \cup {None}
      /\ echo' > 0 => set' # None
      /\ p.wire # None => goal' = Clamp(pos + Wrap(p.wire - pos)) /\ set' = p.wire
  BY <1>1, SentIs
<1>4. TypeOK'
  BY <1>1, <1>2, <1>3 DEF TypeOK
<1>5. Quiet' /\ Followed'
  BY <1>1, <1>2 DEF Quiet, Followed, InRange, SamePass
<1>6. Unwinding'
  <2> SUFFICES ASSUME home # None, Unwindable(home)
               PROVE  FirstLeg(home)' \/ SecondLeg(home)'
    BY <1>1, <1>2 DEF Unwinding
  <2>0. p.wire # None /\ p.wire \in Int /\ pos \in Int
    BY <1>1, AzimuthInt DEF Unwinding, TypeOK, Pointing
  <2>1. home \in Homes
    BY DEF TypeOK, Homes
  <2>2. /\ home.from \in Int /\ home.to \in Int /\ Middle(home) \in Int
        /\ Short(Middle(home) - home.from)
    BY <2>1, MiddleIs
  <2>3. goal' = p.wire
    <3>1. Short(p.wire - pos)
      BY <2>0, <2>2 DEF Unwinding, FirstLeg, SecondLeg
    <3>2. p.wire \in Azimuths
      BY <2>0 DEF TypeOK, Pointing
    <3> QED
      BY <1>3, <2>0, <3>1, <3>2, ShortWay
  <2>4. CASE FirstLeg(home)
    <3>1. p.wire = Middle(home) /\ pos = home.from /\ az = pos
      BY <2>0, <2>4 DEF FirstLeg
    <3>2. Between(pos, home.from, Middle(home))
      BY <2>2, <3>1 DEF Between
    <3> QED
      BY <1>1, <1>2, <1>3, <2>0, <2>3, <2>4, <3>1, <3>2 DEF FirstLeg
  <2>5. CASE SecondLeg(home)
    BY <1>1, <1>2, <2>0, <2>3, <2>5 DEF SecondLeg
  <2> QED
    BY <2>4, <2>5 DEF Unwinding
<1> QED
  BY <1>4, <1>5, <1>6

\* A failed reading ends what is said of the home; the shaft moves on.
LEMMA StaleStep ==
    ASSUME IInv, RedrawStale
    PROVE  IInv'
<1> USE DEF IInv
<1>1. PICK n \in 0..Slew : pos' = Moved(n)
  BY DEF RedrawStale
<1>2. /\ at = "redraw" /\ at' = "key" /\ fresh' = FALSE /\ home' = None
      /\ events < MaxEvents /\ events' = events + 1
      /\ UNCHANGED <<mode, p, az, lastAz, scan, goal, set, echo, pass, passes,
                     stopped, late, dropped, retracked>>
  BY DEF RedrawStale
<1>3. pos' \in Azimuths
  BY <1>1, MovedIs
<1>4. TypeOK'
  <2>1. events' \in 0..MaxEvents
    BY <1>2, BoundAssumption DEF TypeOK
  <2> QED
    BY <1>2, <1>3, <2>1 DEF TypeOK
<1>5. Quiet' /\ Followed' /\ Unwinding'
  BY <1>2 DEF Quiet, Followed, Unwinding, InRange
<1> QED
  BY <1>4, <1>5

\* The prediction: a pass begins, goes on, or is over.
LEMMA PredictStep ==
    ASSUME IInv, Predict
    PROVE  IInv'
<1> USE DEF IInv
<1>1. /\ at = "predict" /\ at' = "tick"
      /\ UNCHANGED <<mode, p, az, fresh, lastAz, scan, pos, goal, set, echo, events,
                     home, stopped, late, dropped, retracked>>
  BY DEF Predict, shaftVars, history
<1>2. /\ pass' \in [in : BOOLEAN, sky : Int, left : Nat, high : BOOLEAN]
      /\ passes' \in 0..MaxPasses
      /\ pass'.in /\ pass.in => pass'.high = pass.high
  <2>0. pass \in [in : BOOLEAN, sky : Int, left : Nat, high : BOOLEAN] /\ passes \in 0..MaxPasses
    BY DEF TypeOK
  <2>1. CASE UNCHANGED <<pass, passes>>
    BY <2>0, <2>1
  <2>2. CASE ~pass.in /\ pass' \in Passes /\ passes < MaxPasses /\ passes' = passes + 1
    <3>1. passes' \in 0..MaxPasses
      BY <2>0, <2>2, BoundAssumption
    <3>2. pass' \in [in : {TRUE}, sky : Int, left : Nat, high : BOOLEAN]
      BY <2>2, BoundAssumption DEF Passes
    <3> QED
      BY <2>2, <3>1, <3>2
  <2>3. CASE /\ pass.left > 0 /\ UNCHANGED passes
             /\ pass' = [pass EXCEPT !.sky = (pass.sky + SkyStep) % Turn, !.left = pass.left - 1]
    <3>1. (pass.sky + SkyStep) % Turn \in Int
      <4>1. pass.sky + SkyStep \in Int
        BY <2>0, BoundAssumption
      <4> QED
        BY <4>1, TrackingAssumption
    <3>2. pass.left - 1 \in Nat
      BY <2>0, <2>3
    <3> QED
      BY <2>0, <2>3, <3>1, <3>2
  <2>4. CASE pass' = NoPass /\ UNCHANGED passes
    BY <2>0, <2>4 DEF NoPass
  <2> QED
    BY <2>1, <2>2, <2>3, <2>4 DEF Predict
<1>3. TypeOK'
  BY <1>1, <1>2 DEF TypeOK
<1>4. Quiet' /\ Unwinding'
  BY <1>1 DEF Quiet, Unwinding, FirstLeg, SecondLeg
<1>5. Followed'
  BY <1>1, <1>2 DEF Followed, InRange, TypeOK
<1> QED
  BY <1>3, <1>4, <1>5
-----------------------------------------------------------------------------
(* The operator.                                                           *)

\* What every key has in common.
LEMMA KeyFrame ==
    ASSUME TypeOK, Key
    PROVE  /\ at = "key" /\ at' = "predict" /\ events' \in 0..MaxEvents
           /\ UNCHANGED <<mode, lastAz, pass, passes>>
BY BoundAssumption DEF TypeOK, Key

\* What the controller may report, and what it is left with by a STOP.
LEMMA WireStopIs ==
    ASSUME TypeOK, NEW out \in BOOLEAN, NEW ok \in BOOLEAN,
           NEW reading \in Reading(pos) \cup {az, p.wire},
           WireStop(out, ok, reading)
    PROVE  /\ reading \in Azimuths /\ az' = reading /\ pos' = pos
           /\ goal' \in Azimuths /\ fresh' \in BOOLEAN
           /\ echo' \in 0..EchoLen /\ set' \in Azimuths \cup {None}
           /\ echo' > 0 => set' # None
<1>1. /\ goal' \in Azimuths
      /\ echo' \in 0..EchoLen /\ set' \in Azimuths \cup {None}
      /\ echo' > 0 => set' # None
  <2>1. CASE out
    BY <2>1, SentIs DEF WireStop
  <2>2. CASE ~out
    BY <2>2 DEF WireStop, TypeOK
  <2> QED
    BY <2>1, <2>2
<1>2. az' = reading /\ pos' = pos /\ fresh' \in BOOLEAN
  BY DEF WireStop, TypeOK
<1>3. reading \in Azimuths
  <2>1. CASE ok
    BY <1>1, <2>1 DEF WireStop, Reading, TypeOK
  <2>2. CASE ~ok
    BY <2>2 DEF WireStop, TypeOK
  <2> QED
    BY <2>1, <2>2
<1> QED
  BY <1>1, <1>2, <1>3

\* t, and :track.
LEMMA TrackStep ==
    ASSUME IInv, KeyTrack
    PROVE  IInv'
<1> USE DEF IInv
<1>1. /\ at = "key" /\ at' = "predict" /\ events' \in 0..MaxEvents
      /\ UNCHANGED <<mode, lastAz, pass, passes>>
  BY KeyFrame DEF KeyTrack
<1>2. /\ home' = None /\ stopped' = FALSE /\ late' = None /\ dropped' = FALSE
      /\ retracked' = (retracked \/ p.tracking)
      /\ UNCHANGED <<az, fresh, scan, pos, goal, set, echo>>
  BY DEF KeyTrack, Asked, shaftVars
<1>3. p' \in Pointing /\ p'.tracking = p.tracking /\ ~p'.latch
  BY StartFields DEF KeyTrack, TypeOK
<1>4. TypeOK'
  <2>1. retracked' \in BOOLEAN
    BY <1>2 DEF TypeOK, Pointing
  <2> QED
    BY <1>1, <1>2, <1>3, <2>1 DEF TypeOK
<1>5. Quiet' /\ Followed' /\ Unwinding'
  BY <1>1, <1>2, <1>3 DEF Quiet, Followed, Unwinding, InRange
<1> QED
  BY <1>4, <1>5

\* The first target of a scan, or a home, from a reading at rest.
LEMMA PointStep ==
    ASSUME p' \in Pointing, ~p'.sat, NEW q, p'.stop = q.stop,
           NEW a \in Azimuths, NEW ok, NEW reading \in Azimuths, NEW still, NEW h,
           h = [from |-> reading, to |-> HomeTarget(reading, a)], h \in Homes,
           home' = Homing(q, a, ok, reading, still),
           az' = reading, pos' = pos,
           still => goal' = pos /\ echo' = 0,
           ok /\ q.wire = None => Begun(p', h, None)
    PROVE  Unwinding' /\ home' \in Homes \cup {None}
<1>1. CASE home' = None
  BY <1>1 DEF Unwinding
<1>2. CASE home' # None
  <2>1. home' = h /\ ok /\ reading = pos /\ still /\ q.wire = None /\ ~q.stop
    BY <1>2 DEF Homing
  <2>2. /\ pos' = h.from /\ goal' = h.from /\ echo' = 0 /\ az' = h.from
        /\ Begun(p', h, None)
    BY <2>1
  <2>3. Unwindable(h) => FirstLeg(h)' \/ SecondLeg(h)'
    BY <2>2, HomeBegins
  <2> QED
    BY <2>1, <2>3 DEF Unwinding, FirstLeg, SecondLeg
<1> QED
  BY <1>1, <1>2

\* t under --scan-sky.
LEMMA ScanKeyStep ==
    ASSUME IInv, KeyScan
    PROVE  IInv'
<1> USE DEF IInv
<1> DEFINE q == [p EXCEPT !.tracking = FALSE]
           h == [from |-> az, to |-> HomeTarget(az, Grid[1])]
           still == pos = goal /\ echo = 0
<1>1. /\ at = "key" /\ at' = "predict" /\ events' \in 0..MaxEvents
      /\ UNCHANGED <<mode, lastAz, pass, passes>>
  BY KeyFrame DEF KeyScan
<1>2. /\ scan' = [active |-> TRUE, idx |-> 1, dwell |-> FALSE]
      /\ home' = Homing(p, Grid[1], fresh, az, still)
      /\ stopped' = FALSE /\ late' = None /\ dropped' = FALSE /\ retracked' = FALSE
      /\ UNCHANGED <<az, fresh, pos, goal, set, echo>>
  BY DEF KeyScan, Asked, shaftVars
<1>3. PICK level \in BOOLEAN : p' = PointTo(q, Grid[1], fresh, az, level)
  BY DEF KeyScan
<1>4. /\ q \in Pointing /\ ~q.tracking /\ q.wire = p.wire /\ q.stop = p.stop
      /\ az \in Azimuths /\ fresh \in BOOLEAN /\ Grid[1] \in Azimuths
  <2>1. Grid[1] \in Azimuths
    BY GridIs
  <2>2. q \in Pointing /\ ~q.tracking /\ q.wire = p.wire /\ q.stop = p.stop
    BY DEF TypeOK, Pointing
  <2> QED
    BY <2>1, <2>2 DEF TypeOK
<1>5. h = [from |-> az, to |-> HomeTarget(az, Grid[1])]
  OBVIOUS
<1> HIDE DEF q, h, still
<1>6. /\ p' \in Pointing /\ ~p'.sat /\ p'.tracking = q.tracking /\ ~p'.latch
      /\ p'.stop = q.stop /\ h \in Homes /\ (fresh => Begun(p', h, q.wire))
  BY <1>3, <1>4, <1>5, PointFields
<1>7. Unwinding' /\ home' \in Homes \cup {None}
  <2>1. still => goal' = pos /\ echo' = 0
    BY <1>2 DEF still
  <2> QED
    BY <1>2, <1>4, <1>5, <1>6, <2>1, PointStep
<1>8. TypeOK'
  <2>1. scan' \in [active : BOOLEAN, idx : 1..Len(Grid), dwell : BOOLEAN]
    BY <1>2, GridIs DEF TypeOK
  <2> QED
    BY <1>1, <1>2, <1>6, <1>7, <2>1 DEF TypeOK, Homes
<1>9. Quiet' /\ Followed'
  BY <1>1, <1>2, <1>4, <1>6 DEF Quiet, Followed, InRange
<1> QED
  BY <1>7, <1>8, <1>9

\* s and :stop.
LEMMA StopStep ==
    ASSUME IInv, KeyStop \/ CmdStop
    PROVE  IInv'
<1> USE DEF IInv
<1>1. /\ at = "key" /\ at' = "predict" /\ events' \in 0..MaxEvents
      /\ UNCHANGED <<mode, lastAz, pass, passes>>
  BY KeyFrame DEF KeyStop, CmdStop
<1>2. /\ home' = None /\ dropped' = FALSE /\ retracked' = retracked
  BY DEF KeyStop, CmdStop
<1>3. PICK out \in BOOLEAN, ok \in BOOLEAN, reading \in Reading(pos) \cup {az, p.wire} :
        /\ WireStop(out, ok, reading) /\ p' = StopTracking(p, out, ok, reading)
        /\ \/ scan' = ScanStopped /\ stopped' = TRUE /\ late' = p'.wire
           \/ scan' = scan /\ stopped' = stopped /\ late' = IF out THEN None ELSE late
  BY DEF KeyStop, CmdStop
<1>4. /\ reading \in Azimuths /\ az' = reading /\ pos' = pos
      /\ goal' \in Azimuths /\ fresh' \in BOOLEAN
      /\ echo' \in 0..EchoLen /\ set' \in Azimuths \cup {None}
      /\ echo' > 0 => set' # None
  BY <1>3, WireStopIs
<1>5. /\ p' \in Pointing /\ ~p'.sat /\ ~p'.homing
      /\ p'.wire = IF out THEN None ELSE p.wire
      /\ p'.tracking = p.tracking /\ ~p'.latch
  <2>1. p \in Pointing /\ reading \in Azimuths /\ p' = StopTracking(p, out, ok, reading)
    BY <1>3, <1>4 DEF TypeOK
  <2> QED
    BY ONLY <2>1, StopFields, ok \in BOOLEAN, out \in BOOLEAN
<1>6. TypeOK'
  <2>1. scan' \in [active : BOOLEAN, idx : 1..Len(Grid), dwell : BOOLEAN]
        /\ stopped' \in BOOLEAN /\ late' \in Azimuths \cup {None}
    <3>1. ScanStopped \in [active : BOOLEAN, idx : 1..Len(Grid), dwell : BOOLEAN]
      BY GridIs DEF ScanStopped
    <3> QED
      BY <1>3, <1>5, <3>1 DEF TypeOK, Pointing
  <2> QED
    BY <1>1, <1>2, <1>4, <1>5, <2>1 DEF TypeOK
<1>7. Quiet'
  <2>1. ~ScanStopped.active
    BY DEF ScanStopped
  <2>2. CASE scan' = ScanStopped /\ late' = p'.wire
    BY <1>5, <2>1, <2>2 DEF Quiet
  <2>3. CASE scan' = scan /\ stopped' = stopped /\ late' = IF out THEN None ELSE late
    BY <1>5, <2>3 DEF Quiet
  <2> QED
    BY <1>3, <2>2, <2>3
<1>8. Followed' /\ Unwinding'
  BY <1>1, <1>2, <1>5 DEF Followed, Unwinding, InRange
<1> QED
  BY <1>6, <1>7, <1>8

\* r and :home.
LEMMA ResetStep ==
    ASSUME IInv, KeyReset
    PROVE  IInv'
<1> USE DEF IInv
<1>1. /\ at = "key" /\ at' = "predict" /\ events' \in 0..MaxEvents
      /\ UNCHANGED <<mode, lastAz, pass, passes>>
  BY KeyFrame DEF KeyReset
<1>2. /\ stopped' = FALSE /\ late' = None /\ dropped' = FALSE
      /\ UNCHANGED <<scan, retracked>>
  BY DEF KeyReset, Asked
<1> DEFINE still == goal' = pos /\ echo' = 0
<1>3. PICK out \in BOOLEAN, ok \in BOOLEAN, level \in BOOLEAN,
           reading \in Reading(pos) \cup {az, p.wire} :
        /\ WireStop(out, ok, reading)
        /\ p' = PointTo(StopTracking(p, out, ok, reading), 0, fresh', reading, level)
        /\ home' = Homing(StopTracking(p, out, ok, reading), 0, fresh', reading, still)
  BY DEF KeyReset
<1>4. /\ reading \in Azimuths /\ az' = reading /\ pos' = pos
      /\ goal' \in Azimuths /\ fresh' \in BOOLEAN
      /\ echo' \in 0..EchoLen /\ set' \in Azimuths \cup {None}
      /\ echo' > 0 => set' # None
  BY <1>3, WireStopIs
<1> DEFINE q == StopTracking(p, out, ok, reading)
           h == [from |-> reading, to |-> HomeTarget(reading, 0)]
<1>5. q \in Pointing /\ q.tracking = p.tracking
  <2>1. p \in Pointing /\ reading \in Azimuths /\ q = StopTracking(p, out, ok, reading)
    BY <1>4 DEF TypeOK
  <2> HIDE DEF q
  <2> QED
    BY ONLY <2>1, StopFields, ok \in BOOLEAN, out \in BOOLEAN
<1>6. /\ p' = PointTo(q, 0, fresh', reading, level)
      /\ home' = Homing(q, 0, fresh', reading, still)
      /\ h = [from |-> reading, to |-> HomeTarget(reading, 0)]
  BY <1>3
<1> HIDE DEF q, h
<1>7. PICK good \in BOOLEAN : good = fresh'
  BY <1>4
<1>8. /\ p' \in Pointing /\ ~p'.sat /\ p'.tracking = q.tracking /\ ~p'.latch
      /\ p'.stop = q.stop /\ h \in Homes /\ (good => Begun(p', h, q.wire))
  BY <1>4, <1>5, <1>6, <1>7, AzimuthInt, PointFields
<1>9. Unwinding' /\ home' \in Homes \cup {None}
  <2>1. PICK st : st = still
    OBVIOUS
  <2>2. st => goal' = pos /\ echo' = 0
    BY <2>1
  <2> HIDE DEF still
  <2>3. home' = Homing(q, 0, good, reading, st)
    BY <1>6, <1>7, <2>1
  <2> QED
    BY <1>4, <1>6, <1>7, <1>8, <2>2, <2>3, AzimuthInt, PointStep
<1>10. TypeOK'
  BY <1>1, <1>2, <1>4, <1>8, <1>9 DEF TypeOK, Homes
<1>11. Quiet' /\ Followed'
  BY <1>1, <1>2, <1>5, <1>8 DEF Quiet, Followed, InRange
<1> QED
  BY <1>9, <1>10, <1>11

\* The jog keys.
LEMMA JogStep ==
    ASSUME IInv, NEW d \in Jogs, KeyJog(d)
    PROVE  IInv'
<1> USE DEF IInv
<1> DEFINE q == [p EXCEPT !.sat = FALSE, !.under = FALSE]
<1>1. /\ at = "key" /\ at' = "predict" /\ events' \in 0..MaxEvents
      /\ UNCHANGED <<mode, lastAz, pass, passes>>
  BY KeyFrame DEF KeyJog
<1>2. /\ home' = None /\ stopped' = FALSE /\ late' = None
      /\ UNCHANGED <<az, fresh, scan, pos, goal, set, echo, dropped, retracked>>
  BY DEF KeyJog, Asked, shaftVars
<1>3. q \in Pointing /\ ~q.sat /\ SamePass(p, q) /\ p' = SubmitSet(q, p.tgt + d)
  BY DEF KeyJog, TypeOK, Pointing, SamePass
<1> HIDE DEF q
<1>4. p' \in Pointing /\ ~p'.sat /\ SamePass(p, p')
  BY <1>3, SubmitFields DEF SamePass
<1>5. TypeOK'
  BY <1>1, <1>2, <1>4 DEF TypeOK
<1>6. Quiet' /\ Followed' /\ Unwinding'
  BY <1>1, <1>2, <1>4 DEF Quiet, Followed, Unwinding, InRange, SamePass
<1> QED
  BY <1>5, <1>6

\* Another satellite.
LEMMA RetargetStep ==
    ASSUME IInv, Retarget
    PROVE  IInv'
<1> USE DEF IInv
<1> DEFINE q == [p EXCEPT !.tracking = FALSE]
<1>1. /\ at = "key" /\ at' = "predict" /\ events < MaxEvents /\ events' = events + 1
      /\ dropped' = FALSE /\ retracked' = FALSE
      /\ pass' = NoPass \/ pass' \in Passes
      /\ UNCHANGED <<mode, az, fresh, lastAz, scan, pos, goal, set, echo, passes, home,
                     stopped, late>>
  BY DEF Retarget, shaftVars
<1>2. q \in Pointing /\ ~q.tracking /\ q.sat = p.sat /\ SameAim(p, q) /\ p' = ClearFlip(q)
  BY DEF Retarget, TypeOK, Pointing, SameAim
<1> HIDE DEF q
<1>3. p' \in Pointing /\ ~p'.tracking /\ ~p'.latch /\ p'.sat = p.sat /\ SameAim(p, p')
  BY <1>2, ClearFields DEF SameAim
<1>4. pass' \in [in : BOOLEAN, sky : Int, left : Nat, high : BOOLEAN]
      /\ events' \in 0..MaxEvents
  <2>1. NoPass \in [in : BOOLEAN, sky : Int, left : Nat, high : BOOLEAN]
    BY DEF NoPass
  <2>2. pass' \in Passes =>
          pass' \in [in : BOOLEAN, sky : Int, left : Nat, high : BOOLEAN]
    BY BoundAssumption DEF Passes
  <2>3. events' \in 0..MaxEvents
    BY <1>1, BoundAssumption DEF TypeOK
  <2> QED
    BY <1>1, <2>1, <2>2, <2>3
<1>5. TypeOK'
  BY <1>1, <1>3, <1>4 DEF TypeOK
<1>6. Quiet' /\ Followed'
  BY <1>1, <1>3 DEF Quiet, Followed, InRange, SameAim
<1>7. Unwinding'
  BY <1>1, <1>3 DEF Unwinding, FirstLeg, SecondLeg, SameAim
<1> QED
  BY <1>5, <1>6, <1>7

-----------------------------------------------------------------------------

\* The inductive invariant of the pointing.
THEOREM Inductive == Spec => []IInv
<1>1. Init => IInv
  <2> SUFFICES ASSUME Init
               PROVE  IInv
    OBVIOUS
  <2>1. pos \in Azimuths
    BY TrackingAssumption DEF Init, Azimuths
  <2>2. /\ p \in Pointing /\ p.wire = None /\ ~p.latch /\ ~p.tracking
    BY <2>1, AzimuthInt DEF Init, Pointing
  <2>3. TypeOK
    <3>1. pass \in [in : BOOLEAN, sky : Int, left : Nat, high : BOOLEAN]
          /\ scan \in [active : BOOLEAN, idx : 1..Len(Grid), dwell : BOOLEAN]
      BY GridIs DEF Init, NoPass
    <3>2. echo \in 0..EchoLen /\ events \in 0..MaxEvents /\ passes \in 0..MaxPasses
      BY BoundAssumption DEF Init
    <3>3. /\ {az, lastAz, pos, goal} \subseteq Azimuths /\ fresh \in BOOLEAN
          /\ mode \in Modes
      BY <2>1, AzimuthInt DEF Init
    <3>4. /\ at = "predict" /\ home = None /\ set = None /\ echo = 0
          /\ stopped = FALSE /\ late = None
          /\ dropped = FALSE /\ retracked = FALSE
      BY DEF Init
    <3>5. ~(echo > 0)
      BY <3>4
    <3>6. {stopped, dropped, retracked} \subseteq BOOLEAN
      BY <3>4, Zenon
    <3> QED
      BY <2>2, <3>1, <3>2, <3>3, <3>4, <3>5, <3>6 DEF TypeOK
  <2>4. Quiet /\ Followed /\ Unwinding
    BY <2>2 DEF Init, Quiet, Followed, Unwinding, InRange, NoPass
  <2> QED
    BY <2>3, <2>4 DEF IInv
<1>2. IInv /\ [Next]_vars => IInv'
  <2> SUFFICES ASSUME IInv, [Next]_vars
               PROVE  IInv'
    OBVIOUS
  <2>1. ASSUME /\ at' = at \/ (at # "tick" /\ at' \in {"key", "predict"})
               /\ UNCHANGED <<mode, p, az, fresh, lastAz, scan, pos, goal, set, echo, pass,
                              events, passes, home, stopped, late, dropped, retracked>>
        PROVE  IInv'
    BY <2>1 DEF IInv, TypeOK, Quiet, Followed, Unwinding, InRange, FirstLeg, SecondLeg
  <2>2. CASE RedrawSkipped \/ NoKey \/ UNCHANGED vars
    BY <2>1, <2>2 DEF RedrawSkipped, NoKey, vars, shaftVars, bounds, history
  <2> QED
    BY <2>2, TickStep, RedrawStep, StaleStep, TrackStep, ScanKeyStep, StopStep, ResetStep,
       JogStep, RetargetStep, WorkerStep, PredictStep DEF Next
<1> QED
  BY <1>1, <1>2, PTL DEF Spec

\* Type correctness: the targets, the SETs and the shaft stay in the rotator's
\* range, through homes, scans, jogs and passes.
THEOREM TypeSafe == Spec => []TypeOK
<1>1. IInv => TypeOK
  BY DEF IInv
<1> QED
  BY <1>1, Inductive, PTL

\* kb_act_stop: after s nothing puts a SET in the queue before the operator asks
\* for one; at most the SET that was in it goes out behind the STOP.
THEOREM StopSafe == Spec => []StopIsFinal
<1>1. IInv => StopIsFinal
  BY DEF IInv, Quiet, StopIsFinal
<1> QED
  BY <1>1, Inductive, PTL

\* tracking_tick follows the pass in range with the flip decision of that pass.
THEOREM TrackedSafe == Spec => []PassTracked
<1>1. IInv => PassTracked
  BY DEF IInv, TypeOK, Pointing, Followed, InRange, PassTracked
<1> QED
  BY <1>1, Inductive, PTL

\* point_to_stationary_target and home_leg2_ready: a home that nothing disturbs
\* only ever unwinds, for every rotator range, slew rate and length of the echo.
THEOREM HomeSafe == Spec => []HomeUnwinds
<1>1. IInv => HomeUnwinds
  <2> SUFFICES ASSUME IInv, home # None, Unwindable(home)
               PROVE  Between(pos, home.from, home.to)
    BY DEF HomeUnwinds
  <2>1. home \in Homes /\ pos \in Int
    BY AzimuthInt DEF IInv, TypeOK, Homes
  <2>2. /\ home.from \in Int /\ home.to \in Int /\ Middle(home) \in Int
        /\ home.from < home.to => home.from <= Middle(home) /\ Middle(home) < home.to
        /\ home.to < home.from => home.to < Middle(home) /\ Middle(home) <= home.from
    BY <2>1, MiddleIs
  <2>3. CASE FirstLeg(home)
    <3>1. Abs(home.to - home.from) > Half
      BY <2>3 DEF FirstLeg
    <3>2. home.to # home.from
      BY <2>2, <3>1, HalfTurn DEF Abs
    <3> QED
      BY <2>1, <2>2, <2>3, <3>2 DEF FirstLeg, Between
  <2>4. CASE SecondLeg(home)
    BY <2>4 DEF SecondLeg
  <2> QED
    BY <2>3, <2>4 DEF IInv, Unwinding
<1> QED
  BY <1>1, Inductive, PTL

-----------------------------------------------------------------------------
(* The rotator worker.                                                     *)

\* A command the worker has taken and not sent yet.
StopDue == worker = "stop" /\ do_stop
SetDue == worker \in {"stop", "set"} /\ do_set

\* AsyncTypeOK without its sets of variables, which the provers take one by
\* one; a request has a pointing, and so has a good snapshot.
Places ==
    /\ main \in {"loop", "kick", "enter", "waiting", "refresh", "join", "closed"}
    /\ worker \in {"wait", "stop", "set", "status", "publish", "exited"}
    /\ last \in Targets \cup {NoTarget, "stop"}
    /\ ctl \in Targets \cup {"stopped"}
    /\ submits \in 0..MaxSubmits /\ snap_good \in Nat /\ t_entry \in Nat

Flags ==
    /\ stop_requested \in BOOLEAN /\ set_pending \in BOOLEAN
    /\ stop_cmd_pending \in BOOLEAN /\ status_kick_pending \in BOOLEAN
    /\ snap_ok \in BOOLEAN /\ line_lost \in BOOLEAN /\ fd \in BOOLEAN
    /\ do_stop \in BOOLEAN /\ do_set \in BOOLEAN /\ do_status \in BOOLEAN
    /\ overtaken \in BOOLEAN

Pointings ==
    /\ set_target \in Targets \cup {NoTarget} /\ set_local \in Targets \cup {NoTarget}
    /\ snap_pos \in Targets \cup {NoTarget} /\ reply \in Targets \cup {NoTarget}
    /\ target \in Targets /\ antenna \in Targets
    /\ set_pending => set_target \in Targets
    /\ SetDue => set_local \in Targets
    /\ snap_ok => snap_pos \in Targets

Types == Places /\ Flags /\ Pointings

\* A last order STOP is queued, on its way or executed, and no pointing is
\* ahead of it.
StopOnItsWay ==
    /\ ~set_pending
    /\ stop_cmd_pending \/ (~SetDue /\ (StopDue \/ ctl = "stopped"))

\* A last order SET is queued (a queued STOP goes out before it), or taken
\* with no STOP left behind, or executed with nothing left to undo it.
SetOnItsWay ==
    \/ set_pending /\ set_target = last
    \/ /\ ~set_pending /\ ~stop_cmd_pending
       /\ \/ SetDue /\ set_local = last
          \/ ~SetDue /\ ~StopDue /\ ctl = last

\* Where the last order is, from its submission to the controller.
OrderTracked ==
    last # NoTarget /\ ~line_lost /\ ~overtaken =>
        IF last = "stop" THEN StopOnItsWay ELSE SetOnItsWay

\* The line is closed only by the main thread, after the join.
LineKept ==
    /\ fd = (main # "closed")
    /\ main = "closed" => worker = "exited"

OrderInv == Types /\ OrderTracked /\ LineKept

\* Every step keeps threads, orders and counters in their ranges.
LEMMA PlacesStep ==
    ASSUME Types, [AsyncNext]_asyncVars
    PROVE  Places'
<1> USE RotatorAssumption
    DEF Types, Places, Pointings, SetDue,
        reqVars, snapVars, localVars, ctlVars, notMain, notWorker
<1>1. ASSUME NEW t \in Targets, RequestSet(t) PROVE Places'
  BY <1>1 DEF RequestSet
<1>2. CASE StopSubmit \/ CloseRequest \/ CloseJoin
  BY <1>2 DEF StopSubmit, CloseRequest, CloseJoin
<1>3. CASE StopKick \/ WaitEnter \/ WaitDone \/ WaitTimeout \/ RefreshTargets
  BY <1>3 DEF StopKick, WaitEnter, WaitDone, WaitTimeout, RefreshTargets
<1>4. CASE WorkerTake
  BY <1>4 DEF WorkerTake
<1>5. CASE WorkerStop \/ WorkerSendSet
  BY <1>5 DEF WorkerStop, WorkerSendSet, Command
<1>6. CASE WorkerExit \/ WorkerStatus
  BY <1>6 DEF WorkerExit, WorkerStatus
<1>7. CASE WorkerPublish
  BY <1>7 DEF WorkerPublish
<1>8. CASE Move
  BY <1>8 DEF Move
<1>9. CASE UNCHANGED asyncVars
  BY <1>9 DEF asyncVars
<1> QED
  BY <1>1, <1>2, <1>3, <1>4, <1>5, <1>6, <1>7, <1>8, <1>9
     DEF AsyncNext, Main, Blocked, Worker, Exited

\* Every step keeps the flags Boolean.
LEMMA FlagsStep ==
    ASSUME Flags, [AsyncNext]_asyncVars
    PROVE  Flags'
<1> USE RotatorAssumption
    DEF Flags,
        reqVars, snapVars, localVars, ctlVars, notMain, notWorker
<1>1. ASSUME NEW t \in Targets, RequestSet(t) PROVE Flags'
  BY <1>1 DEF RequestSet
<1>2. CASE StopSubmit
  BY <1>2 DEF StopSubmit
<1>3. CASE CloseRequest
  BY <1>3 DEF CloseRequest
<1>4. CASE CloseJoin
  BY <1>4 DEF CloseJoin
<1>5. CASE StopKick
  BY <1>5 DEF StopKick
<1>6. CASE WaitEnter \/ WaitDone \/ WaitTimeout
  BY <1>6 DEF WaitEnter, WaitDone, WaitTimeout
<1>7. CASE RefreshTargets
  BY <1>7 DEF RefreshTargets
<1>8. CASE WorkerTake
  BY <1>8 DEF WorkerTake
<1>9. CASE WorkerStop
  BY <1>9 DEF WorkerStop, Command
<1>10. CASE WorkerSendSet
  BY <1>10 DEF WorkerSendSet, Command
<1>11. CASE WorkerExit \/ WorkerStatus
  BY <1>11 DEF WorkerExit, WorkerStatus
<1>12. CASE WorkerPublish
  BY <1>12 DEF WorkerPublish
<1>13. CASE Move
  BY <1>13 DEF Move
<1>14. CASE UNCHANGED asyncVars
  BY <1>14 DEF asyncVars
<1> QED
  BY <1>1, <1>2, <1>3, <1>4, <1>5, <1>6, <1>7, <1>8, <1>9, <1>10, <1>11, <1>12,
     <1>13, <1>14
     DEF AsyncNext, Main, Blocked, Worker, Exited

\* Every step keeps the pointings, and those that are needed are there.
LEMMA PointingsStep ==
    ASSUME Types, [AsyncNext]_asyncVars
    PROVE  Pointings'
<1> USE RotatorAssumption
    DEF Types, Places, Flags, Pointings, SetDue,
        reqVars, snapVars, localVars, ctlVars, notMain, notWorker
<1>1. ASSUME NEW t \in Targets, RequestSet(t) PROVE Pointings'
  BY <1>1 DEF RequestSet
<1>2. CASE StopSubmit \/ CloseRequest \/ CloseJoin
  BY <1>2 DEF StopSubmit, CloseRequest, CloseJoin
<1>3. CASE StopKick \/ WaitEnter \/ WaitDone \/ WaitTimeout \/ RefreshTargets
  BY <1>3 DEF StopKick, WaitEnter, WaitDone, WaitTimeout, RefreshTargets
<1>4. CASE WorkerTake
  BY <1>4 DEF WorkerTake
<1>5. CASE WorkerStop \/ WorkerSendSet
  BY <1>5 DEF WorkerStop, WorkerSendSet, Command
<1>6. CASE WorkerExit \/ WorkerStatus
  BY <1>6 DEF WorkerExit, WorkerStatus
<1>7. CASE WorkerPublish
  BY <1>7 DEF WorkerPublish
<1>8. CASE Move
  BY <1>8 DEF Move
<1>9. CASE UNCHANGED asyncVars
  BY <1>9 DEF asyncVars
<1> QED
  BY <1>1, <1>2, <1>3, <1>4, <1>5, <1>6, <1>7, <1>8, <1>9
     DEF AsyncNext, Main, Blocked, Worker, Exited

\* Every step keeps the types.
LEMMA TypesStep ==
    ASSUME Types, [AsyncNext]_asyncVars
    PROVE  Types'
BY PlacesStep, FlagsStep, PointingsStep DEF Types

\* Every step keeps track of which order is on its way to the rotator.
LEMMA OrderStep ==
    ASSUME Types, OrderTracked, [AsyncNext]_asyncVars
    PROVE  OrderTracked'
<1> USE RotatorAssumption
    DEF Types, Places, Flags, OrderTracked, StopOnItsWay, SetOnItsWay, StopDue, SetDue
<1>1. ASSUME NEW t \in Targets, RequestSet(t) PROVE OrderTracked'
  BY <1>1 DEF RequestSet, notMain, localVars, ctlVars
<1>2. CASE StopSubmit
  BY <1>2 DEF StopSubmit, notMain, localVars, ctlVars
<1>3. CASE CloseRequest
  BY <1>3 DEF CloseRequest, reqVars, notMain, localVars, ctlVars
<1>4. CASE Blocked
  BY <1>4 DEF Blocked, StopKick, WaitEnter, WaitDone, WaitTimeout, RefreshTargets,
              CloseJoin, reqVars, notMain, localVars, ctlVars
<1>5. CASE WorkerTake
  BY <1>5 DEF WorkerTake, notWorker, ctlVars
<1>6. CASE WorkerStop
  BY <1>6 DEF WorkerStop, Command, reqVars, notWorker, localVars
<1>7. CASE WorkerSendSet
  BY <1>7 DEF WorkerSendSet, Command, reqVars, notWorker, localVars
<1>8. CASE WorkerExit \/ WorkerStatus \/ WorkerPublish
  BY <1>8 DEF WorkerExit, WorkerStatus, WorkerPublish, reqVars, notWorker,
              localVars, ctlVars
<1>9. CASE Move
  BY <1>9 DEF Move, reqVars, notWorker, localVars
<1>10. CASE UNCHANGED asyncVars
  BY <1>10 DEF asyncVars, reqVars, localVars, ctlVars
<1> QED
  BY <1>1, <1>2, <1>3, <1>4, <1>5, <1>6, <1>7, <1>8, <1>9, <1>10
     DEF AsyncNext, Main, Worker, Exited

\* Every step keeps the line open until the worker has ended.
LEMMA LineStep ==
    ASSUME LineKept, [AsyncNext]_asyncVars
    PROVE  LineKept'
<1> USE DEF LineKept
<1>1. ASSUME NEW t \in Targets, RequestSet(t) PROVE LineKept'
  BY <1>1 DEF RequestSet, notMain
<1>2. CASE StopSubmit \/ CloseRequest \/ Blocked
  BY <1>2 DEF StopSubmit, CloseRequest, Blocked, StopKick, WaitEnter, WaitDone,
              WaitTimeout, RefreshTargets, CloseJoin, notMain
<1>3. CASE Worker
  BY <1>3 DEF Worker, WorkerExit, WorkerTake, WorkerStop, WorkerSendSet,
              WorkerStatus, WorkerPublish, notWorker
<1>4. CASE Move
  BY <1>4 DEF Move, notWorker
<1>5. CASE UNCHANGED asyncVars
  BY <1>5 DEF asyncVars
<1> QED
  BY <1>1, <1>2, <1>3, <1>4, <1>5 DEF AsyncNext, Main, Exited

\* The three parts together are inductive.
THEOREM OrderInductive == AsyncSpec => []OrderInv
<1>1. AsyncInit => OrderInv
  <2> SUFFICES ASSUME AsyncInit PROVE OrderInv
    OBVIOUS
  <2>1. Places
    BY RotatorAssumption DEF AsyncInit, Places
  <2>2. Flags
    BY DEF AsyncInit, Flags
  <2>3. Pointings
    BY DEF AsyncInit, Pointings, SetDue
  <2>4. OrderTracked /\ LineKept
    BY DEF AsyncInit, OrderTracked, LineKept
  <2> QED
    BY <2>1, <2>2, <2>3, <2>4 DEF OrderInv, Types
<1>2. OrderInv /\ [AsyncNext]_asyncVars => OrderInv'
  BY TypesStep, OrderStep, LineStep DEF OrderInv
<1> QED
  BY <1>1, <1>2, PTL DEF AsyncSpec

\* The last order wins: when the worker of antenna_rotator_async.c has nothing
\* left to do, the controller does what the main loop asked last, unless the
\* line lost a command or a STOP was submitted over a SET still queued.
THEOREM OrderSafe == AsyncSpec => []LastOrderWins
<1>1. OrderInv => LastOrderWins
  BY DEF OrderInv, OrderTracked, StopOnItsWay, SetOnItsWay, StopDue, SetDue,
         LastOrderWins, Drained
<1> QED
  BY OrderInductive, <1>1, PTL

\* antenna_rotator_async_close joins the worker before the line is closed.
THEOREM LineSafe == AsyncSpec => []LineOutlivesWorker
<1>1. OrderInv => LineOutlivesWorker
  BY DEF OrderInv, LineKept, LineOutlivesWorker
<1> QED
  BY OrderInductive, <1>1, PTL

-----------------------------------------------------------------------------
(* The queue of orders.                                                    *)

Order == Targets \cup {"stop"}

\* A queue that ends in one more order.
LEMMA QueueLast ==
    ASSUME NEW T, NEW s \in Seq(T), NEW x \in T
    PROVE  /\ s \o <<x>> \in Seq(T) /\ s \o <<x>> = Append(s, x) /\ s \o <<x>> # <<>>
           /\ (s \o <<x>>)[Len(s \o <<x>>)] = x
           /\ SubSeq(s \o <<x>>, 1, Len(s \o <<x>>) - 1) = s
<1>1. s \o <<x>> = Append(s, x) /\ Append(s, x) \in Seq(T)
  BY AppendProperties
<1>2. /\ Len(Append(s, x)) = Len(s) + 1 /\ Append(s, x)[Len(s) + 1] = x
      /\ \A i \in 1 .. Len(s) : Append(s, x)[i] = s[i]
  BY AppendProperties
<1>3. SubSeq(Append(s, x), 1, Len(s)) = s
  BY <1>1, <1>2
<1>4. Len(Append(s, x)) - 1 = Len(s) /\ Append(s, x) # <<>>
  BY <1>2
<1> QED
  BY <1>1, <1>2, <1>3, <1>4

\* A queue that begins with one more order.
LEMMA QueueFirst ==
    ASSUME NEW T, NEW s \in Seq(T), NEW x \in T
    PROVE  /\ <<x>> \o s \in Seq(T) /\ <<x>> \o s # <<>>
           /\ Head(<<x>> \o s) = x /\ Tail(<<x>> \o s) = s
<1>1. <<x>> \in Seq(T) /\ Len(<<x>>) = 1 /\ <<x>>[1] = x
  OBVIOUS
<1>2. /\ <<x>> \o s \in Seq(T) /\ Len(<<x>> \o s) = 1 + Len(s)
      /\ \A i \in 1 .. 1 + Len(s) : (<<x>> \o s)[i] = IF i <= 1 THEN <<x>>[i] ELSE s[i - 1]
  BY <1>1, ConcatProperties
<1>3. <<x>> \o s # <<>> /\ Head(<<x>> \o s) = x
  BY <1>1, <1>2
<1>4. Tail(<<x>> \o s) = s
  BY <1>1, <1>2
<1> QED
  BY <1>2, <1>3, <1>4

\* An order that may be there.
LEMMA QueueIf ==
    ASSUME NEW T, NEW cond \in BOOLEAN, NEW x, cond => x \in T
    PROVE  OrderIf(cond, x) \in Seq(T)
<1>1. CASE cond
  BY <1>1 DEF OrderIf
<1>2. CASE ~cond
  BY <1>2 DEF OrderIf
<1> QED
  BY <1>1, <1>2

\* The parts of the queue are queues.
LEMMA QueueType ==
    ASSUME Types
    PROVE  /\ OrderIf(StopDue, "stop") \in Seq(Order)
           /\ OrderIf(SetDue, set_local) \in Seq(Order)
           /\ OrderIf(stop_cmd_pending, "stop") \in Seq(Order)
           /\ OrderIf(set_pending, set_target) \in Seq(Order)
           /\ Taken \in Seq(Order) /\ Requested \in Seq(Order)
           /\ Taken = OrderIf(StopDue, "stop") \o OrderIf(SetDue, set_local)
           /\ Taken \o Requested \in Seq(Order)
<1>1. /\ OrderIf(StopDue, "stop") \in Seq(Order)
      /\ OrderIf(stop_cmd_pending, "stop") \in Seq(Order)
  <2>1. "stop" \in Order /\ StopDue \in BOOLEAN /\ stop_cmd_pending \in BOOLEAN
    BY DEF Order, Types, Flags, StopDue
  <2> QED
    BY <2>1, QueueIf
<1>2. /\ OrderIf(SetDue, set_local) \in Seq(Order)
      /\ OrderIf(set_pending, set_target) \in Seq(Order)
  <2>1. /\ SetDue \in BOOLEAN /\ set_pending \in BOOLEAN
        /\ SetDue => set_local \in Order
        /\ set_pending => set_target \in Order
    BY DEF Order, Types, Flags, Pointings, SetDue
  <2> QED
    BY <2>1, QueueIf
<1>3. Taken = OrderIf(StopDue, "stop") \o OrderIf(SetDue, set_local)
  BY DEF Taken, StopDue, SetDue
<1>4. Taken \in Seq(Order) /\ Requested \in Seq(Order)
  BY <1>1, <1>2, <1>3, ConcatProperties DEF Requested
<1>5. Taken \o Requested \in Seq(Order)
  BY <1>4, ConcatProperties
<1> QED
  BY <1>1, <1>2, <1>3, <1>4, <1>5

\* antenna_rotator_async_submit_set: behind what is requested, or in the place
\* of a pointing that is.
LEMMA SetOrder ==
    ASSUME OrderInv, NEW t \in Targets, RequestSet(t)
    PROVE  Orders!Set(t)
<1> DEFINE c == OrderIf(stop_cmd_pending, "stop")
<1>1. /\ Types /\ set_pending \in BOOLEAN /\ c \in Seq(Order) /\ Taken \in Seq(Order)
      /\ t \in Order /\ ~Closed /\ UNCHANGED <<ctl, Closed>>
  BY QueueType DEF OrderInv, Types, Flags, Order, RequestSet, Closed, notMain, ctlVars
<1>2. Taken' = Taken /\ Requested' = c \o <<t>>
  BY DEF RequestSet, notMain, localVars, Taken, Requested, OrderIf
<1>3. /\ Taken \o c \in Seq(Order) /\ c \o <<>> = c
      /\ Taken \o (c \o <<t>>) = (Taken \o c) \o <<t>>
  BY <1>1, ConcatProperties, ConcatEmptySeq, ConcatAssociative
<1>4. dueOrders' = Append(Taken \o c, t) /\ dueOrders = Taken \o Requested
  BY <1>1, <1>2, <1>3, QueueLast DEF dueOrders
<1>5. CASE ~set_pending
  <2>1. dueOrders = Taken \o c
    BY <1>1, <1>3, <1>5 DEF dueOrders, Requested, OrderIf
  <2> QED
    BY <1>1, <1>4, <2>1 DEF Orders!Set
<1>6. CASE set_pending
  <2>1. set_target \in Order /\ set_target # "stop"
    BY <1>1, <1>6, RotatorAssumption DEF Types, Pointings, Order
  <2>2. Requested = c \o <<set_target>>
    BY <1>6 DEF Requested, OrderIf
  <2>3. dueOrders = (Taken \o c) \o <<set_target>>
    BY <1>1, <2>1, <2>2, ConcatAssociative DEF dueOrders
  <2>4. /\ dueOrders # <<>> /\ dueOrders[Len(dueOrders)] = set_target
        /\ SubSeq(dueOrders, 1, Len(dueOrders) - 1) = Taken \o c
    BY <1>3, <2>1, <2>3, QueueLast
  <2> QED
    BY <1>1, <1>4, <2>1, <2>4 DEF Orders!Set, Orders!Newest, Orders!Front
<1> QED
  BY <1>1, <1>5, <1>6

\* stop_tracking: behind what is requested, ahead of a requested pointing, or
\* together with a STOP that is.
LEMMA StopOrder ==
    ASSUME OrderInv, StopSubmit
    PROVE  Orders!Stop \/ UNCHANGED Orders!ordersVars
<1> DEFINE d == OrderIf(set_pending, set_target)
<1>1. /\ Types /\ set_pending \in BOOLEAN /\ stop_cmd_pending \in BOOLEAN
      /\ d \in Seq(Order) /\ Taken \in Seq(Order) /\ "stop" \in Order
      /\ ~Closed /\ UNCHANGED <<ctl, Closed>> /\ dueOrders = Taken \o Requested
  BY QueueType
  DEF OrderInv, Types, Flags, Order, StopSubmit, Closed, notMain, ctlVars, dueOrders
<1>2. Taken' = Taken /\ Requested' = <<"stop">> \o d
  BY DEF StopSubmit, notMain, localVars, Taken, Requested, OrderIf
<1>3. dueOrders' = Taken \o (<<"stop">> \o d)
  BY <1>1, <1>2 DEF dueOrders
<1>4. CASE stop_cmd_pending
  <2>1. Requested = <<"stop">> \o d
    BY <1>4 DEF Requested, OrderIf
  <2> QED
    BY <1>1, <1>3, <2>1 DEF Orders!ordersVars
<1>5. CASE ~stop_cmd_pending /\ ~set_pending
  <2>1. d = <<>> /\ Requested = <<>> \o <<>> /\ <<"stop">> \in Seq(Order)
    BY <1>1, <1>5 DEF Requested, OrderIf
  <2>2. Requested = <<>> /\ <<"stop">> \o d = <<"stop">> /\ Taken \o <<>> = Taken
    BY <1>1, <2>1, ConcatEmptySeq
  <2>3. dueOrders = Taken /\ dueOrders' = Append(Taken, "stop")
    BY <1>1, <1>3, <2>2, QueueLast
  <2> QED
    BY <1>1, <2>3 DEF Orders!Stop
<1>6. CASE ~stop_cmd_pending /\ set_pending
  <2>1. set_target \in Order /\ set_target # "stop"
    BY <1>1, <1>6, RotatorAssumption DEF Types, Pointings, Order
  <2>2. d = <<set_target>> /\ Requested = <<>> \o d
    BY <1>6 DEF Requested, OrderIf
  <2>3. Requested = <<set_target>>
    <3>1. <<set_target>> \in Seq(Order) /\ <<>> \o <<set_target>> = <<set_target>>
      BY <2>1, ConcatEmptySeq
    <3> QED
      BY <2>2, <3>1
  <2>4. dueOrders = Taken \o <<set_target>>
    BY <1>1, <2>3
  <2>5. /\ dueOrders # <<>> /\ dueOrders[Len(dueOrders)] = set_target
        /\ SubSeq(dueOrders, 1, Len(dueOrders) - 1) = Taken
    BY <1>1, <2>1, <2>4, QueueLast
  <2>6. dueOrders' = Append(Append(Taken, "stop"), set_target)
    <3>1. <<"stop">> \in Seq(Order) /\ <<set_target>> \in Seq(Order)
      BY <1>1, <2>1
    <3>2. Taken \o (<<"stop">> \o <<set_target>>) = (Taken \o <<"stop">>) \o <<set_target>>
      BY <1>1, <3>1, ConcatAssociative
    <3>3. Taken \o <<"stop">> = Append(Taken, "stop") /\ Taken \o <<"stop">> \in Seq(Order)
      BY <1>1, QueueLast
    <3>4. (Taken \o <<"stop">>) \o <<set_target>> = Append(Taken \o <<"stop">>, set_target)
      BY <2>1, <3>3, QueueLast
    <3> QED
      BY <1>3, <2>2, <3>2, <3>3, <3>4, Zenon
  <2> QED
    BY <1>1, <2>1, <2>5, <2>6 DEF Orders!Stop, Orders!Newest, Orders!Front
<1> QED
  BY <1>1, <1>4, <1>5, <1>6

\* The worker takes what is requested: it stays due, in the same order.
LEMMA TakeOrder ==
    ASSUME OrderInv, WorkerTake
    PROVE  UNCHANGED Orders!ordersVars
<1>1. /\ Types /\ Requested \in Seq(Order) /\ worker = "wait" /\ ~Closed
      /\ UNCHANGED <<ctl, Closed>>
  BY QueueType DEF OrderInv, LineKept, WorkerTake, Closed, notWorker, ctlVars
<1>2. Taken = <<>> \o <<>> /\ Requested' = <<>> \o <<>>
  BY <1>1 DEF WorkerTake, Taken, Requested, OrderIf
<1>3. Taken' = Requested
  BY DEF WorkerTake, Taken, Requested, OrderIf
<1>4. <<>> \o <<>> = <<>> /\ <<>> \o Requested = Requested /\ Requested \o <<>> = Requested
  BY <1>1, ConcatEmptySeq
<1>5. dueOrders = Requested /\ dueOrders' = Requested
  BY <1>1, <1>2, <1>3, <1>4 DEF dueOrders
<1> QED
  BY <1>1, <1>5 DEF Orders!ordersVars

\* A command is sent or lost.
LEMMA CommandOrder ==
    ASSUME NEW c \in Order, NEW s \in Seq(Order), ~Closed, UNCHANGED Closed,
           dueOrders = <<c>> \o s, dueOrders' = s,
           Command(IF c = "stop" THEN "stopped" ELSE c)
    PROVE  Orders!Send \/ Orders!Lose
<1>1. dueOrders # <<>> /\ Head(dueOrders) = c /\ Tail(dueOrders) = s
  BY QueueFirst
<1>2. CASE ctl' = IF c = "stop" THEN "stopped" ELSE c
  BY <1>1, <1>2 DEF Orders!Send
<1>3. CASE UNCHANGED ctl
  BY <1>1, <1>3 DEF Orders!Lose
<1> QED
  BY <1>2, <1>3 DEF Command

\* What the worker sends is the oldest order that is due.
LEMMA SendOrder ==
    ASSUME OrderInv, WorkerStop \/ WorkerSendSet
    PROVE  Orders!Send \/ Orders!Lose \/ UNCHANGED Orders!ordersVars
<1> DEFINE b == OrderIf(SetDue, set_local)
<1>1. /\ Types /\ b \in Seq(Order) /\ Requested \in Seq(Order) /\ Taken \in Seq(Order)
      /\ "stop" \in Order /\ <<"stop">> \in Seq(Order)
      /\ worker \in {"stop", "set"} /\ ~Closed
      /\ UNCHANGED <<Closed, Requested>>
      /\ b \o Requested \in Seq(Order) /\ <<>> \o b = b /\ <<>> \o Requested = Requested
  <2>1. Types /\ b \in Seq(Order) /\ Requested \in Seq(Order) /\ Taken \in Seq(Order)
    BY QueueType DEF OrderInv
  <2>2. "stop" \in Order /\ <<"stop">> \in Seq(Order)
    BY DEF Order
  <2>3. worker \in {"stop", "set"} /\ ~Closed /\ UNCHANGED <<Closed, Requested>>
    BY DEF OrderInv, LineKept, WorkerStop, WorkerSendSet, Closed, notWorker, reqVars, Requested
  <2> QED
    BY <2>1, <2>2, <2>3, ConcatProperties, ConcatEmptySeq
<1>2. dueOrders = Taken \o Requested /\ dueOrders' = Taken' \o Requested
  BY <1>1 DEF dueOrders
<1>3. CASE WorkerStop
  <2>1. worker = "stop" /\ Taken = OrderIf(do_stop, "stop") \o b /\ Taken' = <<>> \o b
    BY <1>3 DEF WorkerStop, Taken, OrderIf, SetDue, localVars
  <2>2. CASE do_stop
    <3>1. dueOrders = <<"stop">> \o (b \o Requested) /\ dueOrders' = b \o Requested
      BY <1>1, <1>2, <2>1, <2>2, ConcatAssociative DEF OrderIf
    <3>2. Command("stopped")
      BY <1>3, <2>2 DEF WorkerStop
    <3> QED
      BY <1>1, <3>1, <3>2, CommandOrder
  <2>3. CASE ~do_stop
    <3>1. dueOrders' = dueOrders /\ UNCHANGED ctl
      BY <1>1, <1>2, <1>3, <2>1, <2>3 DEF WorkerStop, OrderIf
    <3> QED
      BY <1>1, <3>1 DEF Orders!ordersVars
  <2> QED
    BY <2>2, <2>3
<1>4. CASE WorkerSendSet
  <2>1. /\ Taken = <<>> \o OrderIf(do_set, set_local) /\ Taken' = <<>> \o <<>>
        /\ <<>> \o <<>> = <<>>
    BY <1>4, ConcatEmptySeq DEF WorkerSendSet, Taken, OrderIf, localVars
  <2>2. CASE do_set
    <3>1. /\ set_local \in Order /\ set_local # "stop" /\ <<set_local>> \in Seq(Order)
          /\ <<>> \o <<set_local>> = <<set_local>>
      BY <1>1, <1>4, <2>2, RotatorAssumption, ConcatEmptySeq
      DEF Types, Pointings, SetDue, Order, WorkerSendSet
    <3>2. dueOrders = <<set_local>> \o Requested /\ dueOrders' = Requested
      BY <1>1, <1>2, <2>1, <2>2, <3>1 DEF OrderIf
    <3>3. Command(set_local)
      BY <1>4, <2>2 DEF WorkerSendSet
    <3> QED
      BY <1>1, <3>1, <3>2, <3>3, CommandOrder
  <2>3. CASE ~do_set
    <3>1. dueOrders' = dueOrders /\ UNCHANGED ctl
      BY <1>2, <1>4, <2>1, <2>3 DEF WorkerSendSet, OrderIf
    <3> QED
      BY <1>1, <3>1 DEF Orders!ordersVars
  <2> QED
    BY <2>2, <2>3
<1> QED
  BY <1>3, <1>4

\* Every step maps to one step of the promise or to none.
LEMMA OrdersStep ==
    OrderInv /\ [AsyncNext]_asyncVars => [Orders!Next]_(Orders!ordersVars)
<1> SUFFICES ASSUME OrderInv, [AsyncNext]_asyncVars
             PROVE  [Orders!Next]_(Orders!ordersVars)
  OBVIOUS
<1>1. ASSUME NEW t \in Targets, RequestSet(t) PROVE Orders!Next
  BY <1>1, SetOrder DEF Orders!Next
<1>2. CASE StopSubmit
  BY <1>2, StopOrder DEF Orders!Next
<1>3. CASE CloseJoin
  <2>1. ~Closed /\ Closed' /\ UNCHANGED ctl /\ dueOrders' = <<>>
    BY <1>3 DEF CloseJoin, Closed, dueOrders, notMain, ctlVars
  <2> QED
    BY <2>1 DEF Orders!Next, Orders!Close
<1>4. CASE WorkerTake
  BY <1>4, TakeOrder
<1>5. CASE WorkerStop \/ WorkerSendSet
  BY <1>5, SendOrder DEF Orders!Next
<1>6. CASE CloseRequest \/ StopKick \/ WaitEnter \/ WaitDone \/ WaitTimeout \/ RefreshTargets
  <2>1. /\ UNCHANGED <<ctl, worker, do_stop, do_set, set_local>>
        /\ UNCHANGED <<stop_cmd_pending, set_pending, set_target>>
        /\ main # "closed" /\ main' # "closed"
    BY <1>6
    DEF CloseRequest, StopKick, WaitEnter, WaitDone, WaitTimeout, RefreshTargets, notMain,
        reqVars, localVars, ctlVars
  <2> QED
    BY <2>1 DEF Orders!ordersVars, dueOrders, Closed, Taken, Requested
<1>7. CASE WorkerExit \/ WorkerStatus \/ WorkerPublish \/ Move
  <2>1. /\ UNCHANGED <<main, ctl, do_stop, do_set, set_local>>
        /\ UNCHANGED <<stop_cmd_pending, set_pending, set_target>>
        /\ \/ UNCHANGED worker
           \/ worker \notin {"stop", "set"} /\ worker' \notin {"stop", "set"}
    BY <1>7
    DEF WorkerExit, WorkerStatus, WorkerPublish, Move, notWorker, reqVars, localVars, ctlVars
  <2>2. Taken' = Taken
    BY <2>1 DEF Taken, OrderIf
  <2> QED
    BY <2>1, <2>2 DEF Orders!ordersVars, dueOrders, Closed, Requested
<1>8. CASE UNCHANGED asyncVars
  <2>1. UNCHANGED <<Closed, ctl, Taken, Requested>>
    BY <1>8 DEF asyncVars, Closed, Taken, Requested, reqVars, localVars, ctlVars
  <2> QED
    BY <2>1 DEF Orders!ordersVars, dueOrders
<1> QED
  BY <1>1, <1>2, <1>3, <1>4, <1>5, <1>6, <1>7, <1>8
     DEF AsyncNext, Main, Blocked, Worker, Exited

\* The rotator worker implements RotatorOrders: for any pointings and any
\* number of orders, they reach the controller in order and at most once, a
\* newer pointing replacing an unsent one and a STOP overtaking it, and none
\* after the line is closed.
THEOREM OrdersRefinement == AsyncSpec => OrdersKept
<1>1. AsyncInit => Orders!Init
  <2> SUFFICES ASSUME AsyncInit PROVE Orders!Init
    OBVIOUS
  <2>1. Taken = <<>> \o <<>> /\ Requested = <<>> \o <<>> /\ <<>> \o <<>> = <<>>
    BY ConcatEmptySeq DEF AsyncInit, Taken, Requested, OrderIf
  <2> QED
    BY <2>1 DEF AsyncInit, Orders!Init, dueOrders, Closed
<1> QED
  BY <1>1, OrdersStep, OrderInductive, PTL DEF AsyncSpec, OrdersKept, Orders!Spec

\* Every variable of the rotator worker keeps its type.
THEOREM AsyncTypeSafe == AsyncSpec => []AsyncTypeOK
<1>1. OrderInv => AsyncTypeOK
  BY DEF OrderInv, Types, Places, Flags, Pointings, AsyncTypeOK
<1> QED
  BY <1>1, OrderInductive, PTL
=============================================================================
