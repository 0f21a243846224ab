------------------------- MODULE PassRecordingProofs -------------------------
(***************************************************************************)
(* Proofs about PassRecording.  For any passes, preroll and postroll: side *)
(* files live inside their WAV, every burst row has its end, and the exit  *)
(* leaves no recording open.  For passes that are apart and a preroll no   *)
(* shorter than the worker's lag: the file is open for the whole pass and  *)
(* closed after the postroll.                                              *)
(***************************************************************************)
EXTENDS PassRecording, TLAPS

\* The files are the worker's until it has ended, and then the closing
\* thread's.
Handed == main = "closed" => worker = "exited"

IInv == Handed /\ RecordingConsistent /\ FinalisedAtExit

\* Every step keeps the three parts.  The parts of RecordingConsistent need
\* only themselves; FinalisedAtExit needs that no worker is left to open a
\* file again.
LEMMA RecordingStep ==
    ASSUME IInv, [Next]_vars
    PROVE  IInv'
<1> USE DEF IInv, Handed, RecordingConsistent, SidecarsFollowWav,
            BurstRowsPaired, FinalisedAtExit
<1>1. CASE Gate
  BY <1>1 DEF Gate, notMain, fileVars
<1>2. CASE QuitRequestStop \/ CloseStop
  BY <1>2 DEF QuitRequestStop, CloseStop, notMain, fileVars
<1>3. CASE CloseFiles
  BY <1>3 DEF CloseFiles, notMain
<1>4. CASE WorkerTake
  BY <1>4 DEF WorkerTake, notWorker, fileVars
<1>5. CASE WorkerStart
  BY <1>5 DEF WorkerStart, workerRest, notWorker
<1>6. CASE WorkerNoChange
  BY <1>6 DEF WorkerNoChange, workerRest, notWorker, fileVars
<1>7. CASE WorkerStop
  BY <1>7 DEF WorkerStop, workerRest, notWorker
<1>8. CASE WorkerPump
  BY <1>8 DEF WorkerPump, notWorker, fileVars
<1>9. CASE WorkerSnapshot
  BY <1>9 DEF WorkerSnapshot, notWorker
<1>10. CASE Advance
  BY <1>10 DEF Advance, fileVars
<1>11. CASE UNCHANGED vars
  BY <1>11 DEF vars, fileVars
<1> QED
  BY <1>1, <1>2, <1>3, <1>4, <1>5, <1>6, <1>7, <1>8, <1>9, <1>10, <1>11
     DEF Next, Main, Worker, Exited

\* The invariant holds from rx_session_open on.
THEOREM Inductive == Spec => []IInv
<1>1. Init => IInv
  BY DEF Init, IInv, Handed, RecordingConsistent, SidecarsFollowWav,
         BurstRowsPaired, FinalisedAtExit
<1> QED
  BY <1>1, RecordingStep, PTL DEF Spec

\* A recording and its side files belong together, whatever the requests, the
\* failed opens and the burst tracker of rx_session.c did in between.
THEOREM RecordingSafe == Spec => []RecordingConsistent
BY Inductive, PTL DEF IInv

\* rx_session_close finalises WAV and .iq on every way out of the program.
THEOREM ExitSafe == Spec => []FinalisedAtExit
BY Inductive, PTL DEF IInv

-----------------------------------------------------------------------------
(* The recording of a pass in time.  What the gate asks for is, Lag units  *)
(* later, what it sees; in between the request is on its way.              *)

StopComing == wav_stop_req \/ (worker = "wav" /\ do_stop)
StartComing == wav_start_req \/ (worker = "wav" /\ do_start)

Closed == ~wav_fp /\ ~snap_wav_active /\ ~StartComing /\ ~StopComing
Open == wav_fp /\ snap_wav_active /\ ~StopComing

\* The start is on its way, and then: the worker's current iteration will not
\* pass by it.
Starting == (wav_fp \/ StartComing) /\ ~StopComing
StartSure ==
    /\ ~StopComing
    /\ \/ wav_fp
       \/ worker = "take" /\ wav_start_req
       \/ worker = "wav" /\ do_start

\* The same for the stop, which is asked for only once.
Stopped == ~wav_fp /\ ~StartComing /\ ~StopComing
StopTaken == worker = "wav" /\ do_stop /\ ~do_start /\ ~wav_start_req /\ ~wav_stop_req
StopAsked == wav_stop_req /\ ~wav_start_req /\ wav_fp /\ ~(worker = "wav" /\ do_stop)
Stopping == Stopped \/ StopTaken \/ StopAsked
StopSure == Stopped \/ StopTaken \/ (StopAsked /\ worker = "take")

\* From when on the gate wants pass p recorded, and for how long it matters.
Begin(p) == IF p.aos >= Preroll THEN p.aos - Preroll ELSE 0
End(p) == p.los + Postroll
Near(p) == Begin(p) <= now /\ now < End(p) + Lag

\* A deadline armed in the preroll lies within the pass.
Harmless(p) == close_at = 0 \/ close_at >= p.aos

Rise(p) ==
    /\ now = Begin(p) => IF gated THEN Starting /\ Harmless(p) ELSE Closed
    /\ now = Begin(p) + 1 =>
         /\ Starting /\ Harmless(p)
         /\ iterated => StartSure
    /\ now = Begin(p) + 2 =>
         /\ StartSure /\ Harmless(p)
         /\ iterated => Open

Hold(p) ==
    /\ Begin(p) + 3 <= now /\ now < End(p) => Open
    /\ Begin(p) + 3 <= now /\ now <= p.aos => Harmless(p)
    /\ Begin(p) + 3 <= now /\ p.aos <= now /\ now < p.los /\ gated => close_at = 0
    /\ Begin(p) + 3 < now /\ p.aos < now /\ now < p.los => close_at = 0
    /\ now = p.los /\ ~gated => close_at = 0
    /\ p.los <= now /\ now < End(p) /\ (gated \/ p.los < now) => close_at = End(p)

Fall(p) ==
    /\ now = End(p) =>
         IF gated THEN Stopping /\ (close_at = 0 \/ close_at >= End(p) + Lag)
                  ELSE Open /\ close_at = End(p)
    /\ now = End(p) + 1 =>
         /\ Stopping /\ (close_at = 0 \/ close_at >= End(p) + Lag)
         /\ iterated => StopSure
    /\ now = End(p) + 2 =>
         /\ StopSure /\ (close_at = 0 \/ close_at >= End(p) + Lag)
         /\ iterated => Closed

Gated ==
    /\ \A p \in Passes : Near(p) => Rise(p) /\ Hold(p) /\ Fall(p)
    /\ (\A p \in Passes : ~Near(p)) => Closed

Always ==
    /\ StartSure
    /\ iterated \/ now > 0 => wav_fp

Times == now \in Nat /\ close_at \in Nat /\ worker \in {"take", "wav", "pump", "snap", "exited"}

TimedInv == Times /\ (Healthy => IF always_record THEN Always ELSE Gated)

\* What the passes look like from the recording of one of them.
LEMMA Geometry ==
    ASSUME now \in Nat, NEW p \in Passes, Near(p)
    PROVE  /\ Visible <=> p.aos <= now /\ now < p.los
           /\ InPreroll <=> now < p.aos
<1>1. /\ p.aos \in Nat /\ p.los \in Nat /\ p.aos < p.los
      /\ \A q \in Passes : q.aos \in Nat /\ q.los \in Nat /\ q.aos < q.los
      /\ Preroll \in Nat /\ Postroll \in Nat
  BY PassAssumption
<1>2. ASSUME NEW q \in Passes, q # p
      PROVE  ~(q.aos <= now /\ now < q.los) /\ ~(now < q.aos /\ q.aos <= now + Preroll)
  BY <1>1, <1>2, ScheduleAssumption DEF Near, Begin, End, Lag
<1>3. now < p.aos => p.aos <= now + Preroll
  BY <1>1 DEF Near, Begin
<1> QED
  BY <1>1, <1>2, <1>3 DEF Visible, InPreroll

\* Away from every pass and its rolls the satellite is neither up nor due.
LEMMA Nothing ==
    ASSUME now \in Nat, \A p \in Passes : ~Near(p)
    PROVE  ~Visible /\ ~InPreroll
BY PassAssumption DEF Visible, InPreroll, Near, Begin, End, Lag

\* A step of the worker keeps what is on its way, and the one that ends an
\* iteration brings it one stage further.
WorkerKept ==
    /\ UNCHANGED <<now, gated, close_at, always_record, main>>
    /\ Closed => Closed'
    /\ Open => Open'
    /\ Starting => Starting'
    /\ StartSure => StartSure'
    /\ Stopping => Stopping'
    /\ StopSure => StopSure'
    /\ wav_fp /\ ~StopComing => wav_fp'
    /\ iterated' => \/ iterated
                    \/ /\ Starting => StartSure'
                       /\ StartSure => Open'
                       /\ Stopping => StopSure'
                       /\ StopSure => Closed'

\* Each step of a healthy worker does so, and the worker was healthy before.
LEMMA WorkerStep ==
    ASSUME Worker, Healthy'
    PROVE  WorkerKept /\ Healthy
<1> USE DEF WorkerKept, Healthy, Closed, Open, Starting, StartSure, Stopping,
            Stopped, StopTaken, StopAsked, StopSure, StopComing, StartComing
<1>1. CASE WorkerTake
  BY <1>1 DEF WorkerTake, notWorker, fileVars
<1>2. CASE WorkerStart
  BY <1>2 DEF WorkerStart, workerRest, notWorker
<1>3. CASE WorkerNoChange
  BY <1>3 DEF WorkerNoChange, workerRest, notWorker, fileVars
<1>4. CASE WorkerStop
  BY <1>4 DEF WorkerStop, workerRest, notWorker
<1>5. CASE WorkerPump
  BY <1>5 DEF WorkerPump, notWorker, fileVars
<1>6. CASE WorkerSnapshot
  BY <1>6 DEF WorkerSnapshot, notWorker
<1> QED
  BY <1>1, <1>2, <1>3, <1>4, <1>5, <1>6 DEF Worker

\* So the phases of a recording survive the steps of the worker.
LEMMA WorkerTimed ==
    ASSUME Times, WorkerKept
    PROVE  (Gated => Gated') /\ (Always => Always')
<1>1. ASSUME Gated PROVE Gated'
  <2>1. ASSUME NEW p \in Passes, Near(p)'
        PROVE  Rise(p)' /\ Hold(p)' /\ Fall(p)'
    <3>1. Near(p) /\ Rise(p) /\ Hold(p) /\ Fall(p)
      BY <1>1, <2>1 DEF Gated, Near, Begin, End, Lag, WorkerKept
    <3>2. Rise(p)'
      BY <3>1 DEF Rise, Harmless, Begin, WorkerKept
    <3>3. Hold(p)'
      BY <3>1 DEF Hold, Harmless, Begin, End, WorkerKept
    <3>4. Fall(p)'
      BY <3>1 DEF Fall, End, WorkerKept
    <3> QED
      BY <3>2, <3>3, <3>4
  <2>2. (\A p \in Passes : ~Near(p)') => Closed'
    BY <1>1 DEF Gated, Near, Begin, End, Lag, WorkerKept
  <2> QED
    BY <2>1, <2>2 DEF Gated
<1>2. ASSUME Always PROVE Always'
  BY <1>2 DEF Always, WorkerKept, StartSure, Open, Times
<1> QED
  BY <1>1, <1>2

\* The gate asks for what the phase of the pass needs, once.
LEMMA GateTimed ==
    ASSUME Times, Gate
    PROVE  /\ ~always_record /\ Gated => Gated'
           /\ always_record /\ Always => Always'
<1> USE DEF Times
<1>0. /\ UNCHANGED <<now, wav_fp, snap_wav_active, worker, do_start, do_stop, iterated>>
      /\ gated'
  BY DEF Gate, notMain, fileVars
<1>1. ASSUME ~always_record, Gated PROVE Gated'
  <2>1. ASSUME NEW p \in Passes, Near(p)'
        PROVE  Rise(p)' /\ Hold(p)' /\ Fall(p)'
    <3>1. Near(p) /\ Rise(p) /\ Hold(p) /\ Fall(p)
      BY <1>0, <1>1, <2>1 DEF Gated, Near, Begin, End
    <3>2. /\ Visible <=> p.aos <= now /\ now < p.los
          /\ InPreroll <=> now < p.aos
      BY <3>1, Geometry
    <3>3. /\ p.aos \in Nat /\ p.los \in Nat /\ p.aos < p.los /\ Lag < p.los
          /\ Preroll \in Nat /\ Postroll \in Nat
          /\ Lag <= Preroll /\ Preroll <= Postroll
      BY PassAssumption, ScheduleAssumption
    <3>4. Rise(p)'
      BY <1>0, <1>1, <3>1, <3>2, <3>3
         DEF Gate, Rise, Harmless, Begin, Starting, StartSure, Open, Closed,
             StartComing, StopComing, RequestStart, RequestStop, PostrollEnd, Lag
    <3>5. Hold(p)'
      BY <1>0, <1>1, <3>1, <3>2, <3>3
         DEF Gate, Hold, Harmless, Begin, End, Open, Near,
             StopComing, RequestStart, RequestStop, PostrollEnd, Lag
    <3>6. Fall(p)'
      BY <1>0, <1>1, <3>1, <3>2, <3>3
         DEF Gate, Fall, End, Open, Closed, Stopping, StopSure, Stopped, StopTaken,
             StopAsked, StartComing, StopComing, RequestStart, RequestStop,
             PostrollEnd, Lag
    <3> QED
      BY <3>4, <3>5, <3>6
  <2>2. ASSUME \A p \in Passes : ~Near(p)'
        PROVE  Closed'
    <3>1. \A p \in Passes : ~Near(p)
      BY <1>0, <2>2 DEF Near, Begin, End
    <3>2. Closed /\ ~Visible /\ ~InPreroll
      BY <1>1, <3>1, Nothing DEF Gated
    <3> QED
      BY <1>0, <1>1, <3>2 DEF Gate, Closed, StartComing, StopComing
  <2> QED
    BY <2>1, <2>2 DEF Gated
<1>2. ASSUME always_record, Always PROVE Always'
  BY <1>0, <1>2 DEF Gate, Always, StartSure, StopComing
<1> QED
  BY <1>1, <1>2

\* Time passes when gate and worker have had their turn, and each phase ends
\* in the state the next begins with.
LEMMA AdvanceTimed ==
    ASSUME Times, Advance, Healthy
    PROVE  (Gated => Gated') /\ (Always => Always')
<1> USE DEF Times
<1>0. /\ UNCHANGED <<close_at, wav_fp, snap_wav_active, worker, do_start, do_stop,
                     wav_start_req, wav_stop_req>>
      /\ now' = now + 1 /\ gated /\ iterated /\ ~gated' /\ ~iterated'
  BY DEF Advance, Healthy, reqVars, fileVars
<1>1. /\ Closed' <=> Closed
      /\ Open' <=> Open
      /\ Starting' <=> Starting
      /\ StartSure' <=> StartSure
      /\ Stopping' <=> Stopping
      /\ StopSure' <=> StopSure
  BY <1>0 DEF Closed, Open, Starting, StartSure, Stopping, StopSure, Stopped, StopTaken,
              StopAsked, StartComing, StopComing
<1>2. ASSUME Gated PROVE Gated'
  <2>1. ASSUME NEW p \in Passes, Near(p)'
        PROVE  Rise(p)' /\ Hold(p)' /\ Fall(p)'
    <3>1. /\ p.aos \in Nat /\ p.los \in Nat /\ p.aos < p.los /\ Lag < p.los
          /\ Preroll \in Nat /\ Postroll \in Nat
          /\ Lag <= Preroll /\ Preroll <= Postroll
      BY PassAssumption, ScheduleAssumption
    <3>2. CASE Near(p)
      <4>1. Rise(p) /\ Hold(p) /\ Fall(p)
        BY <1>2, <3>2 DEF Gated
      <4>2. Rise(p)'
        BY <1>0, <1>1, <3>1, <3>2, <4>1 DEF Rise, Harmless, Near, Begin
      <4>3. Hold(p)'
        BY <1>0, <1>1, <3>1, <3>2, <4>1 DEF Rise, Hold, Harmless, Near, Begin, End, Lag
      <4>4. Fall(p)'
        BY <1>0, <1>1, <3>1, <3>2, <4>1 DEF Hold, Fall, Near, Begin, End, Lag
      <4> QED
        BY <4>2, <4>3, <4>4
    <3>3. CASE ~Near(p)
      <4>1. now' = Begin(p)
        BY <1>0, <2>1, <3>1, <3>3 DEF Near, Begin, End, Lag
      <4>2. ASSUME NEW q \in Passes, Near(q)
            PROVE  Closed
        <5>1. now = End(q) + 2
          BY <1>0, <3>1, <3>3, <4>1, <4>2, PassAssumption, ScheduleAssumption
             DEF Near, Begin, End, Lag
        <5>2. Fall(q)
          BY <1>2, <4>2 DEF Gated
        <5> QED
          BY <1>0, <5>1, <5>2, PassAssumption DEF Fall, End
      <4>3. Closed'
        BY <1>1, <1>2, <4>2 DEF Gated
      <4> QED
        BY <1>0, <3>1, <4>1, <4>3 DEF Rise, Hold, Fall, Begin, End, Lag
    <3> QED
      BY <3>2, <3>3
  <2>2. ASSUME \A p \in Passes : ~Near(p)'
        PROVE  Closed'
    <3>1. CASE \A p \in Passes : ~Near(p)
      BY <1>1, <1>2, <3>1 DEF Gated
    <3>2. ASSUME NEW p \in Passes, Near(p)
          PROVE  Closed'
      <4>1. now = End(p) + 2
        BY <1>0, <2>2, <3>2, PassAssumption DEF Near, Begin, End, Lag
      <4>2. Fall(p)
        BY <1>2, <3>2 DEF Gated
      <4> QED
        BY <1>0, <1>1, <4>1, <4>2, PassAssumption DEF Fall, End
    <3> QED
      BY <3>1, <3>2
  <2> QED
    BY <2>1, <2>2 DEF Gated
<1>3. ASSUME Always PROVE Always'
  BY <1>0, <1>1, <1>3 DEF Always
<1> QED
  BY <1>2, <1>3

\* Every step keeps the recording in the phase the clock asks for.
LEMMA TimedStep ==
    ASSUME TimedInv, [Next]_vars
    PROVE  TimedInv'
<1> USE DEF TimedInv
<1>1. Times'
  <2>1. CASE Gate
    BY <2>1, PassAssumption DEF Gate, notMain, Times, PostrollEnd
  <2>2. CASE QuitRequestStop \/ CloseStop \/ CloseFiles
    BY <2>2 DEF QuitRequestStop, CloseStop, CloseFiles, notMain, Times
  <2>3. CASE WorkerTake \/ WorkerStart \/ WorkerNoChange
    BY <2>3 DEF WorkerTake, WorkerStart, WorkerNoChange, workerRest, notWorker, Times
  <2>4. CASE WorkerStop \/ WorkerPump \/ WorkerSnapshot
    BY <2>4 DEF WorkerStop, WorkerPump, WorkerSnapshot, workerRest, notWorker, Times
  <2>5. CASE Advance
    BY <2>5 DEF Advance, Times
  <2>6. CASE UNCHANGED vars
    BY <2>6 DEF vars, Times
  <2> QED
    BY <2>1, <2>2, <2>3, <2>4, <2>5, <2>6 DEF Next, Main, Worker, Exited
<1>2. ASSUME Healthy'
      PROVE  IF always_record' THEN Always' ELSE Gated'
  <2>1. CASE Gate
    <3>1. Healthy /\ always_record' = always_record
      BY <1>2, <2>1 DEF Gate, notMain, Healthy, fileVars
    <3> QED
      BY <2>1, <3>1, GateTimed
  <2>2. CASE QuitRequestStop \/ CloseStop \/ CloseFiles
    BY <1>2, <2>2 DEF QuitRequestStop, CloseStop, CloseFiles, Healthy
  <2>3. CASE Worker
    <3>1. WorkerKept /\ Healthy
      BY <1>2, <2>3, WorkerStep
    <3> QED
      BY <3>1, WorkerTimed DEF WorkerKept
  <2>4. CASE Advance
    <3>1. Healthy /\ always_record' = always_record
      BY <1>2, <2>4 DEF Advance, Healthy, fileVars
    <3> QED
      BY <2>4, <3>1, AdvanceTimed
  <2>5. CASE UNCHANGED vars
    <3>1. /\ Healthy /\ always_record' = always_record
          /\ Always => Always'
          /\ Gated => Gated'
      BY <1>2, <2>5
         DEF vars, reqVars, fileVars, Healthy, Always, Gated, Near, Rise, Hold, Fall,
             Harmless, Closed, Open, Starting, StartSure, Stopping, StopSure, Stopped,
             StopTaken, StopAsked, StartComing, StopComing
    <3> QED
      BY <3>1
  <2> QED
    BY <2>1, <2>2, <2>3, <2>4, <2>5 DEF Next, Main, Exited
<1> QED
  BY <1>1, <1>2

\* In every reachable state the recording is where the clock says.
THEOREM TimedInductive == Spec => []TimedInv
<1>1. Init => TimedInv
  <2> SUFFICES ASSUME Init PROVE TimedInv
    OBVIOUS
  <2>1. Times
    BY DEF Init, Times
  <2>2. ~always_record => Closed
    BY DEF Init, Closed, StartComing, StopComing
  <2>3. always_record => Always
    BY DEF Init, Always, StartSure, StopComing
  <2>4. ASSUME Closed PROVE Gated
    <3>1. now = 0 /\ ~gated
      BY DEF Init
    <3>2. ASSUME NEW p \in Passes, Near(p)
          PROVE  Rise(p) /\ Hold(p) /\ Fall(p)
      BY <2>4, <3>1, <3>2, PassAssumption, ScheduleAssumption
         DEF Near, Rise, Hold, Fall, Begin, End, Lag
    <3> QED
      BY <2>4, <3>2 DEF Gated
  <2> QED
    BY <2>1, <2>2, <2>3, <2>4 DEF TimedInv
<1> QED
  BY <1>1, TimedStep, PTL DEF Spec

\* The satellite is never above the horizon without a recording, for any
\* passes that are apart and any preroll of Lag units or more: the gate of
\* apps/main.c and the worker of rx_session.c, however late each sees the other.
THEOREM PassSafe == Spec => []WholePassRecorded
<1>1. TimedInv => WholePassRecorded
  <2> SUFFICES ASSUME TimedInv, Healthy, Visible, Lag <= now PROVE wav_fp
    BY DEF WholePassRecorded
  <2>1. PICK p \in Passes : p.aos <= now /\ now < p.los
    BY DEF Visible
  <2>2. Near(p) /\ Begin(p) + 3 <= now /\ now < End(p)
    BY <2>1, PassAssumption, ScheduleAssumption
       DEF TimedInv, Times, Near, Begin, End, Lag
  <2> QED
    BY <2>2 DEF TimedInv, Times, Always, Gated, Hold, Open, Lag
<1> QED
  BY TimedInductive, <1>1, PTL

\* A recording ends with the postroll of its pass, although the gate sees the
\* file closed only later and has armed another deadline by then.
THEOREM ClosedSafe == Spec => []PassFileClosed
<1>1. TimedInv => PassFileClosed
  <2> SUFFICES ASSUME TimedInv, Healthy, ~always_record, wav_fp
               PROVE  \E p \in Passes : p.aos <= now + Preroll
                                        /\ now < p.los + Postroll + Lag
    BY DEF PassFileClosed
  <2>1. PICK p \in Passes : Near(p)
    BY DEF TimedInv, Gated, Closed
  <2> QED
    BY <2>1, PassAssumption DEF TimedInv, Times, Near, Begin, End
<1> QED
  BY TimedInductive, <1>1, PTL
=============================================================================
