---------------------------- MODULE PassRecording ----------------------------
(***************************************************************************)
(* Recording of a pass: the gate in the main loop (apps/main.c), which     *)
(* decides from the geometry and from the worker's last snapshot, and the  *)
(* RX worker (pipeline/rx_session.c), which owns the WAV and its sidecar   *)
(* files and learns of the decision through two request flags.             *)
(*                                                                         *)
(* The clock counts units long enough for the main loop to run its gate    *)
(* and for the worker to finish an iteration (a recv returns within one    *)
(* second); the two are otherwise free to interleave.                      *)
(***************************************************************************)
EXTENDS Integers

CONSTANTS
    Passes,        \* passes of the satellite, records [aos, los]
    Preroll,       \* RECORDING_PREROLL_S
    Postroll,      \* RECORDING_POSTROLL_S
    MaxTime        \* bound on the clock

ASSUME PassAssumption ==
    /\ {Preroll, Postroll, MaxTime} \subseteq Nat
    /\ Passes \subseteq [aos: Nat, los: Nat]
    /\ \A p \in Passes : p.aos < p.los

\* The units from a request of the gate to the snapshot that shows its effect.
Lag == 3

\* RECORDING_PREROLL_S and RECORDING_POSTROLL_S are equal and many iterations
\* long; passes of a satellite are an orbit apart; a pass that has begun when
\* the program starts lasts long enough for the recording to start.
ASSUME ScheduleAssumption ==
    /\ Lag <= Preroll /\ Preroll <= Postroll
    /\ \A p \in Passes : Lag < p.los
    /\ \A p, q \in Passes :
         p = q \/ p.los + Postroll + Lag <= q.aos - Preroll
               \/ q.los + Postroll + Lag <= p.aos - Preroll

VARIABLES
    always_record,                    \* --always-record
    now, gated, iterated,             \* the clock and what ran in this unit
    main,                             \* where the main thread is
    close_at,                         \* t_recording_close_at
    wav_start_req, wav_stop_req, stop_requested, device_lost,
    snap_wav_active,                  \* under mu
    worker,                           \* where the RX worker is
    do_start, do_stop,                \* its locals
    wav_fp, iq_fp, burst_fp, lo_fp,   \* open files (lo_fp: lo_offset_fp)
    burst_in_progress,
    unpaired,                         \* the last burst.csv: a start, no end
    open_failed                       \* history: some wav_w_open failed

reqVars == <<wav_start_req, wav_stop_req, stop_requested>>
fileVars == <<wav_fp, iq_fp, burst_fp, lo_fp, burst_in_progress, unpaired,
              open_failed>>
vars == <<always_record, now, gated, iterated, main, close_at, reqVars,
          device_lost, snap_wav_active, worker, do_start, do_stop, fileVars>>

Visible == \E p \in Passes : p.aos <= now /\ now < p.los
InPreroll == \E p \in Passes : now < p.aos /\ p.aos <= now + Preroll

Init ==
    /\ always_record \in BOOLEAN
    /\ now = 0 /\ gated = FALSE /\ iterated = FALSE
    /\ main = "loop" /\ close_at = 0
    /\ wav_start_req = always_record /\ wav_stop_req = FALSE
    /\ stop_requested = FALSE /\ device_lost = FALSE
    /\ snap_wav_active = FALSE
    /\ worker = "take" /\ do_start = FALSE /\ do_stop = FALSE
    /\ wav_fp = FALSE /\ iq_fp = FALSE /\ burst_fp = FALSE /\ lo_fp = FALSE
    /\ burst_in_progress = FALSE /\ unpaired = FALSE
    /\ open_failed = FALSE

-----------------------------------------------------------------------------
(* The main thread.                                                        *)

notMain == <<always_record, device_lost, snap_wav_active, worker, do_start,
             do_stop, iterated>>

\* rx_session_request_wav_start and _stop: each withdraws the other.
RequestStart == wav_start_req' = TRUE /\ wav_stop_req' = FALSE
RequestStop  == wav_stop_req' = TRUE /\ wav_start_req' = FALSE

\* The deadline the gate arms when the satellite has set.
PostrollEnd == now + Postroll

\* Mutants of Gate: the pending close is not cancelled while the satellite is
\* up; a start leaves an old deadline in place.
GateNoCancel ==
    /\ main = "loop"
    /\ gated' = TRUE
    /\ IF always_record THEN UNCHANGED <<close_at, wav_start_req, wav_stop_req>>
       ELSE IF ~snap_wav_active /\ (Visible \/ InPreroll)
         THEN RequestStart /\ close_at' = 0
       ELSE IF snap_wav_active /\ close_at = 0
         THEN close_at' = PostrollEnd /\ UNCHANGED <<wav_start_req, wav_stop_req>>
       ELSE IF snap_wav_active /\ now >= close_at
         THEN RequestStop /\ close_at' = 0
       ELSE UNCHANGED <<close_at, wav_start_req, wav_stop_req>>
    /\ UNCHANGED <<notMain, now, main, stop_requested, fileVars>>

GateKeepsDeadline ==
    /\ main = "loop"
    /\ gated' = TRUE
    /\ IF always_record THEN UNCHANGED <<close_at, wav_start_req, wav_stop_req>>
       ELSE IF ~snap_wav_active /\ (Visible \/ InPreroll)
         THEN RequestStart /\ UNCHANGED close_at
       ELSE IF snap_wav_active /\ Visible
         THEN UNCHANGED <<close_at, wav_start_req, wav_stop_req>>
       ELSE IF snap_wav_active /\ close_at = 0
         THEN close_at' = PostrollEnd /\ UNCHANGED <<wav_start_req, wav_stop_req>>
       ELSE IF snap_wav_active /\ now >= close_at
         THEN RequestStop /\ close_at' = 0
       ELSE UNCHANGED <<close_at, wav_start_req, wav_stop_req>>
    /\ UNCHANGED <<notMain, now, main, stop_requested, fileVars>>

\* One pass through the recording gate.
Gate ==
    /\ main = "loop"
    /\ gated' = TRUE
    /\ IF always_record THEN UNCHANGED <<close_at, wav_start_req, wav_stop_req>>
       ELSE IF ~snap_wav_active /\ (Visible \/ InPreroll)
         THEN RequestStart /\ close_at' = 0
       ELSE IF snap_wav_active /\ Visible
         THEN close_at' = 0 /\ UNCHANGED <<wav_start_req, wav_stop_req>>
       ELSE IF snap_wav_active /\ close_at = 0
         THEN close_at' = PostrollEnd /\ UNCHANGED <<wav_start_req, wav_stop_req>>
       ELSE IF snap_wav_active /\ now >= close_at
         THEN RequestStop /\ close_at' = 0
       ELSE UNCHANGED <<close_at, wav_start_req, wav_stop_req>>
    /\ UNCHANGED <<notMain, now, main, stop_requested, fileVars>>

\* Time passes.
Advance ==
    /\ now < MaxTime
    /\ main = "loop" => gated
    /\ worker # "exited" => iterated
    /\ now' = now + 1
    /\ gated' = FALSE /\ iterated' = FALSE
    /\ UNCHANGED <<always_record, main, close_at, reqVars, device_lost,
                   snap_wav_active, worker, do_start, do_stop, fileVars>>

\* The end of main(): a last request to stop recording, then
\* rx_session_close with its stop flag, join and file closing.
QuitRequestStop ==
    /\ main = "loop"
    /\ main' = "closing"
    /\ RequestStop
    /\ UNCHANGED <<notMain, now, gated, close_at, stop_requested, fileVars>>

CloseStop ==
    /\ main = "closing"
    /\ main' = "join"
    /\ stop_requested' = TRUE
    /\ UNCHANGED <<notMain, now, gated, close_at, wav_start_req, wav_stop_req,
                   fileVars>>

\* Mutant of CloseFiles: nothing is closed when the device was lost.
CloseFilesUnlessLost ==
    /\ main = "join"
    /\ worker = "exited"
    /\ main' = "closed"
    /\ IF device_lost THEN UNCHANGED <<wav_fp, iq_fp>>
                      ELSE wav_fp' = FALSE /\ iq_fp' = FALSE
    /\ UNCHANGED <<notMain, now, gated, close_at, reqVars, burst_fp, lo_fp,
                   burst_in_progress, unpaired, open_failed>>

CloseFiles ==
    /\ main = "join"
    /\ worker = "exited"
    /\ main' = "closed"
    /\ wav_fp' = FALSE /\ iq_fp' = FALSE
    /\ UNCHANGED <<notMain, now, gated, close_at, reqVars, burst_fp, lo_fp,
                   burst_in_progress, unpaired, open_failed>>

-----------------------------------------------------------------------------
(* The RX worker.                                                          *)

notWorker == <<always_record, now, gated, main, close_at, stop_requested>>

WorkerTake ==
    /\ worker = "take"
    /\ do_start' = wav_start_req /\ do_stop' = wav_stop_req
    /\ wav_start_req' = FALSE /\ wav_stop_req' = FALSE
    /\ worker' = IF stop_requested THEN "exited" ELSE "wav"
    /\ UNCHANGED <<notWorker, device_lost, snap_wav_active, iterated, fileVars>>

workerRest == <<notWorker, wav_start_req, wav_stop_req, device_lost,
                snap_wav_active, do_start, do_stop, iterated>>

\* worker_wav_start: nothing if already open; a failed WAV open leaves the
\* sidecars closed; each sidecar may fail on its own.
WorkerStart ==
    /\ worker = "wav"
    /\ do_start /\ ~wav_fp
    /\ worker' = "pump"
    /\ \/ /\ open_failed' = TRUE
          /\ UNCHANGED <<wav_fp, iq_fp, burst_fp, lo_fp, burst_in_progress,
                         unpaired>>
       \/ /\ wav_fp' = TRUE
          /\ iq_fp' \in BOOLEAN
          /\ burst_fp' \in BOOLEAN
          /\ lo_fp' \in BOOLEAN
          /\ burst_in_progress' = FALSE
          /\ unpaired' = FALSE
          /\ UNCHANGED open_failed
    /\ UNCHANGED workerRest

WorkerNoChange ==
    /\ worker = "wav"
    /\ ~do_stop
    /\ do_start => wav_fp
    /\ worker' = "pump"
    /\ UNCHANGED <<workerRest, fileVars>>

\* Mutant of WorkerStop: burst.csv is closed without the end row.
WorkerStopNoEndRow ==
    /\ worker = "wav"
    /\ do_stop
    /\ worker' = "pump"
    /\ wav_fp' = FALSE /\ iq_fp' = FALSE /\ lo_fp' = FALSE /\ burst_fp' = FALSE
    /\ UNCHANGED <<workerRest, burst_in_progress, unpaired, open_failed>>

\* worker_wav_stop: every file is closed, open or not, and a burst in
\* progress gets its end row first.
WorkerStop ==
    /\ worker = "wav"
    /\ do_stop
    /\ worker' = "pump"
    /\ wav_fp' = FALSE /\ iq_fp' = FALSE /\ lo_fp' = FALSE /\ burst_fp' = FALSE
    /\ IF burst_fp
         THEN burst_in_progress' = FALSE /\ unpaired' = FALSE
         ELSE UNCHANGED <<burst_in_progress, unpaired>>
    /\ UNCHANGED <<workerRest, open_failed>>

\* worker_pump_once; a fatal error parks the worker.
WorkerPump ==
    /\ worker = "pump"
    /\ \/ worker' = "snap" /\ UNCHANGED device_lost
       \/ worker' = "exited" /\ device_lost' = TRUE
    /\ UNCHANGED <<notWorker, wav_start_req, wav_stop_req, snap_wav_active,
                   do_start, do_stop, iterated, fileVars>>

\* worker_update_snapshot with burst_log_step: a burst may begin or end.
WorkerSnapshot ==
    /\ worker = "snap"
    /\ worker' = "take"
    /\ snap_wav_active' = wav_fp
    /\ iterated' = TRUE
    /\ IF burst_fp
         THEN burst_in_progress' \in BOOLEAN /\ unpaired' = burst_in_progress'
         ELSE UNCHANGED <<burst_in_progress, unpaired>>
    /\ UNCHANGED <<notWorker, wav_start_req, wav_stop_req, device_lost,
                   do_start, do_stop, wav_fp, iq_fp, burst_fp, lo_fp,
                   open_failed>>

-----------------------------------------------------------------------------
Main == Gate \/ QuitRequestStop \/ CloseStop \/ CloseFiles
Worker == \/ WorkerTake \/ WorkerStart \/ WorkerNoChange \/ WorkerStop
          \/ WorkerPump \/ WorkerSnapshot
Exited == main = "closed" /\ UNCHANGED vars

Next == Main \/ Worker \/ Advance \/ Exited

Spec == Init /\ [][Next]_vars

-----------------------------------------------------------------------------
(* Type invariant of the module.                                           *)
TypeOK ==
    /\ now \in 0..MaxTime
    /\ {always_record, gated, iterated, wav_start_req, wav_stop_req,
        stop_requested, device_lost, snap_wav_active, do_start, do_stop, wav_fp,
        iq_fp, burst_fp, lo_fp, burst_in_progress, unpaired, open_failed}
         \subseteq BOOLEAN
    /\ main \in {"loop", "closing", "join", "closed"}
    /\ worker \in {"take", "wav", "pump", "snap", "exited"}
    /\ close_at \in Nat

Healthy == main = "loop" /\ worker # "exited" /\ ~open_failed

\* The file is open for the whole pass (of one that has begun at start-up, for
\* its rest): no combination of a late snapshot, a deadline armed during the
\* preroll or a stop request still in the queue leaves the satellite above the
\* horizon and nothing being recorded.
WholePassRecorded ==
    Healthy /\ Visible /\ Lag <= now => wav_fp

\* After the postroll the recording ends: it does not run into the idle time
\* between passes, although the gate sees the file state only one snapshot
\* late and may arm a second deadline.  Lag units are left for the worker to
\* take the request and for the gate to see it.
PassFileClosed ==
    (Healthy /\ ~always_record /\ wav_fp) =>
        \E p \in Passes : p.aos <= now + Preroll /\ now < p.los + Postroll + Lag

\* The sidecars live inside the life of their WAV file: worker_wav_start
\* opens none for a WAV that could not be opened, and none is still written
\* to when the WAV is gone.  (rx_session_close closes the WAV and the .iq
\* and leaves the lo_offset log to the exit of the process.)
SidecarsFollowWav ==
    main # "closed" => ((iq_fp \/ lo_fp) => wav_fp)

\* A burst.csv that was closed has an end row for every start row, also when
\* a new recording began in the meantime.
BurstRowsPaired == ~burst_fp => ~unpaired

\* A recording and its side files belong together (worker_wav_start and
\* worker_wav_stop in pipeline/rx_session.c), whatever the two request flags,
\* the failed opens and the burst tracker did in between: no side file without
\* its WAV, and no closed burst.csv with a start row left open.
RecordingConsistent == SidecarsFollowWav /\ BurstRowsPaired

\* Whatever way the program leaves its loop, also after a lost device, the
\* WAV header is patched and the .iq flushed before the renderers run.
FinalisedAtExit == main = "closed" => ~wav_fp /\ ~iq_fp
=============================================================================
