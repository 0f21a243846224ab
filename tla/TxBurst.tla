------------------------------- MODULE TxBurst -------------------------------
(***************************************************************************)
(* The transmit path: the main loop that stages and services the one slot  *)
(* (apps/main.c, ui/tx_compose.c, ui/auto_tcmd.c, pipeline/tx_burst.c),    *)
(* the TX thread that runs a burst and the RX worker that streams beside   *)
(* it (pipeline/rx_session.c), and the device lock they share              *)
(* (hw/sdr_uhd.c).                                                         *)
(*                                                                         *)
(* rxs->mu protects each group of assignments that is one action here; no  *)
(* action of the model holds it across a step.  dev_mu is held across      *)
(* device calls and so is a variable.                                      *)
(***************************************************************************)

CONSTANTS
    Requests,   \* the transmissions the operator or the run file stages
    Tracked,    \* those whose text carries an @tssent= directive
    None

VARIABLES
    cfg,                \* command line and hardware, fixed once started
    main,               \* where the main thread is
    running,            \* state.app.running
    pending,            \* state.tx.tx_request.pending
    tx_request,         \* the request in the slot (stale once pending = 0)
    tx_inflight,        \* state.tx.tx_inflight
    outcome,            \* outcome[r]: the tx-result audit line of r
    stop_requested, device_lost,                       \* rx_session_t, under mu
    burst_req_pending, burst_in_flight, burst_complete,
    burst_req, burst_result,
    worker,             \* where the RX worker is
    txpc,               \* where the TX thread is
    req, br,            \* its locals: the burst it took and how it ended
    dev_mu,             \* holder of sdr_uhd.dev_mu
    tx_powered,         \* sdr_uhd.tx_powered: the TX chain is mapped
    unmap,              \* history: what became of the mapping since the open
    core,               \* the device handle
    staged,             \* history: requests staged so far
    staged_lost,        \* history: those staged after the device was lost
    air,                \* history: how much of r was emitted
    sent_tcmd           \* rows of the sent_tcmd table

mainVars  == <<main, running, pending, tx_request, tx_inflight, outcome,
               staged, staged_lost>>
burstVars == <<burst_req_pending, burst_in_flight, burst_complete, burst_req,
               burst_result>>
txVars    == <<txpc, req, br, tx_powered, unmap, air, sent_tcmd>>
vars == <<cfg, mainVars, stop_requested, device_lost, burstVars, worker, txVars,
          dev_mu, core>>

Sdr == {"none", "rx_only", "tx"}
Cfg == [dry_run: BOOLEAN, hmac_key: BOOLEAN, sdr: Sdr, db: BOOLEAN]
MainPc == {"input", "service", "bottom", "stop", "join_rx", "join_tx",
           "close_core", "closed"}
WorkerPc == {"requests", "lock", "recv", "lost", "exited"}
TxPc == {"wait", "build", "lock", "config", "send", "rest", "clock",
         "relock", "power_down", "record", "publish", "exited"}
Results == {"ok", "no_core", "frame_build", "uhd_error"}
Refusals == {"dry-run", "no HMAC key", "RX-only", "busy", "no B210"}
Outcomes == Refusals \cup Results

ASSUME RequestsAssumption == /\ Tracked \subseteq Requests
                             /\ None \notin Requests \cup Outcomes

HasSession == cfg.sdr # "none"

\* uhd_open leaves the TX chain mapped; no burst has had the device yet.
Init ==
    /\ cfg \in Cfg
    /\ main = "input" /\ running = TRUE
    /\ pending = FALSE /\ tx_request = None /\ tx_inflight = FALSE
    /\ outcome = [r \in Requests |-> None]
    /\ stop_requested = FALSE /\ device_lost = FALSE
    /\ burst_req_pending = FALSE /\ burst_in_flight = FALSE
    /\ burst_complete = FALSE /\ burst_req = None /\ burst_result = "ok"
    /\ worker = IF HasSession THEN "requests" ELSE "exited"
    /\ txpc = IF HasSession THEN "wait" ELSE "exited"
    /\ req = None /\ br = "ok"
    /\ dev_mu = "free" /\ tx_powered = (cfg.sdr = "tx") /\ unmap = "never"
    /\ core = IF HasSession THEN "open" ELSE "closed"
    /\ staged = {} /\ staged_lost = {}
    /\ air = [r \in Requests |-> "none"]
    /\ sent_tcmd = {}

-----------------------------------------------------------------------------
(* The main thread: one iteration is input -> service -> bottom.           *)

sessionVars == <<cfg, stop_requested, device_lost, worker, txVars, dev_mu, core>>

\* A tick in which nothing is staged: no key, a refused commit, a paced run.
InputNothing ==
    /\ main = "input"
    /\ main' = "service"
    /\ UNCHANGED <<sessionVars, burstVars, running, pending, tx_request,
                   tx_inflight, outcome, staged, staged_lost>>

\* tx_compose_commit and auto_tcmd_tick stage a request.  Both return early
\* while the slot is pending.  The compose form also refuses an RX-only SDR;
\* the automatic run does not, so a request can be staged on one.
Stage(r) ==
    /\ main = "input"
    /\ ~pending
    /\ r \notin staged
    /\ main' = "service"
    /\ pending' = TRUE
    /\ tx_request' = r
    /\ staged' = staged \cup {r}
    /\ staged_lost' = IF device_lost THEN staged_lost \cup {r} ELSE staged_lost
    /\ UNCHANGED <<sessionVars, burstVars, running, tx_inflight, outcome>>

\* The operator's quit key; the rest of the iteration still runs.
InputQuit ==
    /\ main = "input"
    /\ main' = "service"
    /\ running' = FALSE
    /\ UNCHANGED <<sessionVars, burstVars, pending, tx_request, tx_inflight,
                   outcome, staged, staged_lost>>

ServiceIdle ==
    /\ main = "service"
    /\ ~pending
    /\ main' = "bottom"
    /\ UNCHANGED <<sessionVars, burstVars, running, pending, tx_request,
                   tx_inflight, outcome, staged, staged_lost>>

\* Paths 1 and 3 and the two refusals before the radio is asked.
Refusal ==
    IF cfg.dry_run THEN "dry-run"
    ELSE IF ~cfg.hmac_key THEN "no HMAC key"
    ELSE IF cfg.sdr = "rx_only" THEN "RX-only"
    ELSE IF cfg.sdr = "none" THEN "no B210"
    ELSE None

\* The tail of tx_burst_service_request: event, audit line, slot freed.
Finish(o) ==
    /\ outcome' = [outcome EXCEPT ![tx_request] = o]
    /\ pending' = FALSE

ServiceRefuse ==
    /\ main = "service"
    /\ pending
    /\ Refusal # None
    /\ main' = "bottom"
    /\ Finish(Refusal)
    /\ UNCHANGED <<sessionVars, burstVars, running, tx_request, tx_inflight,
                   staged, staged_lost>>

\* rx_session_submit_burst refuses while a result is still to be reaped.
SubmitRefused == burst_req_pending \/ burst_in_flight \/ burst_complete

ServiceSubmit ==
    /\ main = "service"
    /\ pending
    /\ Refusal = None
    /\ ~tx_inflight
    /\ main' = "bottom"
    /\ IF SubmitRefused
         THEN /\ Finish("busy")
              /\ UNCHANGED <<burstVars, tx_inflight>>
         ELSE /\ burst_req' = tx_request
              /\ burst_complete' = FALSE
              /\ burst_req_pending' = TRUE
              /\ tx_inflight' = TRUE
              /\ UNCHANGED <<burst_in_flight, burst_result, pending, outcome>>
    /\ UNCHANGED <<sessionVars, running, tx_request, staged, staged_lost>>

\* Mutant of ServicePoll: the slot is freed on every poll, done or not.
ServicePollFrees ==
    /\ main = "service"
    /\ pending
    /\ Refusal = None
    /\ tx_inflight
    /\ main' = "bottom"
    /\ burst_complete' = FALSE
    /\ tx_inflight' = FALSE
    /\ Finish(burst_result)
    /\ UNCHANGED <<sessionVars, running, tx_request, staged, staged_lost,
                   burst_req_pending, burst_in_flight, burst_req, burst_result>>

ServicePoll ==
    /\ main = "service"
    /\ pending
    /\ Refusal = None
    /\ tx_inflight
    /\ main' = "bottom"
    /\ IF burst_complete
         THEN /\ burst_complete' = FALSE
              /\ tx_inflight' = FALSE
              /\ Finish(burst_result)
         ELSE UNCHANGED <<burst_complete, tx_inflight, pending, outcome>>
    /\ UNCHANGED <<sessionVars, running, tx_request, staged, staged_lost,
                   burst_req_pending, burst_in_flight, burst_req, burst_result>>

\* The end of the iteration: SIGUSR1 (yield), SIGINT and SIGTERM leave the
\* loop as well as the quit key.
Bottom ==
    /\ main = "bottom"
    /\ \E signal \in BOOLEAN :
         /\ running' = (running /\ ~signal)
         /\ main' = IF running' THEN "input" ELSE "stop"
    /\ UNCHANGED <<sessionVars, burstVars, pending, tx_request, tx_inflight,
                   outcome, staged, staged_lost>>

\* rx_session_close: stop_requested and a broadcast, then the two joins.
CloseStop ==
    /\ main = "stop"
    /\ IF HasSession
         THEN main' = "join_rx" /\ stop_requested' = TRUE
         ELSE main' = "closed" /\ UNCHANGED stop_requested
    /\ UNCHANGED <<cfg, device_lost, worker, txVars, dev_mu, core, burstVars,
                   running, pending, tx_request, tx_inflight, outcome, staged,
                   staged_lost>>

JoinWorker ==
    /\ main = "join_rx"
    /\ worker = "exited"
    /\ main' = "join_tx"
    /\ UNCHANGED <<sessionVars, burstVars, running, pending, tx_request,
                   tx_inflight, outcome, staged, staged_lost>>

JoinTx ==
    /\ main = "join_tx"
    /\ txpc = "exited"
    /\ main' = "close_core"
    /\ UNCHANGED <<sessionVars, burstVars, running, pending, tx_request,
                   tx_inflight, outcome, staged, staged_lost>>

\* A lost device is leaked, not closed.
CloseCore ==
    /\ main = "close_core"
    /\ main' = "closed"
    /\ core' = IF device_lost THEN core ELSE "closed"
    /\ UNCHANGED <<cfg, stop_requested, device_lost, worker, txVars, dev_mu,
                   burstVars, running, pending, tx_request, tx_inflight,
                   outcome, staged, staged_lost>>

-----------------------------------------------------------------------------
(* The RX worker: take the requests, then pump one chunk under dev_mu.     *)

notWorker == <<cfg, mainVars, stop_requested, burstVars, txVars, core>>

WorkerTakeRequests ==
    /\ worker = "requests"
    /\ worker' = IF stop_requested THEN "exited" ELSE "lock"
    /\ UNCHANGED <<notWorker, device_lost, dev_mu>>

WorkerLock ==
    /\ worker = "lock"
    /\ dev_mu = "free"
    /\ dev_mu' = "rx"
    /\ worker' = "recv"
    /\ UNCHANGED <<notWorker, device_lost>>

\* recv returns; a run of errors long enough is a dead link.
WorkerRecv ==
    /\ worker = "recv"
    /\ dev_mu' = "free"
    /\ worker' \in {"requests", "lost"}
    /\ UNCHANGED <<notWorker, device_lost>>

WorkerLost ==
    /\ worker = "lost"
    /\ device_lost' = TRUE
    /\ worker' = "exited"
    /\ UNCHANGED <<notWorker, dev_mu>>

-----------------------------------------------------------------------------
(* The TX thread: rx_session_tx_thread_fn, tx_burst_run, uhd_tx_burst.     *)

notTx == <<cfg, mainVars, stop_requested, device_lost, worker, core>>
txHistory == <<air, sent_tcmd>>

TxExit ==
    /\ txpc = "wait"
    /\ stop_requested
    /\ txpc' = "exited"
    /\ UNCHANGED <<notTx, burstVars, req, br, tx_powered, unmap, txHistory, dev_mu>>

\* Mutant of TxTake: the lost device is not looked at.
TxTakeIgnoresLoss ==
    /\ txpc = "wait"
    /\ ~stop_requested
    /\ burst_req_pending
    /\ req' = burst_req
    /\ burst_req_pending' = FALSE
    /\ burst_in_flight' = TRUE
    /\ txpc' = "build"
    /\ UNCHANGED <<notTx, burst_complete, burst_req, burst_result, br,
                   tx_powered, unmap, txHistory, dev_mu>>

TxTake ==
    /\ txpc = "wait"
    /\ ~stop_requested
    /\ burst_req_pending
    /\ req' = burst_req
    /\ burst_req_pending' = FALSE
    /\ burst_in_flight' = TRUE
    /\ IF device_lost
         THEN txpc' = "publish" /\ br' = "no_core"
         ELSE txpc' = "build" /\ UNCHANGED br
    /\ UNCHANGED <<notTx, burst_complete, burst_req, burst_result, tx_powered,
                   unmap, txHistory, dev_mu>>

\* build_iq either frames and modulates the payload or fails.
TxBuild ==
    /\ txpc = "build"
    /\ \/ txpc' = "lock" /\ UNCHANGED br
       \/ txpc' = "publish" /\ br' = "frame_build"
    /\ UNCHANGED <<notTx, burstVars, req, tx_powered, unmap, txHistory, dev_mu>>

TxLock ==
    /\ txpc = "lock"
    /\ dev_mu = "free"
    /\ dev_mu' = "tx"
    /\ txpc' = "config"
    /\ unmap' = "due"
    /\ UNCHANGED <<notTx, burstVars, req, br, tx_powered, txHistory>>

\* Mutant of TxConfig: a configuration failure unlocks and returns without
\* the resume label.
TxConfigNoResume ==
    /\ txpc = "config"
    /\ \/ /\ txpc' = "publish" /\ br' = "uhd_error"
          /\ tx_powered' \in {tx_powered, TRUE}
          /\ dev_mu' = "free"
       \/ /\ txpc' = "send"
          /\ tx_powered' = TRUE
          /\ dev_mu' = "free"
          /\ UNCHANGED br
    /\ UNCHANGED <<notTx, burstVars, req, unmap, txHistory>>

\* tx_power_up fails, or it maps the chain and a later call of the
\* configuration fails, or all succeed and the lock is dropped.
TxConfig ==
    /\ txpc = "config"
    /\ \/ /\ txpc' = "power_down" /\ br' = "uhd_error"
          /\ tx_powered' \in {tx_powered, TRUE}
          /\ UNCHANGED dev_mu
       \/ /\ txpc' = "send"
          /\ tx_powered' = TRUE
          /\ dev_mu' = "free"
          /\ UNCHANGED br
    /\ UNCHANGED <<notTx, burstVars, req, unmap, txHistory>>

\* Mutant of TxSend: rc starts at 0 instead of -1.
TxSendRcZero ==
    /\ txpc = "send"
    /\ \/ /\ txpc' = "relock" /\ br' = "ok"
          /\ UNCHANGED air
       \/ /\ txpc' = "rest"
          /\ air' = [air EXCEPT ![req] = "part"]
          /\ UNCHANGED br
    /\ UNCHANGED <<notTx, burstVars, req, tx_powered, unmap, sent_tcmd, dev_mu>>

\* The send loop: a metadata or send call fails before the first chunk, or
\* the first chunk goes out.
TxSend ==
    /\ txpc = "send"
    /\ \/ /\ txpc' = "relock" /\ br' = "uhd_error"
          /\ UNCHANGED air
       \/ /\ txpc' = "rest"
          /\ air' = [air EXCEPT ![req] = "part"]
          /\ UNCHANGED br
    /\ UNCHANGED <<notTx, burstVars, req, tx_powered, unmap, sent_tcmd, dev_mu>>

\* A later chunk fails, or all went out.
TxSendRest ==
    /\ txpc = "rest"
    /\ \/ txpc' = "relock" /\ br' = "uhd_error"
       \/ txpc' = "clock" /\ UNCHANGED br
    /\ UNCHANGED <<notTx, burstVars, req, tx_powered, unmap, txHistory, dev_mu>>

\* The device clock is read for the time left to wait, without dev_mu.  The
\* wait, of that length or of the budget if the read failed, outlasts the
\* emission; rc = 0 either way.
TxDrain ==
    /\ txpc = "clock"
    /\ txpc' = "relock"
    /\ br' = "ok"
    /\ air' = [air EXCEPT ![req] = "full"]
    /\ UNCHANGED <<notTx, burstVars, req, tx_powered, unmap, sent_tcmd, dev_mu>>

TxRelock ==
    /\ txpc = "relock"
    /\ dev_mu = "free"
    /\ dev_mu' = "tx"
    /\ txpc' = "power_down"
    /\ UNCHANGED <<notTx, burstVars, req, br, tx_powered, unmap, txHistory>>

\* Mutants of TxPowerDown: the row is written whatever the result was; the
\* lock is not released.
TxPowerDownRecords ==
    /\ txpc = "power_down"
    /\ \/ tx_powered' = FALSE /\ unmap' = "done"
       \/ tx_powered /\ unmap' = "failed" /\ UNCHANGED tx_powered
    /\ dev_mu' = "free"
    /\ txpc' = "record"
    /\ UNCHANGED <<notTx, burstVars, req, br, txHistory>>

TxPowerDownKeepsLock ==
    /\ txpc = "power_down"
    /\ \/ tx_powered' = FALSE /\ unmap' = "done"
       \/ tx_powered /\ unmap' = "failed" /\ UNCHANGED tx_powered
    /\ txpc' = IF br = "ok" THEN "record" ELSE "publish"
    /\ UNCHANGED <<notTx, burstVars, req, br, txHistory, dev_mu>>

\* tx_power_down: nothing to do if the chain was never mapped; unmapping it
\* may fail, and the burst's result is not changed by that.
TxPowerDown ==
    /\ txpc = "power_down"
    /\ \/ tx_powered' = FALSE /\ unmap' = "done"
       \/ tx_powered /\ unmap' = "failed" /\ UNCHANGED tx_powered
    /\ dev_mu' = "free"
    /\ txpc' = IF br = "ok" THEN "record" ELSE "publish"
    /\ UNCHANGED <<notTx, burstVars, req, br, txHistory>>

\* worker_record_sent_tcmd: needs a database and an @tssent directive, and
\* the insert itself may fail.
TxRecord ==
    /\ txpc = "record"
    /\ txpc' = "publish"
    /\ \/ UNCHANGED sent_tcmd
       \/ /\ cfg.db /\ req \in Tracked
          /\ sent_tcmd' = sent_tcmd \cup {req}
    /\ UNCHANGED <<notTx, burstVars, req, br, tx_powered, unmap, air, dev_mu>>

\* Mutant of TxPublish: the result is stored but not announced.
TxPublishSilent ==
    /\ txpc = "publish"
    /\ txpc' = "wait"
    /\ burst_result' = br
    /\ burst_in_flight' = FALSE
    /\ UNCHANGED <<notTx, burst_req_pending, burst_complete, burst_req, req, br,
                   tx_powered, unmap, txHistory, dev_mu>>

TxPublish ==
    /\ txpc = "publish"
    /\ txpc' = "wait"
    /\ burst_result' = br
    /\ burst_in_flight' = FALSE
    /\ burst_complete' = TRUE
    /\ UNCHANGED <<notTx, burst_req_pending, burst_req, req, br, tx_powered,
                   unmap, txHistory, dev_mu>>

-----------------------------------------------------------------------------
MainLoop ==
    \/ InputNothing \/ InputQuit \/ \E r \in Requests : Stage(r)
    \/ ServiceIdle \/ ServiceRefuse \/ ServiceSubmit \/ ServicePoll
    \/ Bottom

Close == CloseStop \/ JoinWorker \/ JoinTx \/ CloseCore

Worker == WorkerTakeRequests \/ WorkerLock \/ WorkerRecv \/ WorkerLost

Tx == \/ TxExit \/ TxTake \/ TxBuild \/ TxConfig \/ TxSend \/ TxSendRest
      \/ TxDrain \/ TxPowerDown \/ TxRecord \/ TxPublish

\* The process is gone.
Exited == main = "closed" /\ UNCHANGED vars

Next == MainLoop \/ Close \/ Worker \/ Tx \/ TxLock \/ TxRelock \/ Exited

Spec == Init /\ [][Next]_vars

\* Every thread that can take a step takes it (no call on these paths blocks
\* without a timeout).  The TX thread competes for dev_mu with a worker that
\* takes it again for every chunk, so the two acquisitions need more: that
\* it wins one of infinitely many chances.
FairSpec ==
    /\ Spec
    /\ WF_vars(MainLoop) /\ WF_vars(Close) /\ WF_vars(Worker) /\ WF_vars(Tx)
    /\ SF_vars(TxLock) /\ SF_vars(TxRelock)

-----------------------------------------------------------------------------
(* Type invariant of the module.                                           *)
FlagTypes ==
    /\ running \in BOOLEAN /\ pending \in BOOLEAN /\ tx_inflight \in BOOLEAN
    /\ stop_requested \in BOOLEAN /\ device_lost \in BOOLEAN
    /\ burst_req_pending \in BOOLEAN /\ burst_in_flight \in BOOLEAN
    /\ burst_complete \in BOOLEAN
    /\ tx_powered \in BOOLEAN

DataTypes ==
    /\ cfg \in Cfg
    /\ main \in MainPc
    /\ worker \in WorkerPc
    /\ txpc \in TxPc
    /\ tx_request \in Requests \cup {None}
    /\ burst_req \in Requests \cup {None} /\ req \in Requests \cup {None}
    /\ burst_result \in Results /\ br \in Results
    /\ outcome \in [Requests -> Outcomes \cup {None}]
    /\ air \in [Requests -> {"none", "part", "full"}]
    /\ dev_mu \in {"free", "rx", "tx"}
    /\ unmap \in {"never", "due", "done", "failed"}
    /\ core \in {"open", "closed"}
    /\ staged \subseteq Requests /\ staged_lost \subseteq Requests
    /\ sent_tcmd \subseteq Requests

TypeOK == FlagTypes /\ DataTypes

-----------------------------------------------------------------------------
(* Safety.                                                                 *)

InLoop == main \in {"input", "service", "bottom"}

\* The handshake of rx_session_submit_burst, the TX thread and
\* rx_session_poll_burst never holds two bursts: a burst is queued,
\* transmitting or waiting to be reaped, one at most, exactly while the main
\* thread has one in flight, and then the slot is occupied.  So a submission
\* is never refused as busy and a result is never overwritten unread.
SlotExclusive ==
    /\ ~(burst_req_pending /\ burst_in_flight)
    /\ ~(burst_req_pending /\ burst_complete)
    /\ ~(burst_in_flight /\ burst_complete)
    /\ tx_inflight <=> SubmitRefused
    /\ tx_inflight => pending

\* The tx-result audit line is true when it is written and stays true: "ok"
\* exactly when every sample of that very request was emitted, and a request
\* refused before the radio was asked is never heard, then or later.
ReportTruthful ==
    \A r \in Requests : outcome[r] # None =>
        /\ outcome[r] = "ok" <=> air[r] = "full"
        /\ outcome[r] # "uhd_error" /\ outcome[r] # "ok" => air[r] = "none"

\* Once a burst has had the device, the TX chain is unmapped whenever the TX
\* thread is not inside a burst, as uhd_tx_burst's resume label promises,
\* unless the unmapping call of the last burst failed.  Before the first burst
\* this says nothing: uhd_open leaves the chain mapped (sdr_uhd.c:177-179) and
\* nothing unmaps it until then, although sdr_uhd.c:440-442 and 457-460 speak
\* of nothing on the antenna while receiving.
QuietBetweenBursts ==
    txpc \in {"wait", "build", "record", "publish", "exited"} =>
        (tx_powered => unmap \in {"never", "failed"})

\* rx_session_close frees the device only after both threads that call it
\* are gone.
HandleOutlivesThreads ==
    core = "closed" => worker = "exited" /\ txpc = "exited"

\* The TX thread is in a call on the device handle, of the configuration, the
\* clock or the power-down; the RX worker is in one while it receives.
TxInHandle == txpc \in {"config", "clock", "power_down"}
RxInHandle == worker = "recv"

\* dev_mu serialises the calls of both threads on the device handle: its
\* holder is where it believes it is, and two calls overlap only if one is the
\* clock read of the send loop's end, which takes no lock (sdr_uhd.c:647)
\* although sdr_uhd.c:64-71 counts get_time_now among the calls to serialise.
DeviceCallsExclusive ==
    /\ RxInHandle <=> dev_mu = "rx"
    /\ TxInHandle /\ txpc # "clock" <=> dev_mu = "tx"
    /\ RxInHandle /\ TxInHandle => txpc = "clock"

\* The sent_tcmd table the agenda tools read names only telecommands that
\* were completely emitted, even if the process leaves before saying so.
RecordedOnlyIfSent == \A r \in sent_tcmd : air[r] = "full"

\* A request staged after the device was lost never touches the radio.
DeadDeviceUntouched == \A r \in staged_lost : air[r] = "none"

\* The three threads use the device safely: calls on the handle only by the
\* holder of dev_mu (hw/sdr_uhd.c), the unlocked clock read at the end of a
\* burst excepted, which may overlap the worker's recv; the handle freed only
\* when neither thread can call it (rx_session_close); and no burst keyed on a
\* device whose loss was known when the burst was staged (the test of
\* device_lost in rx_session_tx_thread_fn).
DeviceUseSafe ==
    DeviceCallsExclusive /\ HandleOutlivesThreads /\ DeadDeviceUntouched

(* Refinement: the three threads together keep the promise of TxSlot.      *)
slotHeld == IF pending THEN tx_request ELSE None
slotVerdict == [r \in Requests |-> IF outcome[r] = None THEN "none"
                                   ELSE IF outcome[r] = "ok" THEN "sent"
                                   ELSE "not_sent"]

Slot == INSTANCE TxSlot WITH held <- slotHeld, verdict <- slotVerdict,
                             open <- InLoop

\* At most one request in the slot, at most one emission and one verdict per
\* request, the verdict agreeing with the emission, and no verdict after the
\* loop was left.
SlotPromise == Slot!Spec

(* Liveness, under FairSpec.                                               *)

\* A staged request is answered while the loop runs: the slot cannot wedge.
RequestResolved ==
    \A r \in Requests :
        (pending /\ tx_request = r) ~> (outcome[r] # None \/ ~running)

\* Once the loop is left the process exits, also with a burst in flight, a
\* lost device, or a worker waiting for dev_mu.
CloseTerminates == ~running ~> main = "closed"
=============================================================================
