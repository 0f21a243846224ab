---------------------------- MODULE RotatorAsync ----------------------------
(***************************************************************************)
(* The rotator worker (hw/antenna_rotator_async.c) between the main loop's *)
(* pointing code (control/tracking.c) and the controller on the serial     *)
(* line.  SET is a latest-wins slot, STOP and the STATUS kick are one-shot *)
(* flags; the worker takes all of them under the lock and then talks to    *)
(* the controller without it.                                              *)
(***************************************************************************)
EXTENDS Naturals, Sequences

CONSTANTS
    Targets,       \* pointings the main loop asks for
    MaxSubmits,    \* bound on the SETs and STOPs of one behaviour
    NoTarget

ASSUME RotatorAssumption == /\ MaxSubmits \in Nat
                            /\ {"stop", "stopped"} \cap Targets = {}
                            /\ NoTarget \notin Targets \cup {"stop", "stopped"}

VARIABLES
    main,          \* where the main thread is
    target,        \* rot.antenna_rotator.target_*
    submits,       \* SETs and STOPs submitted so far
    last,          \* history: the last of them, a target or "stop"
    overtaken,     \* history: that STOP was submitted with a SET still queued
    stop_requested, set_pending, set_target, stop_cmd_pending,
    status_kick_pending,                               \* under mu
    snap_pos, snap_ok, snap_good,                      \* the snapshot
    t_entry,       \* wait_next_good_status: snap_good at its entry
    worker,        \* where the worker is
    do_stop, do_set, set_local, do_status, reply,      \* its locals
    ctl,           \* the controller: the pointing it drives to, or "stopped"
    antenna,       \* where the antenna is
    line_lost,     \* history: some SET or STOP did not reach the controller
    fd             \* the serial line is open

reqVars == <<set_pending, set_target, stop_cmd_pending, status_kick_pending>>
snapVars == <<snap_pos, snap_ok, snap_good>>
localVars == <<do_stop, do_set, set_local, do_status, reply>>
ctlVars == <<ctl, antenna, line_lost>>
asyncVars == <<main, target, submits, last, overtaken, stop_requested, reqVars, snapVars,
          t_entry, worker, localVars, ctlVars, fd>>

AsyncInit ==
    /\ main = "loop" /\ submits = 0 /\ last = NoTarget /\ overtaken = FALSE
    /\ stop_requested = FALSE
    /\ set_pending = FALSE /\ set_target = NoTarget
    /\ stop_cmd_pending = FALSE
    /\ status_kick_pending = TRUE          \* antenna_rotator_async_open
    /\ snap_pos = NoTarget /\ snap_ok = FALSE /\ snap_good = 0 /\ t_entry = 0
    /\ worker = "wait"
    /\ do_stop = FALSE /\ do_set = FALSE /\ set_local = NoTarget
    /\ do_status = FALSE /\ reply = NoTarget
    /\ ctl = "stopped" /\ antenna \in Targets /\ line_lost = FALSE
    /\ target = antenna
    /\ fd = TRUE

-----------------------------------------------------------------------------
(* The main thread.                                                        *)

notMain == <<snapVars, worker, localVars, ctlVars>>

\* main_rotator_submit_set: aim, jog, home.
RequestSet(t) ==
    /\ main = "loop"
    /\ submits < MaxSubmits
    /\ submits' = submits + 1
    /\ last' = t /\ overtaken' = FALSE
    /\ target' = t
    /\ set_pending' = TRUE
    /\ set_target' = t
    /\ UNCHANGED <<main, stop_requested, stop_cmd_pending, status_kick_pending,
                   t_entry, fd, notMain>>

\* stop_tracking: STOP, a STATUS kick, a bounded wait for the next good
\* STATUS, and on success the targets from the snapshot.
StopSubmit ==
    /\ main = "loop"
    /\ submits < MaxSubmits
    /\ submits' = submits + 1
    /\ last' = "stop" /\ overtaken' = set_pending
    /\ stop_cmd_pending' = TRUE
    /\ main' = "kick"
    /\ UNCHANGED <<target, stop_requested, set_pending, set_target,
                   status_kick_pending, t_entry, fd, notMain>>

StopKick ==
    /\ main = "kick"
    /\ status_kick_pending' = TRUE
    /\ main' = "enter"
    /\ UNCHANGED <<target, submits, last, overtaken, stop_requested, set_pending,
                   set_target, stop_cmd_pending, t_entry, fd, notMain>>

WaitEnter ==
    /\ main = "enter"
    /\ t_entry' = snap_good
    /\ main' = "waiting"
    /\ UNCHANGED <<target, submits, last, overtaken, stop_requested, reqVars, fd, notMain>>

WaitDone ==
    /\ main = "waiting"
    /\ snap_good > t_entry
    /\ main' = "refresh"
    /\ UNCHANGED <<target, submits, last, overtaken, stop_requested, reqVars, t_entry, fd,
                   notMain>>

\* Mutant: the wait has no deadline and ends only on a good STATUS or a stop.
WaitTimeoutNever ==
    /\ main = "waiting"
    /\ stop_requested
    /\ main' = "loop"
    /\ UNCHANGED <<target, submits, last, overtaken, stop_requested, reqVars, t_entry, fd,
                   notMain>>

\* 750 ms without a good STATUS: the targets stay as they were.
WaitTimeout ==
    /\ main = "waiting"
    /\ snap_good <= t_entry
    /\ main' = "loop"
    /\ UNCHANGED <<target, submits, last, overtaken, stop_requested, reqVars, t_entry, fd,
                   notMain>>

\* main_rotator_refresh_targets_from_snapshot, which refuses a failed STATUS.
RefreshTargets ==
    /\ main = "refresh"
    /\ target' = IF snap_ok THEN snap_pos ELSE target
    /\ main' = "loop"
    /\ UNCHANGED <<submits, last, overtaken, stop_requested, reqVars, t_entry, fd, notMain>>

\* antenna_rotator_async_close, then antenna_rotator_disconnect.
CloseRequest ==
    /\ main = "loop"
    /\ stop_requested' = TRUE
    /\ main' = "join"
    /\ UNCHANGED <<target, submits, last, overtaken, reqVars, t_entry, fd, notMain>>

\* Mutant: the serial line is closed before the worker is joined.
CloseJoinSkipped ==
    /\ main = "join"
    /\ main' = "closed"
    /\ fd' = FALSE
    /\ UNCHANGED <<target, submits, last, overtaken, stop_requested, reqVars, t_entry,
                   notMain>>

CloseJoin ==
    /\ main = "join"
    /\ worker = "exited"
    /\ main' = "closed"
    /\ fd' = FALSE
    /\ UNCHANGED <<target, submits, last, overtaken, stop_requested, reqVars, t_entry,
                   notMain>>

-----------------------------------------------------------------------------
(* The worker.                                                             *)

notWorker == <<main, target, submits, last, overtaken, stop_requested, t_entry, fd>>

WorkerExit ==
    /\ worker = "wait"
    /\ stop_requested
    /\ worker' = "exited"
    /\ UNCHANGED <<notWorker, reqVars, snapVars, localVars, ctlVars>>

\* Mutant: STOP discards a SET that was queued with it.
WorkerTakeStopDropsSet ==
    /\ worker = "wait"
    /\ ~stop_requested
    /\ \E elapsed \in BOOLEAN :
         /\ stop_cmd_pending \/ set_pending \/ status_kick_pending \/ elapsed
         /\ do_status' = (status_kick_pending \/ elapsed)
    /\ do_stop' = stop_cmd_pending /\ stop_cmd_pending' = FALSE
    /\ do_set' = (set_pending /\ ~stop_cmd_pending) /\ set_pending' = FALSE
    /\ set_local' = set_target /\ status_kick_pending' = FALSE
    /\ worker' = "stop"
    /\ UNCHANGED <<notWorker, set_target, reply, snapVars, ctlVars>>

\* A request or the end of the status period; all requests are taken at once.
WorkerTake ==
    /\ worker = "wait"
    /\ ~stop_requested
    /\ \E elapsed \in BOOLEAN :
         /\ stop_cmd_pending \/ set_pending \/ status_kick_pending \/ elapsed
         /\ do_status' = (status_kick_pending \/ elapsed)
    /\ do_stop' = stop_cmd_pending /\ stop_cmd_pending' = FALSE
    /\ do_set' = set_pending /\ set_pending' = FALSE
    /\ set_local' = set_target /\ status_kick_pending' = FALSE
    /\ worker' = "stop"
    /\ UNCHANGED <<notWorker, set_target, reply, snapVars, ctlVars>>

\* A command goes to the controller, or is lost on the line (its result is
\* not looked at).
Command(c) ==
    \/ ctl' = c /\ UNCHANGED line_lost
    \/ line_lost' = TRUE /\ UNCHANGED ctl

WorkerStop ==
    /\ worker = "stop"
    /\ IF do_stop THEN Command("stopped") ELSE UNCHANGED <<ctl, line_lost>>
    /\ worker' = "set"
    /\ UNCHANGED <<notWorker, reqVars, snapVars, localVars, antenna>>

WorkerSendSet ==
    /\ worker = "set"
    /\ IF do_set THEN Command(set_local) ELSE UNCHANGED <<ctl, line_lost>>
    /\ worker' = IF do_status THEN "status" ELSE "wait"
    /\ UNCHANGED <<notWorker, reqVars, snapVars, localVars, antenna>>

\* The reply carries the position at the time of the read, or never comes.
WorkerStatus ==
    /\ worker = "status"
    /\ reply' \in {antenna, NoTarget}
    /\ worker' = "publish"
    /\ UNCHANGED <<notWorker, reqVars, snapVars, do_stop, do_set, set_local,
                   do_status, ctlVars>>

\* Only the order of snap_last_good_mono_s and t_entry matters, so the clock
\* is kept as "later than t_entry or not".
WorkerPublish ==
    /\ worker = "publish"
    /\ IF reply # NoTarget
         THEN snap_pos' = reply /\ snap_ok' = TRUE /\ snap_good' = t_entry + 1
         ELSE snap_ok' = FALSE /\ UNCHANGED <<snap_pos, snap_good>>
    /\ worker' = "wait"
    /\ UNCHANGED <<notWorker, reqVars, localVars, ctlVars>>

\* External: the antenna reaches the pointing it is driven to.
Move ==
    /\ ctl # "stopped" /\ antenna # ctl
    /\ antenna' = ctl
    /\ UNCHANGED <<notWorker, reqVars, snapVars, worker, localVars, ctl, line_lost>>

-----------------------------------------------------------------------------
Main == \/ \E t \in Targets : RequestSet(t)
        \/ StopSubmit \/ CloseRequest
Blocked == StopKick \/ WaitEnter \/ WaitDone \/ WaitTimeout \/ RefreshTargets \/ CloseJoin
Worker == \/ WorkerExit \/ WorkerTake \/ WorkerStop \/ WorkerSendSet
          \/ WorkerStatus \/ WorkerPublish
Exited == main = "closed" /\ UNCHANGED asyncVars

AsyncNext == Main \/ Blocked \/ Worker \/ Move \/ Exited

AsyncSpec == AsyncInit /\ [][AsyncNext]_asyncVars

\* The worker's waits and serial reads are bounded by timeouts, and so is
\* the main thread's wait; what the operator does is not assumed.
AsyncFairSpec == AsyncSpec /\ WF_asyncVars(Worker) /\ WF_asyncVars(Blocked)

-----------------------------------------------------------------------------
(* Type invariant of the module.                                           *)
AsyncTypeOK ==
    /\ main \in {"loop", "kick", "enter", "waiting", "refresh", "join", "closed"}
    /\ worker \in {"wait", "stop", "set", "status", "publish", "exited"}
    /\ {stop_requested, set_pending, stop_cmd_pending, status_kick_pending,
        snap_ok, do_stop, do_set, do_status, line_lost, fd, overtaken} \subseteq BOOLEAN
    /\ {set_target, set_local, snap_pos, reply} \subseteq Targets \cup {NoTarget}
    /\ {target, antenna} \subseteq Targets
    /\ last \in Targets \cup {NoTarget, "stop"}
    /\ ctl \in Targets \cup {"stopped"}
    /\ submits \in 0..MaxSubmits
    /\ snap_good \in Nat /\ t_entry \in Nat

Drained == worker = "wait" /\ ~set_pending /\ ~stop_cmd_pending

\* The last order wins: when the worker has nothing left to do, the controller
\* does what was asked last, not an older pointing and not an older STOP.  The
\* exceptions are a command the line lost and a STOP submitted while a SET was
\* still queued: the worker takes both and sends the STOP first, so the antenna
\* then moves although the manual says of 's' that it stops the rotator.
LastOrderWins ==
    Drained /\ last # NoTarget /\ ~line_lost /\ ~overtaken
        => ctl = (IF last = "stop" THEN "stopped" ELSE last)

\* antenna_rotator_async_close joins the worker before the serial line is
\* closed, so no command is ever written to a closed descriptor.
LineOutlivesWorker == worker # "exited" => fd

\* Refinement: flags, slot and the worker's locals are one queue of orders, what
\* the worker has taken before what is still requested.
OrderIf(cond, order) == IF cond THEN <<order>> ELSE <<>>
Taken == OrderIf(worker = "stop" /\ do_stop, "stop")
         \o OrderIf(worker \in {"stop", "set"} /\ do_set, set_local)
Requested == OrderIf(stop_cmd_pending, "stop") \o OrderIf(set_pending, set_target)
Closed == main = "closed"
dueOrders == IF Closed THEN <<>> ELSE Taken \o Requested

Orders == INSTANCE RotatorOrders WITH due <- dueOrders, told <- ctl,
                                      closed <- Closed

\* Orders reach the controller in the order they were given and at most once,
\* except that the newest pointing replaces an unsent one and a STOP overtakes
\* it; and none is sent on a closed line (antenna_rotator_async_close joins the
\* worker first).
OrdersKept == Orders!Spec

\* A queued pointing reaches the controller unless a newer order replaces it,
\* the line loses it or the program ends.
SetDelivered ==
    \A t \in Targets :
        (set_pending /\ set_target = t) ~>
            (ctl = t \/ last # t \/ line_lost \/ stop_requested)

\* No key press can hang the main loop on a controller that does not answer,
\* and the program can always be left.
MainComesBack == main # "loop" ~> main \in {"loop", "closed"}
=============================================================================
