------------------------------ MODULE AuditRing ------------------------------
(***************************************************************************)
(* The audit log of ipc/sso_audit.c: threads put events into a ring that   *)
(* drops its oldest entry when full, one worker drains the ring and writes *)
(* the lines without the lock, and an atexit handler adds the "end" line   *)
(* and joins the worker.  The producers of simple_sat_ops are its main     *)
(* thread and the TX thread, which rx_session_close joins before the end.  *)
(***************************************************************************)
EXTENDS Integers, Sequences, FiniteSets

CONSTANTS
    Main,       \* the thread that calls sso_audit_start and exits
    Others,     \* other threads that call sso_audit_event
    RingSize,   \* SSO_AUDIT_RING_SIZE
    MaxEvents,  \* bound: events of one thread besides "start" and "end"
    NoEvent     \* contents of a ring slot never written

ASSUME RingAssumption == RingSize \in Nat \ {0} /\ MaxEvents \in Nat
ASSUME ThreadAssumption == Main \notin Others /\ IsFiniteSet(Others)

Threads == Others \cup {Main}
EndNo == MaxEvents + 1
Events == Threads \X (0 .. EndNo)          \* 0 is "start", EndNo is "end"
Slots == 0 .. RingSize - 1

VARIABLES
    ring, head, tail, count,   \* g_audit_ring and its indices
    dropped,                   \* g_audit_dropped
    started, stop,             \* g_audit_thread_started, g_audit_stop
    worker,                    \* the worker: off, top, write, ended
    local, droppedLocal,       \* what it took in the current round
    pc,                        \* pc[t]: where thread t is
    no,                        \* no[t]: number of t's last event
    log,                       \* event lines in runs.log
    reported,                  \* sum of N over the "dropped=N" lines made
    failed,                    \* events whose write failed
    accepted, lost             \* history: calls in order; events overwritten

ringVars == <<ring, head, tail, count, dropped>>
workerVars == <<worker, local, droppedLocal>>
fileVars == <<log, reported, failed>>
vars == <<ringVars, started, stop, workerVars, pc, no, fileVars, accepted, lost>>

Init ==
    /\ ring = [s \in Slots |-> NoEvent]
    /\ head = 0 /\ tail = 0 /\ count = 0 /\ dropped = 0
    /\ started = FALSE /\ stop = FALSE
    /\ worker = "off" /\ local = <<>> /\ droppedLocal = 0
    /\ pc = [t \in Threads |-> IF t = Main THEN "new" ELSE "idle"]
    /\ no = [t \in Threads |-> 0]
    /\ log = <<>> /\ reported = 0 /\ failed = {}
    /\ accepted = <<>> /\ lost = {}

Goto(t, to) == pc' = [pc EXCEPT ![t] = to]

\* The oldest entry still in the ring comes first.
Contents == [i \in 1 .. count |-> ring[(tail + i - 1) % RingSize]]

\* append_line_at, whose result every caller ignores.
WriteLine(e) ==
    \/ log' = Append(log, e) /\ UNCHANGED failed
    \/ failed' = failed \cup {e} /\ UNCHANGED log

-----------------------------------------------------------------------------
(* Producers.                                                              *)

\* sso_audit_start; without a worker everything is written directly.
Start ==
    /\ pc[Main] = "new"
    /\ \/ started' = TRUE /\ worker' = "top" /\ Goto(Main, "enqueue")
       \/ UNCHANGED <<started, worker>> /\ Goto(Main, "append")
    /\ UNCHANGED <<ringVars, stop, local, droppedLocal, no, fileVars,
                   accepted, lost>>

\* sso_audit_event looks at the worker in a critical section of its own.
Choose(t, n) ==
    /\ no' = [no EXCEPT ![t] = n]
    /\ Goto(t, IF started THEN "enqueue" ELSE "append")
    /\ UNCHANGED <<ringVars, started, stop, workerVars, fileVars, accepted, lost>>

AuditEvent(t) ==
    /\ pc[t] = "idle"
    /\ pc[Main] # "new"
    /\ no[t] < MaxEvents
    /\ Choose(t, no[t] + 1)

\* The call returns; the atexit handler goes on to close the worker.
Return(t) == Goto(t, IF no[t] = EndNo THEN "close" ELSE "idle")

\* Mutant of Enqueue: the oldest entry is counted as dropped but kept.
EnqueueKeepsTail(t) ==
    /\ pc[t] = "enqueue"
    /\ LET full == count = RingSize
           e == <<t, no[t]>>
       IN /\ tail' = tail
          /\ count' = IF full THEN count ELSE count + 1
          /\ dropped' = IF full THEN dropped + 1 ELSE dropped
          /\ lost' = IF full THEN lost \cup {ring[tail]} ELSE lost
          /\ ring' = [ring EXCEPT ![head] = e]
          /\ head' = (head + 1) % RingSize
          /\ accepted' = Append(accepted, e)
    /\ Return(t)
    /\ UNCHANGED <<started, stop, workerVars, no, fileVars>>

\* audit_enqueue: a full ring loses its oldest entry.
Enqueue(t) ==
    /\ pc[t] = "enqueue"
    /\ LET full == count = RingSize
           e == <<t, no[t]>>
       IN /\ tail' = IF full THEN (tail + 1) % RingSize ELSE tail
          /\ count' = IF full THEN count ELSE count + 1
          /\ dropped' = IF full THEN dropped + 1 ELSE dropped
          /\ lost' = IF full THEN lost \cup {ring[tail]} ELSE lost
          /\ ring' = [ring EXCEPT ![head] = e]
          /\ head' = (head + 1) % RingSize
          /\ accepted' = Append(accepted, e)
    /\ Return(t)
    /\ UNCHANGED <<started, stop, workerVars, no, fileVars>>

\* append_line without a worker.
AppendLine(t) ==
    /\ pc[t] = "append"
    /\ WriteLine(<<t, no[t]>>)
    /\ accepted' = Append(accepted, <<t, no[t]>>)
    /\ Return(t)
    /\ UNCHANGED <<ringVars, started, stop, workerVars, no, reported, lost>>

\* The TX thread has left its loop; rx_session_close joins it.
ThreadEnds(t) ==
    /\ t # Main
    /\ pc[t] = "idle"
    /\ Goto(t, "gone")
    /\ UNCHANGED <<ringVars, started, stop, workerVars, no, fileVars,
                   accepted, lost>>

-----------------------------------------------------------------------------
(* The end of the process.                                                 *)

\* main returns, with the other threads joined: atexit_writer.
Exit ==
    /\ pc[Main] = "idle"
    /\ \A t \in Others : pc[t] = "gone"
    /\ Choose(Main, EndNo)

\* audit_worker_close.
Close ==
    /\ pc[Main] = "close"
    /\ IF started /\ ~stop
         THEN stop' = TRUE /\ Goto(Main, "join")
         ELSE UNCHANGED stop /\ Goto(Main, "gone")
    /\ UNCHANGED <<ringVars, started, workerVars, no, fileVars, accepted, lost>>

Join ==
    /\ pc[Main] = "join"
    /\ worker = "ended"
    /\ started' = FALSE
    /\ Goto(Main, "gone")
    /\ UNCHANGED <<ringVars, stop, workerVars, no, fileVars, accepted, lost>>

-----------------------------------------------------------------------------
(* audit_worker_fn.                                                        *)

WorkerDrain ==
    /\ worker = "top"
    /\ count > 0
    /\ local' = Contents
    /\ tail' = (tail + count) % RingSize
    /\ count' = 0
    /\ droppedLocal' = dropped
    /\ dropped' = 0
    /\ worker' = "write"
    /\ UNCHANGED <<ring, head, started, stop, pc, no, fileVars, accepted, lost>>

WorkerWrite ==
    /\ worker = "write"
    /\ local # <<>>
    /\ WriteLine(Head(local))
    /\ local' = Tail(local)
    /\ UNCHANGED <<ringVars, started, stop, worker, droppedLocal, pc, no,
                   reported, accepted, lost>>

\* The overflow line, if there is something to report.
WorkerReport ==
    /\ worker = "write"
    /\ local = <<>>
    /\ reported' = reported + droppedLocal
    /\ droppedLocal' = 0
    /\ worker' = "top"
    /\ UNCHANGED <<ringVars, started, stop, local, pc, no, log, failed,
                   accepted, lost>>

\* Mutant of WorkerEnd: woken with the stop flag it leaves at once.
WorkerEndAtOnce ==
    /\ worker = "top"
    /\ stop
    /\ worker' = "ended"
    /\ UNCHANGED <<ringVars, started, stop, local, droppedLocal, pc, no,
                   fileVars, accepted, lost>>

\* Mutant of WorkerEnd: the stop flag is not looked at in the wait.
WorkerEndNever ==
    /\ worker = "top"
    /\ stop /\ count > 0
    /\ worker' = "ended"
    /\ UNCHANGED <<ringVars, started, stop, local, droppedLocal, pc, no,
                   fileVars, accepted, lost>>

WorkerEnd ==
    /\ worker = "top"
    /\ stop /\ count = 0
    /\ worker' = "ended"
    /\ UNCHANGED <<ringVars, started, stop, local, droppedLocal, pc, no,
                   fileVars, accepted, lost>>

-----------------------------------------------------------------------------

Worker == WorkerDrain \/ WorkerWrite \/ WorkerReport \/ WorkerEnd

Thread(t) ==
    AuditEvent(t) \/ Enqueue(t) \/ AppendLine(t) \/ ThreadEnds(t)

Ended == pc[Main] = "gone" /\ UNCHANGED vars

Next == Start \/ Exit \/ Close \/ Join \/ Worker \/ Ended
        \/ \E t \in Threads : Thread(t)

\* Every call returns and the worker runs; nobody has to emit or to quit.
Fairness ==
    /\ WF_vars(Worker)
    /\ WF_vars(Close)
    /\ WF_vars(Join)
    /\ \A t \in Threads : WF_vars(Enqueue(t)) /\ WF_vars(AppendLine(t))

Spec == Init /\ [][Next]_vars
FairSpec == Spec /\ Fairness

-----------------------------------------------------------------------------
(* Properties.                                                             *)

TypeOK ==
    /\ ring \in [Slots -> Events \cup {NoEvent}]
    /\ head \in Slots /\ tail \in Slots /\ count \in 0 .. RingSize
    /\ dropped \in Nat /\ droppedLocal \in Nat /\ reported \in Nat
    /\ started \in BOOLEAN /\ stop \in BOOLEAN
    /\ worker \in {"off", "top", "write", "ended"}
    /\ local \in Seq(Events)
    /\ pc \in [Threads -> {"new", "idle", "enqueue", "append", "close",
                           "join", "gone"}]
    /\ no \in [Threads -> 0 .. EndNo]
    /\ log \in Seq(Events) /\ accepted \in Seq(Events)
    /\ failed \subseteq Events /\ lost \subseteq Events

\* s is what is left of acc without the events in gone, in the order of acc; no
\* event is in acc twice.
IsRest(s, acc, gone) ==
    /\ \A k, l \in 1 .. Len(acc) : k < l => acc[k] # acc[l]
    /\ \A i \in 1 .. Len(s) : s[i] \notin gone /\ \E k \in 1 .. Len(acc) : s[i] = acc[k]
    /\ \A k \in 1 .. Len(acc) : acc[k] \notin gone => \E i \in 1 .. Len(s) : acc[k] = s[i]
    /\ \A i, j \in 1 .. Len(s) : i < j =>
          \E k, l \in 1 .. Len(acc) : k < l /\ s[i] = acc[k] /\ s[j] = acc[l]

\* What is in the file, then in the worker's hands, then in the ring.
Trail == (log \o local) \o Contents

\* The audit trail is the calls in their order: every accepted event except
\* those the ring overwrote or the disk refused; and the "dropped=N" lines,
\* written or due, add up to the number overwritten.  (audit_enqueue's
\* wrap-around and drop against the drain of audit_worker_fn.)
TrailInOrder ==
    /\ IsRest(Trail, accepted, lost \cup failed)
    /\ Cardinality(lost) = dropped + droppedLocal + reported

\* When the process is over its "end" line is the last event of the file
\* (or the disk refused it), nothing is left in the ring or with the worker
\* and every overwritten event has been reported.  (atexit_writer: "the 'end'
\* line always makes it to disk before we join".)
CompleteAtExit ==
    pc[Main] = "gone" =>
        /\ count = 0 /\ local = <<>>
        /\ reported = Cardinality(lost)
        /\ LET end == <<Main, EndNo>>
           IN end \in failed \/ (log # <<>> /\ log[Len(log)] = end)

\* Refinement: what the worker holds and the ring are the pending events.
pendingEvents == local \o Contents
unreportedEvents == dropped + droppedLocal
Gone == pc[Main] = "gone"

Promise == INSTANCE AuditTrail WITH
               file <- log, pending <- pendingEvents,
               unreported <- unreportedEvents, over <- Gone,
               Capacity <- RingSize

\* The file grows by the accepted events in their order, an event is given up
\* only by a call that finds RingSize others in the ring, it is the oldest of
\* these and gets announced, and the process is not over before all is written
\* and announced.  (The wrap-around of audit_enqueue and the hand-over to
\* audit_worker_fn make no difference to a reader of the log.)
TrailPromise == Promise!Spec

\* The exit handler comes back: the join of the worker is bounded.
ExitTerminates == pc[Main] = "close" ~> pc[Main] = "gone"
=============================================================================
