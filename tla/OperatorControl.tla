--------------------------- MODULE OperatorControl ---------------------------
(***************************************************************************)
(* Who operates the station: simple_sat_ops processes that start with      *)
(* --control, or watch as viewers and take control over.  They meet only   *)
(* in the runtime directory (a socket, a pid file), through signals, and   *)
(* at the devices.  Sources: control/operator_ipc.c, ipc/sso_operator.c,   *)
(* the socket's life in ipc/sso_ipc_server.c, ui/viewer.c, ui/tui.c,       *)
(* control/hw_bringup.c and the bring-up and shutdown order of apps/main.c.*)
(***************************************************************************)
EXTENDS Naturals, FiniteSets

CONSTANTS
    Procs,       \* processes; each runs once (a new run has a new pid)
    None

ASSUME ProcsAssumption == None \notin Procs

VARIABLES
    pc,            \* where each process is
    sock,          \* whose socket is at simple_sat_ops.sock
    listening,     \* processes whose socket accepts connections
    pidfile,       \* whose pid is in simple_sat_ops.pid
    asked,         \* asked[p]: the operator whose welcome p waits for
    yield,         \* processes with g_yield_requested set
    rotator,       \* processes that have the serial line open
    sdr,           \* the process that has claimed the SDR
    disorder       \* history: people acted while another start-up, takeover
                   \* or shutdown was under way, or a serving operator gave a
                   \* probe no welcome

fileVars == <<sock, pidfile>>
deviceVars == <<rotator, sdr>>
vars == <<pc, fileVars, listening, asked, yield, deviceVars, disorder>>

\* Phases of an operator: start-up, loop, shutdown; and of a viewer.
Starting == {"probe", "hello", "unlink", "bind", "listen", "pid", "arm",
             "rotator", "sdr"}
Closing == {"close_rotator", "close_listen", "unlink_sock", "unlink_pid",
            "close_sdr"}
Watching == {"viewer", "informed"}
Armed == {"rotator", "sdr", "loop"} \cup Closing    \* SIGUSR1 is handled
Running == Starting \cup {"loop"} \cup Closing \cup Watching \cup {"await"}

Init ==
    /\ pc = [p \in Procs |-> "new"]
    /\ sock = None /\ pidfile = None /\ listening = {}
    /\ asked = [p \in Procs |-> None]
    /\ yield = {}
    /\ rotator = {} /\ sdr = None
    /\ disorder = FALSE

Goto(p, to) == pc' = [pc EXCEPT ![p] = to]

\* Nobody else is on the way to operating, or leaving.
Alone(p) ==
    \A q \in Procs \ {p} : \/ pc[q] \in {"new", "gone"} \cup Watching
                           \/ pc[q] = "loop" /\ q \notin yield

Noted(p) == disorder' = (disorder \/ ~Alone(p))

\* The end of a process: the kernel takes back what it had; files stay.
Die(p) ==
    /\ asked' = [asked EXCEPT ![p] = None]
    /\ yield' = yield \ {p}
    /\ listening' = listening \ {p}
    /\ rotator' = rotator \ {p}
    /\ sdr' = IF sdr = p THEN None ELSE sdr

-----------------------------------------------------------------------------
(* Viewers.                                                                *)

\* Without --control: attach to an operator or give up.
StartViewer(p) ==
    /\ pc[p] = "new"
    /\ IF sock \in listening
         THEN Goto(p, "viewer") /\ asked' = [asked EXCEPT ![p] = sock]
         ELSE Goto(p, "gone") /\ UNCHANGED asked
    /\ UNCHANGED <<fileVars, listening, yield, deviceVars, disorder>>

\* A welcome or a state broadcast brings the TLE path.
ViewerInformed(p) ==
    /\ pc[p] = "viewer"
    /\ pc[asked[p]] = "loop"
    /\ Goto(p, "informed")
    /\ asked' = [asked EXCEPT ![p] = None]
    /\ UNCHANGED <<fileVars, listening, yield, deviceVars, disorder>>

ViewerQuit(p) ==
    /\ pc[p] \in Watching
    /\ Goto(p, "gone") /\ Die(p)
    /\ UNCHANGED <<fileVars, disorder>>

\* 'c' 'y': read the pid file and send SIGUSR1.  A process that has not yet
\* installed its handler dies of it; one that is gone makes kill() fail.
TakeSignal(p) ==
    /\ pc[p] = "informed"
    /\ Noted(p)
    /\ pidfile # None
    /\ pc[pidfile] \in Running
    /\ IF pc[pidfile] \in Armed
         THEN /\ yield' = yield \cup {pidfile}
              /\ Goto(p, "await")
              /\ UNCHANGED <<listening, asked, deviceVars>>
         ELSE /\ pc' = [pc EXCEPT ![p] = "await", ![pidfile] = "gone"]
              /\ Die(pidfile)
    /\ UNCHANGED fileVars

\* The socket file is gone: execv into --control.
TakeExec(p) ==
    /\ pc[p] = "await"
    /\ sock = None
    /\ Goto(p, "probe")
    /\ UNCHANGED <<fileVars, listening, asked, yield, deviceVars, disorder>>

\* Mutant of TakeTimeout: the wait ends only if the operator is gone.
TakeTimeoutOnlyGone(p) ==
    /\ pc[p] = "await"
    /\ sock # None /\ pc[sock] = "gone"
    /\ Goto(p, "informed")
    /\ UNCHANGED <<fileVars, listening, asked, yield, deviceVars, disorder>>

\* Five seconds and the socket is still there: stay a viewer.
TakeTimeout(p) ==
    /\ pc[p] = "await"
    /\ sock # None
    /\ Goto(p, "informed")
    /\ UNCHANGED <<fileVars, listening, asked, yield, deviceVars, disorder>>

-----------------------------------------------------------------------------
(* Start-up of an operator: ipc_operator_startup, then the hardware.       *)

StartControl(p) ==
    /\ pc[p] = "new"
    /\ Noted(p)
    /\ Goto(p, "probe")
    /\ UNCHANGED <<fileVars, listening, asked, yield, deviceVars>>

\* sso_operator_verify: a socket nobody listens on means no operator.
Probe(p) ==
    /\ pc[p] = "probe"
    /\ IF sock \in listening
         THEN Goto(p, "hello") /\ asked' = [asked EXCEPT ![p] = sock]
         ELSE Goto(p, "unlink") /\ UNCHANGED asked
    /\ UNCHANGED <<fileVars, listening, yield, deviceVars, disorder>>

\* Mutant of ProbeWelcome: an operator of another user is not minded.
ProbeWelcomeMismatch(p) ==
    /\ pc[p] = "hello"
    /\ pc[asked[p]] = "loop"
    /\ \E to \in {"gone", "unlink"} : Goto(p, to)
    /\ Die(p)
    /\ UNCHANGED <<fileVars, disorder>>

\* The welcome of a serving operator, whose loop ticks well within the two
\* seconds the probe waits: the start-up is refused.
ProbeWelcome(p) ==
    /\ pc[p] = "hello"
    /\ pc[asked[p]] = "loop"
    /\ Goto(p, "gone") /\ Die(p)
    /\ UNCHANGED <<fileVars, disorder>>

\* A serving operator that sends no welcome: its client table is full and it
\* closes the connection, or the welcome does not fit the line.  The result is
\* SSO_OP_PROTOCOL, or -1 if the hello could not be sent, and neither refuses.
ProbeTurnedAway(p) ==
    /\ pc[p] = "hello"
    /\ pc[asked[p]] = "loop"
    /\ Goto(p, "unlink")
    /\ asked' = [asked EXCEPT ![p] = None]
    /\ disorder' = TRUE
    /\ UNCHANGED <<fileVars, listening, yield, deviceVars>>

\* Nobody serves the connection: SSO_OP_PROTOCOL after two seconds or at its
\* end, treated like no operator.
ProbeSilent(p) ==
    /\ pc[p] = "hello"
    /\ pc[asked[p]] # "loop"
    /\ Goto(p, "unlink")
    /\ asked' = [asked EXCEPT ![p] = None]
    /\ UNCHANGED <<fileVars, listening, yield, deviceVars, disorder>>

\* sso_ipc_server_open: whatever is at the path is removed.
Unlink(p) ==
    /\ pc[p] = "unlink"
    /\ sock' = None
    /\ Goto(p, "bind")
    /\ UNCHANGED <<pidfile, listening, asked, yield, deviceVars, disorder>>

\* bind() fails if somebody bound the path in between.
Bind(p) ==
    /\ pc[p] = "bind"
    /\ IF sock = None
         THEN sock' = p /\ Goto(p, "listen")
         ELSE UNCHANGED sock /\ Goto(p, "gone")
    /\ UNCHANGED <<pidfile, listening, asked, yield, deviceVars, disorder>>

\* listen(), which removes the path again if it fails.
Listen(p) ==
    /\ pc[p] = "listen"
    /\ \/ /\ listening' = listening \cup {p}
          /\ Goto(p, "pid")
          /\ UNCHANGED sock
       \/ /\ sock' = None
          /\ Goto(p, "gone")
          /\ UNCHANGED listening
    /\ UNCHANGED <<pidfile, asked, yield, deviceVars, disorder>>

\* The pid file is best effort.
WritePid(p) ==
    /\ pc[p] = "pid"
    /\ pidfile' \in {p, pidfile}
    /\ Goto(p, "arm")
    /\ UNCHANGED <<sock, listening, asked, yield, deviceVars, disorder>>

Arm(p) ==
    /\ pc[p] = "arm"
    /\ Goto(p, "rotator")
    /\ UNCHANGED <<fileVars, listening, asked, yield, deviceVars, disorder>>

\* The serial line is opened without a lock (every session here has a
\* rotator: one without has no say over the antenna).  A failure here, or of
\* the TLE before it, ends the process and leaves socket and pid file behind.
OpenRotator(p) ==
    /\ pc[p] = "rotator"
    /\ \/ /\ rotator' = rotator \cup {p}
          /\ Goto(p, "sdr")
          /\ UNCHANGED <<listening, asked, yield, sdr>>
       \/ Goto(p, "gone") /\ Die(p)
    /\ UNCHANGED <<fileVars, disorder>>

\* Mutant of OpenSdr: the loop is entered with the yield flag cleared.
OpenSdrClearsYield(p) ==
    /\ pc[p] = "sdr"
    /\ Goto(p, "loop")
    /\ yield' = yield \ {p}
    /\ sdr' \in IF sdr = None THEN {p, None} ELSE {sdr}
    /\ UNCHANGED <<fileVars, listening, asked, rotator, disorder>>

\* One process at a time can claim the SDR; without one the program goes on.
OpenSdr(p) ==
    /\ pc[p] = "sdr"
    /\ Goto(p, "loop")
    /\ sdr' \in IF sdr = None THEN {p, None} ELSE {sdr}
    /\ UNCHANGED <<fileVars, listening, asked, yield, rotator, disorder>>

-----------------------------------------------------------------------------
(* Operating, and the order of the shutdown.                               *)

\* Mutant of LeaveLoop: the serial line is left to the exit of the process.
LeaveLoopKeepsRotator(p) ==
    /\ pc[p] = "loop"
    /\ IF p \in yield THEN UNCHANGED disorder ELSE Noted(p)
    /\ Goto(p, "close_listen")
    /\ UNCHANGED <<fileVars, listening, asked, yield, deviceVars>>

\* The yield flag, a signal, or the operator's quit.
LeaveLoop(p) ==
    /\ pc[p] = "loop"
    /\ IF p \in yield THEN UNCHANGED disorder ELSE Noted(p)
    /\ Goto(p, "close_rotator")
    /\ UNCHANGED <<fileVars, listening, asked, yield, deviceVars>>

CloseRotator(p) ==
    /\ pc[p] = "close_rotator"
    /\ rotator' = rotator \ {p}
    /\ Goto(p, "close_listen")
    /\ UNCHANGED <<fileVars, listening, asked, yield, sdr, disorder>>

\* sso_ipc_server_close.
CloseListen(p) ==
    /\ pc[p] = "close_listen"
    /\ listening' = listening \ {p}
    /\ Goto(p, "unlink_sock")
    /\ UNCHANGED <<fileVars, asked, yield, deviceVars, disorder>>

UnlinkSock(p) ==
    /\ pc[p] = "unlink_sock"
    /\ sock' = None
    /\ Goto(p, "unlink_pid")
    /\ UNCHANGED <<pidfile, listening, asked, yield, deviceVars, disorder>>

UnlinkPid(p) ==
    /\ pc[p] = "unlink_pid"
    /\ pidfile' = None
    /\ Goto(p, "close_sdr")
    /\ UNCHANGED <<sock, listening, asked, yield, deviceVars, disorder>>

\* rx_session_close, which waits for a burst, and the end of the process.
CloseSdr(p) ==
    /\ pc[p] = "close_sdr"
    /\ Goto(p, "gone") /\ Die(p)
    /\ UNCHANGED <<fileVars, disorder>>

\* A fatal signal: nothing is unlinked.
Crash(p) ==
    /\ pc[p] \in Starting \cup {"loop"} \cup Closing
    /\ Goto(p, "gone") /\ Die(p)
    /\ UNCHANGED <<fileVars, disorder>>

-----------------------------------------------------------------------------
\* What people and bad luck decide, and what a process does by itself.
Chosen(p) == \/ StartControl(p) \/ StartViewer(p) \/ ViewerQuit(p)
             \/ TakeSignal(p) \/ LeaveLoop(p) \/ Crash(p)
Step(p) == \/ ViewerInformed(p) \/ TakeExec(p) \/ TakeTimeout(p)
           \/ Probe(p) \/ ProbeWelcome(p) \/ ProbeTurnedAway(p)
           \/ ProbeSilent(p) \/ Unlink(p) \/ Bind(p) \/ Listen(p)
           \/ WritePid(p) \/ Arm(p)
           \/ OpenRotator(p) \/ OpenSdr(p)
           \/ CloseRotator(p) \/ CloseListen(p) \/ UnlinkSock(p)
           \/ UnlinkPid(p) \/ CloseSdr(p)

Next == \E p \in Procs : Chosen(p) \/ Step(p)

Spec == Init /\ [][Next]_vars

\* Every process gets on with what it does by itself (each wait has a
\* deadline), and the main loop looks at the yield flag in every iteration.
FairSpec ==
    /\ Spec
    /\ \A p \in Procs : WF_vars(Step(p) \/ (p \in yield /\ LeaveLoop(p)))

-----------------------------------------------------------------------------
(* Type invariant of the module.                                           *)
TypeOK ==
    /\ pc \in [Procs -> Running \cup {"new", "gone"}]
    /\ sock \in Procs \cup {None} /\ pidfile \in Procs \cup {None}
    /\ sdr \in Procs \cup {None}
    /\ asked \in [Procs -> Procs \cup {None}]
    /\ listening \subseteq Procs /\ yield \subseteq Procs
    /\ rotator \subseteq Procs /\ disorder \in BOOLEAN

\* People act one at a time, and no serving operator has turned a probe away.
InTurn == ~disorder

\* As long as people start, take over and quit one at a time, the antenna never
\* has two masters, through refusals, crashes with stale files, failed bring-ups
\* and takeovers: the old operator lets go of the serial line before the socket
\* disappears, which is what the new one waits for.  Two exceptions.  Overlapping
\* starts: a process in its bring-up answers no probe, and its socket is unlinked
\* by the next.  And, with people acting one at a time, a serving operator whose
\* client table is full (sso_ipc_server.c:223-227) or whose welcome does not
\* encode (operator_ipc.c:298-303): ipc_operator_startup refuses only a welcome,
\* so the start-up it turned away goes on to unlink its socket and open the
\* rotator.
OneRotatorMaster == InTurn => Cardinality(rotator) <= 1

\* ... and, with the same two exceptions, an operator in its loop can be found:
\* the socket at the path is its own, so the next --control is refused and the
\* next viewer attaches.
OperatorIsFound ==
    InTurn => \A p \in Procs : pc[p] = "loop" => sock = p /\ p \in listening

\* A force-claim never hangs its viewer, nor a probe its start-up, whatever
\* the other side does.
NobodyStuck ==
    \A p \in Procs : pc[p] \in Starting \cup {"await"} ~>
                         pc[p] \in {"loop", "informed", "gone"}

\* A yield request is honoured, also one that arrives during the bring-up.
YieldHonoured == \A p \in Procs : p \in yield ~> pc[p] = "gone"
=============================================================================
