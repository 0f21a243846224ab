------------------------ MODULE OperatorControlProofs ------------------------
(***************************************************************************)
(* Proofs about OperatorControl for any number of processes: as long as    *)
(* people act one at a time, and no serving operator turns a probe away,   *)
(* the antenna has one master and the operator can be found.               *)
(***************************************************************************)
EXTENDS OperatorControl, FiniteSetTheorems, TLAPS

Types ==
    /\ pc \in [Procs -> Running \cup {"new", "gone"}]
    /\ asked \in [Procs -> Procs \cup {None}]

\* Phases of a start-up that has found no operator; phases in which the path
\* is a process's own; and those in which it waits for another.
Building == {"unlink", "bind", "listen", "pid", "arm", "rotator", "sdr"}
Leaving == {"close_rotator", "close_listen", "unlink_sock"}
Owning == Building \cup {"loop"} \cup Leaving
Probing == {"probe", "hello"}
Seeking == Probing \cup {"await"}

\* The serial line is open only in these phases.
RotatorPhases == \A p \in rotator : p \in Procs /\ pc[p] \in {"sdr", "loop", "close_rotator"}

\* A socket accepts connections only in these.
ListenPhases ==
    \A p \in listening :
        p \in Procs /\ pc[p] \in {"pid", "arm", "rotator", "sdr", "loop",
                                  "close_rotator", "close_listen"}

\* One process owns the path, and while it does it is the one at the path.
OneOwner ==
    /\ \A p, q \in Procs : pc[p] \in Owning /\ pc[q] \in Owning => p = q
    /\ \A p \in Procs : pc[p] \in Owning \ {"unlink", "bind"} => sock = p
    /\ \A p \in Procs : pc[p] \in {"arm", "rotator", "sdr", "loop", "pid",
                                   "close_rotator", "close_listen"}
                          => p \in listening

\* One process waits for the path, never for a start-up; one that probes meets
\* an operator in its loop that nobody asked to yield, and asks that operator.
OneSeeker ==
    /\ \A p, q \in Procs : pc[p] \in Seeking /\ pc[q] \in Seeking => p = q
    /\ \A p, q \in Procs : pc[p] \in Seeking => pc[q] \notin Building
    /\ \A p, q \in Procs : pc[p] \in Probing /\ pc[q] \in Owning =>
                             pc[q] = "loop" /\ q \notin yield
    /\ \A p, q \in Procs : pc[p] = "hello" /\ pc[q] = "loop" => asked[p] = q

Orderly == InTurn => OneOwner /\ OneSeeker

IInv == Types /\ RotatorPhases /\ ListenPhases /\ Orderly

-----------------------------------------------------------------------------

\* Every step keeps the phases in which a process has the line or listens.
LEMMA PhaseStep ==
    ASSUME Types, RotatorPhases, ListenPhases, [Next]_vars
    PROVE  Types' /\ RotatorPhases' /\ ListenPhases'
<1> USE DEF Types, RotatorPhases, ListenPhases, Running, Starting, Closing,
            Watching, Goto, fileVars, deviceVars
<1>1. ASSUME NEW p \in Procs, StartViewer(p) \/ ViewerInformed(p) \/ TakeExec(p)
                              \/ TakeTimeout(p) \/ StartControl(p)
      PROVE  Types' /\ RotatorPhases' /\ ListenPhases'
  BY <1>1 DEF StartViewer, ViewerInformed, TakeExec, TakeTimeout, StartControl
<1>2. ASSUME NEW p \in Procs, ViewerQuit(p) \/ ProbeWelcome(p) \/ CloseSdr(p)
                              \/ Crash(p)
      PROVE  Types' /\ RotatorPhases' /\ ListenPhases'
  BY <1>2 DEF ViewerQuit, ProbeWelcome, CloseSdr, Crash, Die
<1>3. ASSUME NEW p \in Procs, TakeSignal(p)
      PROVE  Types' /\ RotatorPhases' /\ ListenPhases'
  BY <1>3 DEF TakeSignal, Die, Armed
<1>4. ASSUME NEW p \in Procs, Probe(p) \/ ProbeTurnedAway(p) \/ ProbeSilent(p)
                              \/ Unlink(p) \/ Bind(p) \/ Listen(p)
      PROVE  Types' /\ RotatorPhases' /\ ListenPhases'
  BY <1>4 DEF Probe, ProbeTurnedAway, ProbeSilent, Unlink, Bind, Listen
<1>5. ASSUME NEW p \in Procs, WritePid(p) \/ Arm(p) \/ OpenSdr(p) \/ LeaveLoop(p)
      PROVE  Types' /\ RotatorPhases' /\ ListenPhases'
  BY <1>5 DEF WritePid, Arm, OpenSdr, LeaveLoop
<1>6. ASSUME NEW p \in Procs, OpenRotator(p)
      PROVE  Types' /\ RotatorPhases' /\ ListenPhases'
  BY <1>6 DEF OpenRotator, Die
<1>7. ASSUME NEW p \in Procs, CloseRotator(p) \/ CloseListen(p) \/ UnlinkSock(p)
                              \/ UnlinkPid(p)
      PROVE  Types' /\ RotatorPhases' /\ ListenPhases'
  BY <1>7 DEF CloseRotator, CloseListen, UnlinkSock, UnlinkPid
<1>8. CASE UNCHANGED vars
  BY <1>8 DEF vars
<1> QED
  BY <1>1, <1>2, <1>3, <1>4, <1>5, <1>6, <1>7, <1>8 DEF Next, Chosen, Step

\* A process that ends, or goes where it neither owns nor waits, disturbs
\* nobody.
LEMMA Withdraw ==
    ASSUME Types, OneOwner, OneSeeker,
           NEW p \in Procs, NEW to \in {"gone", "viewer", "informed", "unlink_pid", "close_sdr"},
           Goto(p, to),
           \A q \in Procs \ {p} :
             /\ q \in listening => q \in listening'
             /\ asked'[q] = asked[q]
             /\ q \in yield' => q \in yield,
           UNCHANGED sock
    PROVE  OneOwner' /\ OneSeeker'
<1>1. pc'[p] = to /\ \A q \in Procs \ {p} : pc'[q] = pc[q]
  BY DEF Types, Goto
<1>2. pc'[p] \notin Owning \cup Seeking
  BY <1>1 DEF Owning, Building, Leaving, Seeking, Probing
<1>3. OneOwner'
  BY <1>1, <1>2 DEF OneOwner, Owning, Building, Leaving
<1>4. OneSeeker'
  BY <1>1, <1>2 DEF OneSeeker, Owning, Building, Leaving, Seeking, Probing
<1> QED
  BY <1>3, <1>4

\* Every step of every process keeps the order while nobody acts out of turn
\* and no serving operator turns a probe away.
LEMMA OrderStep ==
    ASSUME Types, ListenPhases, Orderly, [Next]_vars
    PROVE  Orderly'
<1> SUFFICES ASSUME InTurn'
             PROVE  OneOwner' /\ OneSeeker'
  BY DEF Orderly
<1> USE DEF InTurn, Goto, fileVars, deviceVars
<1>0. ASSUME InTurn PROVE OneOwner /\ OneSeeker
  BY <1>0 DEF Orderly
<1>1. ASSUME NEW p \in Procs, Unlink(p) \/ Bind(p) \/ Listen(p)
     PROVE  OneOwner' /\ OneSeeker'
  <2>1. OneOwner /\ OneSeeker
    BY <1>0, <1>1 DEF Unlink, Bind, Listen
  <2>2. OneOwner'
    BY <1>1, <2>1
       DEF Unlink, Bind, Listen,
           Types, OneOwner, OneSeeker, Owning, Building, Leaving, Seeking, Probing
  <2>3. OneSeeker'
    BY <1>1, <2>1
       DEF Unlink, Bind, Listen,
           Types, OneOwner, OneSeeker, Owning, Building, Leaving, Seeking, Probing
  <2> QED
    BY <2>2, <2>3
<1>2. ASSUME NEW p \in Procs, WritePid(p) \/ Arm(p) \/ OpenSdr(p)
     PROVE  OneOwner' /\ OneSeeker'
  <2>1. OneOwner /\ OneSeeker
    BY <1>0, <1>2 DEF WritePid, Arm, OpenSdr
  <2>2. OneOwner'
    BY <1>2, <2>1
       DEF WritePid, Arm, OpenSdr,
           Types, OneOwner, OneSeeker, Owning, Building, Leaving, Seeking, Probing
  <2>3. OneSeeker'
    BY <1>2, <2>1
       DEF WritePid, Arm, OpenSdr,
           Types, OneOwner, OneSeeker, Owning, Building, Leaving, Seeking, Probing
  <2> QED
    BY <2>2, <2>3
<1>3. ASSUME NEW p \in Procs, OpenRotator(p)
     PROVE  OneOwner' /\ OneSeeker'
  <2>1. OneOwner /\ OneSeeker
    BY <1>0, <1>3 DEF OpenRotator, Die
  <2>2. OneOwner'
    BY <1>3, <2>1
       DEF OpenRotator, Die,
           Types, OneOwner, OneSeeker, Owning, Building, Leaving, Seeking, Probing
  <2>3. OneSeeker'
    BY <1>3, <2>1
       DEF OpenRotator, Die,
           Types, OneOwner, OneSeeker, Owning, Building, Leaving, Seeking, Probing
  <2> QED
    BY <2>2, <2>3
<1>4. ASSUME NEW p \in Procs, CloseRotator(p) \/ CloseListen(p)
     PROVE  OneOwner' /\ OneSeeker'
  <2>1. OneOwner /\ OneSeeker
    BY <1>0, <1>4 DEF CloseRotator, CloseListen
  <2>2. OneOwner'
    BY <1>4, <2>1
       DEF CloseRotator, CloseListen,
           Types, OneOwner, OneSeeker, Owning, Building, Leaving, Seeking, Probing
  <2>3. OneSeeker'
    BY <1>4, <2>1
       DEF CloseRotator, CloseListen,
           Types, OneOwner, OneSeeker, Owning, Building, Leaving, Seeking, Probing
  <2> QED
    BY <2>2, <2>3
<1>5. ASSUME NEW p \in Procs, UnlinkSock(p) \/ UnlinkPid(p)
     PROVE  OneOwner' /\ OneSeeker'
  <2>1. OneOwner /\ OneSeeker
    BY <1>0, <1>5 DEF UnlinkSock, UnlinkPid
  <2>2. OneOwner'
    BY <1>5, <2>1
       DEF UnlinkSock, UnlinkPid,
           Types, OneOwner, OneSeeker, Owning, Building, Leaving, Seeking, Probing
  <2>3. OneSeeker'
    BY <1>5, <2>1
       DEF UnlinkSock, UnlinkPid,
           Types, OneOwner, OneSeeker, Owning, Building, Leaving, Seeking, Probing
  <2> QED
    BY <2>2, <2>3
<1>6. ASSUME NEW p \in Procs, LeaveLoop(p)
     PROVE  OneOwner' /\ OneSeeker'
  <2>1. OneOwner /\ OneSeeker
    BY <1>0, <1>6 DEF LeaveLoop, Noted
  <2>2. OneOwner'
    BY <1>6, <2>1
       DEF LeaveLoop, Types, OneOwner, OneSeeker, Owning, Building, Leaving, Seeking,
           Probing
  <2>3. OneSeeker'
    <3>1. \A q \in Procs : pc[q] \notin Probing
      <4>1. CASE p \in yield
        BY <1>6, <2>1, <4>1 DEF LeaveLoop, OneSeeker, Owning
      <4>2. CASE p \notin yield
        BY <1>6, <4>2 DEF LeaveLoop, Noted, Alone, Watching, Probing
      <4> QED
        BY <4>1, <4>2
    <3>2. pc'[p] = "close_rotator" /\ \A q \in Procs \ {p} : pc'[q] = pc[q]
      BY <1>6 DEF LeaveLoop, Types
    <3> QED
      BY <2>1, <3>1, <3>2 DEF OneSeeker, Building, Seeking, Probing
  <2> QED
    BY <2>2, <2>3
<1>7. ASSUME NEW p \in Procs, StartControl(p)
     PROVE  OneOwner' /\ OneSeeker'
  <2>1. OneOwner /\ OneSeeker
    BY <1>0, <1>7 DEF StartControl, Noted
  <2>2. OneOwner'
    BY <1>7, <2>1
       DEF StartControl, Types, OneOwner, OneSeeker, Owning, Building, Leaving, Seeking,
           Probing
  <2>3. OneSeeker'
    <3>1. \A q \in Procs \ {p} :
            /\ pc[q] \notin Building \cup Leaving \cup Seeking
            /\ pc[q] = "loop" => q \notin yield
      BY <1>7 DEF StartControl, Noted, Alone, Watching, Building, Leaving,
                  Seeking, Probing
    <3>2. pc'[p] = "probe" /\ \A q \in Procs \ {p} : pc'[q] = pc[q]
      BY <1>7 DEF StartControl, Types
    <3>3. yield' = yield
      BY <1>7 DEF StartControl
    <3> QED
      BY <3>1, <3>2, <3>3 DEF OneSeeker, Owning, Building, Leaving, Seeking, Probing
  <2> QED
    BY <2>2, <2>3
<1>8. ASSUME NEW p \in Procs, Probe(p) \/ ProbeSilent(p)
     PROVE  OneOwner' /\ OneSeeker'
  <2>1. OneOwner /\ OneSeeker
    BY <1>0, <1>8 DEF Probe, ProbeSilent, ListenPhases
  <2>2. OneOwner'
    BY <1>8, <2>1
       DEF Probe, ProbeSilent, ListenPhases,
           Types, OneOwner, OneSeeker, Owning, Building, Leaving, Seeking, Probing
  <2>3. OneSeeker'
    BY <1>8, <2>1
       DEF Probe, ProbeSilent, ListenPhases,
           Types, OneOwner, OneSeeker, Owning, Building, Leaving, Seeking, Probing
  <2> QED
    BY <2>2, <2>3
<1>9. ASSUME NEW p \in Procs, TakeSignal(p)
     PROVE  OneOwner' /\ OneSeeker'
  <2>1. OneOwner /\ OneSeeker
    BY <1>0, <1>9 DEF TakeSignal, Noted
  <2>2. OneOwner'
    BY <1>9, <2>1
       DEF TakeSignal, Types, OneOwner, OneSeeker, Owning, Building, Leaving, Seeking,
           Probing, Noted, Alone, Watching, Die, Armed, Running,
           Starting, Closing
  <2>3. OneSeeker'
    <3>1. \A q \in Procs \ {p} :
            /\ pc[q] \notin Building \cup Leaving \cup Seeking
            /\ pc[q] = "loop" => q \notin yield
      BY <1>9 DEF TakeSignal, Noted, Alone, Watching, Building, Leaving,
                  Seeking, Probing
    <3>2. /\ pc'[p] \in {"await", "gone"}
          /\ \A q \in Procs \ {p} : pc'[q] \in {pc[q], "gone"}
      BY <1>9 DEF TakeSignal, Types
    <3> QED
      BY <3>1, <3>2 DEF OneSeeker, Building, Seeking, Probing
  <2> QED
    BY <2>2, <2>3
<1>10. ASSUME NEW p \in Procs, TakeExec(p)
     PROVE  OneOwner' /\ OneSeeker'
  <2>1. OneOwner /\ OneSeeker
    BY <1>0, <1>10 DEF TakeExec
  <2>2. OneOwner'
    BY <1>10, <2>1
       DEF TakeExec, Types, OneOwner, OneSeeker, Owning, Building, Leaving, Seeking,
           Probing
  <2>3. OneSeeker'
    <3>1. \A q \in Procs : pc[q] \notin Owning
      BY <1>10, <2>1, ProcsAssumption
         DEF TakeExec, OneOwner, OneSeeker, Owning, Building, Seeking
    <3>2. pc'[p] = "probe" /\ \A q \in Procs \ {p} : pc'[q] = pc[q]
      BY <1>10 DEF TakeExec, Types
    <3>3. asked' = asked /\ pc[p] = "await"
      BY <1>10 DEF TakeExec
    <3> QED
      BY <2>1, <3>1, <3>2, <3>3
         DEF OneSeeker, Owning, Building, Leaving, Seeking, Probing
  <2> QED
    BY <2>2, <2>3
<1>11. ASSUME NEW p \in Procs, StartViewer(p) \/ ViewerInformed(p) \/ TakeTimeout(p)
     PROVE  OneOwner' /\ OneSeeker'
  <2>1. OneOwner /\ OneSeeker
    BY <1>0, <1>11 DEF StartViewer, ViewerInformed, TakeTimeout
  <2> QED
    BY <1>11, <2>1, Withdraw DEF StartViewer, ViewerInformed, TakeTimeout, Types
<1>12. ASSUME NEW p \in Procs, ViewerQuit(p) \/ ProbeWelcome(p) \/ CloseSdr(p) \/ Crash(p)
     PROVE  OneOwner' /\ OneSeeker'
  <2>1. OneOwner /\ OneSeeker
    BY <1>0, <1>12 DEF ViewerQuit, ProbeWelcome, CloseSdr, Crash
  <2> QED
    BY <1>12, <2>1, Withdraw DEF ViewerQuit, ProbeWelcome, CloseSdr, Crash, Die, Types
<1>13. ASSUME NEW p \in Procs
      PROVE  ~ProbeTurnedAway(p)
  BY DEF ProbeTurnedAway
<1>14. CASE UNCHANGED vars
  BY <1>0, <1>14 DEF vars, OneOwner, OneSeeker
<1> QED
  BY <1>1, <1>2, <1>3, <1>4, <1>5, <1>6, <1>7, <1>8, <1>9, <1>10, <1>11, <1>12,
     <1>13, <1>14 DEF Next, Chosen, Step

-----------------------------------------------------------------------------

\* The four parts together are inductive.
THEOREM Inductive == Spec => []IInv
<1>1. Init => IInv
  BY DEF Init, IInv, Types, RotatorPhases, ListenPhases, Orderly, OneOwner,
         OneSeeker, Owning, Building, Leaving, Seeking, Probing
<1>2. IInv /\ [Next]_vars => IInv'
  BY PhaseStep, OrderStep DEF IInv
<1> QED
  BY <1>1, <1>2, PTL DEF Spec

\* At most one process has the rotator's serial line open, for any number of
\* processes that start, take over, quit and crash one at a time, as long as no
\* serving operator closes a probe without a welcome: the shutdown of
\* apps/main.c closes the line while the socket path is still its own.
THEOREM MasterSafe == Spec => []OneRotatorMaster
<1>1. IInv => OneRotatorMaster
  <2> SUFFICES ASSUME IInv, InTurn PROVE Cardinality(rotator) <= 1
    BY DEF OneRotatorMaster
  <2>1. \A p, q \in rotator : p = q
    BY DEF IInv, RotatorPhases, Orderly, OneOwner, Owning, Building, Leaving
  <2>2. CASE rotator = {}
    BY <2>2, FS_EmptySet
  <2>3. CASE rotator # {}
    <3>1. PICK p \in rotator : TRUE
      BY <2>3
    <3>2. rotator = {p}
      BY <2>1, <3>1
    <3> QED
      BY <3>2, FS_Singleton
  <2> QED
    BY <2>2, <2>3
<1> QED
  BY Inductive, <1>1, PTL

\* An operator in its loop owns the socket path and listens on it, so the next
\* probe of sso_operator_verify finds it, under the same two conditions.
THEOREM FoundSafe == Spec => []OperatorIsFound
<1>1. IInv => OperatorIsFound
  BY DEF IInv, Orderly, OneOwner, Owning, OperatorIsFound
<1> QED
  BY Inductive, <1>1, PTL
=============================================================================
