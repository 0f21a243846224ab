---------------------------- MODULE AutoTcmdProofs ----------------------------
(***************************************************************************)
(* Proofs about AutoTcmd for any command lines, any length of the command  *)
(* file, any number of repeats and any interval: no live run without its   *)
(* list, no way around the lint gate or the allow-tx box, exact repeats,   *)
(* and nothing staged after the pass.                                      *)
(***************************************************************************)
EXTENDS AutoTcmd, TLAPS

\* What the arguments need of TypeOK.
Types ==
    /\ n_commands \in 0 .. MaxCommands
    /\ cmd_idx \in Nat /\ repeat_idx \in Nat /\ sends_total \in Nat
    /\ repeats_total \in Nat
    /\ count \in [Cmd -> Nat]

\* The modal on screen has its list, and only one modal is on screen.
ModalOwnsList ==
    /\ auto_active => commands
    /\ ~(auto_active /\ compose_active)

\* What AutoStart made sure of stays true for as long as the run lives.
Cleared == LiveRunHasCommands /\ LiveRunIsCleared

Repeats == RepeatsExact /\ (Live => repeats_total > 0)

IInv == Types /\ ModalOwnsList /\ Cleared /\ Repeats

-----------------------------------------------------------------------------

\* Every step keeps the types the other parts need.
LEMMA TypesStep ==
    ASSUME Types, [Next]_vars
    PROVE  Types'
<1> USE AutoAssumption DEF Types
<1>1. CASE KeyNothing \/ ComposeOpen \/ ComposeEscape \/ ComposeCommit
           \/ AutoReopen \/ ToggleAllowTx
  BY <1>1 DEF KeyNothing, ComposeOpen, ComposeEscape, ComposeCommit, AutoReopen,
              ToggleAllowTx, runVars
<1>2. CASE AutoOpen
  BY <1>2 DEF AutoOpen, NoList, NoSends
<1>3. CASE AutoStart
  BY <1>3 DEF AutoStart, FromTheTop, NoSends
<1>4. CASE AutoStop \/ AutoInterrupt \/ AutoKeepRunning \/ AutoAbort
  BY <1>4 DEF AutoStop, AutoInterrupt, AutoKeepRunning, AutoAbort, MoveTo, runVars
<1>5. CASE AutoPause \/ AutoEscape
  BY <1>5 DEF AutoPause, AutoEscape, CloseModal, NoList
<1>6. CASE AutoResume \/ AutoRestart
  BY <1>6 DEF AutoResume, AutoRestart, FromTheTop, NoSends
<1>7. CASE TickNothing \/ TickPassOver \/ TickDone \/ TickSkip
  BY <1>7 DEF TickNothing, TickPassOver, TickDone, TickSkip, notTick
<1>8. CASE TickStage
  <2>1. cmd_idx + 1 \in Cmd
    BY <1>8 DEF TickStage, Due, Cmd
  <2> QED
    BY <1>8, <2>1 DEF TickStage, notTick
<1>9. CASE Service
  BY <1>9 DEF Service
<1>10. CASE UNCHANGED vars
  BY <1>10 DEF vars, runVars
<1> QED
  BY <1>1, <1>2, <1>3, <1>4, <1>5, <1>6, <1>7, <1>8, <1>9, <1>10
     DEF Next, Keys, TickAny

\* Every step keeps the list with the modal that owns it.
LEMMA ModalStep ==
    ASSUME ModalOwnsList, [Next]_vars
    PROVE  ModalOwnsList'
<1> USE DEF ModalOwnsList
<1>1. CASE KeyNothing \/ ComposeOpen \/ ComposeEscape \/ ComposeCommit
           \/ AutoReopen \/ ToggleAllowTx
  BY <1>1 DEF KeyNothing, ComposeOpen, ComposeEscape, ComposeCommit, AutoReopen,
              ToggleAllowTx
<1>2. CASE AutoOpen
  BY <1>2 DEF AutoOpen, NoList
<1>3. CASE AutoStart \/ AutoResume \/ AutoRestart
  BY <1>3 DEF AutoStart, AutoResume, AutoRestart
<1>4. CASE AutoStop \/ AutoInterrupt \/ AutoKeepRunning \/ AutoAbort
  BY <1>4 DEF AutoStop, AutoInterrupt, AutoKeepRunning, AutoAbort, MoveTo
<1>5. CASE AutoPause \/ AutoEscape
  BY <1>5 DEF AutoPause, AutoEscape, CloseModal, NoList
<1>6. CASE TickAny
  BY <1>6 DEF TickAny, TickNothing, TickPassOver, TickDone, TickSkip, TickStage,
              notTick
<1>7. CASE Service
  BY <1>7 DEF Service
<1>8. CASE UNCHANGED vars
  BY <1>8 DEF vars
<1> QED
  BY <1>1, <1>2, <1>3, <1>4, <1>5, <1>6, <1>7, <1>8 DEF Next, Keys

\* Every step keeps a live run on a list that the checks have cleared.
LEMMA ClearedStep ==
    ASSUME ModalOwnsList, Cleared, [Next]_vars
    PROVE  Cleared'
<1> USE DEF ModalOwnsList, Cleared, LiveRunHasCommands, LiveRunIsCleared, Live,
            GateProceeds, Passes
<1>1. CASE KeyNothing \/ ComposeOpen \/ ComposeEscape \/ ComposeCommit \/ AutoReopen
  BY <1>1 DEF KeyNothing, ComposeOpen, ComposeEscape, ComposeCommit, AutoReopen,
              runVars, notKey
<1>2. CASE AutoOpen
  BY <1>2 DEF AutoOpen, NoList
<1>3. CASE ToggleAllowTx
  BY <1>3 DEF ToggleAllowTx, Editing
<1>4. CASE AutoStart
  BY <1>4 DEF AutoStart, notKey
<1>5. CASE AutoStop \/ AutoInterrupt \/ AutoKeepRunning \/ AutoAbort
  BY <1>5 DEF AutoStop, AutoInterrupt, AutoKeepRunning, AutoAbort, MoveTo,
              runVars, notKey
<1>6. CASE AutoPause
  BY <1>6 DEF AutoPause, CloseModal, notKey
<1>7. CASE AutoEscape
  BY <1>7 DEF AutoEscape, CloseModal, NoList, Editing
<1>8. CASE AutoResume \/ AutoRestart
  BY <1>8 DEF AutoResume, AutoRestart, notKey
<1>9. CASE TickAny
  BY <1>9 DEF TickAny, TickNothing, TickPassOver, TickDone, TickSkip, TickStage,
              notTick
<1>10. CASE Service
  BY <1>10 DEF Service
<1>11. CASE UNCHANGED vars
  BY <1>11 DEF vars, runVars
<1> QED
  BY <1>1, <1>2, <1>3, <1>4, <1>5, <1>6, <1>7, <1>8, <1>9, <1>10, <1>11
     DEF Next, Keys

\* A step that keeps position, repeats and history, and makes no run live.
LEMMA RepeatsFrame ==
    ASSUME Repeats,
           UNCHANGED <<repeats_total, cmd_idx, repeat_idx, count, skipped>>,
           Live' => Live,
           (auto_active' /\ astate' = "DONE") =>
              auto_active /\ astate = "DONE" /\ n_commands' = n_commands
    PROVE  Repeats'
BY DEF Repeats, RepeatsExact

\* A run at the top of its list.
LEMMA RepeatsFresh ==
    ASSUME FromTheTop, repeats_total' \in Nat, repeats_total' > 0,
           ~(auto_active' /\ astate' = "DONE")
    PROVE  Repeats'
BY AutoAssumption DEF Repeats, RepeatsExact, FromTheTop, NoSends, Cmd

\* Every step keeps the count of sends in line with the position in the list.
LEMMA RepeatsStep ==
    ASSUME Types, ModalOwnsList, Cleared, Repeats, [Next]_vars
    PROVE  Repeats'
<1>1. CASE KeyNothing \/ ComposeOpen \/ ComposeEscape \/ ComposeCommit \/ AutoReopen
  BY <1>1, RepeatsFrame DEF KeyNothing, ComposeOpen, ComposeEscape, ComposeCommit,
              AutoReopen, runVars, Live
<1>2. CASE AutoOpen
  <2>1. ~Live'
    BY <1>2 DEF AutoOpen, NoList, Live, Cleared, LiveRunHasCommands
  <2>2. ~(auto_active' /\ astate' = "DONE")
    BY <1>2 DEF AutoOpen
  <2> QED
    BY <2>1, <2>2 DEF Repeats, RepeatsExact
<1>3. CASE ToggleAllowTx
  BY <1>3, RepeatsFrame DEF ToggleAllowTx, Live
<1>4. CASE AutoStart
  <2>1. repeats_total' \in Nat /\ repeats_total' > 0
    BY <1>4, AutoAssumption DEF AutoStart
  <2> QED
    BY <1>4, <2>1, RepeatsFresh DEF AutoStart
<1>5. CASE AutoStop \/ AutoInterrupt \/ AutoKeepRunning \/ AutoAbort
  BY <1>5, RepeatsFrame DEF AutoStop, AutoInterrupt, AutoKeepRunning, AutoAbort,
              MoveTo, runVars, Live
<1>6. CASE AutoPause \/ AutoEscape
  BY <1>6, RepeatsFrame DEF AutoPause, AutoEscape, CloseModal, NoList, Live, Editing
<1>7. CASE AutoResume
  BY <1>7, RepeatsFrame DEF AutoResume, Live
<1>8. CASE AutoRestart
  <2>1. repeats_total' \in Nat /\ repeats_total' > 0
    BY <1>8 DEF AutoRestart, Types, Repeats, Live
  <2> QED
    BY <1>8, <2>1, RepeatsFresh DEF AutoRestart
<1>9. CASE TickNothing \/ TickPassOver
  BY <1>9, RepeatsFrame DEF TickNothing, TickPassOver, notTick, Live
<1>10. CASE TickDone
  <2>1. Live /\ ~Live'
    BY <1>10 DEF TickDone, Ticking, Live
  <2>2. n_commands \in 0 .. MaxCommands /\ cmd_idx \in Nat /\ cmd_idx >= n_commands
    BY <1>10 DEF TickDone, Types
  <2>3. \A i \in 1 .. n_commands : i \in Cmd /\ i <= cmd_idx
    BY <2>2, AutoAssumption DEF Cmd
  <2> QED
    BY <1>10, <2>1, <2>3 DEF TickDone, notTick, Repeats, RepeatsExact
<1>11. CASE TickSkip
  <2>1. Live /\ Live' /\ cmd_idx < n_commands /\ astate' # "DONE"
    BY <1>11 DEF TickSkip, Due, Ticking, notTick, Live
  <2>2. /\ cmd_idx' = cmd_idx + 1 /\ repeat_idx' = 0
        /\ skipped' = skipped \cup {cmd_idx + 1}
        /\ count' = count /\ repeats_total' = repeats_total
    BY <1>11 DEF TickSkip, notTick
  <2> QED
    BY <2>1, <2>2, AutoAssumption DEF Types, Repeats, RepeatsExact, Cmd
<1>12. CASE TickStage
  <2>1. Live /\ Live' /\ cmd_idx < n_commands /\ astate' # "DONE"
    BY <1>12 DEF TickStage, Due, Ticking, notTick, Live
  <2>2. /\ count' = [count EXCEPT ![cmd_idx + 1] = @ + 1]
        /\ IF repeat_idx + 1 >= repeats_total
             THEN cmd_idx' = cmd_idx + 1 /\ repeat_idx' = 0
             ELSE cmd_idx' = cmd_idx /\ repeat_idx' = repeat_idx + 1
        /\ skipped' = skipped /\ repeats_total' = repeats_total
    BY <1>12 DEF TickStage, notTick
  <2>3. cmd_idx + 1 \in Cmd
    BY <2>1, AutoAssumption DEF Types, Cmd
  <2>4. /\ count[cmd_idx + 1] = repeat_idx /\ repeat_idx < repeats_total
        /\ repeats_total > 0
    BY <2>1, <2>3 DEF Repeats, RepeatsExact
  <2>5. ASSUME NEW i \in Cmd
        PROVE /\ i <= cmd_idx' /\ i \notin skipped' => count'[i] = repeats_total'
              /\ i <= cmd_idx' => count'[i] <= repeats_total'
              /\ i = cmd_idx' + 1 => count'[i] = repeat_idx' /\ repeat_idx' < repeats_total'
              /\ i > cmd_idx' + 1 => count'[i] = 0
    <3>1. /\ i <= cmd_idx /\ i \notin skipped => count[i] = repeats_total
          /\ i <= cmd_idx => count[i] <= repeats_total
          /\ i > cmd_idx + 1 => count[i] = 0
      BY <2>1 DEF Repeats, RepeatsExact
    <3>2. count'[i] = IF i = cmd_idx + 1 THEN repeat_idx + 1 ELSE count[i]
      BY <2>2, <2>4 DEF Types
    <3>3. i \in Nat /\ cmd_idx \in Nat /\ repeat_idx \in Nat /\ repeats_total \in Nat
      BY AutoAssumption DEF Types, Cmd
    <3> QED
      BY <2>2, <2>4, <3>1, <3>2, <3>3
  <2> QED
    BY <2>1, <2>2, <2>4, <2>5 DEF Repeats, RepeatsExact
<1>13. CASE Service
  BY <1>13, RepeatsFrame DEF Service, Live
<1>14. CASE UNCHANGED vars
  BY <1>14, RepeatsFrame DEF vars, runVars, Live
<1> QED
  BY <1>1, <1>2, <1>3, <1>4, <1>5, <1>6, <1>7, <1>8, <1>9, <1>10, <1>11, <1>12,
     <1>13, <1>14 DEF Next, Keys, TickAny

-----------------------------------------------------------------------------

\* The four parts together are inductive.
THEOREM Inductive == Spec => []IInv
<1>1. Init => IInv
  BY AutoAssumption
     DEF Init, IInv, Types, ModalOwnsList, Cleared, LiveRunHasCommands,
         LiveRunIsCleared, Repeats, RepeatsExact, Live, NoSends, Cmd
<1>2. IInv /\ [Next]_vars => IInv'
  BY TypesStep, ModalStep, ClearedStep, RepeatsStep DEF IInv
<1> QED
  BY <1>1, <1>2, PTL DEF Spec

\* A run that can still send has its command list: auto_tcmd_close never frees
\* it under a run that the tick or the resume prompt goes back to.
THEOREM ListSafe == Spec => []LiveRunHasCommands
<1>1. IInv => LiveRunHasCommands
  BY DEF IInv, Cleared
<1> QED
  BY Inductive, <1>1, PTL

\* Nothing in ui/auto_tcmd.c leads to a live run around the allow-tx box or
\* around the lint gate, for the flaws of the loaded list as far as the
\* second read of the file saw them.
THEOREM GateSafe == Spec => []LiveRunIsCleared
<1>1. IInv => LiveRunIsCleared
  BY DEF IInv, Cleared
<1> QED
  BY Inductive, <1>1, PTL

\* auto_tcmd_tick sends every command exactly as often as asked.
THEOREM RepeatsSafe == Spec => []RepeatsExact
<1>1. IInv => RepeatsExact
  BY DEF IInv, Repeats
<1> QED
  BY Inductive, <1>1, PTL

\* Only auto_tcmd_tick stages for a run, and only within the pass, with the run
\* on screen and no other modal.
THEOREM PassSafe == Spec => SendsOnlyInPass
<1> DEFINE InPass == AutoStaged => /\ cfg.testing \/ geometry # "over"
                                   /\ astate = "RUNNING" /\ ~compose_active
<1>1. IInv /\ [Next]_vars => [InPass]_vars
  <2> SUFFICES ASSUME IInv, Next, AutoStaged
               PROVE  /\ cfg.testing \/ geometry # "over"
                      /\ astate = "RUNNING" /\ ~compose_active
    OBVIOUS
  <2>1. sends_total \in Nat /\ sends_total' > sends_total
    BY DEF IInv, Types, AutoStaged
  <2>2. TickStage
    <3>1. CASE AutoOpen \/ AutoStart \/ AutoRestart
      BY <2>1, <3>1 DEF AutoOpen, AutoStart, AutoRestart, FromTheTop
    <3>2. CASE KeyNothing \/ ComposeOpen \/ ComposeEscape \/ ComposeCommit
               \/ AutoReopen \/ ToggleAllowTx \/ AutoStop \/ AutoInterrupt
               \/ AutoKeepRunning \/ AutoAbort
      BY <2>1, <3>2 DEF KeyNothing, ComposeOpen, ComposeEscape, ComposeCommit,
            AutoReopen, ToggleAllowTx, AutoStop, AutoInterrupt, AutoKeepRunning,
            AutoAbort, MoveTo, runVars
    <3>3. CASE AutoPause \/ AutoEscape \/ AutoResume
      BY <2>1, <3>3 DEF AutoPause, AutoEscape, AutoResume
    <3>4. CASE TickNothing \/ TickPassOver \/ TickDone \/ TickSkip \/ Service
      BY <2>1, <3>4 DEF TickNothing, TickPassOver, TickDone, TickSkip, Service
    <3> QED
      BY <3>1, <3>2, <3>3, <3>4 DEF Next, Keys, TickAny
  <2> QED
    BY <2>2 DEF IInv, ModalOwnsList, TickStage, Due, Ticking, PassOver
<1> QED
  BY Inductive, <1>1, PTL DEF Spec, SendsOnlyInPass
=============================================================================
