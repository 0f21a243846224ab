------------------------------ MODULE AutoTcmd ------------------------------
(***************************************************************************)
(* Who stages a transmission: the auto-tcmd run (ui/auto_tcmd.c) and the   *)
(* compose form (ui/tx_compose.c), two modals fed by the same key stream   *)
(* (ui/input.c) and sharing the one tx_request slot, over the main loop's  *)
(* order of work: keys, then auto_tcmd_tick, then the slot's service.      *)
(*                                                                         *)
(* The service of the slot is TxSlot's promise; here it only frees it.     *)
(* next_send_ns is kept as the time left to it.                            *)
(***************************************************************************)
EXTENDS Naturals, FiniteSets

CONSTANTS
    Configs,        \* command lines considered
    MaxCommands,    \* longest command file
    MaxRepeats,     \* largest repeats field
    Interval        \* interval_s_val, in clock steps

Cfg == [no_tx: BOOLEAN, testing: BOOLEAN, ignore_tc_errors: BOOLEAN,
        ignore_dangerous: BOOLEAN]

ASSUME AutoAssumption == /\ Configs \subseteq Cfg
                         /\ MaxCommands \in Nat \ {0}
                         /\ MaxRepeats \in Nat \ {0}
                         /\ Interval \in Nat

VARIABLES
    cfg,            \* flags of the command line
    phase,          \* "keys", "tick" or "service"
    geometry,       \* "up"; "wobble": below, visible within 30 s; "over"
    compose_active, auto_active,
    astate,         \* auto_tcmd.state
    commands,       \* the command list is allocated
    n_commands,
    lint,           \* lint_errors > 0 and lint_dangers > 0, as kinds found
    allow_tx,
    repeats_total, cmd_idx, repeat_idx, sends_total,
    wait,           \* next_send_ns - now, 0 once it has passed
    pending,        \* tx_request.pending
    on_air,         \* history: some staged request was transmitted
    flaws,          \* history: what is wrong with the commands in the list
    count,          \* history: sends of command i in this run
    skipped         \* history: commands skipped in this run

runVars == <<n_commands, lint, allow_tx, repeats_total, cmd_idx, repeat_idx,
             sends_total, wait, flaws, count, skipped>>
vars == <<cfg, phase, geometry, compose_active, auto_active, astate, commands,
          runVars, pending, on_air>>

Flaw == {"error", "danger"}
AutoState == {"SETUP", "RUNNING", "PAUSE_PROMPT", "PAUSED", "RESUME_PROMPT",
              "STOPPED", "DONE", "PASS_OVER"}
Cmd == 1..MaxCommands
NoSends == [i \in Cmd |-> 0]

Init ==
    /\ cfg \in Configs
    /\ phase = "keys"
    /\ geometry \in {"up", "wobble", "over"}
    /\ compose_active = FALSE /\ auto_active = FALSE
    /\ astate = "SETUP" /\ commands = FALSE /\ n_commands = 0
    /\ lint = {} /\ flaws = {} /\ allow_tx = FALSE
    /\ repeats_total = 0 /\ cmd_idx = 0 /\ repeat_idx = 0 /\ sends_total = 0
    /\ wait = 0 /\ pending = FALSE /\ on_air = FALSE
    /\ count = NoSends /\ skipped = {}

-----------------------------------------------------------------------------
(* Keys.                                                                   *)

Key == phase = "keys" /\ phase' = "tick"
notKey == <<cfg, geometry, on_air>>

KeyNothing ==
    /\ Key
    /\ UNCHANGED <<notKey, compose_active, auto_active, astate, commands,
                   runVars, pending>>

\* 't' or :tx; newwin may fail, which leaves everything as it was.
ComposeOpen ==
    /\ Key
    /\ ~compose_active /\ ~auto_active
    /\ compose_active' = TRUE
    /\ UNCHANGED <<notKey, auto_active, astate, commands, runVars, pending>>

ComposeEscape ==
    /\ Key
    /\ compose_active
    /\ compose_active' = FALSE
    /\ UNCHANGED <<notKey, auto_active, astate, commands, runVars, pending>>

\* Enter with a payload that validates and expands; every refusal leaves the
\* form open (KeyNothing).
ComposeCommit ==
    /\ Key
    /\ compose_active
    /\ ~cfg.no_tx
    /\ ~pending
    /\ pending' = TRUE
    /\ compose_active' = FALSE
    /\ UNCHANGED <<notKey, auto_active, astate, commands, runVars>>

\* 'A' on a parked run: the resume prompt, unless newwin fails.
AutoReopen ==
    /\ Key
    /\ ~compose_active /\ ~auto_active
    /\ astate = "PAUSED" /\ commands
    /\ astate' = "RESUME_PROMPT"
    /\ auto_active' \in BOOLEAN
    /\ UNCHANGED <<notKey, compose_active, commands, runVars, pending>>

NoList == commands' = FALSE /\ n_commands' = 0 /\ flaws' = {}

\* A command has one severity, the worst found.
FlawsOf(n) == {f \in SUBSET Flaw : Cardinality(f) <= n}

\* 'A' otherwise: auto_tcmd_reload frees the old list, reads the file and
\* reads it a second time to lint it.  The load may fail, and so may newwin.
\* The second read may find the file edited since, or find no flaw because
\* the file or /dev/null cannot be opened any more.
AutoOpen ==
    /\ Key
    /\ ~compose_active /\ ~auto_active
    /\ ~(astate = "PAUSED" /\ commands)
    /\ UNCHANGED <<notKey, compose_active, pending>>
    /\ \/ /\ NoList
          /\ UNCHANGED <<auto_active, astate, lint, allow_tx, repeats_total,
                         cmd_idx, repeat_idx, sends_total, wait, count, skipped>>
       \/ /\ auto_active' \in BOOLEAN
          /\ IF auto_active'
               THEN /\ commands' = TRUE
                    /\ n_commands' \in 0..MaxCommands
                    /\ flaws' \in FlawsOf(n_commands')
               ELSE NoList
          /\ lint' \in SUBSET Flaw
          /\ astate' = "SETUP" /\ allow_tx' = FALSE
          /\ repeats_total' = 0 /\ cmd_idx' = 0 /\ repeat_idx' = 0
          /\ sends_total' = 0 /\ wait' = 0
          /\ count' = NoSends /\ skipped' = {}

Editing == astate \in {"SETUP", "STOPPED", "DONE", "PASS_OVER"}

ToggleAllowTx ==
    /\ Key
    /\ auto_active /\ Editing
    /\ allow_tx' = ~allow_tx
    /\ UNCHANGED <<notKey, compose_active, auto_active, astate, commands,
                   pending, n_commands, lint, repeats_total, cmd_idx, repeat_idx,
                   sends_total, wait, flaws, count, skipped>>

\* Flaws that each have their own opt-out on the command line.
Passes(found) ==
    /\ "danger" \in found => cfg.ignore_dangerous
    /\ "error" \in found => cfg.ignore_tc_errors

\* Mutant of GateProceeds: a brick risk waved through hides the parse errors.
GateProceedsOutranked ==
    IF "danger" \in lint THEN cfg.ignore_dangerous ELSE Passes(lint)

\* tcmd_lint_gate_decision, on the counts of the second read.
GateProceeds == Passes(lint)

\* Run position and history back to the top of the list.
FromTheTop ==
    /\ cmd_idx' = 0 /\ repeat_idx' = 0 /\ sends_total' = 0 /\ wait' = 0
    /\ count' = NoSends /\ skipped' = {}

\* Enter: auto_tcmd_start.  A rejection changes only the status line.
AutoStart ==
    /\ Key
    /\ auto_active /\ Editing
    /\ n_commands > 0
    /\ GateProceeds
    /\ allow_tx
    /\ repeats_total' \in 1..MaxRepeats
    /\ FromTheTop
    /\ astate' = "RUNNING"
    /\ UNCHANGED <<notKey, compose_active, auto_active, commands, pending,
                   n_commands, lint, allow_tx, flaws>>

\* A transition of the run that leaves its position and the modal alone.
MoveTo(from, to) ==
    /\ Key
    /\ auto_active
    /\ astate = from
    /\ astate' = to
    /\ UNCHANGED <<notKey, compose_active, auto_active, commands, runVars, pending>>

AutoStop == MoveTo("RUNNING", "STOPPED")                 \* S
AutoInterrupt == MoveTo("RUNNING", "PAUSE_PROMPT")       \* Esc
AutoKeepRunning == MoveTo("PAUSE_PROMPT", "RUNNING")     \* Esc
AutoAbort == MoveTo("PAUSE_PROMPT", "STOPPED")           \* A

\* Mutant of CloseModal: the list is freed for a paused run too.
CloseModalFrees ==
    /\ auto_active' = FALSE
    /\ NoList

\* auto_tcmd_close: the list is kept only for a paused run.
CloseModal ==
    /\ auto_active' = FALSE
    /\ IF astate' = "PAUSED"
         THEN UNCHANGED <<commands, n_commands, flaws>>
         ELSE NoList

\* 'P' at the prompt, or Esc at the resume prompt: parked, modal closed.
AutoPause ==
    /\ Key
    /\ auto_active
    /\ astate \in {"PAUSE_PROMPT", "RESUME_PROMPT"}
    /\ astate' = "PAUSED"
    /\ CloseModal
    /\ UNCHANGED <<notKey, compose_active, pending, lint, allow_tx,
                   repeats_total, cmd_idx, repeat_idx, sends_total, wait,
                   count, skipped>>

\* Esc when no run is live.
AutoEscape ==
    /\ Key
    /\ auto_active /\ Editing
    /\ UNCHANGED astate
    /\ CloseModal
    /\ UNCHANGED <<notKey, compose_active, pending, lint, allow_tx,
                   repeats_total, cmd_idx, repeat_idx, sends_total, wait,
                   count, skipped>>

\* 'R': the position is kept and the next send is due at once.
AutoResume ==
    /\ Key
    /\ auto_active
    /\ astate = "RESUME_PROMPT"
    /\ astate' = "RUNNING"
    /\ wait' = 0
    /\ UNCHANGED <<notKey, compose_active, auto_active, commands, pending,
                   n_commands, lint, allow_tx, repeats_total, cmd_idx,
                   repeat_idx, sends_total, flaws, count, skipped>>

AutoRestart ==                                           \* S
    /\ Key
    /\ auto_active
    /\ astate = "RESUME_PROMPT"
    /\ astate' = "RUNNING"
    /\ FromTheTop
    /\ UNCHANGED <<notKey, compose_active, auto_active, commands, pending,
                   n_commands, lint, allow_tx, repeats_total, flaws>>

-----------------------------------------------------------------------------
(* auto_tcmd_tick.                                                         *)

Ticking == auto_active /\ astate = "RUNNING"
\* Mutant of PassOver: the bench flag the wrong way round.
PassOverInverted == cfg.testing /\ geometry = "over"
PassOver == ~cfg.testing /\ geometry = "over"
Tick == phase = "tick" /\ phase' = "service"
notTick == <<cfg, geometry, on_air, compose_active, auto_active, commands,
             n_commands, lint, allow_tx, repeats_total, flaws>>

\* Not running, or the interval not over, or the slot still held.
TickNothing ==
    /\ Tick
    /\ Ticking => /\ ~PassOver
                  /\ cmd_idx < n_commands
                  /\ wait > 0 \/ pending
    /\ UNCHANGED <<notTick, astate, cmd_idx, repeat_idx, sends_total, wait,
                   count, skipped, pending>>

TickPassOver ==
    /\ Tick
    /\ Ticking /\ PassOver
    /\ astate' = "PASS_OVER"
    /\ UNCHANGED <<notTick, cmd_idx, repeat_idx, sends_total, wait, count,
                   skipped, pending>>

TickDone ==
    /\ Tick
    /\ Ticking /\ ~PassOver
    /\ cmd_idx >= n_commands
    /\ astate' = "DONE"
    /\ UNCHANGED <<notTick, cmd_idx, repeat_idx, sends_total, wait, count,
                   skipped, pending>>

Due == Ticking /\ ~PassOver /\ cmd_idx < n_commands /\ wait = 0 /\ ~pending

\* Mutant of TickSkip: the line is retried.
TickSkipStays ==
    /\ Tick
    /\ Due
    /\ UNCHANGED cmd_idx
    /\ repeat_idx' = 0
    /\ wait' = 0
    /\ skipped' = skipped \cup {cmd_idx + 1}
    /\ UNCHANGED <<notTick, astate, sends_total, count, pending>>

\* An SSO+ line that does not expand, or expands past the RF limit.
TickSkip ==
    /\ Tick
    /\ Due
    /\ cmd_idx' = cmd_idx + 1
    /\ repeat_idx' = 0
    /\ wait' = 0
    /\ skipped' = skipped \cup {cmd_idx + 1}
    /\ UNCHANGED <<notTick, astate, sends_total, count, pending>>

\* Mutant of TickStage: one repeat too many.
TickStageOnceMore ==
    /\ Tick
    /\ Due
    /\ pending' = TRUE
    /\ sends_total' = sends_total + 1
    /\ count' = [count EXCEPT ![cmd_idx + 1] = @ + 1]
    /\ IF repeat_idx + 1 > repeats_total
         THEN cmd_idx' = cmd_idx + 1 /\ repeat_idx' = 0
         ELSE UNCHANGED cmd_idx /\ repeat_idx' = repeat_idx + 1
    /\ wait' = Interval
    /\ UNCHANGED <<notTick, astate, skipped>>

\* Stage the command under cmd_idx and advance past its last repeat.
TickStage ==
    /\ Tick
    /\ Due
    /\ pending' = TRUE
    /\ sends_total' = sends_total + 1
    /\ count' = [count EXCEPT ![cmd_idx + 1] = @ + 1]
    /\ IF repeat_idx + 1 >= repeats_total
         THEN cmd_idx' = cmd_idx + 1 /\ repeat_idx' = 0
         ELSE UNCHANGED cmd_idx /\ repeat_idx' = repeat_idx + 1
    /\ wait' = Interval
    /\ UNCHANGED <<notTick, astate, skipped>>

-----------------------------------------------------------------------------
(* The rest of the iteration: the slot is serviced, time passes and the    *)
(* satellite moves.                                                        *)

Service ==
    /\ phase = "service" /\ phase' = "keys"
    /\ \/ UNCHANGED <<pending, on_air>>
       \/ pending' = FALSE /\ on_air' \in {on_air, on_air \/ pending}
    /\ \E t \in 0..1 : wait' = IF wait >= t THEN wait - t ELSE 0
    /\ geometry' \in {"up", "wobble", "over"}
    /\ UNCHANGED <<cfg, compose_active, auto_active, astate, commands,
                   n_commands, lint, allow_tx, repeats_total, cmd_idx,
                   repeat_idx, sends_total, flaws, count, skipped>>

Keys ==
    \/ KeyNothing \/ ComposeOpen \/ ComposeEscape \/ ComposeCommit
    \/ AutoReopen \/ AutoOpen \/ ToggleAllowTx \/ AutoStart \/ AutoStop
    \/ AutoInterrupt \/ AutoKeepRunning \/ AutoAbort \/ AutoPause \/ AutoEscape
    \/ AutoResume \/ AutoRestart

TickAny == TickNothing \/ TickPassOver \/ TickDone \/ TickSkip \/ TickStage

Next == Keys \/ TickAny \/ Service

Spec == Init /\ [][Next]_vars

\* The loop never stops; the slot's service answers every request (TxBurst,
\* RequestResolved) and the clock moves on.
FairSpec ==
    /\ Spec
    /\ WF_vars(KeyNothing) /\ WF_vars(TickAny) /\ WF_vars(Service)
    /\ SF_vars(Service /\ pending' # pending)
    /\ SF_vars(Service /\ wait' # wait)

-----------------------------------------------------------------------------
(* Type invariant of the module.                                           *)
TypeOK ==
    /\ cfg \in Configs
    /\ phase \in {"keys", "tick", "service"}
    /\ geometry \in {"up", "wobble", "over"}
    /\ {compose_active, auto_active, commands, allow_tx, pending, on_air}
         \subseteq BOOLEAN
    /\ astate \in AutoState
    /\ n_commands \in 0..MaxCommands
    /\ lint \subseteq Flaw /\ flaws \subseteq Flaw
    /\ repeats_total \in 0..MaxRepeats
    /\ cmd_idx \in 0..MaxCommands
    /\ repeat_idx \in 0..MaxRepeats
    /\ sends_total \in Nat
    /\ wait \in 0..Interval
    /\ count \in [Cmd -> Nat]
    /\ skipped \subseteq Cmd

\* A run that was started and can still send: on screen, or parked.
Live == \/ astate = "PAUSED"
        \/ auto_active /\ astate \in {"RUNNING", "PAUSE_PROMPT", "RESUME_PROMPT"}

\* auto_tcmd_close frees the command list under a modal that is gone, and the
\* tick dereferences commands[cmd_idx]: a live run always has its list.
LiveRunHasCommands == Live => commands /\ n_commands > 0

\* The allow-tx box of a live run was ticked and its list passes the gate for
\* every kind of flaw in it, one exception aside: auto_tcmd_reload lints a
\* second read of the file, so when that read saw something else than the
\* load did, or could not be made, only what it saw was let through.
\* Pausing, parking, composing something else and resuming open no way around
\* either.
LiveRunIsCleared ==
    Live => /\ allow_tx
            /\ Passes(lint)
            /\ Passes(flaws) \/ lint # flaws

\* Each command is sent repeats_total times before the next one, never more,
\* whatever pauses, resumes and manual sends come between, and only a skipped
\* command gets fewer; at DONE all of the list was sent.
RepeatsExact ==
    /\ Live => \A i \in Cmd :
         /\ i <= cmd_idx /\ i \notin skipped => count[i] = repeats_total
         /\ i <= cmd_idx => count[i] <= repeats_total
         /\ i = cmd_idx + 1 => count[i] = repeat_idx /\ repeat_idx < repeats_total
         /\ i > cmd_idx + 1 => count[i] = 0
    /\ auto_active /\ astate = "DONE" =>
         \A i \in 1..n_commands : i \notin skipped => count[i] = repeats_total

AutoStaged == sends_total' > sends_total

\* The LOS guard: after the pass no step of an unattended run stages a
\* request, and none does while the operator is being asked about the run or
\* has another modal on screen.
SendsOnlyInPass ==
    [][AutoStaged => /\ cfg.testing \/ geometry # "over"
                     /\ astate = "RUNNING" /\ ~compose_active]_vars

\* A run left alone comes to an end: done, or stopped by the pass.
RunEnds == []<>(astate # "RUNNING")

(* What the manual says and the code does not do.                          *)

\* USER_MANUAL.md, --no-tx: "Open the SDR but block PA keying".  Only the
\* compose form looks at the flag.
NoTxBlocksKeying == cfg.no_tx => ~on_air
=============================================================================
