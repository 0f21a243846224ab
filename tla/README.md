# Verification of simple_sat_ops

`simple_sat_ops` operates a satellite ground station: it predicts passes,
points an antenna rotator, records and decodes the downlink of an SDR and
transmits telecommands. This directory holds TLA+ models of the parts of it
that run concurrently or keep state across many steps, TLC configurations that
check them on small instances, and TLAPS proofs about each of them.

All paths below are relative to the repository root, which the map in
`PROJECT.json` calls `src/`.

## 1. The system

One process, `apps/main.c`, is the operator. Its main loop is cooperative and
single-threaded and pushes blocking work to threads: an RX worker and a TX
thread in `src/pipeline/rx_session.c`, a rotator worker in
`src/hw/antenna_rotator_async.c`, an audit writer in `src/ipc/sso_audit.c`.
Viewers are other processes that attach over a Unix socket and can take over.
Between passes `scripts/decode_passes.sh` runs `utils/rx_replay.c` on the
recordings and fills the packet database that every tool shares.

| component | state | operations | interacts with |
|---|---|---|---|
| transmit path (`tx_burst.c`, `rx_session.c`, `sdr_uhd.c`) | the `tx_request` slot, `tx_inflight`, the burst flags under `mu`, the device lock `dev_mu`, the TX chain | stage, service (refuse, submit, poll), take, configure, send, power down, record, publish, close | both modals stage into it, RX worker shares the device |
| modals (`auto_tcmd.c`, `tx_compose.c`) | run state, command list, position, pacing, allow-tx | open, start, stop, pause, resume, restart, abort, tick, commit | slot, lint gate, pass prediction |
| pass recording (`main.c` gate, `rx_session.c`) | WAV and sidecar files, request flags, snapshot, close deadline | gate, start, stop, snapshot, close | prediction, shutdown |
| rotator worker (`antenna_rotator_async.c`) | SET, STOP and STATUS requests, snapshot | submit, kick, wait, worker cycle, close | tracking, serial line |
| tracking, homing, scan (`tracking.c`, `scan_sky.c`, `pursuit.c`) | targets, flip latch, homing legs, scan position | tick, redraw, jog, stop, home, T, retarget, scan | rotator worker, prediction |
| operator hand-over (`operator_ipc.c`, `sso_operator.c`, `viewer.c`) | socket and pid file, yield flag, who has rotator and SDR | probe, bind, force-claim, bring-up, shutdown | other processes |
| IPC transport (`sso_ipc_server.c`, `sso_ipc_client.c`) | client slots, write buffers, ids | accept, read, write, broadcast, close | viewers, audio |
| operator audio (`operator_audio.c`, ring in `rx_session.c`) | PCM ring, subscriber table, tap | push, enable, disable, pump, prune | RX worker, transport |
| audit ring (`sso_audit.c`) | bounded ring, worker, stop flag | event, drain, write, close | main and TX thread |
| decoding (`decode_passes.sh`, `rx_replay.c`, `packet_db.c`) | audio files and markers, rows, indexes, `user_version` | list, decode, migrate, flush, mark | overlapping invocations |
| signal processing and protocols (`src/dsp`, `src/proto`) | | demodulate, frame, lint | |
| orbit (`src/orbit`, `sgp4sdp4`) | TLE, ephemeris | propagate, next pass | everything that needs geometry |
| screens, utilities | | drawing, analysis | |

What is hard about it: a burst is handed between three threads while a fourth
party (the operator) may quit; the device may disappear at any call; the
recording gate decides from a snapshot that is already old; orders to the
rotator overtake each other and its readings lag and echo; operators replace
each other through files and signals with no common lock; a viewer that stops
reading shares a single-threaded loop with the antenna; and a marker file
stands for rows another process may fail to write. `PROJECT.json`, `hazards`,
lists each of these at the line where it bites, with the properties that cover
it or a note why none does.

## 2. Modules

| module | models | composed with |
|---|---|---|
| `TxSlot` | abstract: what the slot promises an operator | refined by `TxBurst` |
| `TxBurst` | main loop's service, RX worker, TX thread, device lock, shutdown | `TxSlot` by INSTANCE |
| `AutoTcmd` | auto-tcmd run and compose form, one key stream, one slot | assumes the slot's service answers (`TxBurst!RequestResolved`) |
| `PassRecording` | gate, worker, files | |
| `RotatorOrders` | abstract: the queue of orders the worker promises the main loop | refined by `RotatorAsync` |
| `RotatorAsync` | main thread's orders, worker, controller | `RotatorOrders` by INSTANCE |
| `Tracking` | per-tick pointing, keys, scan, azimuth arithmetic | the worker is one request slot, the pointings of `RotatorOrders` |
| `OperatorControl` | processes, files, signals, devices | |
| `IpcServer` | server, clients, audio table, PCM ring: four source files in one loop | |
| `AuditTrail` | abstract: what the log promises its reader | refined by `AuditRing` |
| `AuditRing` | producers, ring, writer, exit | `AuditTrail` by INSTANCE |
| `PacketDb` | packet table, indexes, migration statements | operators used by `DecodePasses` |
| `DecodePasses` | invocations, workers, markers, faults | extends `PacketDb` |
| `TxBurstProofs`, `AutoTcmdProofs`, `PassRecordingProofs`, `OperatorControlProofs`, `IpcServerProofs`, `AuditRingProofs`, `DecodePassesProofs` | theorems | each extends its module |
| `PointingProofs` | theorems about `RotatorAsync` and `Tracking` | extends both |

`MC*` modules give the constants their values.

**TxBurst.** `rxs->mu` protects groups of assignments, each of which is one
action; `dev_mu` is held across device calls and is a variable. The main loop's
iteration is `input -> service -> bottom`; `rx_session_close` is the four
actions from `CloseStop` to `CloseCore`. The TX thread's `txpc` follows
`rx_session_tx_thread_fn`, `tx_burst_run` and `uhd_tx_burst`: `build`, `lock`,
`config`, `send` (nothing out yet), `rest` (some samples out), `clock` (all out,
the device clock is read without the lock and the emission waited for),
`relock`, `power_down`, `record`, `publish`. Every device call may fail. The TX
chain starts mapped on an SDR that can transmit, as `uhd_open` leaves it
(`sdr_uhd.c:177-179`), and is unmapped at the end of a burst only. `air` is a
history variable for what was emitted, `unmap` for what became of the mapping
(never tried, due, done, failed); `outcome` is the tx-result audit line.
The text of a request, its modulation and its timing are abstracted. The
`busy` refusal stays in the model and `SlotSafe` proves it cannot happen.

**AutoTcmd.** `phase` keeps the loop's order keys, tick, service. Pass
geometry is three cases: up; below the horizon with the next visibility
predicted within half a minute, which the LOS guard lets pass ("wobble"); over.
`next_send_ns` is kept as time left. `auto_tcmd_reload` reads the file twice: the
first read fills the list, whose flaws the history `flaws` keeps, the second
fills the lint counts, of which `lint` keeps whether there are errors and whether
there are dangers. The two reads are independent choices: the file may have been
edited in between, and a second read that fails counts as no flaw.

**PassRecording.** The clock counts units in which the gate and one worker
iteration run at least once. Files are flags. The row that `:lo_offset` adds
from the main thread is left out (see the observations below).

**RotatorAsync.** The worker takes all requests at once, then sends STOP, SET,
STATUS without the lock. A command or a reply may be lost. Whether a STATUS is
newer than a wait is all that is kept of its time. `overtaken` records that a
STOP was submitted with a SET still queued. `RotatorOrders` has none of the
flags: a queue of orders of which a pointing may replace the newest, a STOP may
go ahead of it, and the oldest is sent or lost until the line is closed. The
refinement reads what the worker has taken and not sent, then what is still
requested, as that queue (`dueOrders`).

**Tracking.** The loop is `predict -> tick -> redraw -> key`. Azimuths are
integers in units of 360/`Turn` degrees and unwrapped, since the point of
homing is to take turns out of a shaft that can be wound from `MinAz` to
`MaxAz`. `Wrap`, `Accumulate`, `HomeTarget` and `Leg2Ready` translate the
arithmetic of `antenna_rotator.c`. The controller is external: it turns the
short way to the azimuth of a SET and for a few readings after it reports the
target instead of the shaft, which is the echo that `tracking.c` guards
against. Elevation has no turns to unwind and is left out; of a flipped pass
only the decision and its latch are kept; the pursuit planner computes targets
and is left out. Of the worker only its queue is here: `p.stop` and `p.wire` are
a STOP and a SET not yet taken, and the worker sends what it takes, the STOP
first. When `stop_tracking` comes back from its bounded wait the worker has sent
both or neither, and the wait has brought a reading or not. `home`, `stopped`,
`late` (the SET that was queued at that `s` and still is), `dropped` and
`retracked` are histories.

**OperatorControl.** Each process runs once. Socket path, pid file, serial line
and SDR are shared; `asked` is the operator whose welcome a process waits for.
A probe ends in a welcome, in silence from a process that does not serve, or
closed without a welcome by an operator that does (`ProbeTurnedAway`: its client
table is full, or the welcome does not encode), which start-up takes for no
operator. `disorder` records that two people acted at once or that a probe was
turned away.

**IpcServer.** A line crosses the socket in two halves, so that a write the
kernel takes in part, and a buffer that ends inside a line, are behaviours.
`at` follows `main.c`: `poll`, then in `serve` the backlog connection by
connection (`Accept`), one client after the other and the closing of dead slots, audio `pump` and prune, `broadcast`. Both kinds of queueing are
there: `Send`, where a client that cannot take a line is given up, and
`SendLossy`, where an audio page is dropped whole. One batch of PCM is one page
per encoder; pages that the encoder would emit later are emitted at once.

**AuditRing.** Each critical section is an action, the file is written without
the lock, a write may fail. Producers are the main thread and the TX thread.
`AuditTrail` has no ring, lock or worker: events are pending until they are in
the file, and a call that finds no room gives up the oldest of the last
`RingSize` pending ones, which is announced later. The refinement reads what
the worker holds, then the ring, as the pending events.

**PacketDb, DecodePasses.** SQLite runs one statement or transaction at a
time, so a statement is an operator from database to database. A row is its
payload, the origin of its audio (the columns the unique indexes contain) and
its age: it is the n-th row of its payload, which is all that the statements
use of the row id.
Each process enters the migration ladder where the `user_version` it read tells
it to and takes it statement by statement, so two openers interleave in it.
Workers may die at any step, a statement may stay busy past its timeout, the
version may fail to be read (it then counts as 0 and the whole ladder is run,
`OpenFileUnread`) or to be stamped, and the receiver may still be appending to a
file. `blind`, `part` and `behind` are histories: files decoded without a
database, files decoded in part, and that some opener has run the V3 steps on a
database that was past them.

## 3. What the runs show

| run | result |
|---|---|
| `tx_burst` | 45,970 states. Audit line true; TX chain unmapped after each burst unless that call failed (nothing is said of the time before the first one, when the chain is mapped); device handle used by one thread at a time, the clock read at the end of a burst aside, and never after its loss or release; `sent_tcmd` rows true; `TxSlot` is implemented; a staged request is answered; the shutdown terminates. |
| `auto_tcmd` | 393,780 states. A live run has its list and its allow-tx box; every kind of flaw the lint counted has its override, and so has every kind in its list unless the lint's read of the file differed from the load's; it sends each command exactly `repeats` times, only within the pass and never while another modal or prompt is up; a run left alone ends. |
| `rotator` | 185,776 states. The last order wins unless a command was lost or a STOP overtook a queued SET; every SET is delivered or replaced; the main loop always comes back; `RotatorOrders` is implemented, so that each order is sent at most once, in order, and none on a closed line. |
| `pass_recording` | 296,807 states. The whole pass is recorded in a file that ends after the postroll; sidecars live inside their WAV and burst rows are paired; WAV and .iq are finalised at every exit. |
| `operator` | 186,809 states. With people acting one at a time and no probe turned away by a serving operator: one process on the antenna, and the operator's socket at the path, through crashes, failed bring-ups and takeovers. With people acting at any time: no start-up or takeover hangs, every yield request ends its operator. |
| `tracking` | 1,078,580 states. A home only ever unwinds, and arrives where a reading is certain to be seen; after `s` nothing moves the antenna until it is asked to, except the SET that was queued then and goes out behind the STOP; a satellite in range is tracked with the flip decision of its pass; a scan ends. |
| `audit` | 68,065 states. File, worker and ring together are the calls in order, less what was overwritten or refused by the disk, and the `dropped=N` lines add up; the file of a finished process ends with its end line; the exit comes back. |
| `ipc` | 352,609 states. No torn or misdirected line and no gap in a live stream; server, audio table and tap agree; a viewer that reads is served beside one that stalls; a dead slot is freed. |
| `decode` | 355,850 states. A marked file is stored unless the database was unavailable, the decode was cut short or the migration ran a second time; an opened database has its wide index and every origin, and the narrow index only while a lagging opener is between its V3 and V4 blocks, or once an opener lagged and something failed; no payload vanishes; every file ends up marked. |

Three runs show where the code and what is written about it differ (findings in
`PROJECT.json`):

- `auto_no_tx`: an automatic run transmits under `--no-tx`.
- `flip_latch`: the flip latch of a pass that was given up is not cleared at
  LOS, because that branch runs only while tracking.
- `decode_lost`: a file whose database could not be opened is decoded to its
  end, none of its packets is stored, and it is marked decoded. Decodes cut short
  are excluded (`part`), so that the trace is exactly this one: take, a failed
  open, decode, flush, exit 0.

Each property of a passing run has a mutant in `PROJECT.json`: a plausible bug
in the modelled code (a lost flag, a skipped join, a dropped guard) under which
TLC finds the property violated.

### Bounds, and why they are enough

- `TxBurst`: two requests, so that one can be staged while the other's result
  is unread, and one that is recorded and one that is not. Every
  configuration (dry run, key, kind of SDR, database) is explored. The proofs
  remove the bound.
- `AutoTcmd`: two commands and two repeats reach every boundary of the two
  counters; interval 1 separates due from not due; three configurations cover
  each override with and without the flag. The proofs remove the bound.
- `RotatorAsync`: three orders over two pointings: an order can overtake, be
  replaced, and be lost. The proofs remove the bound.
- `PassRecording`: one unit is 20 s, so preroll and postroll of 60 s are three
  units; three passes: one whose preroll has begun when the program starts, and
  two short ones with the smallest gap after postroll and preroll in which the
  worker can close one file before it is asked for the next, so that a deadline
  or file of one can reach the next. Passes closer than that share a file by
  design and are excluded by `ScheduleAssumption`. The proofs remove the bound.
- `OperatorControl`: three processes: an operator, its successor, and one that
  starts or takes over meanwhile. The proofs remove the bound.
- `Tracking`: a turn is 12 units and the range -5 to 17, that is -150 to 510
  degrees (-179 to 539 in the code); the shaft starts
  wound past half a turn, where a home needs two legs; the scan starts north,
  as every grid of `scan_build_targets` does, and crosses the back of the
  circle; one pass and two keys or failed readings at any tick. The tolerance is
  0 units (2 degrees in the code, a unit is 30). The proofs remove the bound.
- `AuditRing`: a ring of two entries and six events of two threads (start, end
  and two each) overflow in every position of the writer. The proofs remove the
  bound.
- `IpcServer`: two viewers and two slots, one subscription; a socket that
  takes half a line at a time before buffers of one and a half, so that every
  line is written in parts and a new line is queued whole, behind the rest of
  another, or not at all; a viewer
  connects once, and its successor in the slot is the other one. The proofs
  remove the bound.
- `DecodePasses`: two invocations with one worker each; a ground recording that
  grows and a SatNOGS file that share a payload; a version 1 database with a
  duplicate and an unrelated row; one fault (death, time-out, failed stamp or failed
  read of the version).
  The proofs remove the bound.

### Fairness

Each thread that can take a step takes it: no call on the modelled paths blocks
without a timeout (recv 1 s, send `start_delay + 1` s, STATUS by serial
timeout, waits 750 ms, 2 s and 5 s). Exceptions and assumptions:

- `TxBurst`: the RX worker takes `dev_mu` again for every chunk, so the TX
  thread's two acquisitions need strong fairness. `sdr_uhd.c:339-342` expects
  to wait at most one chunk; a pthread mutex does not promise that.
- `AutoTcmd`: the clock advances and the slot is eventually freed (shown in
  `tx_burst`).
- Operators' keys and signals are never assumed to happen. `OperatorControl`
  adds that a loop with its yield flag set is left (looked at every iteration).
- `Tracking`: good readings recur (a dead controller ends no home), the worker
  sends what it was given (`SetDelivered`), a dwell reaches its end. Written as
  `[]<>` formulas over actions the environment takes.
- `IpcServer`: the loop keeps polling until it is over, and the one viewer
  `Reader` empties its socket again and again; nothing is assumed of the other.
- `AuditRing`: the worker runs, calls return, close and join proceed; nobody
  has to emit or to quit.
- `DecodePasses`: a worker at work goes on, and `decode_passes.sh` is started
  again (cron). Faults are bounded, so an invocation without one comes.

## 4. What is proved

Each proof module extends its model and needs only the named assumptions on the
constants.

**`TxBurstProofs`**, from `RequestsAssumption` (the tracked requests are
requests, `None` is none of them): the type invariant, all safety invariants of
the run `tx_burst`, and that `TxBurst` implements `TxSlot`, for every set of
requests. None of the interesting invariants is inductive alone. That an audit
line is true needs that the slot, the queued copy and the TX thread's copy are
one request; that needs the handshake flags to exclude each other and the TX
thread's place to agree with `burst_in_flight`. The inductive invariant `IInv`
is therefore the conjunction of

- `Handshake`: flags, place of the TX thread and `tx_inflight` tell one story;
- `Custody`: one request under three names, with no verdict yet;
- `Progress`: what has been emitted of it and what its result will be, at each
  place of the TX thread;
- `Quiet`, `Lifetime`, `Loss`: the TX chain (mapped since the open, or as the
  last burst's unmapping left it), the shutdown, the lost device;

with the properties that are inductive relative to these. One lemma per part
shows that every action preserves it (`FlagStep` to `DeadStep`);
`Inductive` combines them, and the named theorems follow. `SlotRefinement`
maps the slot to `pending`/`tx_request`, the verdict to `outcome`, and uses
`VerdictStep` and `SlotStutter` for the steps that report and those that do
not.

**`AutoTcmdProofs`**, from `AutoAssumption`: the three invariants and the action
property of the run `auto_tcmd`, for every file length, number of repeats,
interval and set of flags. The strengthening is `ModalOwnsList` (the modal on
screen has its list and is alone) and that a live run has at least one repeat,
without which restarting a run paused at its very end would start it at a
command with nothing to send. `RepeatsFrame` and `RepeatsFresh` deal with the
steps that keep a run's position and those that reset it; `TickSkip` and
`TickStage` are the two that move it.

**`PointingProofs`, the worker**, from `RotatorAssumption`: the type invariant,
that the last order wins and that the line outlives its worker, for all
pointings and any number of orders. `OrderTracked` follows the last order from
its flag through the worker's locals to the controller and says what may not be
ahead of or behind it on the way. `OrdersRefinement` proves, for the same
constants, that the worker implements `RotatorOrders`. Taking the requests moves
orders from the second part of the queue to the first and is a stutter; the
two sends are the queue's, and the join is its `Close`: that nothing is sent
afterwards is where the order of `antenna_rotator_async_close` enters.

**`PassRecordingProofs`**: all four safety invariants of the run
`pass_recording`. That side files live inside their WAV, burst rows are paired
and every exit finalises its files does not depend on the clock; it needs that
the files are the worker's until it has ended (`Handed`). `WholePassRecorded`
and `PassFileClosed` do, and are proved for any number of passes, any preroll
and postroll, from `PassAssumption` and `ScheduleAssumption`: a preroll of at
least `Lag` = 3 units (request, worker's iteration, snapshot), a postroll no
shorter than it (they are equal in the code), passes that are apart by postroll,
lag and preroll, and a first pass that lasts longer than the lag. Neither is
inductive: the gate decides from a snapshot that lags behind its own requests.
`TimedInv` says, for the pass the clock is near to, where the request is at each
unit of three phases: `Rise` (closed, `Starting`, `StartSure`, open), `Hold`
(open, with the deadline where the next look of the gate needs it) and `Fall`
(`Stopping`, `StopSure`, closed); between passes everything is closed. The
`Sure` stages, in which the worker's current iteration can no longer pass the
request by, are what makes each phase end in time. With `always_record` the
file is simply open from the first iteration on.

**`OperatorControlProofs`**, from `ProcsAssumption` (`None` is no process): one
master of the antenna and an operator that can be found, for any number of
processes acting one at a time. Neither is inductive: that a new operator meets
no old one rests on where both are in their start-up and shutdown. Both have two
exceptions (overlapping actions, a probe that a serving operator turned away);
`disorder` never becomes false again, so the lemmas are about steps after which
there has been none. `OneOwner` says that one process owns the socket path, from
its start-up until it unlinks the path, and is the one found there; `OneSeeker` that one process waits for
the path, never for a start-up, and that one that probes meets an operator in
its loop that nobody asked to yield. `RotatorPhases` places the open serial line
inside the ownership of the path, which is where the order of the shutdown in
`apps/main.c` enters.

**`PointingProofs`, the pointing**, from `TrackingAssumption`, `BoundAssumption` and
`GridAssumption` (an even turn, a range that contains north, a scan grid that
begins there): the type invariant, `StopIsFinal`, `PassTracked` and
`HomeUnwinds`, for every range of the rotator, slew rate, length of the echo,
pass and scan grid. `Quiet` says that after `s` nothing is left in a home or in a scan
that could ask for a SET, and that the SET on the wire, if any, is the one `late`
has recorded since the key. `Followed` relates `tracking`, the
flip latch and the history of passes that were given up. `Unwinding` follows a
home through its two legs: each is asked for, then sent, and the shaft stays
between where it was and where it goes because the controller's short way is the
way itself, which is the arithmetic of the lemmas from `WrapIs` on (what
`wrap_to_pm180` returns within half a turn and beyond it). The first leg also
needs that a reading is the shaft or the echo of the goal and nothing else.

**`AuditRingProofs`**, from `RingAssumption` and `ThreadAssumption`: the type
invariant, `TrailInOrder` and `CompleteAtExit` for every size of the ring and
any number of threads and events. `RingInv` are the indices modulo the size;
`PutFree` and `PutFull` say what an entry does to the contents of a ring with
room and of one that is full. `PhaseInv` places threads, worker and exit handler
against each other and `EndInv` makes the main thread's end line the last one.
That file, worker and ring together are the accepted events in order needs that
the next event is a new one (`FreshInv`: a thread numbers its events) and that
only accepted events are lost (`LostInv`). `IsRest` states the order pair by
pair of positions, so that `RestAdd`, `RestRefused` and `RestDrop`
need no induction over sequences; `Without` is a sequence less one element, and
`WithoutFirst` and `WithoutBefore` say so of a concatenation. `TrailRefinement`
proves from the same invariant that the log implements `AuditTrail`: the drain
is a stutter, `EnqueuePromise` shows that the entry a full ring overwrites is
the oldest of the last `RingSize` pending events, and `FinishPromise` that the
exit handler comes back only when nothing is pending or unannounced. The
refinement (`TrailPromise`) is not among the properties of the run `audit`; its
statement was checked on that run's instance before it was proved.

**`IpcServerProofs`**, from `IpcAssumption`: the type invariant, `StreamIntact`
and `TablesExact`, for any number of viewers, slots and subscriptions and any
sizes of socket, ring and request queue, and a write buffer that takes a line. `StreamIntact` is about
three places a half line can be in (the viewer's rest, the wire, the write
buffer), two of which change in one write. `Whole` says of their concatenation
that it is whole lines this viewer may get. Sequences are kept behind a few
lemmas (`Stream`, `Cat`, `Upto`, `After`): moving a prefix from buffer to wire
changes nothing, a line added at the end or whole lines read at the front keep
it whole, so that the proofs about actions never look at positions. `Goes`
relates an outbox before and after `DrainWrite`, `Send`, `SendLossy` or `Sink`,
and `Sent` states it of all slots for a step that writes to one client
(`Deliver`) or to many (`DeliverAll`). The invariant has the parts

- `Tables`: ids are unique and below `nextId`, a viewer has at most one slot;
- `Waiting`: a connection is in the backlog once or in a slot, never both;
- `Phases`: the events of a poll are of slots in use and are used up before the
  step ends;
- `Listening`: `g_n`, tap and table agree, a client has at most one
  subscription, and it is for the viewer that now has the id, which is why a
  reused slot gets nobody else's audio;
- `Streams`: whole lines for every open connection, and nothing yet for one
  that still waits for its slot;
- `Gaps`: a viewer that misses a reliable line has a slot that is already dead.

**`DecodePassesProofs`**, from `PoolAssumption`, `FileAssumption` and
`OldAssumption`: `MarkedMeansStored`, `OpenMeansMigrated` and
`NoPayloadVanishes`, for any number of workers, invocations, files and faults
and an old database of any version. `Ranked` says that the oldest row of each
payload is in the table, which is why the V3 DELETE keeps one. `Migrated` ties
what has been done to the database to the place of each opener on the ladder;
it says of the narrow index only that it is gone while no opener has lagged
behind. `Redropped` covers the openers that did: the index is back only while
one of them is on its way to drop it, which rests on the backfill not being
refused (`BackfillGoes`), or after a failure. `Carried` follows what a worker has
decoded through its batch and the flush to the rows and the marker.

Every invariant, action property and refinement of a passing run is proved.
Only model-checked:

- the liveness properties (`RequestResolved`, `CloseTerminates`, `RunEnds`,
  `SetDelivered`, `MainComesBack`, `NobodyStuck`, `YieldHonoured`, `HomeReached`,
  `ScanEnds`, `ExitTerminates`, `SlowViewerHarmless`, `DeadSlotFreed`,
  `EveryFileDone`): the prover does not do liveness under fairness;
- what a recursive definition or a fold computes for every input: induction over
  data is out of the prover's reach. The proofs above use only what one step
  does to a sequence or a set.

## 5. Not modelled, and known observations

Not modelled:

- Signal processing (`src/dsp`, the demodulation in `decode_loop.c`), orbit
  propagation and the pursuit planner: floating point over streams or
  ephemerides.
- The codecs and parsers (`sso_ipc_codec.c`, `src/proto`): string and bit
  manipulation without state. Only the lint gate's decision is in `AutoTcmd`.
- Screens and the utilities `decode_inspector`, `packet_browser`,
  `gen_waterfall`, `mag_reports` and the like: single-threaded programs that
  read and draw. Together with the unit tests they are about half of the lines of
  C in the repository, and `src/dsp`, `src/proto`, `src/orbit` and the screens
  a large part of the rest, which is why the map covers a small share of the
  whole: the concurrent and stateful core is what the models are about.
- Retuning, opening, the RTL back end and the T/R switch of the SDR.
- Of decoding: `--force-redecode`, `--update`, the forensics report,
  `register_tle`, `sent_tcmd`, and the live receiver's rows, whose NULL origin
  no index deduplicates.
- `--self-test` and `--calibrate-rotator`, which leave the bring-up by paths of
  their own. Each process of `OperatorControl` has a rotator.

Observed while modelling, and not the subject of a run:

- *Transmit.* The TX chain is mapped from `uhd_open` to the end of the first
  burst: `tx_powered` is set at `sdr_uhd.c:177-179` and only a burst unmaps.
  The comments at 440-442 ("Zero emission between bursts") and 457-460 ("nothing
  on the antenna while in RX") do not hold for that time. The clock read at the
  end of the send loop (647) takes no lock while the RX worker may be in recv;
  the comment at 64-71 counts `get_time_now` among the calls to be serialised.
  `QuietBetweenBursts` and `DeviceUseSafe` say so and hold for the rest. A burst in flight when the loop is left is completed on the air
  and gets no tx-result line (`tx_burst.c:440-442` says every burst is
  audited). A send error after the first chunk is logged as "uhd-err" with a
  NOT_SENT event though part of the burst was emitted (`tx_burst.c:430-439`;
  `ReportTruthful` allows it).
- *Modals.* A paused run is lost if its window cannot be created on reopen
  (`auto_tcmd.c:616-624`). The command file is read twice, for loading and for
  lint (`auto_tcmd.c:544`, 562): if it is edited in between, or the second read
  or `/dev/null` cannot be opened, a list the gate would block can run, although
  the comment at 552-557 calls the lint the only check before those commands can
  be keyed. `LiveRunIsCleared` excepts exactly this.
- *Recording.* `worker_wav_stop` closes `lo_offset_fp` without `mu`, under
  which the main thread prints to it (`rx_session.c:695` against the comment at
  862-863). At exit a burst in progress gets no end row, because the worker
  sees the stop flag first (`rx_session.c:699` says otherwise).
  `snap_wav_active` stays set after a device loss.
- *Rotator.* STOP and SET taken together are sent in that order, so a SET
  queued just before `s` moves the antenna after the stop, perhaps after
  `stop_tracking`'s 750 ms have passed (`antenna_rotator_async.c:134-143`).
  `LastOrderWins` and `StopIsFinal` except exactly this.
- *Tracking.* A home from within four degrees below 360 rests half way. Leg 2
  sends elevation 0 whatever leg 1 was given (`tracking.c:649`). The settle
  test may fire on the first tick after a SET. A jog, T or retarget during a
  two-step home leaves `homing_in_progress` set, and leg 2 later overrides it.
  `:track` during a scan competes with it; `r`, `:home` and `:stop` leave the
  scan running. T while tracking clears the flip latch without deciding anew.
- *Hand-over.* A serving operator whose 32 client slots are taken closes a probe
  (`sso_ipc_server.c:223-227`), and one whose welcome does not encode sends none
  (`operator_ipc.c:298-303`). Start-up refuses only a welcome
  (`operator_ipc.c:342`), so the new `--control` unlinks the live operator's
  socket and opens the rotator: two masters, one person acting, against the
  comment at 330-332. The model reaches it; `OneRotatorMaster` and
  `OperatorIsFound` except it. A second `--control` is let in while the first is in its
  bring-up, or when both start at once. The socket disappears before the SDR is
  released (`main.c:644`). A failed bring-up leaves socket and pid file behind.
  An old operator can remove the pid file its successor has just written, after
  which a force-claim fails.
- *Transport.* A step in which poll reports nothing leaves dead slots to the
  next; a client marked dead can get later lines before it is closed; a new
  client may be refused because dead slots are closed after accepting. A viewer
  whose connection is hung up may lose its last lines. Re-enabling the audio of
  a stalled viewer finds its buffer not empty, which the comment at
  `operator_audio.c:112-113` takes for granted.
- *Decoding.* "Both steps are idempotent" (`packet_db.c:451-453`) does not hold
  for a process that read an old version and runs the V3 DELETE after another
  has migrated and stored rows of a second origin: they are deleted, and their
  file is marked. A failed stamp of version 3 or 4 leads to the same. While the
  narrow index exists, rows of another origin are dropped in silence, and it can
  exist again while other processes have the migrated database open, without any
  fault (`OpenMeansMigrated` says when). A failed read of `user_version` counts
  as version 0 (`packet_db.c:412-421`) and has the same effect. Audio that grows between its load
  and the touch of its marker, and a decode cut short by SIGINT (which flushes
  what it has and exits 0), are marked complete. `MarkedMeansStored` excepts
  exactly these (`part`, `behind`, `blind`).

## 6. Plan

Done: transmit path, modals, recording, rotator worker, tracking, hand-over,
transport with audio, audit ring, decoding with its database.

Proved: every invariant, action property and refinement of their runs.

Next: algorithms as operators against reference definitions: Golay decoding
within its radius, length framing, fragment reassembly.
