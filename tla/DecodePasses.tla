---------------------------- MODULE DecodePasses ----------------------------
(***************************************************************************)
(* Decoding the recorded passes into the packet database.                  *)
(*                                                                         *)
(* scripts/decode_passes.sh lists the audio files that have no current     *)
(* .decoded marker and hands them to a pool of workers.  A worker runs     *)
(* utils/rx_replay.c on one file: it reads the audio, opens the database   *)
(* (migrating it when it is old), collects the packets it decodes, writes  *)
(* them in one transaction and exits; the worker touches the marker when   *)
(* the exit code is 0 and leaves the file for the next run when it is not. *)
(* Several invocations (the nightly one, one by hand) may overlap, workers *)
(* die, the database stays busy past its timeout, and a file can still be  *)
(* written by the receiver while it is decoded.                            *)
(***************************************************************************)
EXTENDS PacketDb

CONSTANTS
    Jobs,          \* the workers
    Invs,          \* the invocations of decode_passes.sh
    InvOf,         \* [Jobs -> Invs]: whose pool a worker is in
    Files,         \* the audio files
    Origin,        \* [Files -> {"cts_ground", "satnogs"}], from the file name
    FirstPart,     \* [Files -> sets of payloads]: what a file holds at first
    Whole,         \* [Files -> sets of payloads]: and when it is complete
    OldRows,       \* the rows of the database at the start
    OldVersion,    \* and its user_version
    MaxFaults      \* bound: the failures of all kinds in a behaviour

ASSUME PoolAssumption == InvOf \in [Jobs -> Invs] /\ MaxFaults \in Nat
ASSUME FileAssumption ==
    /\ Null \notin {"cts_ground", "satnogs"}
    /\ \A f \in Files : /\ FirstPart[f] \subseteq Whole[f]
                         /\ IsFiniteSet(Whole[f])
                         /\ Origin[f] \in {"cts_ground", "satnogs"}

\* The database an earlier run left: a version 4 is fully migrated.
ASSUME OldAssumption ==
    /\ OldVersion \in 0 .. 4
    /\ IsFiniteSet(OldRows)
    /\ \A r \in OldRows :
         /\ r = Row(r.payload, r.origin, r.nth)
         /\ r.nth \in Nat \ {0}
         /\ \E s \in OldRows : SamePayload(r, s) /\ s.nth = 1
         /\ OldVersion = 4 => r.origin # Null

VARIABLES
    db,        \* the database file
    list,      \* [Invs -> sets of files]: the worklist still to hand out
    at,        \* [Jobs -> where the worker and its rx_replay are]
    file,      \* [Jobs -> the file it works on]
    read,      \* [Jobs -> the payloads in the samples it works through]
    handle,    \* [Jobs -> packet_db_setup returned a database]
    batch,     \* [Jobs -> the payloads waiting for the flush]
    failed,    \* [Jobs -> some packet was not stored: exit code 2]
    marker,    \* [Files -> "none", "current" or "old"]: the .decoded file
    complete,  \* [Files -> the receiver has written the last of the audio]
    faults,    \* failures so far
    blind,     \* history: files whose marking run had no database
    part,      \* history: files whose marking run did not get all of the audio
    behind     \* history: someone ran the V3 steps on a database past them

job == <<at, file, read, handle, batch, failed>>
history == <<blind, part, behind>>
vars == <<db, list, job, marker, complete, faults, history>>

Idle == "idle"
Places == Steps \cup {Idle, "open_file", "decode", "flush", "exit"}

Payloads == UNION {Whole[f] : f \in Files}

DbType ==
    /\ db = [rows |-> db.rows, version |-> db.version,
             narrow |-> db.narrow, wide |-> db.wide]
    /\ \A r \in db.rows : r = Row(r.payload, r.origin, r.nth)
    /\ db.version \in 0 .. 4 /\ db.narrow \in BOOLEAN /\ db.wide \in BOOLEAN

JobType ==
    /\ at \in [Jobs -> Places]
    /\ file \in [Jobs -> Files \cup {Null}]
    /\ read \in [Jobs -> SUBSET Payloads] /\ batch \in [Jobs -> SUBSET Payloads]
    /\ handle \in [Jobs -> BOOLEAN] /\ failed \in [Jobs -> BOOLEAN]

FileType ==
    /\ list \in [Invs -> SUBSET Files]
    /\ marker \in [Files -> {"none", "current", "old"}]
    /\ complete \in [Files -> BOOLEAN]
    /\ faults \in 0 .. MaxFaults
    /\ blind \in SUBSET Files /\ part \in SUBSET Files
    /\ behind \in BOOLEAN

\* A worker at work has a file, and nothing but what is in it.
JobFiles ==
    \A j \in Jobs : IF at[j] = Idle THEN batch[j] = {}
                    ELSE /\ file[j] \in Files
                         /\ read[j] \subseteq Whole[file[j]]
                         /\ batch[j] \subseteq read[j]

TypeOK == DbType /\ JobType /\ FileType /\ JobFiles

Heard(f) == IF complete[f] THEN Whole[f] ELSE FirstPart[f]

Init ==
    /\ db = [rows |-> OldRows, version |-> OldVersion,
             narrow |-> OldVersion = 3, wide |-> OldVersion = 4]
    /\ list = [i \in Invs |-> {}]
    /\ at = [j \in Jobs |-> Idle]
    /\ file = [j \in Jobs |-> Null]
    /\ read = [j \in Jobs |-> {}]
    /\ batch = [j \in Jobs |-> {}]
    /\ handle = [j \in Jobs |-> FALSE]
    /\ failed = [j \in Jobs |-> FALSE]
    /\ marker = [f \in Files |-> "none"]
    /\ complete = [f \in Files |-> FirstPart[f] = Whole[f]]
    /\ faults = 0
    /\ blind = {} /\ part = {} /\ behind = FALSE

Fault == faults < MaxFaults /\ faults' = faults + 1

Go(j, place) == at' = [at EXCEPT ![j] = place]

\* The worker and its rx_replay are gone, and what they held with them.
Gone(j) ==
    /\ Go(j, Idle)
    /\ file' = [file EXCEPT ![j] = Null]
    /\ read' = [read EXCEPT ![j] = {}]
    /\ handle' = [handle EXCEPT ![j] = FALSE]
    /\ batch' = [batch EXCEPT ![j] = {}]
    /\ failed' = [failed EXCEPT ![j] = FALSE]

\* A plausible slip: any marker will do.
SkipMarkerTestStale(f) == marker[f] # "none"

\* The file is already decoded: its marker is at least as new as its audio.
SkipMarkerTest(f) == marker[f] = "current"

(***************************************************************************)
(* The parent: list the files to decode, once, before the pool starts.     *)
(***************************************************************************)
StartRun(i) ==
    LET todo == {f \in Files : ~SkipMarkerTest(f)}
    IN  /\ list[i] = {} /\ todo # {}
        /\ \A j \in Jobs : InvOf[j] = i => at[j] = Idle
        /\ list' = [list EXCEPT ![i] = todo]
        /\ UNCHANGED <<db, job, marker, complete, faults, history>>

\* A worker is given the next file; rx_replay loads all of its samples first.
Take(j) ==
    /\ at[j] = Idle
    /\ \E f \in list[InvOf[j]] :
          /\ list' = [list EXCEPT ![InvOf[j]] = @ \ {f}]
          /\ file' = [file EXCEPT ![j] = f]
          /\ read' = [read EXCEPT ![j] = Heard(f)]
    /\ Go(j, "open_file")
    /\ UNCHANGED <<db, handle, batch, failed, marker, complete, faults, history>>

\* The file cannot be read (no ffmpeg, a bad header): skipped, not marked.
TakeUnreadable(j) ==
    /\ at[j] = Idle /\ Fault
    /\ \E f \in list[InvOf[j]] : list' = [list EXCEPT ![InvOf[j]] = @ \ {f}]
    /\ UNCHANGED <<db, job, marker, complete, history>>

(***************************************************************************)
(* packet_db_open.                                                         *)
(***************************************************************************)
\* The opener goes on to a step of the ladder, or has its handle.
Enter(j, step) ==
    IF step = "open"
    THEN /\ handle' = [handle EXCEPT ![j] = TRUE]
         /\ Go(j, "decode")
    ELSE /\ Go(j, step)
         /\ UNCHANGED handle

\* The file is opened, the schema applied and user_version read, once.
OpenFile(j) ==
    /\ at[j] = "open_file"
    /\ Enter(j, Entry(db.version))
    /\ UNCHANGED <<db, list, file, read, batch, failed, marker, complete,
                   faults, history>>

\* user_version cannot be read (the database is busy or damaged): it stays 0,
\* and the opener runs the whole ladder, whatever the database's version is.
OpenFileUnread(j) ==
    /\ at[j] = "open_file" /\ Fault
    /\ Enter(j, Entry(0))
    /\ UNCHANGED <<db, list, file, read, batch, failed, marker, complete,
                   history>>

\* An opener that works on the V3 block while the V4 one is done or begun.
Behind(j) ==
    /\ at[j] \in {"dedup", "narrow"}
    /\ db.wide \/ \E k \in Jobs \ {j} : at[k] \in {"backfill", "drop", "widen", "stamp4"}

\* One statement of the ladder, in a transaction of its own.
LadderStep(j) ==
    /\ at[j] \in Steps
    /\ ~Refused(db, at[j])
    /\ db' = Migrate(db, at[j])
    /\ Enter(j, After[at[j]])
    /\ behind' = (behind \/ Behind(j))
    /\ UNCHANGED <<list, file, read, batch, failed, marker, complete, faults,
                   blind, part>>

\* The version could not be stamped: packet_db_open does not look.
StampFails(j) ==
    /\ at[j] \in Stamps /\ Fault
    /\ Enter(j, After[at[j]])
    /\ UNCHANGED <<db, list, file, read, batch, failed, marker, complete, history>>

\* Any other failure closes the database; rx_replay goes on without one.
NoDatabase(j) ==
    /\ Go(j, "decode")
    /\ UNCHANGED <<db, list, file, read, handle, batch, failed, marker, complete,
                   history>>

LadderRefused(j) ==
    /\ at[j] \in Steps
    /\ Refused(db, at[j])
    /\ NoDatabase(j) /\ UNCHANGED faults

OpenFails(j) ==
    /\ at[j] \in (Steps \ Stamps) \cup {"open_file"}
    /\ Fault /\ NoDatabase(j)

(***************************************************************************)
(* Decoding, the flush and the exit code.                                  *)
(***************************************************************************)
\* Every packet is appended to the batch, or dropped when there is no database.
Decode(j) ==
    /\ at[j] = "decode"
    /\ batch' = [batch EXCEPT ![j] = IF handle[j] THEN read[j] ELSE {}]
    /\ Go(j, "flush")
    /\ UNCHANGED <<db, list, file, read, handle, failed, marker, complete,
                   faults, history>>

\* One record could not be copied: counted, so that the exit code is 2.
AppendFails(j) ==
    /\ at[j] = "decode" /\ handle[j] /\ Fault
    /\ \E p \in read[j] : batch' = [batch EXCEPT ![j] = read[j] \ {p}]
    /\ failed' = [failed EXCEPT ![j] = TRUE]
    /\ Go(j, "flush")
    /\ UNCHANGED <<db, list, file, read, handle, marker, complete, history>>

\* A signal or `quit' ends the decode early; what was found is still flushed.
Interrupt(j) ==
    /\ at[j] = "decode" /\ handle[j] /\ Fault
    /\ \E found \in SUBSET read[j] :
          /\ found # read[j]
          /\ read' = [read EXCEPT ![j] = found]
          /\ batch' = [batch EXCEPT ![j] = found]
    /\ Go(j, "flush")
    /\ UNCHANGED <<db, list, file, handle, failed, marker, complete, history>>

\* packet_db_flush: BEGIN IMMEDIATE, every row, COMMIT.
Flush(j) ==
    /\ at[j] = "flush"
    /\ db' = IF handle[j] THEN InsertAll(db, batch[j], Origin[file[j]]) ELSE db
    /\ batch' = [batch EXCEPT ![j] = {}]
    /\ Go(j, "exit")
    /\ UNCHANGED <<list, file, read, handle, failed, marker, complete, faults,
                   history>>

\* A plausible slip, the one of issue #52: the loss does not reach the exit code.
FlushFailsQuietly(j) ==
    /\ at[j] = "flush" /\ handle[j] /\ batch[j] # {} /\ Fault
    /\ batch' = [batch EXCEPT ![j] = {}]
    /\ Go(j, "exit")
    /\ UNCHANGED <<db, list, file, read, handle, failed, marker, complete, history>>

\* The lock is not won, a row fails or COMMIT does: rolled back, nothing stored.
FlushFails(j) ==
    /\ at[j] = "flush" /\ handle[j] /\ batch[j] # {} /\ Fault
    /\ batch' = [batch EXCEPT ![j] = {}]
    /\ failed' = [failed EXCEPT ![j] = TRUE]
    /\ Go(j, "exit")
    /\ UNCHANGED <<db, list, file, read, handle, marker, complete, history>>

\* rx_replay exits and the worker marks the file, unless the exit code is 2.
With(set, f, yes) == IF yes THEN set \cup {f} ELSE set \ {f}

Exit(j) ==
    LET f == file[j]
    IN  /\ at[j] = "exit"
        /\ IF failed[j]
           THEN UNCHANGED <<marker, blind, part>>
           ELSE /\ marker' = [marker EXCEPT ![f] = "current"]
                /\ blind' = With(blind, f, ~handle[j])
                /\ part' = With(part, f, read[j] # Heard(f))
        /\ Gone(j)
        /\ UNCHANGED <<db, list, complete, faults, behind>>

(***************************************************************************)
(* The environment.                                                        *)
(***************************************************************************)
\* A worker and its rx_replay are killed; SQLite undoes an open transaction.
Crash(j) ==
    /\ at[j] # Idle /\ Fault
    /\ Gone(j)
    /\ UNCHANGED <<db, list, marker, complete, history>>

\* The receiver writes the rest of a recording, which makes it newer than
\* the marker.
Grow(f) ==
    /\ ~complete[f]
    /\ complete' = [complete EXCEPT ![f] = TRUE]
    /\ marker' = [marker EXCEPT ![f] = IF @ = "current" THEN "old" ELSE @]
    /\ UNCHANGED <<db, list, job, faults, history>>

Work(j) ==
    \/ Take(j) \/ OpenFile(j) \/ LadderStep(j) \/ LadderRefused(j)
    \/ Decode(j) \/ Flush(j) \/ Exit(j)

Trouble(j) ==
    \/ TakeUnreadable(j) \/ OpenFileUnread(j) \/ OpenFails(j) \/ StampFails(j)
    \/ AppendFails(j) \/ Interrupt(j) \/ FlushFails(j) \/ Crash(j)

Next ==
    \/ \E j \in Jobs : Work(j) \/ Trouble(j)
    \/ \E i \in Invs : StartRun(i)
    \/ \E f \in Files : Grow(f)

Spec == Init /\ [][Next]_vars

\* Workers run on, and decode_passes.sh is started again and again.
FairSpec ==
    /\ Spec
    /\ \A j \in Jobs : WF_vars(Work(j))
    /\ \A i \in Invs : WF_vars(StartRun(i))

(***************************************************************************)
(* Properties.                                                             *)
(***************************************************************************)
Stored(f) == \A p \in Heard(f) : Kept(db.rows, p, Origin[f])

\* A file with a current marker is never looked at again, so every packet in
\* it is in the database.  decode_passes.sh and rx_replay keep this through
\* flush failures, crashes, retries and overlapping runs; the ways it is lost
\* are the ones the history variables record: a database that could not be
\* opened, a decode that was interrupted or whose file grew before it was
\* marked, and V3 migration steps on a database that was past them.
MarkedMeansStored ==
    \A f \in Files :
        marker[f] = "current" /\ f \notin blind \cup part /\ ~behind
            => Stored(f)

\* What the comments on the exit code of rx_replay promise of a decode that was
\* not cut short: its file is marked only when its packets are stored.
MarkedIsStored ==
    \A f \in Files : marker[f] = "current" /\ f \notin part => Stored(f)

\* An opener has made the V3 index and is on its way to drop it.
Lagging == \E k \in Jobs : at[k] \in {"stamp3", "backfill", "drop"}

\* packet_db_open hands out a database only when the ladder is done, whatever
\* earlier opener died on it, failed to stamp its version or overtook this one:
\* the dedup key has the origin in it and every row has an origin.  The V3 index
\* without the origin, which keeps a payload of a second origin out, is there
\* only while an opener that lags behind has it between its V3 and V4 blocks
\* (no fault is needed for that), and later only if an opener lagged behind and
\* something failed, as when that opener died there.
OpenMeansMigrated ==
    \A j \in Jobs :
        handle[j] /\ at[j] \in {"decode", "flush"}
            => /\ db.wide
               /\ \A r \in db.rows : r.origin # Null
               /\ db.narrow => Lagging \/ (behind /\ faults > 0)

\* No statement takes the last row of a payload away: whatever openers
\* interleave, crash or start from an old version, a packet that was ever in
\* the database stays in it.
NoPayloadVanishes ==
    [][\A r \in db.rows : \E s \in db'.rows : SamePayload(r, s)]_vars

\* A file whose decode failed, was killed, or that grew after it was decoded,
\* is taken up again: in the end every file has a current marker.
EveryFileDone == \A f \in Files : <>[](marker[f] = "current")

=============================================================================
