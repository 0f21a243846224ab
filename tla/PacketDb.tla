------------------------------ MODULE PacketDb ------------------------------
(***************************************************************************)
(* The packet database of src/db/packet_db.c, as the processes that share  *)
(* the file see it: the packet table, its two unique indexes and the       *)
(* user_version stamp, and what each SQL statement does to them.           *)
(*                                                                         *)
(* SQLite runs one statement (or one transaction) at a time on the file,   *)
(* so a statement is an operator from database to database.  A row is its  *)
(* payload, the origin of its audio and its age: ids only ever matter by   *)
(* their order among the rows of a payload, so a row is the nth of its     *)
(* payload, the first being the one with the least id.  source_tool is the *)
(* same for every row here ("rx_replay") and every key that matters        *)
(* contains it, so it is left out, as are the columns no key mentions.     *)
(* Columns that ALTER TABLE adds only start out NULL, which is how a row   *)
(* without an origin is written, so the ALTERs leave the database as it is.*)
(***************************************************************************)
EXTENDS Integers, FiniteSets

CONSTANT Null      \* the origin of a row written before there were origins

Row(p, o, n) == [payload |-> p, origin |-> o, nth |-> n]

\* Two rows that the index on (payload_sha1, source_tool) tells apart no more.
SamePayload(a, b) == a.payload = b.payload

\* The index with capture_origin: NULL is never equal to NULL in an index.
SameKey(a, b) == a.payload = b.payload /\ a.origin = b.origin /\ a.origin # Null

Kept(rows, p, o) == \E r \in rows : r.payload = p /\ r.origin = o

\* INSERT OR IGNORE: a row that meets a unique index is dropped in silence.
Ignored(db, p, o) ==
    \E r \in db.rows : /\ r.payload = p
                       /\ db.narrow \/ (db.wide /\ r.origin = o)

\* The row an INSERT adds is the youngest of its payload.
Insert(db, p, o) ==
    Row(p, o, 1 + Cardinality({r \in db.rows : r.payload = p}))

\* All payloads of a batch, inside one transaction; no two of its rows meet.
InsertAll(db, batch, o) ==
    [db EXCEPT !.rows =
        @ \cup {Insert(db, p, o) : p \in {q \in batch : ~Ignored(db, q, o)}}]

(***************************************************************************)
(* The migration ladder of packet_db_open.                                 *)
(***************************************************************************)
After == [stamp2 |-> "dedup", dedup |-> "narrow", narrow |-> "stamp3",
          stamp3 |-> "backfill", backfill |-> "drop", drop |-> "widen",
          widen |-> "stamp4", stamp4 |-> "open"]
Stamps == {"stamp2", "stamp3", "stamp4"}
Steps == {"dedup", "narrow", "backfill", "drop", "widen"} \cup Stamps

\* A plausible slip: the V4 block is kept for databases below version 3.
EntrySkipsV4(version) ==
    CASE version < 2 -> "stamp2"
      [] version = 2 -> "dedup"
      [] OTHER       -> "open"

\* Where an opener that reads this user_version enters the ladder.
Entry(version) ==
    CASE version < 2 -> "stamp2"
      [] version = 2 -> "dedup"
      [] version = 3 -> "backfill"
      [] OTHER       -> "open"

\* A statement that the rows in the table make fail with a constraint error.
Refused(db, step) ==
    \E r, s \in db.rows :
        /\ r # s
        /\ \/ step = "narrow" /\ ~db.narrow /\ SamePayload(r, s)
           \/ step = "widen" /\ ~db.wide /\ SameKey(r, s)
           \/ /\ step = "backfill" /\ db.wide
              /\ SamePayload(r, s) /\ r.origin = Null
              /\ s.origin \in {Null, "cts_ground"}

\* A plausible slip: the rows are grouped by tool alone.
OldestOfAll(rows) ==
    {r \in rows : r = CHOOSE s \in rows : \A t \in rows : s.nth <= t.nth}

\* DELETE ... WHERE id NOT IN (SELECT MIN(id) ... GROUP BY payload_sha1, tool).
OldestOfEach(rows) ==
    {r \in rows : \A s \in rows : SamePayload(r, s) => r.nth <= s.nth}

\* UPDATE packet SET capture_origin = 'cts_ground' WHERE capture_origin IS NULL.
WithOrigin(rows) ==
    {IF r.origin = Null THEN [r EXCEPT !.origin = "cts_ground"] ELSE r : r \in rows}

\* What a step of the ladder does to the database when it succeeds.
Migrate(db, step) ==
    CASE step = "stamp2"   -> [db EXCEPT !.version = 2]
      [] step = "dedup"    -> [db EXCEPT !.rows = OldestOfEach(@)]
      [] step = "narrow"   -> [db EXCEPT !.narrow = TRUE]
      [] step = "stamp3"   -> [db EXCEPT !.version = 3]
      [] step = "backfill" -> [db EXCEPT !.rows = WithOrigin(@)]
      [] step = "drop"     -> [db EXCEPT !.narrow = FALSE]
      [] step = "widen"    -> [db EXCEPT !.wide = TRUE]
      [] step = "stamp4"   -> [db EXCEPT !.version = 4]

=============================================================================
