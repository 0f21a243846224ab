------------------------- MODULE DecodePassesProofs -------------------------
(***************************************************************************)
(* Proofs about DecodePasses, for any number of workers, invocations,      *)
(* files and faults and for a database of any version: an opened database  *)
(* is migrated, no packet ever vanishes from it, and a file marked         *)
(* as decoded has its packets stored.                                      *)
(***************************************************************************)
EXTENDS DecodePasses, FiniteSetTheorems, TLAPS

\* Every payload in the table has its oldest row there.
Ranked ==
    /\ IsFiniteSet(db.rows)
    /\ \A r \in db.rows :
         /\ r.nth \in Nat \ {0}
         /\ \E s \in db.rows : SamePayload(r, s) /\ s.nth = 1

\* What has been done to the database when an opener is that far, when one has
\* its handle or when the version says so.
Origins ==
    \/ db.wide \/ db.version = 4
    \/ \E j \in Jobs : handle[j] \/ at[j] \in {"drop", "widen", "stamp4"}
    => \A r \in db.rows : r.origin # Null
Widened ==
    db.version = 4 \/ (\E j \in Jobs : handle[j] \/ at[j] = "stamp4") => db.wide
Dropped ==
    ~behind /\ (db.wide \/ \E j \in Jobs : at[j] \in {"widen", "stamp4"})
        => ~db.narrow

\* ... and the V3 index that comes back behind the V4 one is on its way out,
\* unless something has failed, as when the opener that made it died.
Redropped ==
    db.narrow /\ (db.wide \/ \E j \in Jobs : at[j] \in {"widen", "stamp4"})
        => Lagging \/ (behind /\ faults > 0)

Migrated == Origins /\ Widened /\ Dropped

\* What a worker has decoded goes into its batch, and from there into the
\* database, unless its exit code will say otherwise.
Delivered(j) ==
    /\ handle[j] /\ at[j] = "flush" /\ ~failed[j] => batch[j] = read[j]
    /\ handle[j] /\ at[j] = "exit" /\ ~failed[j] /\ ~behind =>
         \A p \in read[j] : Kept(db.rows, p, Origin[file[j]])

Marked(f) ==
    marker[f] = "current" /\ f \notin blind \cup part /\ ~behind
        => db.wide /\ Stored(f)

Carried == (\A j \in Jobs : Delivered(j)) /\ \A f \in Files : Marked(f)

IInv == TypeOK /\ Ranked /\ Migrated /\ Redropped /\ Carried

-----------------------------------------------------------------------------
(* What the statements do to the rows.                                     *)

\* The rows of a step of the ladder: the same, the oldest ones, or with origins.
LEMMA MigrateRows ==
    ASSUME TypeOK, NEW step \in Steps, NEW m, m = Migrate(db, step)
    PROVE  /\ m = [rows |-> m.rows, version |-> m.version,
                   narrow |-> m.narrow, wide |-> m.wide]
           /\ m.rows \in {OldestOfEach(db.rows), WithOrigin(db.rows), db.rows}
           /\ step # "dedup" => m.rows \in {WithOrigin(db.rows), db.rows}
           /\ step = "backfill" => m.rows = WithOrigin(db.rows)
           /\ m.version \in {db.version, 2, 3, 4}
           /\ m.version = 4 => step = "stamp4" \/ db.version = 4
           /\ m.narrow \in BOOLEAN /\ m.wide \in BOOLEAN
           /\ m.narrow => step = "narrow" \/ (db.narrow /\ step # "drop")
           /\ m.wide <=> step = "widen" \/ db.wide
<1> USE DEF TypeOK, DbType
<1>1. CASE step = "stamp2"
  BY <1>1 DEF Migrate
<1>2. CASE step = "stamp3"
  BY <1>2 DEF Migrate
<1>3. CASE step = "stamp4"
  BY <1>3 DEF Migrate
<1>4. CASE step = "dedup"
  BY <1>4 DEF Migrate
<1>5. CASE step = "narrow"
  BY <1>5 DEF Migrate
<1>6. CASE step = "backfill"
  BY <1>6 DEF Migrate
<1>7. CASE step = "drop"
  BY <1>7 DEF Migrate
<1>8. CASE step = "widen"
  BY <1>8 DEF Migrate
<1> QED
  BY <1>1, <1>2, <1>3, <1>4, <1>5, <1>6, <1>7, <1>8 DEF Steps, Stamps

\* The fields of a row.
LEMMA RowFields ==
    ASSUME NEW p, NEW o, NEW n
    PROVE  Row(p, o, n).payload = p /\ Row(p, o, n).origin = o /\ Row(p, o, n).nth = n
BY DEF Row

\* The backfill changes nothing of a row but an origin that is missing.
LEMMA WithOriginRow ==
    ASSUME TypeOK
    PROVE  /\ \A r \in WithOrigin(db.rows) :
                /\ r = Row(r.payload, r.origin, r.nth)
                /\ r.origin # Null
                /\ \E s \in db.rows : s.payload = r.payload /\ s.nth = r.nth
           /\ \A s \in db.rows :
                \E r \in WithOrigin(db.rows) :
                   /\ r.payload = s.payload /\ r.nth = s.nth
                   /\ s.origin # Null => r.origin = s.origin
<1> DEFINE new(s) == IF s.origin = Null THEN [s EXCEPT !.origin = "cts_ground"] ELSE s
<1>1. ASSUME NEW s \in db.rows
      PROVE  /\ new(s) = Row(new(s).payload, new(s).origin, new(s).nth)
             /\ new(s).origin # Null
             /\ new(s).payload = s.payload /\ new(s).nth = s.nth
             /\ s.origin # Null => new(s).origin = s.origin
  <2>1. s = Row(s.payload, s.origin, s.nth)
    BY DEF TypeOK, DbType
  <2> QED
    BY <2>1, FileAssumption DEF Row
<1>2. WithOrigin(db.rows) = {new(s) : s \in db.rows}
  BY DEF WithOrigin
<1> HIDE DEF new
<1> QED
  BY <1>1, <1>2

\* An INSERT adds rows only, each the youngest of its payload.
LEMMA InsertRows ==
    ASSUME TypeOK, NEW batch0, NEW o
    PROVE  LET m == InsertAll(db, batch0, o)
               new == {Insert(db, p, o) : p \in {q \in batch0 : ~Ignored(db, q, o)}}
           IN  m = [rows |-> db.rows \cup new, version |-> db.version,
                    narrow |-> db.narrow, wide |-> db.wide]
<1>1. ASSUME NEW X
      PROVE  [db EXCEPT !.rows = X] = [rows |-> X, version |-> db.version,
                                       narrow |-> db.narrow, wide |-> db.wide]
  BY DEF TypeOK, DbType
<1> QED
  BY <1>1 DEF InsertAll

-----------------------------------------------------------------------------

(* The parts of the type invariant, one by one.                            *)

\* The rows of the table are rows, whatever statement ran.
LEMMA DbTypeStep ==
    ASSUME TypeOK, [Next]_vars
    PROVE  DbType'
<1>1. ASSUME NEW j \in Jobs, LadderStep(j)
      PROVE  DbType'
  <2>1. at[j] \in Steps /\ db' = Migrate(db, at[j])
    BY <1>1 DEF LadderStep
  <2>2. \A r \in OldestOfEach(db.rows) : r \in db.rows
    BY DEF OldestOfEach
  <2>3. \A r \in WithOrigin(db.rows) : r = Row(r.payload, r.origin, r.nth)
    BY WithOriginRow
  <2>4. \A r \in db'.rows : r = Row(r.payload, r.origin, r.nth)
    BY <2>1, <2>2, <2>3, MigrateRows DEF TypeOK, DbType
  <2>5. /\ db' = [rows |-> db'.rows, version |-> db'.version,
                  narrow |-> db'.narrow, wide |-> db'.wide]
        /\ db'.version \in 0 .. 4 /\ db'.narrow \in BOOLEAN /\ db'.wide \in BOOLEAN
    BY <2>1, MigrateRows DEF TypeOK, DbType
  <2> QED
    BY <2>4, <2>5 DEF DbType
<1>2. ASSUME NEW j \in Jobs, Flush(j)
      PROVE  DbType'
  <2>1. CASE ~handle[j]
    BY <1>2, <2>1 DEF Flush, TypeOK, DbType
  <2>2. CASE handle[j]
    <3>1. /\ db' = [rows |-> db'.rows, version |-> db.version,
                    narrow |-> db.narrow, wide |-> db.wide]
          /\ \A r \in db'.rows \ db.rows : \E p : r = Insert(db, p, Origin[file[j]])
      BY <1>2, <2>2, InsertRows DEF Flush
    <3>2. \A r \in db'.rows : r = Row(r.payload, r.origin, r.nth)
      <4>1. ASSUME NEW r \in db'.rows, r \notin db.rows
            PROVE  r = Row(r.payload, r.origin, r.nth)
        <5>1. PICK p : r = Insert(db, p, Origin[file[j]])
          BY <3>1, <4>1
        <5> QED
          BY <5>1, RowFields DEF Insert
      <4> QED
        BY <4>1 DEF TypeOK, DbType
    <3> QED
      BY <3>1, <3>2 DEF TypeOK, DbType
  <2> QED
    BY <2>1, <2>2
<1>3. CASE UNCHANGED db
  BY <1>3 DEF TypeOK, DbType
<1> QED
  BY <1>1, <1>2, <1>3
     DEF Next, Work, Trouble, vars, StartRun, Grow, Take, TakeUnreadable, OpenFile,
         OpenFileUnread, StampFails, LadderRefused, OpenFails, NoDatabase, Decode,
         AppendFails, Interrupt, FlushFails, Exit, Crash

\* Every worker is at a place of its program, and at work on a file of the list.
LEMMA JobTypeStep ==
    ASSUME TypeOK, [Next]_vars
    PROVE  JobType' /\ JobFiles'
<1> USE FileAssumption DEF TypeOK, JobType, JobFiles, Payloads, Places, Idle, Go
<1>1. ASSUME NEW j \in Jobs, Take(j)
      PROVE  JobType' /\ JobFiles'
  <2>0. list[InvOf[j]] \subseteq Files
    BY PoolAssumption DEF FileType
  <2>1. PICK f \in Files : /\ file' = [file EXCEPT ![j] = f]
                           /\ read' = [read EXCEPT ![j] = Heard(f)]
    BY <1>1, <2>0 DEF Take
  <2>2. Heard(f) \subseteq Whole[f]
    BY DEF Heard
  <2> QED
    BY <1>1, <2>1, <2>2 DEF Take
<1>2. ASSUME NEW j \in Jobs,
             OpenFile(j) \/ OpenFileUnread(j) \/ LadderStep(j) \/ StampFails(j)
      PROVE  JobType' /\ JobFiles'
  <2>1. PICK step \in Steps \cup {"open"} :
          /\ at[j] # Idle
          /\ Enter(j, step)
          /\ UNCHANGED <<file, read, batch, failed>>
    BY <1>2 DEF OpenFile, OpenFileUnread, LadderStep, StampFails, Entry, After,
                Steps, Stamps
  <2> QED
    BY <2>1 DEF Enter, Steps, Stamps
<1>3. ASSUME NEW j \in Jobs, LadderRefused(j) \/ OpenFails(j)
      PROVE  JobType' /\ JobFiles'
  BY <1>3 DEF LadderRefused, OpenFails, NoDatabase, Steps, Stamps
<1>4. ASSUME NEW j \in Jobs, Decode(j)
      PROVE  JobType' /\ JobFiles'
  BY <1>4 DEF Decode
<1>5. ASSUME NEW j \in Jobs, AppendFails(j)
      PROVE  JobType' /\ JobFiles'
  BY <1>5 DEF AppendFails
<1>6. ASSUME NEW j \in Jobs, Interrupt(j)
      PROVE  JobType' /\ JobFiles'
  BY <1>6 DEF Interrupt
<1>7. ASSUME NEW j \in Jobs, Flush(j) \/ FlushFails(j)
      PROVE  JobType' /\ JobFiles'
  <2>1. CASE Flush(j)
    BY <2>1 DEF Flush
  <2>2. CASE FlushFails(j)
    BY <2>2 DEF FlushFails
  <2> QED
    BY <1>7, <2>1, <2>2
<1>8. ASSUME NEW j \in Jobs, Exit(j) \/ Crash(j)
      PROVE  JobType' /\ JobFiles'
  BY <1>8 DEF Exit, Crash, Gone
<1>9. CASE UNCHANGED job
  BY <1>9 DEF job
<1> QED
  BY <1>1, <1>2, <1>3, <1>4, <1>5, <1>6, <1>7, <1>8, <1>9
     DEF Next, Work, Trouble, vars, StartRun, Grow, TakeUnreadable

\* The worklists, the markers and the histories are about files.
LEMMA FileTypeStep ==
    ASSUME TypeOK, [Next]_vars
    PROVE  FileType'
<1> USE PoolAssumption DEF TypeOK, FileType, Fault, history
<1>1. ASSUME NEW i \in Invs, StartRun(i)
      PROVE  FileType'
  BY <1>1 DEF StartRun
<1>2. ASSUME NEW f \in Files, Grow(f)
      PROVE  FileType'
  BY <1>2 DEF Grow
<1>3. ASSUME NEW j \in Jobs, Take(j) \/ TakeUnreadable(j)
      PROVE  FileType'
  BY <1>3 DEF Take, TakeUnreadable
<1>4. ASSUME NEW j \in Jobs,
             \/ OpenFile(j) \/ OpenFileUnread(j) \/ StampFails(j)
             \/ LadderRefused(j) \/ OpenFails(j)
      PROVE  FileType'
  BY <1>4 DEF OpenFile, OpenFileUnread, StampFails, LadderRefused, OpenFails, NoDatabase
<1>5. ASSUME NEW j \in Jobs, LadderStep(j)
      PROVE  FileType'
  BY <1>5 DEF LadderStep, Behind
<1>6. ASSUME NEW j \in Jobs, Decode(j) \/ AppendFails(j) \/ Interrupt(j)
                             \/ Flush(j) \/ FlushFails(j)
      PROVE  FileType'
  BY <1>6 DEF Decode, AppendFails, Interrupt, Flush, FlushFails
<1>7. ASSUME NEW j \in Jobs, Exit(j)
      PROVE  FileType'
  <2>1. file[j] \in Files
    BY <1>7 DEF Exit, JobFiles, Idle
  <2> QED
    BY <1>7, <2>1 DEF Exit, With
<1>8. ASSUME NEW j \in Jobs, Crash(j)
      PROVE  FileType'
  BY <1>8 DEF Crash
<1>9. CASE UNCHANGED vars
  BY <1>9 DEF vars
<1> QED
  BY <1>1, <1>2, <1>3, <1>4, <1>5, <1>6, <1>7, <1>8, <1>9
     DEF Next, Work, Trouble

-----------------------------------------------------------------------------

\* The image of a finite set is finite.
LEMMA FiniteImage ==
    ASSUME NEW S, IsFiniteSet(S), NEW f, DOMAIN f = S
    PROVE  IsFiniteSet({f[x] : x \in S})
<1> DEFINE T == {f[x] : x \in S}
           g == [x \in S |-> f[x]]
<1>1. g \in Surjection(S, T)
  BY DEF Surjection
<1> HIDE DEF g, T
<1>2. IsFiniteSet(T)
  BY <1>1, FS_Surjection
<1> QED
  BY <1>2 DEF T

\* Every step keeps the oldest row of every payload, which is what the dedup
\* of the V3 migration leaves.
LEMMA RankedStep ==
    ASSUME TypeOK, Ranked, [Next]_vars
    PROVE  Ranked' /\ \A r \in db.rows : \E s \in db'.rows : SamePayload(r, s)
<1> USE DEF Ranked, SamePayload
<1>1. ASSUME NEW j \in Jobs, LadderStep(j)
      PROVE  Ranked' /\ \A r \in db.rows : \E s \in db'.rows : SamePayload(r, s)
  <2>1. db'.rows \in {OldestOfEach(db.rows), WithOrigin(db.rows), db.rows}
    BY <1>1, MigrateRows DEF LadderStep
  <2>2. CASE db'.rows = OldestOfEach(db.rows)
    <3>1. db'.rows \subseteq db.rows
      BY <2>2 DEF OldestOfEach
    <3>2. IsFiniteSet(db'.rows)
      BY <3>1, FS_Subset
    <3>3. \A s \in db.rows : s.nth = 1 => s \in db'.rows
      BY <2>2 DEF OldestOfEach
    <3> QED
      BY <3>1, <3>2, <3>3
  <2>3. CASE db'.rows = WithOrigin(db.rows)
    <3> DEFINE f == [r \in db.rows |-> IF r.origin = Null
                        THEN [r EXCEPT !.origin = "cts_ground"] ELSE r]
    <3>0. DOMAIN f = db.rows /\ db'.rows = {f[r] : r \in db.rows}
      BY <2>3 DEF WithOrigin
    <3> HIDE DEF f
    <3>1. IsFiniteSet(db'.rows)
      BY <3>0, FiniteImage
    <3>2. /\ \A r \in db'.rows :
               \E s \in db.rows : s.payload = r.payload /\ s.nth = r.nth
          /\ \A s \in db.rows :
               \E r \in db'.rows : r.payload = s.payload /\ r.nth = s.nth
      BY <2>3, WithOriginRow
    <3> QED
      BY <3>1, <3>2
  <2>4. CASE db'.rows = db.rows
    BY <2>4
  <2> QED
    BY <2>1, <2>2, <2>3, <2>4
<1>2. ASSUME NEW j \in Jobs, Flush(j)
      PROVE  Ranked' /\ \A r \in db.rows : \E s \in db'.rows : SamePayload(r, s)
  <2>1. CASE ~handle[j]
    BY <1>2, <2>1 DEF Flush
  <2>2. CASE handle[j]
    <3> DEFINE o == Origin[file[j]]
               ps == {q \in batch[j] : ~Ignored(db, q, o)}
               new == {Insert(db, p, o) : p \in ps}
    <3>1. db'.rows = db.rows \cup new
      BY <1>2, <2>2, InsertRows DEF Flush
    <3>2. IsFiniteSet(new)
      <4>1. batch[j] \subseteq Whole[file[j]] /\ file[j] \in Files
        BY <1>2 DEF Flush, TypeOK, JobFiles, Idle
      <4>2. IsFiniteSet(Whole[file[j]]) /\ ps \subseteq Whole[file[j]]
        BY <4>1, FileAssumption
      <4> DEFINE f == [p \in ps |-> Insert(db, p, o)]
      <4>3. DOMAIN f = ps /\ new = {f[p] : p \in ps}
        OBVIOUS
      <4> HIDE DEF f, new, ps
      <4>4. IsFiniteSet(ps)
        BY <4>2, FS_Subset
      <4> QED
        BY <4>3, <4>4, FiniteImage
    <3>3. IsFiniteSet(db'.rows)
      <4> HIDE DEF new
      <4>1. IsFiniteSet(db.rows)
        OBVIOUS
      <4>2. IsFiniteSet(db.rows \cup new)
        BY <3>2, <4>1, FS_Union
      <4> QED
        BY <3>1, <4>2
    <3>4. ASSUME NEW r \in new
          PROVE  /\ r.nth \in Nat \ {0}
                 /\ \E s \in db'.rows : SamePayload(r, s) /\ s.nth = 1
      <4>1. PICK p \in ps : r = Insert(db, p, o)
        OBVIOUS
      <4> DEFINE old == {s \in db.rows : s.payload = p}
      <4>2. r.payload = p /\ r.nth = 1 + Cardinality(old)
        BY <4>1, RowFields DEF Insert
      <4>3. IsFiniteSet(old) /\ Cardinality(old) \in Nat
        <5>1. old \subseteq db.rows
          OBVIOUS
        <5> HIDE DEF old
        <5> QED
          BY <5>1, FS_Subset, FS_CardinalityType
      <4>4. CASE old = {}
        <5>1. Cardinality(old) = 0
          BY <4>4, FS_EmptySet
        <5>2. r.nth = 1
          BY <4>2, <5>1
        <5> QED
          BY <3>1, <5>2
      <4>5. CASE old # {}
        BY <3>1, <4>2, <4>3, <4>5
      <4> QED
        BY <4>2, <4>3, <4>4, <4>5
    <3> QED
      BY <3>1, <3>3, <3>4
  <2> QED
    BY <2>1, <2>2
<1>3. CASE UNCHANGED db
  BY <1>3
<1> QED
  BY <1>1, <1>2, <1>3
     DEF Next, Work, Trouble, vars, StartRun, Grow, Take, TakeUnreadable, OpenFile,
         OpenFileUnread, StampFails, LadderRefused, OpenFails, NoDatabase, Decode,
         AppendFails, Interrupt, FlushFails, Exit, Crash

-----------------------------------------------------------------------------

\* Rows that have an origin keep it, or go; rows that come have one.
LEMMA OriginStep ==
    ASSUME TypeOK, [Next]_vars, \A r \in db.rows : r.origin # Null
    PROVE  \A r \in db'.rows : r.origin # Null
<1>1. ASSUME NEW j \in Jobs, LadderStep(j)
      PROVE  \A r \in db'.rows : r.origin # Null
  <2>1. db'.rows \in {OldestOfEach(db.rows), WithOrigin(db.rows), db.rows}
    BY <1>1, MigrateRows DEF LadderStep
  <2>2. OldestOfEach(db.rows) \subseteq db.rows
    BY DEF OldestOfEach
  <2> QED
    BY <2>1, <2>2, WithOriginRow
<1>2. ASSUME NEW j \in Jobs, Flush(j)
      PROVE  \A r \in db'.rows : r.origin # Null
  <2>1. CASE ~handle[j]
    BY <1>2, <2>1 DEF Flush
  <2>2. CASE handle[j]
    <3>1. Origin[file[j]] # Null
      BY <1>2, FileAssumption DEF Flush, TypeOK, JobFiles, Idle
    <3>2. \A r \in db'.rows \ db.rows : \E p : r = Insert(db, p, Origin[file[j]])
      BY <1>2, <2>2, InsertRows DEF Flush
    <3>3. \A p : Insert(db, p, Origin[file[j]]).origin = Origin[file[j]]
      BY RowFields DEF Insert
    <3> QED
      BY <3>1, <3>2, <3>3
  <2> QED
    BY <2>1, <2>2
<1>3. CASE UNCHANGED db
  BY <1>3
<1> QED
  BY <1>1, <1>2, <1>3
     DEF Next, Work, Trouble, vars, StartRun, Grow, Take, TakeUnreadable, OpenFile,
         OpenFileUnread, StampFails, LadderRefused, OpenFails, NoDatabase, Decode,
         AppendFails, Interrupt, FlushFails, Exit, Crash

\* A worker that is given its handle, or is past a step of the ladder, has
\* just come from the step before, or found the version.
LEMMA MigratedStep ==
    ASSUME TypeOK, Migrated, [Next]_vars
    PROVE  Migrated'
<1> USE DEF Migrated, Origins, Widened, Dropped
<1>1. ASSUME NEW j \in Jobs, LadderStep(j)
      PROVE  Migrated'
  <2>1. /\ at[j] \in Steps
        /\ db'.wide <=> at[j] = "widen" \/ db.wide
        /\ db'.version = 4 => at[j] = "stamp4" \/ db.version = 4
        /\ db'.narrow => at[j] = "narrow" \/ (db.narrow /\ at[j] # "drop")
        /\ at[j] = "backfill" => db'.rows = WithOrigin(db.rows)
    BY <1>1, MigrateRows DEF LadderStep
  <2>2. /\ \A k \in Jobs \ {j} : at'[k] = at[k] /\ handle'[k] = handle[k]
        /\ handle'[j] => handle[j] \/ at[j] = "stamp4"
        /\ at'[j] = "drop" => at[j] = "backfill"
        /\ at'[j] = "widen" => at[j] = "drop"
        /\ at'[j] = "stamp4" => at[j] = "widen"
    BY <1>1 DEF LadderStep, Enter, After, Go, TypeOK, JobType, Steps, Stamps
  <2>3. Origins'
    <3>1. (\A r \in db.rows : r.origin # Null) => \A r \in db'.rows : r.origin # Null
      BY OriginStep
    <3>2. at[j] = "backfill" => \A r \in db'.rows : r.origin # Null
      BY <2>1, WithOriginRow
    <3> QED
      BY <2>1, <2>2, <3>1, <3>2
  <2>4. Widened'
    BY <2>1, <2>2
  <2>5. Dropped'
    <3>1. /\ ~behind' => ~behind
          /\ ~behind' /\ at[j] = "narrow" =>
               ~db.wide /\ \A k \in Jobs \ {j} : at[k] \notin {"drop", "widen", "stamp4"}
      BY <1>1 DEF LadderStep, Behind
    <3> QED
      BY <2>1, <2>2, <3>1
  <2> QED
    BY <2>3, <2>4, <2>5
<1>2. ASSUME NEW j \in Jobs, OpenFile(j) \/ OpenFileUnread(j) \/ StampFails(j)
      PROVE  Migrated'
  <2>1. UNCHANGED <<db, behind>>
    BY <1>2 DEF OpenFile, OpenFileUnread, StampFails, history
  <2>2. /\ \A k \in Jobs \ {j} : at'[k] = at[k] /\ handle'[k] = handle[k]
        /\ handle'[j] => handle[j] \/ at[j] = "stamp4" \/ db.version = 4
        /\ at'[j] \notin {"drop", "widen", "stamp4"}
    BY <1>2 DEF OpenFile, OpenFileUnread, StampFails, Enter, Entry, After, Go, TypeOK,
                DbType, JobType, Steps, Stamps
  <2> QED
    BY <2>1, <2>2
<1>3. ASSUME NEW j \in Jobs, Flush(j)
      PROVE  Migrated'
  <2>1. db'.wide = db.wide /\ db'.version = db.version /\ db'.narrow = db.narrow
    BY <1>3, InsertRows DEF Flush
  <2>2. /\ behind' = behind
        /\ handle' = handle
        /\ \A k \in Jobs : at'[k] \in {"drop", "widen", "stamp4"} => at'[k] = at[k]
    BY <1>3 DEF Flush, Go, history, TypeOK, JobType
  <2>3. (\A r \in db.rows : r.origin # Null) => \A r \in db'.rows : r.origin # Null
    BY OriginStep
  <2> QED
    BY <2>1, <2>2, <2>3
<1>4. ASSUME UNCHANGED <<db, behind>>,
             \A k \in Jobs : /\ handle'[k] => handle[k]
                             /\ at'[k] \in {"drop", "widen", "stamp4"} => at'[k] = at[k]
      PROVE  Migrated'
  BY <1>4
<1>5. ASSUME NEW j \in Jobs, LadderRefused(j) \/ OpenFails(j) \/ Decode(j) \/ AppendFails(j)
                             \/ Interrupt(j) \/ FlushFails(j)
      PROVE  Migrated'
  BY <1>4, <1>5 DEF LadderRefused, OpenFails, NoDatabase, Decode, AppendFails, Interrupt,
                    FlushFails, Go, history, TypeOK, JobType
<1>6. ASSUME NEW j \in Jobs, Take(j) \/ Exit(j) \/ Crash(j)
      PROVE  Migrated'
  BY <1>4, <1>6 DEF Take, Exit, Crash, Gone, Go, Idle, history, TypeOK, JobType
<1>7. CASE UNCHANGED <<db, behind, at, handle>>
  BY <1>4, <1>7
<1> QED
  BY <1>1, <1>2, <1>3, <1>5, <1>6, <1>7
     DEF Next, Work, Trouble, vars, job, history, StartRun, Grow, TakeUnreadable

\* The V4 block of an opener always gets past its backfill.
LEMMA BackfillGoes ==
    ASSUME Migrated, NEW j \in Jobs, LadderRefused(j)
    PROVE  at[j] \notin {"stamp3", "backfill", "drop"}
<1>1. at[j] # "backfill"
  BY DEF LadderRefused, Refused, Migrated, Origins
<1>2. at[j] \notin {"stamp3", "drop"}
  BY DEF LadderRefused, Refused
<1> QED
  BY <1>1, <1>2

\* The V3 index goes again while its opener lives.
LEMMA RedroppedStep ==
    ASSUME TypeOK, Migrated, Redropped, [Next]_vars
    PROVE  Redropped'
<1> DEFINE late(x) == x \in {"stamp3", "backfill", "drop"}
           far(x) == x \in {"widen", "stamp4"}
<1>0. faults \in Nat
  BY PoolAssumption DEF TypeOK, FileType
<1>1. ASSUME NEW j \in Jobs, LadderStep(j)
      PROVE  Redropped'
  <2>1. /\ at[j] \in Steps
        /\ db'.wide <=> at[j] = "widen" \/ db.wide
        /\ db'.narrow => at[j] = "narrow" \/ (db.narrow /\ at[j] # "drop")
    BY <1>1, MigrateRows DEF LadderStep
  <2>2. /\ \A k \in Jobs \ {j} : at'[k] = at[k]
        /\ at[j] = "narrow" => at'[j] = "stamp3"
        /\ late(at[j]) /\ at[j] # "drop" => late(at'[j])
        /\ at'[j] = "widen" => at[j] = "drop"
        /\ at'[j] = "stamp4" => at[j] = "widen"
        /\ faults' = faults /\ (behind => behind')
    <3>1. /\ at[j] = "narrow" => After[at[j]] = "stamp3"
          /\ late(at[j]) /\ at[j] # "drop" => late(After[at[j]])
          /\ After[at[j]] = "widen" => at[j] = "drop"
          /\ After[at[j]] = "stamp4" => at[j] = "widen"
      BY <1>1 DEF LadderStep, After, Steps, Stamps
    <3>2. /\ at' = [at EXCEPT ![j] = IF After[at[j]] = "open" THEN "decode"
                                                            ELSE After[at[j]]]
          /\ UNCHANGED faults /\ (behind => behind')
      BY <1>1 DEF LadderStep, Enter, Go
    <3>3. /\ \A k \in Jobs \ {j} : at'[k] = at[k]
          /\ at'[j] = IF After[at[j]] = "open" THEN "decode" ELSE After[at[j]]
      BY <3>2 DEF TypeOK, JobType
    <3> QED
      BY <3>1, <3>2, <3>3
  <2>3. CASE at[j] = "narrow"
    BY <2>2, <2>3 DEF Redropped, Lagging
  <2>4. CASE at[j] = "drop"
    BY <2>1, <2>4 DEF Redropped
  <2>5. CASE at[j] \notin {"narrow", "drop"}
    BY <2>1, <2>2, <2>5 DEF Redropped, Lagging
  <2> QED
    BY <2>3, <2>4, <2>5
<1>2. ASSUME UNCHANGED <<behind, faults>>, db'.wide = db.wide, db'.narrow = db.narrow,
             \A k \in Jobs : /\ late(at[k]) => late(at'[k])
                             /\ far(at'[k]) => at'[k] = at[k]
      PROVE  Redropped'
  BY <1>2 DEF Redropped, Lagging
<1>3. ASSUME UNCHANGED <<behind, db>>, faults' = faults + 1,
             \A k \in Jobs : far(at'[k]) => at'[k] = at[k]
      PROVE  Redropped'
  <2>1. faults' > 0
    BY <1>0, <1>3
  <2> QED
    BY <1>3, <2>1 DEF Redropped, Migrated, Dropped
<1>4. ASSUME NEW j \in Jobs, OpenFile(j) \/ Take(j) \/ Decode(j) \/ Exit(j)
      PROVE  Redropped'
  <2>1. UNCHANGED <<behind, faults, db>>
    BY <1>4 DEF OpenFile, Take, Decode, Exit, history
  <2>2. \A k \in Jobs : (late(at[k]) => late(at'[k])) /\ (far(at'[k]) => at'[k] = at[k])
    BY <1>4 DEF OpenFile, Take, Decode, Exit, Enter, Entry, Gone, Go, Idle, TypeOK,
                JobType, DbType
  <2> QED
    BY <1>2, <2>1, <2>2
<1>5. ASSUME NEW j \in Jobs, LadderRefused(j)
      PROVE  Redropped'
  BY <1>2, <1>5, BackfillGoes DEF LadderRefused, NoDatabase, Go, history, TypeOK, JobType
<1>6. ASSUME NEW j \in Jobs, Flush(j)
      PROVE  Redropped'
  <2>1. db'.wide = db.wide /\ db'.narrow = db.narrow
    BY <1>6, InsertRows DEF Flush
  <2> QED
    BY <1>2, <1>6, <2>1 DEF Flush, Go, history, TypeOK, JobType
<1>7. ASSUME NEW j \in Jobs,
             \/ OpenFileUnread(j) \/ StampFails(j) \/ OpenFails(j) \/ AppendFails(j)
             \/ Interrupt(j) \/ FlushFails(j) \/ Crash(j)
      PROVE  Redropped'
  <2>1. UNCHANGED <<behind, db>> /\ faults' = faults + 1
    BY <1>7 DEF OpenFileUnread, StampFails, OpenFails, NoDatabase, AppendFails, Interrupt,
                FlushFails, Crash, Fault, history
  <2>2. \A k \in Jobs : far(at'[k]) => at'[k] = at[k]
    BY <1>7 DEF OpenFileUnread, StampFails, OpenFails, NoDatabase, AppendFails, Interrupt,
                FlushFails, Crash, Enter, Entry, After, Gone, Go, Idle, Stamps, TypeOK,
                JobType
  <2> QED
    BY <1>3, <2>1, <2>2
<1>8. ASSUME NEW j \in Jobs, TakeUnreadable(j)
      PROVE  Redropped'
  BY <1>3, <1>8 DEF TakeUnreadable, Fault, job, history
<1>9. CASE UNCHANGED <<db, behind, at, faults>>
  BY <1>2, <1>9
<1> QED
  BY <1>1, <1>4, <1>5, <1>6, <1>7, <1>8, <1>9
     DEF Next, Work, Trouble, vars, job, history, StartRun, Grow
-----------------------------------------------------------------------------

\* A flush takes no row away and leaves the indexes alone.
LEMMA FlushAdds ==
    ASSUME TypeOK, NEW j \in Jobs, Flush(j)
    PROVE  db'.wide = db.wide /\ db.rows \subseteq db'.rows
<1>1. CASE ~handle[j]
  BY <1>1 DEF Flush
<1>2. CASE handle[j]
  BY <1>2, InsertRows DEF Flush
<1> QED
  BY <1>1, <1>2

\* Behind the index with origins, a packet stays stored under its origin: the
\* one statement that would drop it, the dedup, has no business there.
LEMMA KeptStep ==
    ASSUME TypeOK, [Next]_vars, ~behind', db.wide,
           NEW p, NEW o, o # Null, Kept(db.rows, p, o)
    PROVE  ~behind /\ db'.wide /\ Kept(db'.rows, p, o)
<1> USE DEF Kept
<1>1. ASSUME NEW j \in Jobs, LadderStep(j)
      PROVE  ~behind /\ db'.wide /\ Kept(db'.rows, p, o)
  <2>1. at[j] # "dedup" /\ ~behind
    BY <1>1 DEF LadderStep, Behind
  <2>2. db'.wide /\ db'.rows \in {WithOrigin(db.rows), db.rows}
    BY <1>1, <2>1, MigrateRows DEF LadderStep
  <2>3. CASE db'.rows = WithOrigin(db.rows)
    <3>1. PICK s \in db.rows : s.payload = p /\ s.origin = o
      OBVIOUS
    <3>2. PICK r \in WithOrigin(db.rows) : r.payload = s.payload /\ r.origin = s.origin
      BY <3>1, WithOriginRow
    <3> QED
      BY <2>1, <2>2, <2>3, <3>1, <3>2
  <2> QED
    BY <2>1, <2>2, <2>3
<1>2. ASSUME NEW j \in Jobs, Flush(j)
      PROVE  ~behind /\ db'.wide /\ Kept(db'.rows, p, o)
  <2>1. db'.wide = db.wide /\ db.rows \subseteq db'.rows
    BY <1>2, FlushAdds
  <2> QED
    BY <1>2, <2>1 DEF Flush, history
<1>3. CASE UNCHANGED <<db, behind>>
  BY <1>3
<1> QED
  BY <1>1, <1>2, <1>3
     DEF Next, Work, Trouble, vars, StartRun, Grow, Take, TakeUnreadable, OpenFile,
         OpenFileUnread, StampFails, LadderRefused, OpenFails, NoDatabase, Decode,
         AppendFails, Interrupt, FlushFails, Exit, Crash, history

\* A flush leaves every packet of the batch stored: inserted, or ignored for a
\* row that is there under the same origin.
LEMMA FlushStores ==
    ASSUME TypeOK, Migrated, ~behind, NEW j \in Jobs, Flush(j), handle[j]
    PROVE  \A p \in batch[j] : Kept(db'.rows, p, Origin[file[j]])
<1> DEFINE o == Origin[file[j]]
<1>1. db.wide /\ ~db.narrow
  BY DEF Migrated, Widened, Dropped
<1>2. db'.rows = db.rows \cup {Insert(db, p, o) : p \in {q \in batch[j] : ~Ignored(db, q, o)}}
  BY InsertRows DEF Flush
<1> SUFFICES ASSUME NEW p \in batch[j]
             PROVE  Kept(db'.rows, p, o)
  OBVIOUS
<1>3. CASE Ignored(db, p, o)
  BY <1>1, <1>2, <1>3 DEF Ignored, Kept
<1>4. CASE ~Ignored(db, p, o)
  <2>1. Insert(db, p, o) \in db'.rows
    BY <1>2, <1>4
  <2>2. Insert(db, p, o).payload = p /\ Insert(db, p, o).origin = o
    BY RowFields DEF Insert
  <2> QED
    BY <2>1, <2>2 DEF Kept
<1> QED
  BY <1>3, <1>4

\* What a worker decoded reaches the database before its exit code says so.
LEMMA DeliveredStep ==
    ASSUME TypeOK, Migrated, [Next]_vars, \A j \in Jobs : Delivered(j)
    PROVE  \A j \in Jobs : Delivered(j)'
<1> SUFFICES ASSUME NEW k \in Jobs
             PROVE  Delivered(k)'
  OBVIOUS
<1> USE DEF Delivered
<1>1. ASSUME UNCHANGED <<at[k], file[k], read[k], handle[k], batch[k], failed[k]>>
      PROVE  Delivered(k)'
  <2>1. ASSUME handle[k], at[k] = "exit", ~failed[k], ~behind', NEW p \in read[k]
        PROVE  Kept(db'.rows, p, Origin[file[k]])
    <3>1. db.wide
      BY <2>1 DEF Migrated, Widened
    <3>2. ~behind
      BY <2>1 DEF Next, Work, Trouble, vars, StartRun, Grow, Take, TakeUnreadable,
         OpenFile, OpenFileUnread, LadderStep, StampFails, LadderRefused, OpenFails,
         NoDatabase, Decode, AppendFails, Interrupt, Flush, FlushFails, Exit, Crash,
         history
    <3>3. Origin[file[k]] # Null
      BY <2>1, FileAssumption DEF TypeOK, JobFiles, Idle
    <3>4. Kept(db.rows, p, Origin[file[k]])
      BY <2>1, <3>2
    <3> QED
      BY <2>1, <3>1, <3>3, <3>4, KeptStep
  <2> QED
    BY <1>1, <2>1
<1>2. ASSUME at'[k] \notin {"flush", "exit"}
      PROVE  Delivered(k)'
  BY <1>2
<1>3. ASSUME Take(k) \/ OpenFile(k) \/ LadderStep(k) \/ LadderRefused(k)
             \/ OpenFileUnread(k) \/ OpenFails(k) \/ StampFails(k) \/ Exit(k) \/ Crash(k)
      PROVE  Delivered(k)'
  <2>1. at'[k] \notin {"flush", "exit"}
    BY <1>3 DEF Take, OpenFile, OpenFileUnread, Enter, Entry, LadderStep,
                LadderRefused, OpenFails, NoDatabase, StampFails, Exit, Crash, Gone,
                Go, Idle, After, Steps, Stamps, TypeOK, JobType
  <2> QED
    BY <1>2, <2>1
<1>4. ASSUME Decode(k) \/ AppendFails(k) \/ Interrupt(k)
      PROVE  Delivered(k)'
  BY <1>4 DEF Decode, AppendFails, Interrupt, Go, TypeOK, JobType
<1>5. ASSUME Flush(k)
      PROVE  Delivered(k)'
  <2>1. ASSUME handle[k], ~failed[k], ~behind
        PROVE  \A p \in read[k] : Kept(db'.rows, p, Origin[file[k]])
    BY <1>5, <2>1, FlushStores DEF Flush
  <2>2. /\ UNCHANGED <<read, handle, failed, file, behind>>
        /\ at'[k] = "exit"
    BY <1>5 DEF Flush, Go, history, TypeOK, JobType
  <2> QED
    BY <2>1, <2>2
<1>6. ASSUME FlushFails(k)
      PROVE  Delivered(k)'
  BY <1>6 DEF FlushFails, Go, TypeOK, JobType
<1>7. ASSUME NEW j \in Jobs \ {k}, Work(j) \/ Trouble(j)
      PROVE  Delivered(k)'
  <2>1. UNCHANGED <<at[k], file[k], read[k], handle[k], batch[k], failed[k]>>
    BY <1>7 DEF Work, Trouble, Take, TakeUnreadable, OpenFile, OpenFileUnread, Enter,
         LadderStep, StampFails, LadderRefused, OpenFails, NoDatabase, Decode,
         AppendFails, Interrupt, Flush, FlushFails, Exit, Crash, Gone, Go, job, TypeOK,
         JobType
  <2> QED
    BY <1>1, <2>1
<1>8. CASE UNCHANGED job
  BY <1>1, <1>8 DEF job
<1> QED
  BY <1>3, <1>4, <1>5, <1>6, <1>7, <1>8
     DEF Next, Work, Trouble, vars, StartRun, Grow, TakeUnreadable

\* A marker appears when the exit code is 0, and it stays true.
LEMMA MarkedStep ==
    ASSUME IInv, [Next]_vars
    PROVE  \A f \in Files : Marked(f)'
<1> SUFFICES ASSUME NEW f \in Files, marker'[f] = "current",
                    f \notin blind' \cup part', ~behind'
             PROVE  db'.wide /\ Stored(f)'
  BY DEF Marked
<1> USE DEF IInv
<1>0. Origin[f] # Null /\ Origin' = Origin /\ Whole' = Whole /\ FirstPart' = FirstPart
  BY FileAssumption
<1>1. ASSUME marker[f] = "current", f \notin blind \cup part, complete'[f] = complete[f]
      PROVE  db'.wide /\ Stored(f)'
  <2>1. ~behind
    BY DEF Next, Work, Trouble, vars, StartRun, Grow, Take, TakeUnreadable,
       OpenFile, OpenFileUnread, LadderStep, StampFails, LadderRefused, OpenFails,
       NoDatabase, Decode, AppendFails, Interrupt, Flush, FlushFails, Exit, Crash,
       history
  <2>2. db.wide /\ \A p \in Heard(f) : Kept(db.rows, p, Origin[f])
    BY <1>1, <2>1 DEF Carried, Marked, Stored
  <2>3. db'.wide
    <3>1. CASE \E j \in Jobs : LadderStep(j)
      BY <2>2, <3>1, MigrateRows DEF LadderStep
    <3>2. CASE \E j \in Jobs : Flush(j)
      BY <2>2, <3>2, InsertRows DEF Flush
    <3>3. CASE UNCHANGED db
      BY <2>2, <3>3
    <3> QED
      BY <3>1, <3>2, <3>3
         DEF Next, Work, Trouble, vars, StartRun, Grow, Take, TakeUnreadable, OpenFile,
             OpenFileUnread, StampFails, LadderRefused, OpenFails, NoDatabase, Decode,
             AppendFails, Interrupt, FlushFails, Exit, Crash
  <2>4. Heard(f)' = Heard(f)
    BY <1>0, <1>1 DEF Heard
  <2>5. ASSUME NEW p \in Heard(f)
        PROVE  Kept(db'.rows, p, Origin[f])
    BY <1>0, <2>2, KeptStep
  <2> QED
    BY <1>0, <2>3, <2>4, <2>5 DEF Stored
<1>2. ASSUME NEW j \in Jobs, Exit(j), file[j] = f, ~failed[j]
      PROVE  db'.wide /\ Stored(f)'
  <2>1. handle[j] /\ read[j] = Heard(f) /\ ~behind /\ UNCHANGED <<db, complete>>
    BY <1>2 DEF Exit, With
  <2>2. db.wide
    BY <2>1 DEF Migrated, Widened
  <2>3. \A p \in Heard(f) : Kept(db.rows, p, Origin[f])
    BY <1>2, <2>1 DEF Carried, Delivered, Exit
  <2> QED
    BY <1>0, <2>1, <2>2, <2>3 DEF Stored, Heard
<1>3. ASSUME NEW j \in Jobs, Exit(j), file[j] # f \/ failed[j]
      PROVE  db'.wide /\ Stored(f)'
  <2>1. marker[f] = "current" /\ f \notin blind \cup part /\ complete'[f] = complete[f]
    BY <1>3 DEF Exit, With, TypeOK, FileType
  <2> QED
    BY <1>1, <2>1
<1>4. ASSUME NEW g \in Files, Grow(g)
      PROVE  db'.wide /\ Stored(f)'
  <2>1. marker[f] = "current" /\ f # g
    BY <1>4 DEF Grow, TypeOK, FileType
  <2>2. f \notin blind \cup part /\ complete'[f] = complete[f]
    BY <1>4, <2>1 DEF Grow, history, TypeOK, FileType
  <2> QED
    BY <1>1, <2>1, <2>2
<1>5. CASE UNCHANGED <<marker, blind, part, complete>>
  BY <1>1, <1>5
<1> QED
  BY <1>2, <1>3, <1>4, <1>5
     DEF Next, Work, Trouble, vars, history, StartRun, Take, TakeUnreadable, OpenFile,
         OpenFileUnread, LadderStep, StampFails, LadderRefused, OpenFails, NoDatabase,
         Decode, AppendFails, Interrupt, Flush, FlushFails, Crash

-----------------------------------------------------------------------------

\* The inductive invariant: the type invariant, the oldest row of every payload
\* kept, the migrations an opener has behind it, and the packets under way.
THEOREM Inductive == Spec => []IInv
<1>1. Init => IInv
  <2> SUFFICES ASSUME Init
               PROVE  IInv
    OBVIOUS
  <2>1. /\ db = [rows |-> OldRows, version |-> OldVersion,
                 narrow |-> OldVersion = 3, wide |-> OldVersion = 4]
        /\ db.rows = OldRows /\ db.version = OldVersion
        /\ db.narrow = (OldVersion = 3) /\ db.wide = (OldVersion = 4)
    BY DEF Init
  <2>2. DbType
    BY <2>1, OldAssumption DEF DbType
  <2>3. JobType /\ JobFiles /\ FileType
    <3>1. JobType /\ JobFiles
      BY DEF Init, JobType, JobFiles, Places, Idle
    <3>2. /\ faults \in 0 .. MaxFaults /\ list \in [Invs -> SUBSET Files]
          /\ blind \in SUBSET Files /\ part \in SUBSET Files
      BY PoolAssumption DEF Init
    <3>3. /\ marker \in [Files -> {"none", "current", "old"}]
          /\ complete \in [Files -> BOOLEAN] /\ behind \in BOOLEAN
      BY DEF Init
    <3> QED
      BY <3>1, <3>2, <3>3 DEF FileType
  <2>4. Ranked
    BY <2>1, OldAssumption DEF Ranked
  <2>5. Migrated
    <3>1. \A j \in Jobs : at[j] = Idle /\ ~handle[j]
      BY DEF Init
    <3>2. Origins
      BY <2>1, <3>1, OldAssumption DEF Origins, Idle
    <3>3. Widened
      BY <2>1, <3>1 DEF Widened, Idle
    <3>4. db.wide => ~db.narrow
      <4>1. OldVersion = 4 => ~(OldVersion = 3)
        OBVIOUS
      <4> QED
        BY <2>1, <4>1, Zenon
    <3>5. Dropped
      BY <3>1, <3>4 DEF Dropped, Idle
    <3> QED
      BY <3>2, <3>3, <3>5 DEF Migrated
  <2>7. Redropped
    <3>1. \A j \in Jobs : at[j] = Idle
      BY DEF Init
    <3>2. OldVersion = 4 => ~(OldVersion = 3)
      OBVIOUS
    <3>3. ~(db.wide /\ db.narrow)
      BY <2>1, <3>2, Zenon
    <3> QED
      BY <3>1, <3>3 DEF Redropped, Idle
  <2>6. Carried
    BY DEF Init, Carried, Delivered, Marked, Idle
  <2> QED
    BY <2>2, <2>3, <2>4, <2>5, <2>6, <2>7 DEF IInv, TypeOK
<1>2. IInv /\ [Next]_vars => IInv'
  <2> SUFFICES ASSUME IInv, [Next]_vars
               PROVE  IInv'
    OBVIOUS
  <2>1. TypeOK'
    BY DbTypeStep, JobTypeStep, FileTypeStep DEF IInv, TypeOK
  <2>2. Ranked'
    BY RankedStep DEF IInv
  <2>3. Migrated'
    BY MigratedStep DEF IInv
  <2>5. Redropped'
    BY RedroppedStep DEF IInv
  <2>4. Carried'
    <3>1. \A j \in Jobs : Delivered(j)'
      BY DeliveredStep DEF IInv, Carried
    <3>2. \A f \in Files : Marked(f)'
      BY MarkedStep
    <3> QED
      BY <3>1, <3>2 DEF Carried
  <2> QED
    BY <2>1, <2>2, <2>3, <2>4, <2>5 DEF IInv
<1> QED
  BY <1>1, <1>2, PTL DEF Spec

\* Type correctness of the decode runs and of the database they share.
THEOREM TypeSafe == Spec => []TypeOK
<1>1. IInv => TypeOK
  BY DEF IInv
<1> QED
  BY <1>1, Inductive, PTL

\* A file that decode_passes.sh will not look at again has every packet of its
\* audio in the database, but for the three ways the history variables record.
THEOREM MarkedSafe == Spec => []MarkedMeansStored
<1>1. IInv => MarkedMeansStored
  BY DEF IInv, Carried, Marked, MarkedMeansStored
<1> QED
  BY <1>1, Inductive, PTL

\* packet_db_open hands out no database that is not migrated, and the V3 index
\* is back in it only on its way out, or once an opener has lagged behind and
\* something has failed.
THEOREM OpenSafe == Spec => []OpenMeansMigrated
<1>1. IInv => OpenMeansMigrated
  BY DEF IInv, Migrated, Origins, Widened, Redropped, OpenMeansMigrated
<1> QED
  BY <1>1, Inductive, PTL

\* No statement of any process takes the last row of a payload away.
THEOREM VanishSafe == Spec => NoPayloadVanishes
<1>1. IInv /\ [Next]_vars =>
        [\A r \in db.rows : \E s \in db'.rows : SamePayload(r, s)]_vars
  BY RankedStep DEF IInv
<1> QED
  BY <1>1, Inductive, PTL DEF Spec, NoPayloadVanishes
=============================================================================
