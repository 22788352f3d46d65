---------------------------- MODULE CacheBackend ----------------------------
(***************************************************************************)
(* The response cache on disk (llm/cache/sqlite_backend.py) and the purge  *)
(* command (cli/cache.py), as several processes use one cache.db.          *)
(*                                                                         *)
(* Inside a process one lock covers every operation from its first         *)
(* statement to its commit, so a process has one operation in flight       *)
(* whatever its threads do. Between processes SQLite serialises the        *)
(* statements only: opening the file takes six of them, each committed on  *)
(* its own (executescript), and a lookup takes two, before it answers. In   *)
(* between another process may run any of its own, and a process may be    *)
(* killed.                                                                 *)
(*                                                                         *)
(* Time is counted in ticks, TicksPerDay of them to a day.                 *)
(***************************************************************************)
EXTENDS Integers, FiniteSets

CONSTANTS
  Procs,          \* processes that use the cache
  Keys,           \* cache keys
  Models,         \* model names
  ModelOf,        \* ModelOf[k]: the model that is a part of key k
  None,
  TicksPerDay,
  MaxTime,        \* bound: the last tick
  MaxPuts,        \* bound: entries written
  MaxHits         \* bound: hits given back or lost, per key

ASSUME CacheAssumption ==
  /\ ModelOf \in [Keys -> Models]
  /\ None \notin Models \cup Int
  /\ TicksPerDay \in Nat \ {0}
  /\ MaxTime \in Nat
  /\ MaxPuts \in Nat
  /\ MaxHits \in Nat

VARIABLES
  file,       \* whether cache.db exists
  schema,     \* the table and indexes the file holds
  version,    \* PRAGMA user_version
  rows,       \* rows[k]: the row of key k in cache_entries, or NoRow
  pc,         \* pc[p]: the statement process p executes next
  job,        \* job[p]: the command p was started for, None when closed
  wanted,     \* wanted[p]: the key p looks up, or None
  found,      \* found[p]: the row its SELECT returned, or NoRow
  now,        \* the clock
  puts,       \* entries written so far; the last one's value
  served,     \* served[k]: hits given back for k (history)
  lost,       \* lost[k]: lookups of k stopped after the commit, before the answer (history)
  cutShort    \* a migration stopped after CREATE TABLE (history)

vars == <<file, schema, version, rows, pc, job, wanted, found, now, puts,
          served, lost, cutShort>>
disk == <<file, schema, version, rows>>

Objects   == {"cache_entries", "idx_prompt", "idx_model", "idx_created"}
Jobs      == {"run", "stats", "purge"}
Migrating == {"idx_prompt", "idx_model", "idx_created", "user_version"}
Locations == {"closed", "read_version", "cache_entries", "refused", "idle", "touch", "answer"}
             \cup Migrating

CacheRow == [value : Nat, created : Nat, hits : Nat]
NoRow    == [value |-> 0, created |-> 0, hits |-> 0]

TypeOK ==
  /\ file \in BOOLEAN
  /\ schema \subseteq Objects
  /\ version \in {0, 1}
  /\ rows \in [Keys -> CacheRow]
  /\ pc \in [Procs -> Locations]
  /\ job \in [Procs -> Jobs \cup {None}]
  /\ wanted \in [Procs -> Keys \cup {None}]
  /\ found \in [Procs -> CacheRow]
  /\ now \in Nat
  /\ puts \in Nat
  /\ served \in [Keys -> Nat]
  /\ lost \in [Keys -> Nat]
  /\ cutShort \in BOOLEAN

Init ==
  /\ file = FALSE
  /\ schema = {}
  /\ version = 0
  /\ rows = [k \in Keys |-> NoRow]
  /\ pc = [p \in Procs |-> "closed"]
  /\ job = [p \in Procs |-> None]
  /\ wanted = [p \in Procs |-> None]
  /\ found = [p \in Procs |-> NoRow]
  /\ now = TicksPerDay - 1   \* the last tick of a day
  /\ puts = 0
  /\ served = [k \in Keys |-> 0]
  /\ lost = [k \in Keys |-> 0]
  /\ cutShort = FALSE

-----------------------------------------------------------------------------
(***************************************************************************)
(* Opening: connect, WAL, PRAGMA user_version and, on a file that is not   *)
(* migrated yet, the script.                                               *)
(***************************************************************************)
Move(p, from, to) ==
  /\ pc[p] = from
  /\ pc' = [pc EXCEPT ![p] = to]

Close(p) ==
  /\ pc' = [pc EXCEPT ![p] = "closed"]
  /\ job' = [job EXCEPT ![p] = None]

\* The cache command looks for the file first and does nothing without it; a
\* run creates it.
Connect(p) ==
  /\ Move(p, "closed", "read_version")
  /\ \E j \in Jobs :
       /\ j # "run" => file
       /\ job' = [job EXCEPT ![p] = j]
  /\ file' = TRUE
  /\ UNCHANGED <<schema, version, rows, wanted, found, now, puts, served, lost, cutShort>>

NeedsMigration(v) == v < 1

ReadVersion(p) ==
  /\ Move(p, "read_version",
          IF NeedsMigration(version) THEN "cache_entries" ELSE "idle")
  /\ UNCHANGED <<disk, job, wanted, found, now, puts, served, lost, cutShort>>

\* Variant: CREATE TABLE IF NOT EXISTS, so that a second migration goes on.
CreateTableIfNotExists(p) ==
  /\ Move(p, "cache_entries", "idx_prompt")
  /\ schema' = schema \cup {"cache_entries"}
  /\ UNCHANGED <<file, version, rows, job, wanted, found, now, puts, served, lost, cutShort>>

\* The table must not exist. If it does, the statement raises and the
\* constructor with it (TableExists).
CreateTable(p) ==
  /\ "cache_entries" \notin schema
  /\ Move(p, "cache_entries", "idx_prompt")
  /\ schema' = schema \cup {"cache_entries"}
  /\ UNCHANGED <<file, version, rows, job, wanted, found, now, puts, served, lost, cutShort>>

TableExists(p) ==
  /\ "cache_entries" \in schema
  /\ Move(p, "cache_entries", "refused")
  /\ UNCHANGED <<disk, job, wanted, found, now, puts, served, lost, cutShort>>

\* Variant: the script stamps the version before the last index.
NextStatementStampsEarly(i) ==
  IF i = "idx_prompt" THEN "user_version" ELSE "idx_created"

\* Variant: the script ends without a version.
NextStatementForgetsStamp(i) ==
  CASE i = "idx_prompt"  -> "idx_model"
    [] i = "idx_model"   -> "idx_created"
    [] i = "idx_created" -> "idle"

NextStatement(i) ==
  CASE i = "idx_prompt"  -> "idx_model"
    [] i = "idx_model"   -> "idx_created"
    [] i = "idx_created" -> "user_version"

CreateIndex(p, i) ==
  /\ Move(p, i, NextStatement(i))
  /\ schema' = schema \cup {i}
  /\ UNCHANGED <<file, version, rows, job, wanted, found, now, puts, served, lost, cutShort>>

SetVersion(p) ==
  /\ Move(p, "user_version", "idle")
  /\ version' = 1
  /\ UNCHANGED <<file, schema, rows, job, wanted, found, now, puts, served, lost, cutShort>>

-----------------------------------------------------------------------------
(***************************************************************************)
(* get: SELECT, then UPDATE of the hit count and commit, then the answer.  *)
(***************************************************************************)
Select(p, k) ==
  /\ pc[p] = "idle" /\ job[p] = "run"
  /\ rows[k] # NoRow
  /\ served[k] + lost[k] < MaxHits
  /\ pc' = [pc EXCEPT ![p] = "touch"]
  /\ wanted' = [wanted EXCEPT ![p] = k]
  /\ found' = [found EXCEPT ![p] = rows[k]]
  /\ UNCHANGED <<disk, job, now, puts, served, lost, cutShort>>

\* A miss leaves everything as it is; the caller then pays for a call and puts.

\* Variant: the whole row is written back, not the count alone.
TouchWritesBack(p) ==
  /\ Move(p, "touch", "answer")
  /\ rows' = [rows EXCEPT ![wanted[p]] = [found[p] EXCEPT !.hits = @ + 1]]
  /\ UNCHANGED <<file, schema, version, job, wanted, found, now, puts, served, lost, cutShort>>

\* The UPDATE counts in whatever row the key has by now, or in none.
Touch(p) ==
  LET k == wanted[p] IN
  /\ Move(p, "touch", "answer")
  /\ rows' = IF rows[k] = NoRow THEN rows
             ELSE [rows EXCEPT ![k].hits = @ + 1]
  /\ UNCHANGED <<file, schema, version, job, wanted, found, now, puts, served, lost, cutShort>>

\* The answer is the row that was selected.
Answer(p) ==
  /\ Move(p, "answer", "idle")
  /\ served' = [served EXCEPT ![wanted[p]] = @ + 1]
  /\ wanted' = [wanted EXCEPT ![p] = None]
  /\ found' = [found EXCEPT ![p] = NoRow]
  /\ UNCHANGED <<disk, job, now, puts, lost, cutShort>>

\* The UPDATE raises (locked for too long, disk full): no answer, no count.
TouchFails(p) ==
  /\ Move(p, "touch", "idle")
  /\ wanted' = [wanted EXCEPT ![p] = None]
  /\ found' = [found EXCEPT ![p] = NoRow]
  /\ UNCHANGED <<disk, job, now, puts, served, lost, cutShort>>

\* Variant: the lookup that missed is counted as a hit.
FreshRowCountsMiss(k) == [value |-> puts + 1, created |-> now, hits |-> 1]

\* The row of a new entry. CacheEntry counts from 0, created_at is the clock.
FreshRow(k) == [value |-> puts + 1, created |-> now, hits |-> 0]

Put(p, k) ==
  /\ pc[p] = "idle" /\ job[p] = "run"
  /\ puts < MaxPuts
  /\ rows' = [rows EXCEPT ![k] = FreshRow(k)]
  /\ puts' = puts + 1
  /\ UNCHANGED <<file, schema, version, pc, job, wanted, found, now, served, lost, cutShort>>

-----------------------------------------------------------------------------
(***************************************************************************)
(* The cache command. A criterion that is not given is None; --older-than  *)
(* is any integer.                                                         *)
(***************************************************************************)
Stats(p) ==
  /\ job[p] = "stats" /\ pc[p] = "idle"
  /\ Close(p)
  /\ UNCHANGED <<disk, wanted, found, now, puts, served, lost, cutShort>>

Ages == {-1, 0, 1, None}

\* With --all the other criteria are not looked at.
Commands == [all : {FALSE}, olderThan : Ages, model : Models \cup {None}]
            \cup [all : {TRUE}, olderThan : {None}, model : {None}]

\* any([...]) takes --older-than 0 for a criterion that was not given.
HasCriteria(c) == c.all \/ c.olderThan \notin {0, None} \/ c.model # None

\* Variant: a moment of the same day is taken for an older one.
TextBeforeSameDay(t, limit) ==
  (t + TicksPerDay * 2) \div TicksPerDay <= (limit + TicksPerDay * 2) \div TicksPerDay

\* created_at holds a "T" between day and time, datetime('now', ...) a blank.
\* The comparison is one of text: it tells days apart, and of two moments of
\* one day takes neither for older.
TextBefore(t, limit) ==
  (t + TicksPerDay * 2) \div TicksPerDay < (limit + TicksPerDay * 2) \div TicksPerDay

\* A negative number of days makes the modifier "--1 days": datetime is then
\* NULL and no row compares as older.
OlderThan(row, days) ==
  days >= 0 /\ TextBefore(row.created, now - days * TicksPerDay)

\* The WHERE clause; --all filters by nothing. (A filter by prompt version works
\* as the one by model does.)
Matches(k, c) ==
  \/ c.all
  \/ /\ c.olderThan = None \/ OlderThan(rows[k], c.olderThan)
     /\ c.model = None \/ ModelOf[k] = c.model

Purge(p, c) ==
  /\ job[p] = "purge" /\ pc[p] = "idle"
  /\ HasCriteria(c)
  /\ Close(p)
  /\ rows' = [k \in Keys |-> IF Matches(k, c) THEN NoRow ELSE rows[k]]
  /\ UNCHANGED <<file, schema, version, wanted, found, now, puts, served, lost, cutShort>>

\* Without --force, or without a criterion, the command has opened (and
\* migrated) the file and goes.
DryRun(p) ==
  /\ job[p] = "purge" /\ pc[p] = "idle"
  /\ Close(p)
  /\ UNCHANGED <<disk, wanted, found, now, puts, served, lost, cutShort>>

-----------------------------------------------------------------------------
\* A process ends: it is done, it is killed, or a statement of the constructor
\* raises. A statement that was not committed leaves no trace.
End(p) ==
  /\ pc[p] # "closed"
  /\ Close(p)
  /\ wanted' = [wanted EXCEPT ![p] = None]
  /\ found' = [found EXCEPT ![p] = NoRow]
  /\ cutShort' = (cutShort \/ pc[p] \in Migrating)
  /\ lost' = IF pc[p] = "answer" THEN [lost EXCEPT ![wanted[p]] = @ + 1] ELSE lost
  /\ UNCHANGED <<disk, now, puts, served>>

Tick ==
  /\ now < MaxTime
  /\ now' = now + 1
  /\ UNCHANGED <<disk, pc, job, wanted, found, puts, served, lost, cutShort>>

Open(p) ==
  \/ ReadVersion(p)
  \/ CreateTable(p)
  \/ TableExists(p)
  \/ \E i \in Migrating \ {"user_version"} : CreateIndex(p, i)
  \/ SetVersion(p)

Use(p) ==
  \/ \E k \in Keys : Select(p, k) \/ Put(p, k)
  \/ Touch(p)
  \/ TouchFails(p)
  \/ Answer(p)
  \/ Stats(p)
  \/ DryRun(p)
  \/ \E c \in Commands : Purge(p, c)

Next ==
  \/ \E p \in Procs : Connect(p) \/ Open(p) \/ Use(p) \/ End(p)
  \/ Tick

\* The interpreter runs the statements of the constructor one after the other.
Fairness == \A p \in Procs : WF_vars(Open(p))

Spec == Init /\ [][Next]_vars /\ Fairness

-----------------------------------------------------------------------------
(***************************************************************************)
(* Properties.                                                             *)
(***************************************************************************)

\* Half of a schema: the table is there and the version does not say so.
HalfMigrated == schema # {} /\ version = 0

\* A file that calls itself migrated has the table and all three indexes, and
\* whoever is past the constructor works on such a file.
SchemaComplete ==
  /\ version = 1 => schema = Objects
  /\ \A p \in Procs : pc[p] \in {"idle", "touch", "answer"} => version = 1

\* Of all processes that open a new file at once, one runs the script past its
\* first statement.
OneMigrates == \A p, q \in Procs : pc[p] \in Migrating /\ pc[q] \in Migrating => p = q

\* Losing that race harms nobody else: a file is left half migrated only by a
\* process that stopped inside the script. (Such a file stays so for ever.)
HalfSchemaNeedsCrash ==
  HalfMigrated => cutShort \/ \E p \in Procs : pc[p] \in Migrating

\* The lookups of k that have been counted and not been answered yet.
Answering(k) == {p \in Procs : pc[p] = "answer" /\ wanted[p] = k}

\* The count in a row stands for lookups. It may be ahead of the hits that were
\* given back (get commits it first, sqlite_backend.py:68-69), but by no more than
\* the lookups that are about to answer or were stopped just there, whatever
\* other processes do to the row between the statements.
HitsNeverInvented ==
  \A k \in Keys : rows[k].hits <= served[k] + lost[k] + Cardinality(Answering(k))

\* Rows leave only by a purge that was given a criterion, and never a row of
\* another model or one younger than asked for.
PurgeIsAimed ==
  [][LET gone == {k \in Keys : rows[k] # NoRow /\ rows'[k] = NoRow} IN
     gone # {} =>
       /\ \E p \in Procs, c \in Commands : Purge(p, c)
       /\ \A p \in Procs, c \in Commands : Purge(p, c) =>
          c.all \/ \A k \in gone :
            /\ c.model \in {None, ModelOf[k]}
            /\ c.olderThan # None =>
                 rows[k].created < now - c.olderThan * TicksPerDay]_vars

\* Whoever opens a file that is not migrated sees it migrated in the end, by
\* itself or by the one it lost the race to, unless it ends before it has tried
\* or some process has ever been stopped inside the script.
RaceEndsMigrated ==
  \A p \in Procs :
    pc[p] = "cache_entries" ~> (version = 1 \/ cutShort \/ pc[p] = "closed")

\* One dictionary under all of it: opening, counting, ticking and dying
\* processes never change a value, a lookup never sees one that was not under its
\* key at that moment, and what was replaced or purged never comes back.
Map == INSTANCE CacheMap WITH
  None   <- 0,
  Values <- 1..MaxPuts,
  store  <- [k \in Keys |-> rows[k].value],
  seen   <- [p \in Procs |-> found[p].value],
  used   <- 1..puts

MapSpec == Map!Spec

=============================================================================
