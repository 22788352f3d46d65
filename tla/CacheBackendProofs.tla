------------------------- MODULE CacheBackendProofs -------------------------
(***************************************************************************)
(* Proofs about CacheBackend, for any number of processes, keys and models *)
(* and for all bounds: the schema of a shared cache.db is built by one     *)
(* process and is complete once the file says so, only a stopped migration *)
(* leaves half of it, hits are not invented, purges take what they were    *)
(* aimed at, and the file implements one dictionary.                       *)
(***************************************************************************)
EXTENDS CacheBackend, FiniteSetTheorems, TLAPS

\* What the script has built when the process comes to statement s.
Built(s) ==
  CASE s = "idx_prompt"   -> {"cache_entries"}
    [] s = "idx_model"    -> {"cache_entries", "idx_prompt"}
    [] s = "idx_created"  -> {"cache_entries", "idx_prompt", "idx_model"}
    [] s = "user_version" -> Objects

\* The script and the file stay in step.
ScriptInStep ==
  /\ \A p \in Procs : pc[p] \in Migrating => schema = Built(pc[p]) /\ version = 0
  /\ schema # {} => "cache_entries" \in schema

\* A row that is there has a value, and a lookup under way has a key.
RowsHaveValues ==
  /\ puts \in 0..MaxPuts
  /\ \A k \in Keys : /\ rows[k].value \in 0..MaxPuts
                     /\ rows[k].value = 0 => rows[k] = NoRow
  /\ \A p \in Procs : pc[p] \in {"touch", "answer"} => wanted[p] \in Keys

\* The lookups about to answer can be counted, which the bound on hits needs.
HitsInv ==
  /\ \A k \in Keys : IsFiniteSet(Answering(k))
  /\ HitsNeverInvented

IInv ==
  /\ TypeOK
  /\ ScriptInStep
  /\ SchemaComplete
  /\ OneMigrates
  /\ HalfSchemaNeedsCrash
  /\ RowsHaveValues
  /\ HitsInv

-----------------------------------------------------------------------------
LEMMA RowTypes ==
  /\ NoRow \in CacheRow
  /\ \A r \in CacheRow : r.value \in Nat /\ r.created \in Nat /\ r.hits \in Nat
  BY DEF NoRow, CacheRow

LEMMA InitInv == Init => IInv
  <1> SUFFICES ASSUME Init PROVE IInv
    OBVIOUS
  <1>1. TypeOK
    <2>1. now \in Nat
      BY CacheAssumption DEF CacheAssumption, Init
    <2> QED BY <2>1, RowTypes DEF Init, TypeOK, Locations
  <1>2. \A p \in Procs : pc[p] = "closed"
    BY DEF Init
  <1>3. ScriptInStep /\ SchemaComplete /\ OneMigrates /\ HalfSchemaNeedsCrash
    BY <1>2 DEF Init, ScriptInStep, SchemaComplete, OneMigrates, HalfSchemaNeedsCrash,
                HalfMigrated, Migrating
  <1>4. RowsHaveValues
    BY <1>2, CacheAssumption DEF CacheAssumption, Init, RowsHaveValues, NoRow
  <1>5. HitsInv
    <2>1. \A k \in Keys : Answering(k) = {}
      BY <1>2 DEF Answering
    <2>2. \A k \in Keys : IsFiniteSet(Answering(k)) /\ Cardinality(Answering(k)) = 0
      BY <2>1, FS_EmptySet
    <2> QED BY <2>2 DEF Init, HitsInv, HitsNeverInvented, NoRow
  <1> QED BY <1>1, <1>3, <1>4, <1>5 DEF IInv

\* No step that counts nothing, answers nothing and stops no one who is about to
\* answer disturbs the bound on hits.
LEMMA HitsStay ==
  ASSUME IInv, UNCHANGED <<served, lost>>,
         \A q \in Procs : /\ pc'[q] = "answer" <=> pc[q] = "answer"
                          /\ pc[q] = "answer" => wanted'[q] = wanted[q],
         \A k \in Keys : rows'[k].hits \in Nat /\ rows'[k].hits <= rows[k].hits
  PROVE  HitsInv'
  <1>1. \A k \in Keys : Answering(k)' = Answering(k)
    BY DEF Answering
  <1>2. \A k \in Keys : /\ rows[k].hits \in Nat /\ served[k] \in Nat /\ lost[k] \in Nat
                        /\ IsFiniteSet(Answering(k)) /\ Cardinality(Answering(k)) \in Nat
    BY FS_CardinalityType DEF IInv, TypeOK, CacheRow, HitsInv
  <1>3. \A k \in Keys : rows[k].hits <= served[k] + lost[k] + Cardinality(Answering(k))
    BY DEF IInv, HitsInv, HitsNeverInvented
  <1>4. \A k \in Keys : rows'[k].hits <= served[k] + lost[k] + Cardinality(Answering(k))
    BY <1>2, <1>3
  <1> QED BY <1>1, <1>2, <1>4 DEF HitsInv, HitsNeverInvented

\* The part of the invariant that no opening of the file touches.
LEMMA OpenKeepsRows ==
  ASSUME IInv, UNCHANGED <<rows, wanted, found, now, puts, served, lost>>,
         \A q \in Procs : /\ pc'[q] = "touch" => pc[q] = "touch"
                          /\ pc'[q] = "answer" <=> pc[q] = "answer"
  PROVE  RowsHaveValues' /\ HitsInv'
  <1>1. RowsHaveValues'
    BY DEF IInv, RowsHaveValues
  <1>2. HitsInv'
    BY HitsStay DEF IInv, TypeOK, CacheRow
  <1> QED BY <1>1, <1>2

\* The part of it that no use of the open file touches.
LEMMA UseKeepsSchema ==
  ASSUME IInv, UNCHANGED <<schema, version, cutShort>>, pc' \in [Procs -> Locations],
         NEW p \in Procs, pc[p] \in {"idle", "touch", "answer"},
         pc'[p] \in {"idle", "touch", "answer", "closed"},
         \A q \in Procs : q # p => pc'[q] = pc[q]
  PROVE  ScriptInStep' /\ SchemaComplete' /\ OneMigrates' /\ HalfSchemaNeedsCrash'
  <1>1. version = 1 /\ schema = Objects
    BY DEF IInv, SchemaComplete
  <1>2. \A q \in Procs : pc'[q] \in Migrating => q # p /\ pc[q] \in Migrating
    BY DEF Migrating
  <1>3. ScriptInStep'
    BY <1>2 DEF IInv, ScriptInStep
  <1>4. SchemaComplete'
    BY <1>1 DEF SchemaComplete
  <1>5. OneMigrates'
    BY <1>2 DEF IInv, OneMigrates
  <1>6. HalfSchemaNeedsCrash'
    BY <1>1 DEF HalfSchemaNeedsCrash, HalfMigrated
  <1> QED BY <1>3, <1>4, <1>5, <1>6

-----------------------------------------------------------------------------
(* One lemma per action. *)

LEMMA ConnectInv == ASSUME IInv, NEW p \in Procs, Connect(p) PROVE IInv'
  <1>1. TypeOK'
    BY DEF IInv, TypeOK, Connect, Move, Locations, Jobs
  <1>2. \A q \in Procs : pc'[q] = IF q = p THEN "read_version" ELSE pc[q]
    BY DEF IInv, TypeOK, Connect, Move
  <1>3. \A q \in Procs : pc'[q] \in Migrating <=> pc[q] \in Migrating
    BY <1>2 DEF Connect, Move, Migrating
  <1>4. ScriptInStep' /\ SchemaComplete' /\ OneMigrates' /\ HalfSchemaNeedsCrash'
    BY <1>2, <1>3
    DEF IInv, Connect, ScriptInStep, SchemaComplete, OneMigrates, HalfSchemaNeedsCrash,
        HalfMigrated, Migrating
  <1>5. RowsHaveValues' /\ HitsInv'
    BY <1>2, OpenKeepsRows DEF Connect, Move
  <1> QED BY <1>1, <1>4, <1>5 DEF IInv

LEMMA ReadVersionInv == ASSUME IInv, NEW p \in Procs, ReadVersion(p) PROVE IInv'
  <1>1. TypeOK'
    BY DEF IInv, TypeOK, ReadVersion, Move, Locations, disk
  <1>2. \A q \in Procs : pc'[q] = IF q = p
                                  THEN IF version < 1 THEN "cache_entries" ELSE "idle"
                                  ELSE pc[q]
    BY DEF IInv, TypeOK, ReadVersion, Move, NeedsMigration
  <1>3. \A q \in Procs : pc'[q] \in Migrating <=> pc[q] \in Migrating
    BY <1>2 DEF ReadVersion, Move, Migrating
  <1>4. version \in {0, 1}
    BY DEF IInv, TypeOK
  <1>5. ScriptInStep' /\ SchemaComplete' /\ OneMigrates' /\ HalfSchemaNeedsCrash'
    BY <1>2, <1>3, <1>4
    DEF IInv, ReadVersion, disk, ScriptInStep, SchemaComplete, OneMigrates,
        HalfSchemaNeedsCrash, HalfMigrated, Migrating
  <1>6. RowsHaveValues' /\ HitsInv'
    BY <1>2, OpenKeepsRows DEF ReadVersion, Move, disk
  <1> QED BY <1>1, <1>5, <1>6 DEF IInv

LEMMA CreateTableInv == ASSUME IInv, NEW p \in Procs, CreateTable(p) PROVE IInv'
  <1>1. TypeOK'
    BY DEF IInv, TypeOK, CreateTable, Move, Locations, Migrating, Objects
  <1>2. \A q \in Procs : pc'[q] = IF q = p THEN "idx_prompt" ELSE pc[q]
    BY DEF IInv, TypeOK, CreateTable, Move
  <1>3. \A q \in Procs : pc[q] \notin Migrating
    BY DEF CreateTable, IInv, ScriptInStep, Built, Migrating, Objects
  <1>4. version = 0 /\ schema = {}
    BY DEF CreateTable, IInv, TypeOK, SchemaComplete, ScriptInStep, Objects
  <1>5. ScriptInStep'
    BY <1>2, <1>3, <1>4 DEF CreateTable, ScriptInStep, Built
  <1>6. SchemaComplete'
    BY <1>2, <1>4 DEF CreateTable, IInv, SchemaComplete
  <1>7. OneMigrates'
    BY <1>2, <1>3 DEF OneMigrates
  <1>8. HalfSchemaNeedsCrash'
    BY <1>2 DEF HalfSchemaNeedsCrash, Migrating
  <1>9. RowsHaveValues' /\ HitsInv'
    BY <1>2, OpenKeepsRows DEF CreateTable, Move
  <1> QED BY <1>1, <1>5, <1>6, <1>7, <1>8, <1>9 DEF IInv

LEMMA TableExistsInv == ASSUME IInv, NEW p \in Procs, TableExists(p) PROVE IInv'
  <1>1. TypeOK'
    BY DEF IInv, TypeOK, TableExists, Move, Locations, disk
  <1>2. \A q \in Procs : pc'[q] = IF q = p THEN "refused" ELSE pc[q]
    BY DEF IInv, TypeOK, TableExists, Move
  <1>3. \A q \in Procs : pc'[q] \in Migrating <=> pc[q] \in Migrating
    BY <1>2 DEF TableExists, Move, Migrating
  <1>4. ScriptInStep' /\ SchemaComplete' /\ OneMigrates' /\ HalfSchemaNeedsCrash'
    BY <1>2, <1>3
    DEF IInv, TableExists, disk, ScriptInStep, SchemaComplete, OneMigrates,
        HalfSchemaNeedsCrash, HalfMigrated, Migrating
  <1>5. RowsHaveValues' /\ HitsInv'
    BY <1>2, OpenKeepsRows DEF TableExists, Move, disk
  <1> QED BY <1>1, <1>4, <1>5 DEF IInv

LEMMA CreateIndexInv ==
  ASSUME IInv, NEW p \in Procs, NEW i \in Migrating \ {"user_version"}, CreateIndex(p, i)
  PROVE  IInv'
  <1>1. TypeOK'
    BY DEF IInv, TypeOK, CreateIndex, Move, Locations, Migrating, Objects, NextStatement
  <1>2. \A q \in Procs : pc'[q] = IF q = p THEN NextStatement(i) ELSE pc[q]
    BY DEF IInv, TypeOK, CreateIndex, Move
  <1>3. pc[p] = i /\ schema = Built(i) /\ version = 0
    BY DEF CreateIndex, Move, IInv, ScriptInStep, Migrating
  <1>4. \A q \in Procs : q # p => pc[q] \notin Migrating
    BY <1>3 DEF IInv, OneMigrates, Migrating
  <1>5. NextStatement(i) \in Migrating /\ Built(NextStatement(i)) = Built(i) \cup {i}
    BY DEF NextStatement, Built, Migrating, Objects
  <1>6. ScriptInStep'
    BY <1>2, <1>3, <1>4, <1>5 DEF CreateIndex, IInv, ScriptInStep, Built, Migrating, Objects
  <1>7. SchemaComplete'
    BY <1>2, <1>3, <1>5 DEF CreateIndex, IInv, SchemaComplete, Migrating
  <1>8. OneMigrates'
    BY <1>2, <1>4 DEF OneMigrates
  <1>9. HalfSchemaNeedsCrash'
    BY <1>2, <1>5 DEF HalfSchemaNeedsCrash
  <1>10. RowsHaveValues' /\ HitsInv'
    BY <1>2, <1>5, OpenKeepsRows DEF CreateIndex, Move, Migrating
  <1> QED BY <1>1, <1>6, <1>7, <1>8, <1>9, <1>10 DEF IInv

LEMMA SetVersionInv == ASSUME IInv, NEW p \in Procs, SetVersion(p) PROVE IInv'
  <1>1. TypeOK'
    BY DEF IInv, TypeOK, SetVersion, Move, Locations
  <1>2. \A q \in Procs : pc'[q] = IF q = p THEN "idle" ELSE pc[q]
    BY DEF IInv, TypeOK, SetVersion, Move
  <1>3. pc[p] \in Migrating /\ schema = Objects
    BY DEF SetVersion, Move, IInv, ScriptInStep, Migrating, Built
  <1>4. \A q \in Procs : pc'[q] \notin Migrating
    BY <1>2, <1>3 DEF IInv, OneMigrates, Migrating
  <1>5. ScriptInStep' /\ SchemaComplete' /\ OneMigrates' /\ HalfSchemaNeedsCrash'
    BY <1>3, <1>4 DEF SetVersion, ScriptInStep, SchemaComplete, OneMigrates,
                      HalfSchemaNeedsCrash, HalfMigrated, Objects
  <1>6. RowsHaveValues' /\ HitsInv'
    BY <1>2, OpenKeepsRows DEF SetVersion, Move
  <1> QED BY <1>1, <1>5, <1>6 DEF IInv

LEMMA SelectInv ==
  ASSUME IInv, NEW p \in Procs, NEW k \in Keys, Select(p, k) PROVE IInv'
  <1>1. TypeOK'
    BY DEF IInv, TypeOK, Select, Locations, disk
  <1>2. \A q \in Procs : /\ pc'[q] = IF q = p THEN "touch" ELSE pc[q]
                         /\ wanted'[q] = IF q = p THEN k ELSE wanted[q]
    BY DEF IInv, TypeOK, Select
  <1>3. pc[p] = "idle" /\ UNCHANGED <<rows, puts, served, lost>>
    BY DEF Select, disk
  <1>4. ScriptInStep' /\ SchemaComplete' /\ OneMigrates' /\ HalfSchemaNeedsCrash'
    BY <1>1, <1>2, UseKeepsSchema DEF Select, disk, TypeOK
  <1>5. RowsHaveValues'
    BY <1>2, <1>3 DEF IInv, RowsHaveValues
  <1>6. HitsInv'
    BY <1>2, <1>3, HitsStay DEF IInv, TypeOK, CacheRow
  <1> QED BY <1>1, <1>4, <1>5, <1>6 DEF IInv

\* The count goes up by one, and so do the lookups about to answer.
LEMMA TouchInv == ASSUME IInv, NEW p \in Procs, Touch(p) PROVE IInv'
  <1>1. wanted[p] \in Keys /\ pc[p] = "touch"
    BY DEF IInv, RowsHaveValues, Touch, Move
  <1>2. TypeOK'
    BY <1>1 DEF IInv, TypeOK, Touch, Move, Locations, CacheRow, NoRow
  <1>3. \A q \in Procs : pc'[q] = IF q = p THEN "answer" ELSE pc[q]
    BY DEF IInv, TypeOK, Touch, Move
  <1>4. ScriptInStep' /\ SchemaComplete' /\ OneMigrates' /\ HalfSchemaNeedsCrash'
    BY <1>1, <1>2, <1>3, UseKeepsSchema DEF Touch, TypeOK
  <1>5. RowsHaveValues'
    <2>1. \A k \in Keys : rows'[k].value = rows[k].value /\ (rows[k] = NoRow => rows'[k] = NoRow)
      BY <1>1 DEF IInv, TypeOK, Touch, CacheRow, NoRow
    <2> QED BY <1>1, <1>3, <2>1 DEF IInv, TypeOK, RowsHaveValues, Touch
  <1>6. HitsInv'
    <2> SUFFICES ASSUME NEW k \in Keys
                 PROVE  /\ IsFiniteSet(Answering(k)')
                        /\ rows'[k].hits <= served'[k] + lost'[k] + Cardinality(Answering(k)')
      BY DEF HitsInv, HitsNeverInvented
    <2>1. IsFiniteSet(Answering(k)) /\ Cardinality(Answering(k)) \in Nat
      BY FS_CardinalityType DEF IInv, HitsInv
    <2>2. /\ rows[k].hits \in Nat /\ served[k] \in Nat /\ lost[k] \in Nat
          /\ rows[k].hits <= served[k] + lost[k] + Cardinality(Answering(k))
          /\ UNCHANGED <<served, lost, wanted>>
      BY DEF IInv, TypeOK, CacheRow, HitsInv, HitsNeverInvented, Touch
    <2>3. CASE k = wanted[p]
      <3>1. Answering(k)' = Answering(k) \cup {p} /\ p \notin Answering(k)
        BY <1>1, <1>3, <2>2, <2>3 DEF Answering
      <3>2. IsFiniteSet(Answering(k)') /\ Cardinality(Answering(k)') = Cardinality(Answering(k)) + 1
        BY <2>1, <3>1, FS_AddElement
      <3>3. rows'[k].hits \in {rows[k].hits, rows[k].hits + 1}
        BY <2>3 DEF Touch, IInv, TypeOK, CacheRow
      <3> QED BY <2>1, <2>2, <3>2, <3>3
    <2>4. CASE k # wanted[p]
      <3>1. Answering(k)' = Answering(k)
        BY <1>1, <1>3, <2>2, <2>4 DEF Answering
      <3>2. rows'[k] = rows[k]
        BY <2>4 DEF Touch, IInv, TypeOK
      <3> QED BY <2>1, <2>2, <3>1, <3>2
    <2> QED BY <2>3, <2>4
  <1> QED BY <1>2, <1>4, <1>5, <1>6 DEF IInv

\* One who was about to answer has done so, or has been stopped.
LEMMA AnswererLeaves ==
  ASSUME IInv, NEW p \in Procs, pc[p] = "answer", rows' = rows,
         \A q \in Procs : q # p => pc'[q] = pc[q] /\ wanted'[q] = wanted[q],
         pc'[p] # "answer",
         \A k \in Keys : /\ served'[k] \in Nat /\ lost'[k] \in Nat
                         /\ served'[k] + lost'[k] =
                              served[k] + lost[k] + (IF k = wanted[p] THEN 1 ELSE 0)
  PROVE  HitsInv'
  <1> SUFFICES ASSUME NEW k \in Keys
               PROVE  /\ IsFiniteSet(Answering(k)')
                      /\ rows[k].hits <= served'[k] + lost'[k] + Cardinality(Answering(k)')
    BY DEF HitsInv, HitsNeverInvented
  <1>1. /\ IsFiniteSet(Answering(k)) /\ Cardinality(Answering(k)) \in Nat
        /\ rows[k].hits \in Nat /\ served[k] \in Nat /\ lost[k] \in Nat
        /\ rows[k].hits <= served[k] + lost[k] + Cardinality(Answering(k))
    BY FS_CardinalityType DEF IInv, TypeOK, CacheRow, HitsInv, HitsNeverInvented
  <1>2. CASE k = wanted[p]
    <2>1. Answering(k)' = Answering(k) \ {p} /\ p \in Answering(k)
      BY <1>2 DEF Answering
    <2>2. IsFiniteSet(Answering(k)') /\ Cardinality(Answering(k)') = Cardinality(Answering(k)) - 1
      BY <1>1, <2>1, FS_RemoveElement
    <2> QED BY <1>1, <1>2, <2>2
  <1>3. CASE k # wanted[p]
    <2>1. Answering(k)' = Answering(k)
      BY <1>3 DEF Answering
    <2> QED BY <1>1, <1>3, <2>1
  <1> QED BY <1>2, <1>3

LEMMA AnswerInv == ASSUME IInv, NEW p \in Procs, Answer(p) PROVE IInv'
  <1>1. wanted[p] \in Keys /\ pc[p] = "answer" /\ UNCHANGED <<rows, puts, lost>>
    BY DEF IInv, RowsHaveValues, Answer, Move, disk
  <1>2. TypeOK'
    BY <1>1, RowTypes DEF IInv, TypeOK, Answer, Move, Locations, disk
  <1>3. \A q \in Procs : /\ pc'[q] = IF q = p THEN "idle" ELSE pc[q]
                         /\ wanted'[q] = IF q = p THEN None ELSE wanted[q]
    BY DEF IInv, TypeOK, Answer, Move
  <1>4. ScriptInStep' /\ SchemaComplete' /\ OneMigrates' /\ HalfSchemaNeedsCrash'
    BY <1>1, <1>2, <1>3, UseKeepsSchema DEF Answer, disk, TypeOK
  <1>5. RowsHaveValues'
    BY <1>1, <1>3 DEF IInv, RowsHaveValues
  <1>6. \A k \in Keys : /\ served[k] \in Nat /\ lost[k] \in Nat
                        /\ served'[k] = served[k] + (IF k = wanted[p] THEN 1 ELSE 0)
    BY <1>1 DEF IInv, TypeOK, Answer
  <1>7. HitsInv'
    BY <1>1, <1>3, <1>6, AnswererLeaves
  <1> QED BY <1>2, <1>4, <1>5, <1>7 DEF IInv

LEMMA TouchFailsInv == ASSUME IInv, NEW p \in Procs, TouchFails(p) PROVE IInv'
  <1>1. TypeOK'
    BY RowTypes DEF IInv, TypeOK, TouchFails, Move, Locations, disk
  <1>2. \A q \in Procs : /\ pc'[q] = IF q = p THEN "idle" ELSE pc[q]
                         /\ q # p => wanted'[q] = wanted[q]
    BY DEF IInv, TypeOK, TouchFails, Move
  <1>3. pc[p] = "touch" /\ UNCHANGED <<rows, puts, served, lost>>
    BY DEF TouchFails, Move, disk
  <1>4. ScriptInStep' /\ SchemaComplete' /\ OneMigrates' /\ HalfSchemaNeedsCrash'
    BY <1>1, <1>2, UseKeepsSchema DEF TouchFails, Move, disk, TypeOK
  <1>5. RowsHaveValues'
    BY <1>2, <1>3 DEF IInv, RowsHaveValues
  <1>6. HitsInv'
    BY <1>2, <1>3, HitsStay DEF IInv, TypeOK, CacheRow
  <1> QED BY <1>1, <1>4, <1>5, <1>6 DEF IInv

LEMMA PutInv == ASSUME IInv, NEW p \in Procs, NEW k \in Keys, Put(p, k) PROVE IInv'
  <1>1. FreshRow(k) \in CacheRow /\ FreshRow(k).value = puts + 1 /\ FreshRow(k).hits = 0
    BY DEF IInv, TypeOK, FreshRow, CacheRow
  <1>2. TypeOK'
    BY <1>1 DEF IInv, TypeOK, Put
  <1>3. ScriptInStep' /\ SchemaComplete' /\ OneMigrates' /\ HalfSchemaNeedsCrash'
    BY <1>2, UseKeepsSchema DEF Put, TypeOK
  <1>4. puts + 1 \in 1..MaxPuts
    BY CacheAssumption DEF CacheAssumption, IInv, TypeOK, Put
  <1>5. RowsHaveValues'
    BY <1>1, <1>4 DEF IInv, TypeOK, RowsHaveValues, Put
  <1>6. \A j \in Keys : rows'[j].hits \in Nat /\ rows'[j].hits <= rows[j].hits
    BY <1>1 DEF IInv, TypeOK, Put, CacheRow
  <1>7. HitsInv'
    BY <1>6, HitsStay DEF Put
  <1> QED BY <1>2, <1>3, <1>5, <1>7 DEF IInv

LEMMA StatsInv == ASSUME IInv, NEW p \in Procs, Stats(p) \/ DryRun(p) PROVE IInv'
  <1>1. TypeOK'
    BY DEF IInv, TypeOK, Stats, DryRun, Close, Locations, disk
  <1>2. \A q \in Procs : pc'[q] = IF q = p THEN "closed" ELSE pc[q]
    BY DEF IInv, TypeOK, Stats, DryRun, Close
  <1>3. ScriptInStep' /\ SchemaComplete' /\ OneMigrates' /\ HalfSchemaNeedsCrash'
    BY <1>1, <1>2, UseKeepsSchema DEF Stats, DryRun, disk, TypeOK
  <1>4. RowsHaveValues' /\ HitsInv'
    BY <1>2, OpenKeepsRows DEF Stats, DryRun, disk
  <1> QED BY <1>1, <1>3, <1>4 DEF IInv

LEMMA PurgeInv ==
  ASSUME IInv, NEW p \in Procs, NEW c \in Commands, Purge(p, c) PROVE IInv'
  <1>1. \A k \in Keys : rows'[k] = rows[k] \/ rows'[k] = NoRow
    BY DEF Purge
  <1>2. rows' \in [Keys -> CacheRow]
    BY <1>1, RowTypes DEF Purge, IInv, TypeOK
  <1>3. TypeOK'
    BY <1>2 DEF IInv, TypeOK, Purge, Close, Locations
  <1>4. \A q \in Procs : pc'[q] = IF q = p THEN "closed" ELSE pc[q]
    BY DEF IInv, TypeOK, Purge, Close
  <1>5. pc[p] = "idle" /\ UNCHANGED <<puts, served, lost, wanted>>
    BY DEF Purge
  <1>6. ScriptInStep' /\ SchemaComplete' /\ OneMigrates' /\ HalfSchemaNeedsCrash'
    BY <1>3, <1>4, UseKeepsSchema DEF Purge, TypeOK
  <1>7. RowsHaveValues'
    BY <1>1, <1>4, CacheAssumption
    DEF CacheAssumption, IInv, TypeOK, RowsHaveValues, Purge, NoRow
  <1>8. \A k \in Keys : rows'[k].hits \in Nat /\ rows'[k].hits <= rows[k].hits
    BY <1>1 DEF IInv, TypeOK, CacheRow, NoRow
  <1>9. HitsInv'
    BY <1>4, <1>5, <1>8, HitsStay
  <1> QED BY <1>3, <1>6, <1>7, <1>9 DEF IInv

LEMMA EndInv == ASSUME IInv, NEW p \in Procs, End(p) PROVE IInv'
  <1>1. \A q \in Procs : /\ pc'[q] = IF q = p THEN "closed" ELSE pc[q]
                         /\ wanted'[q] = IF q = p THEN None ELSE wanted[q]
    BY DEF IInv, TypeOK, End, Close
  <1>2. /\ pc[p] = "answer" => wanted[p] \in Keys
        /\ UNCHANGED <<rows, puts, served>>
    BY DEF IInv, RowsHaveValues, End, disk
  <1>3. \A k \in Keys : /\ served[k] \in Nat /\ lost[k] \in Nat
                        /\ lost'[k] = lost[k] + (IF pc[p] = "answer" /\ k = wanted[p] THEN 1 ELSE 0)
    BY <1>2 DEF IInv, TypeOK, End
  <1>4. lost' \in [Keys -> Nat]
    BY <1>2 DEF IInv, TypeOK, End
  <1>5. TypeOK'
    BY <1>4, RowTypes DEF IInv, TypeOK, End, Close, Locations, disk
  <1>6. \A q \in Procs : pc'[q] \in Migrating <=> q # p /\ pc[q] \in Migrating
    BY <1>1 DEF Migrating
  <1>7. ScriptInStep' /\ SchemaComplete' /\ OneMigrates'
    BY <1>1, <1>6 DEF IInv, End, disk, ScriptInStep, SchemaComplete, OneMigrates
  <1>8. HalfSchemaNeedsCrash'
    BY <1>6 DEF IInv, End, disk, HalfSchemaNeedsCrash, HalfMigrated
  <1>9. RowsHaveValues'
    BY <1>1, <1>2 DEF IInv, RowsHaveValues
  <1>10. HitsInv'
    <2>1. CASE pc[p] = "answer"
      BY <1>1, <1>2, <1>3, <2>1, AnswererLeaves
    <2>2. CASE pc[p] # "answer"
      <3>1. lost' = lost
        BY <2>2 DEF End
      <3> QED BY <1>1, <1>2, <2>2, <3>1, HitsStay DEF IInv, TypeOK, CacheRow
    <2> QED BY <2>1, <2>2
  <1> QED BY <1>5, <1>7, <1>8, <1>9, <1>10 DEF IInv

LEMMA TickInv == ASSUME IInv, Tick PROVE IInv'
  <1>1. TypeOK' /\ ScriptInStep' /\ SchemaComplete' /\ OneMigrates' /\ HalfSchemaNeedsCrash'
    BY DEF IInv, TypeOK, Tick, disk, ScriptInStep, SchemaComplete, OneMigrates,
           HalfSchemaNeedsCrash, HalfMigrated
  <1>2. RowsHaveValues'
    BY DEF IInv, Tick, disk, RowsHaveValues
  <1>3. HitsInv'
    BY HitsStay DEF Tick, disk, IInv, TypeOK, CacheRow
  <1> QED BY <1>1, <1>2, <1>3 DEF IInv

LEMMA StutterInv == ASSUME IInv, UNCHANGED vars PROVE IInv'
  <1>1. TypeOK' /\ ScriptInStep' /\ SchemaComplete' /\ OneMigrates' /\ HalfSchemaNeedsCrash'
    BY DEF vars, IInv, TypeOK, ScriptInStep, SchemaComplete, OneMigrates,
           HalfSchemaNeedsCrash, HalfMigrated
  <1>2. RowsHaveValues' /\ HitsInv'
    BY OpenKeepsRows DEF vars
  <1> QED BY <1>1, <1>2 DEF IInv

LEMMA StepInv == IInv /\ [Next]_vars => IInv'
  <1> SUFFICES ASSUME IInv, [Next]_vars PROVE IInv'
    OBVIOUS
  <1>1. ASSUME NEW p \in Procs, Open(p) PROVE IInv'
    BY <1>1, ReadVersionInv, CreateTableInv, TableExistsInv, CreateIndexInv, SetVersionInv
    DEF Open
  <1>2. ASSUME NEW p \in Procs, Use(p) PROVE IInv'
    BY <1>2, SelectInv, PutInv, TouchInv, AnswerInv, TouchFailsInv, StatsInv, PurgeInv DEF Use
  <1> QED
    BY <1>1, <1>2, ConnectInv, EndInv, TickInv, StutterInv DEF Next

-----------------------------------------------------------------------------
\* The inductive invariant holds of every behaviour.
THEOREM CacheInvariant == Spec => []IInv
  BY InitInv, StepInv, PTL DEF Spec

\* Every state of the shared cache has the types the model states.
THEOREM CacheTypes == Spec => []TypeOK
  <1>1. IInv => TypeOK
    BY DEF IInv
  <1> QED BY <1>1, CacheInvariant, PTL

\* A cache.db that says it is migrated is complete, and everyone who uses it
\* uses a complete one, however many processes open it together.
THEOREM SchemaIsComplete == Spec => []SchemaComplete
  <1>1. IInv => SchemaComplete
    BY DEF IInv
  <1> QED BY <1>1, CacheInvariant, PTL

\* Of all processes that open a new file, one runs the script
\* (SQLiteCacheBackend._migrate): the others fail at its first statement.
THEOREM OnlyOneMigrates == Spec => []OneMigrates
  <1>1. IInv => OneMigrates
    BY DEF IInv
  <1> QED BY <1>1, CacheInvariant, PTL

\* Half a schema is left only by a process that stopped inside the script.
THEOREM HalfSchemaNeedsStop == Spec => []HalfSchemaNeedsCrash
  <1>1. IInv => HalfSchemaNeedsCrash
    BY DEF IInv
  <1> QED BY <1>1, CacheInvariant, PTL

\* No row counts a hit that was not given back, unless the lookup is about to
\* give it back or was stopped between its commit and its answer.
THEOREM HitsAreReal == Spec => []HitsNeverInvented
  <1>1. IInv => HitsNeverInvented
    BY DEF IInv, HitsInv
  <1> QED BY <1>1, CacheInvariant, PTL

-----------------------------------------------------------------------------
(***************************************************************************)
(* The refinement. The map's state is a function of rows, found and puts.  *)
(***************************************************************************)
StoreOf == [k \in Keys |-> rows[k].value]
SeenOf  == [p \in Procs |-> found[p].value]

LEMMA MapInit == Init => Map!Init
  <1> SUFFICES ASSUME Init PROVE Map!Init
    OBVIOUS
  <1>1. 1..puts = {}
    BY DEF Init
  <1> QED BY <1>1 DEF Init, Map!Init, NoRow

LEMMA MapStutter ==
  ASSUME IInv, UNCHANGED <<rows, found, puts>>
  PROVE  UNCHANGED Map!vars
  BY DEF Map!vars

\* SELECT is the moment of the lookup.
LEMMA SelectMaps ==
  ASSUME IInv, NEW p \in Procs, NEW k \in Keys, Select(p, k) PROVE Map!Lookup(p, k)
  <1>1. rows' = rows /\ puts' = puts /\ rows[k].value # 0
    BY DEF Select, disk, IInv, RowsHaveValues
  <1>2. SeenOf' = [SeenOf EXCEPT ![p] = StoreOf[k]]
    BY DEF Select, SeenOf, StoreOf, IInv, TypeOK
  <1> QED BY <1>1, <1>2 DEF Map!Lookup, SeenOf, StoreOf

\* The end of a lookup, or of its process, and a change of counts at most.
LEMMA LeaveMaps ==
  ASSUME IInv, NEW p \in Procs, found' = [found EXCEPT ![p] = NoRow], puts' = puts,
         \A k \in Keys : rows'[k].value = rows[k].value
  PROVE  Map!Leave(p)
  <1>1. SeenOf' = [SeenOf EXCEPT ![p] = 0]
    BY DEF SeenOf, IInv, TypeOK, NoRow
  <1>2. StoreOf' = StoreOf
    BY DEF StoreOf
  <1> QED BY <1>1, <1>2 DEF Map!Leave, SeenOf, StoreOf

\* Counting changes no value.
LEMMA TouchMaps == ASSUME IInv, NEW p \in Procs, Touch(p) PROVE UNCHANGED Map!vars
  <1>1. wanted[p] \in Keys
    BY DEF IInv, RowsHaveValues, Touch, Move
  <1>2. \A k \in Keys : rows'[k].value = rows[k].value
    BY <1>1 DEF Touch, IInv, TypeOK, CacheRow
  <1> QED BY <1>2 DEF Touch, Map!vars

LEMMA PutMaps ==
  ASSUME IInv, NEW p \in Procs, NEW k \in Keys, Put(p, k) PROVE Map!Store(k)
  <1>1. puts + 1 \in 1..MaxPuts
    BY CacheAssumption DEF CacheAssumption, IInv, TypeOK, Put
  <1>2. StoreOf' = [StoreOf EXCEPT ![k] = puts + 1]
    BY DEF Put, StoreOf, FreshRow, IInv, TypeOK
  <1>3. SeenOf' = SeenOf
    BY DEF Put, SeenOf
  <1>4. puts \in Nat /\ puts' = puts + 1
    BY DEF Put, IInv, TypeOK
  <1>5. puts + 1 \notin 1..puts /\ 1..puts' = (1..puts) \cup {puts + 1}
    BY <1>4
  <1> QED BY <1>1, <1>2, <1>3, <1>5 DEF Map!Store, SeenOf, StoreOf

LEMMA PurgeMaps ==
  ASSUME IInv, NEW p \in Procs, NEW c \in Commands, Purge(p, c) PROVE Map!Forget
  <1> DEFINE S == {k \in Keys : Matches(k, c)}
  <1>1. StoreOf' = [k \in Keys |-> IF k \in S THEN 0 ELSE StoreOf[k]]
    BY DEF Purge, StoreOf, NoRow
  <1>2. SeenOf' = SeenOf
    BY DEF Purge, SeenOf
  <1>3. S \in SUBSET Keys /\ puts' = puts
    BY DEF Purge
  <1> HIDE DEF S
  <1> QED BY <1>1, <1>2, <1>3 DEF Map!Forget, SeenOf, StoreOf

LEMMA EndMaps == ASSUME IInv, NEW p \in Procs, End(p) PROVE Map!Leave(p)
  BY LeaveMaps DEF End, disk

LEMMA MapStep == IInv /\ [Next]_vars => [Map!Next]_(Map!vars)
  <1> SUFFICES ASSUME IInv, [Next]_vars PROVE [Map!Next]_(Map!vars)
    OBVIOUS
  <1>1. ASSUME NEW p \in Procs, Connect(p) \/ Open(p) PROVE UNCHANGED Map!vars
    BY <1>1, MapStutter
    DEF Connect, Open, ReadVersion, CreateTable, TableExists, CreateIndex, SetVersion, disk
  <1>2. ASSUME NEW p \in Procs, Use(p) PROVE [Map!Next]_(Map!vars)
    <2>1. ASSUME NEW k \in Keys, Select(p, k) PROVE Map!Next
      BY <2>1, SelectMaps DEF Map!Next
    <2>2. ASSUME NEW k \in Keys, Put(p, k) PROVE Map!Next
      BY <2>2, PutMaps DEF Map!Next
    <2>3. CASE Touch(p)
      BY <2>3, TouchMaps
    <2>4. CASE TouchFails(p) \/ Answer(p)
      BY <2>4, LeaveMaps DEF Map!Next, TouchFails, Answer, disk
    <2>5. CASE Stats(p) \/ DryRun(p)
      BY <2>5, MapStutter DEF Stats, DryRun, disk
    <2>6. ASSUME NEW c \in Commands, Purge(p, c) PROVE Map!Next
      BY <2>6, PurgeMaps DEF Map!Next
    <2> QED BY <1>2, <2>1, <2>2, <2>3, <2>4, <2>5, <2>6 DEF Use
  <1>3. ASSUME NEW p \in Procs, End(p) PROVE Map!Next
    BY <1>3, EndMaps DEF Map!Next
  <1>4. CASE Tick
    BY <1>4, MapStutter DEF Tick, disk
  <1>5. CASE UNCHANGED vars
    BY <1>5, MapStutter DEF vars
  <1> QED BY <1>1, <1>2, <1>3, <1>4, <1>5 DEF Next

\* The file, with its two-statement lookups, its migration and the processes
\* that die in either, implements one dictionary.
THEOREM CacheIsOneMap == Spec => MapSpec
  BY MapInit, MapStep, CacheInvariant, PTL DEF Spec, MapSpec, Map!Spec

-----------------------------------------------------------------------------
(***************************************************************************)
(* Purges                                                                  *)
(***************************************************************************)
\* Days follow their ticks.
LEMMA DaysAreOrdered ==
  ASSUME NEW a \in Int, NEW b \in Int, NEW d \in Nat \ {0}, a \div d < b \div d
  PROVE  a < b
  <1>1. a \div d \in Int /\ b \div d \in Int
    OBVIOUS
  <1>2. a = d * (a \div d) + (a % d) /\ a % d \in 0..(d - 1)
    OBVIOUS
  <1>3. b = d * (b \div d) + (b % d) /\ b % d \in 0..(d - 1)
    OBVIOUS
  <1> DEFINE x == a \div d
             y == b \div d
  <1>4. x \in Int /\ y \in Int /\ x + 1 <= y
    BY <1>1
  <1> HIDE DEF x, y
  <1>5. d * x + d <= d * y
    BY <1>4, Z3
  <1> QED BY <1>2, <1>3, <1>5 DEF x, y

\* A row leaves only by a purge with a criterion, and by one that asks
\* for its model and its age, although ages are compared as texts.
THEOREM PurgesAreAimed == Spec => PurgeIsAimed
  <1> DEFINE gone == {k \in Keys : rows[k] # NoRow /\ rows'[k] = NoRow}
  <1>1. ASSUME IInv, Next, gone # {}
        PROVE  \E p \in Procs, c \in Commands : Purge(p, c)
    <2> SUFFICES ASSUME NEW k \in Keys, rows[k] # NoRow, rows'[k] = NoRow
                 PROVE  \E p \in Procs, c \in Commands : Purge(p, c)
      BY <1>1
    <2>1. /\ rows \in [Keys -> CacheRow] /\ puts \in Nat
          /\ rows[k].value # 0
      BY <1>1 DEF IInv, TypeOK, RowsHaveValues
    <2>2. rows' # rows
      OBVIOUS
    <2>3. \A p \in Procs, j \in Keys : ~Put(p, j)
      <3> SUFFICES ASSUME NEW p \in Procs, NEW j \in Keys, Put(p, j) PROVE FALSE
        OBVIOUS
      <3>1. rows' = [rows EXCEPT ![j] = FreshRow(j)]
        BY DEF Put
      <3>2. FreshRow(j) # NoRow
        BY <2>1 DEF FreshRow, NoRow
      <3> QED BY <2>1, <3>1, <3>2
    <2>4. \A p \in Procs : ~Touch(p)
      <3> SUFFICES ASSUME NEW p \in Procs, Touch(p) PROVE FALSE
        OBVIOUS
      <3>1. rows'[k].value = rows[k].value
        BY <2>1 DEF Touch, CacheRow
      <3> QED BY <2>1, <3>1 DEF NoRow
    <2> QED
      BY <1>1, <2>2, <2>3, <2>4
      DEF Next, Open, Use, Connect, ReadVersion, CreateTable, TableExists, CreateIndex,
          SetVersion, Select, TouchFails, Answer, Stats, DryRun, End, Tick, disk
  <1>2. ASSUME IInv, NEW p \in Procs, NEW c \in Commands, Purge(p, c), NEW k \in gone
        PROVE  c.all \/ /\ c.model \in {None, ModelOf[k]}
                        /\ c.olderThan # None =>
                             rows[k].created < now - c.olderThan * TicksPerDay
    <2>1. k \in Keys /\ Matches(k, c)
      BY <1>2 DEF Purge
    <2>2. ASSUME ~c.all, c.olderThan # None
          PROVE  rows[k].created < now - c.olderThan * TicksPerDay
      <3>1. OlderThan(rows[k], c.olderThan)
        BY <2>1, <2>2 DEF Matches
      <3>2. /\ rows[k].created \in Nat /\ now \in Nat /\ TicksPerDay \in Nat \ {0}
            /\ c.olderThan \in {-1, 0, 1}
        BY <1>2, <2>1, <2>2, CacheAssumption
        DEF IInv, TypeOK, CacheRow, CacheAssumption, Commands, Ages
      <3> DEFINE limit == now - c.olderThan * TicksPerDay
      <3>3. limit \in Int /\ TicksPerDay * 2 \in Int
        BY <3>2
      <3>4. TextBefore(rows[k].created, limit)
        BY <3>1 DEF OlderThan
      <3> HIDE DEF limit
      <3> DEFINE a == rows[k].created + TicksPerDay * 2
                 b == limit + TicksPerDay * 2
      <3>5. a \in Int /\ b \in Int /\ a \div TicksPerDay < b \div TicksPerDay
        BY <3>2, <3>3, <3>4 DEF TextBefore
      <3> HIDE DEF a, b
      <3>6. a < b
        BY <3>2, <3>5, DaysAreOrdered
      <3>7. rows[k].created < limit
        BY <3>2, <3>3, <3>6 DEF a, b
      <3> QED BY <3>7 DEF limit
    <2> QED BY <2>1, <2>2 DEF Matches
  <1>3. IInv /\ [Next]_vars =>
          [gone # {} =>
             /\ \E p \in Procs, c \in Commands : Purge(p, c)
             /\ \A p \in Procs, c \in Commands : Purge(p, c) =>
                c.all \/ \A k \in gone :
                  /\ c.model \in {None, ModelOf[k]}
                  /\ c.olderThan # None =>
                       rows[k].created < now - c.olderThan * TicksPerDay]_vars
    BY <1>1, <1>2
  <1> QED BY <1>3, CacheInvariant, PTL DEF Spec, PurgeIsAimed

=============================================================================
