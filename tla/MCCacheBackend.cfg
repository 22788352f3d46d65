SPECIFICATION Spec
CONSTANTS
  k1 = k1
  k2 = k2
  opus = opus
  haiku = haiku
  Procs = {p1, p2}
  Keys = {k1, k2}
  Models = {opus, haiku}
  ModelOf <- MCModelOf
  None = None
  TicksPerDay = 2
  MaxTime = 4
  MaxPuts = 2
  MaxHits = 1
INVARIANTS
  SchemaComplete
  OneMigrates
  HalfSchemaNeedsCrash
  HitsNeverInvented
PROPERTIES
  PurgeIsAimed
  RaceEndsMigrated
  MapSpec
