SPECIFICATION Spec
CONSTANTS
  Midnight = "midnight UTC"
  Nil = Nil
  NoUser = NoUser
  Goroutines = {m, p}
  InMemory = {m}
  Refs = {r1, r2, r3}
  Traces = {x}
  Now = Now
  Emails = {"b"}
  NewUsers <- Registrations
  MaxVersion <- Versions
  MaxBatch = 2
VIEW LiveState
INVARIANTS RowsTellTheirSave RowsAreReadable SnapshotIsItsHistory LoadedEqualsSaved
