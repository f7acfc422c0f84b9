SPECIFICATION FairSpec
CONSTANTS
  VersionSpace = 16
  StreamIDs = {s}
  Events = {a, b}
  MaxVersion = 2
  MaxBatch = 2
  Clients = {c1, c2}
  NoOne = NoOne
  MayFail = TRUE
INVARIANTS RecordedIsCommitted RecordedInOrder RecordedIsComplete
PROPERTY EveryCallReturns
