SPECIFICATION RepositorySpec
CONSTANTS
  VersionSpace = 16
  StreamIDs = {s}
  Events = {a, b}
  Unappliable = {}
  MaxVersion = 3
  MaxBatch = 2
  Clients = {c1, c2}
  NoOne = NoOne
  Faults = TRUE
  MayBypass = TRUE
  ReuseFailedRoots = FALSE
SYMMETRY Symmetry
INVARIANTS SnapshotMatchesEvents NoVersionMismatch RootsExtendEvents
PROPERTY ImplementsRepository
