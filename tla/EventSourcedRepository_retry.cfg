SPECIFICATION Spec
CONSTANTS
  VersionSpace = 16
  StreamIDs = {s}
  Events = {a, b, x}
  Unappliable = {x}
  MaxVersion = 3
  MaxBatch = 2
  Clients = {c1, c2}
  StoreMayFail = TRUE
  ReuseFailedRoots = TRUE
SYMMETRY Symmetry
INVARIANT SavedMeansStored
