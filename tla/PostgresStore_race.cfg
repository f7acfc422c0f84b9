SPECIFICATION Spec
CONSTANTS
  VersionSpace = 16
  StreamIDs = {s}
  Events = {a, b}
  MaxVersion = 2
  MaxBatch = 1
  Clients = {c1, c2}
  NoOne = NoOne
  Faults = FALSE
SYMMETRY Symmetry
INVARIANT MismatchIsConflict
