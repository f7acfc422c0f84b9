SPECIFICATION FairSpec
CONSTANTS
  VersionSpace = 16
  StreamIDs = {s}
  Events = {a}
  MaxVersion = 1
  MaxBatch = 1
  Goroutines = {g1, g2, g3}
  NoOne = NoOne
INVARIANTS TypeOK NoDataRace
PROPERTIES ImplementsEventStore EveryCallReturns
