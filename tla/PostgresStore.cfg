SPECIFICATION FairSpec
CONSTANTS
  VersionSpace = 16
  StreamIDs = {s}
  Events = {a}
  MaxVersion = 3
  MaxBatch = 2
  Clients = {c1, c2}
  NoOne = NoOne
  Faults = TRUE
INVARIANT StreamsCountEvents
PROPERTIES ImplementsEventStore EveryCallReturns
