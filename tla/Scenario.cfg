SPECIFICATION ScenarioSpec
CONSTANTS
  VersionSpace = 16
  StreamIDs = {s, o}
  Root = s
  Events = {a, x}
  Unappliable = {x}
  Mistakes = {e1, e2}
  MaxVersion = 4
  MaxBatch = 2
  MaxGiven = 2
CHECK_DEADLOCK FALSE
INVARIANTS VerdictTellsOutcome ScenariosAgree QueryRanOnAHistory
