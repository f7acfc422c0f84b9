SPECIFICATION Spec
CONSTANTS
  Depth = 3
  NumValues = 2
  MaxIters = 2
  MaxRanges = 2
  MaxCalls = 2
CHECK_DEADLOCK FALSE
INVARIANTS NoSilentTruncation SpansTellErr GetSeesWholeStream TelemetryTellsResult
