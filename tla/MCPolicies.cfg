SPECIFICATION Spec
CONSTANTS
  NoBackend = NoBackend
  Names = {1, 2, 3}
  Capabilities = {"video"}
  Whole = 2
  Policy <- MCPolicy
  Requests <- MCRequests
  Backends <- MCBackends
  Measurements <- MCMeasurements
  Full = 1
  Vocabulary = {"a", "b"}
  MaxWords = 3
INVARIANTS
  FrontierIsComplete
  ErrorsAreFewest
PROPERTIES
  MoreIsNeverLess
CHECK_DEADLOCK FALSE
