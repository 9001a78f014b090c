SPECIFICATION Spec
CONSTANTS
  p1 = p1
  p2 = p2
  None = None
  NoJson = NoJson
  Cases <- MCCases
  Outputs <- MCOutputs
  Profiles <- MCProfiles
  OtherProfiles = {other}
  LevelChoices <- MCLevelChoices
  Requests = 3
  WarmupRequests = 1
  StartupPolls = 2
  CudaPolls = 1
  VllmInstalled = TRUE
INVARIANTS
  ReportsAddUp
  NoMixedProfiles
  OkMeansMeasured
PROPERTIES
  SupervisorEnds
CHECK_DEADLOCK FALSE
