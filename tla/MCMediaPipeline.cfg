SPECIFICATION Spec
CONSTANTS
  s1 = s1
  s2 = s2
  None = None
  Torn = Torn
  Uploads = {u1, u2}
  Streams <- MCStreams
  Directory <- MCDirectory
  Intervals <- MCIntervals
  MaxAttempts = 2
  MaxDecisions = 1
INVARIANTS
  TypeOK
  EvidenceExists
  
  CreatedIsStored
  RoutesAddUp
  DescribesOwnPicture
PROPERTY
  UploadIsAnswered
ACTION_CONSTRAINT MCFirstStream
