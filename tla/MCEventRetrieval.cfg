SPECIFICATION Spec
CONSTANTS
  s1 = s1
  s2 = s2
  None = None
  Clients = {c1}
  Ids = {e1, e2, e3}
  Streams = {s1, s2}
  StopWords <- MCStopWords
  RootLength <- MCRootLength
  Records <- MCRecords
  Questions <- MCQuestions
  Limits = {1, 2}
  ListLimit = 2
  MediaPaths = {"frame"}
  MaxEvidence = 2
SYMMETRY Symmetry
INVARIANTS
  RetrievalTypeOK
  AnswersAreBest
  AnswersCiteTheirEvents
  AnalysedEvidenceIsServed
