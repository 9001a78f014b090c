SPECIFICATION QuerySpec
CONSTANTS
  m1 = m1
  m2 = m2
  None = None
  Torn = Torn
  MaxHistory = 1
  Models <- MCModels
  Revisions <- MCRevisions
  Manifests <- MCManifests
  Threads = {t1}
  Clients = {c1}
  Evidence = {e1, e2}
  Profiles <- MCProfiles
  Targets <- MCTargets
  Serves <- MCServes
  Default <- MCDefault
INVARIANTS
  QueryTypeOK
  AskedWasSelected
  OnlyVettedIsAsked
  AnswersAreGrounded
PROPERTY
  QueryIsAnswered
