SPECIFICATION Spec
CONSTANTS
  m1 = m1
  m2 = m2
  m3 = m3
  None = None
  Torn = Torn
  MaxHistory = 2
  Models <- MCModels
  Revisions <- MCRevisions
  Manifests <- MCManifests
  Threads = {t1, t2}
PROPERTY
  OnlyValidatedInstalled
