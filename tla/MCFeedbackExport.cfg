SPECIFICATION Spec
CONSTANTS
  None = None
  Torn = Torn
  OutputNames <- MCOutputNames
  Limit = 2
  Exporters = {e1, e2}
  Submissions <- MCSubmissions
  Legacy <- MCLegacy
INVARIANTS
  TypeOK
  OnlyConsentedIsWritten
  WholeUnlessOverlapped
  ManifestDescribesFiles
SYMMETRY MCSymmetry
