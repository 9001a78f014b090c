SPECIFICATION Spec
CONSTANTS
  Contents = {c1, c2}
  Ids = {i1, i2, i3, i4}
  Threads = {t1, t2, t3}
  None = None
INVARIANT
  DuplicatesAreAnswered
