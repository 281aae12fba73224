\* Builds b1 and b2 have results of one size, b3 of another.
SPECIFICATION Spec
CONSTANTS
  p1 = p1
  p2 = p2
  b1 = b1
  b2 = b2
  b3 = b3
  k1 = k1
  k2 = k2
  Processes = {p1, p2}
  Builds = {b1, b2, b3}
  Keys = {k1, k2}
  Size <- MCSize
  None = None
INVARIANTS
  TypeOK
  AnswersMatch
PROPERTIES
  SavedStays
  ImplementsService
