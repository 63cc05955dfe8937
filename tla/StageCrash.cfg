SPECIFICATION Spec
CONSTANTS
  Process = {p1, p2}
  e1 = e1  e2 = e2
  Entry = {e1, e2}
  Selection <- Selections
  Absent = Absent
  Partial = Partial
  Exact = Exact
  NoProcess = NoProcess
  Worlds <- MCWorlds
SYMMETRY Symmetric
INVARIANTS
  TypeOK
  OneWriter
  LoadedIsExact
  SealSurvives
  NothingLeft
PROPERTIES
  PublishedStays
