SPECIFICATION Spec
CONSTANTS
  Process = {p1, p2}
  NoProcess = NoProcess
  Absent = Absent
  Empty = Empty
  Whole = Whole
  Other = Other
  Worlds <- PowerOnly
INVARIANTS
  EvidenceResolves
CHECK_DEADLOCK FALSE
