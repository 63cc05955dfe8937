SPECIFICATION Spec
CONSTANTS
  Process = {p1, p2}
  NoProcess = NoProcess
  Absent = Absent
  Empty = Empty
  Whole = Whole
  Other = Other
  Worlds <- MCWorlds
SYMMETRY Symmetric
INVARIANTS
  TypeOK
  PublishedInOrder
  SynchronizedSurvives
PROPERTIES
  RepublicationRepairs
  KeepsIdentity
CHECK_DEADLOCK FALSE
