SPECIFICATION CaptureSpec
CONSTANTS
  Process = {p1, p2}
  Content = {c1, c2}
  Meta = {m1, m2}
  Purpose = {u1, u2}
  MaxChanges = 1
  Torn = Torn
  NoContent = NoContent
  NoObject = NoObject
  Unobserved = Unobserved
  Unknown = Unknown
  NoProcess = NoProcess
  Absent = Absent
  Empty = Empty
  Bound = Bound
  Worlds <- MCWorlds
SYMMETRY Symmetric
INVARIANTS
  ObservedAtOnce
  NoDebris
  OneAnswer
  SynchronizedSurvives
  ExactIsSingle
PROPERTIES
  RecordHasPayload
CHECK_DEADLOCK FALSE
