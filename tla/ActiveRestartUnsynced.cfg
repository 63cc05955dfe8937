SPECIFICATION Spec
CONSTANTS
  d = d  f = f
  Path = {d, f}
  Root = Root
  Parent <- ParentDF
  Above <- AboveDF
  Absent = Absent
  Plans <- AllPlans
  Rejects <- RejectsDF
  Worlds <- CrashOnly
PROPERTIES
  ConfirmedIsDurable
CHECK_DEADLOCK FALSE
