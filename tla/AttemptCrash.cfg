SPECIFICATION Spec
CONSTANTS
  d = d  f = f
  Path = {d, f}
  Root = Root
  Parent <- ParentDF
  Above <- AboveDF
  Absent = Absent
  Plans <- AllPlans
  Rejects <- RejectsDF
  Worlds <- AttemptWorlds
INVARIANTS
  BackendTypeOK
  RecoveryIsExact
  AppliedAsPlanned
  NeverContradictory
  DiscardLeavesNothing
  RecoveryFindsItsParent
  WorkHasAuthority
  AcceptedIsStored
  ConfirmedRestarts
PROPERTIES
  OldObjectKept
  ConfirmedIsFlushed
  KeepsPromise
CHECK_DEADLOCK FALSE
