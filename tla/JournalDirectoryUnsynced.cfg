SPECIFICATION Spec
CONSTANTS
  c1 = c1  c2 = c2  p1 = p1  p2 = p2  d1 = d1  d2 = d2  r1 = r1
  v1 = v1  v2 = v2  k1 = k1  k2 = k2
  Caller = {c1}
  Process = {p1, p2}
  ProcessOf <- TwoProcesses
  Declaration = {d1}
  Request = {r1}
  RequestOf <- OneRequest
  Sequence = {0}
  StepValue = {v1, v2}
  Cursor = {k1, k2}
  Absent = Absent
  NoProcess = NoProcess
  Ops <- LocatorOperations
  Faults = {"crash", "power"}
INVARIANTS
  DurableLocatorResolves
