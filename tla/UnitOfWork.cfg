CONSTANTS
  r1 = r1
  r2 = r2
  c1 = c1
  c2 = c2
  Requests <- MCRequests
  Changes <- MCChanges
SPECIFICATION Spec
INVARIANTS TypeOK FailedLeavesOnlyExplicit
PROPERTY ExitIsAllOrNothing
CHECK_DEADLOCK FALSE
