CONSTANTS
  j1 = j1
  j2 = j2
  Jobs <- MCJobs
  Cancellable <- MCOneJob
  Permits = 1
  Stages = 2
  MaxRetries = 2
  MaxFaults = 1
  MaxCrashes = 1
SPECIFICATION Spec
INVARIANTS TypeOK PermitsConserved TerminalRowsAreWhole
PROPERTIES SettledRowsStay JobsReachTheEnd ImplementsLifecycle
CHECK_DEADLOCK FALSE
