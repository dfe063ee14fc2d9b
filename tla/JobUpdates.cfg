CONSTANTS
  j1 = j1
  s1 = s1
  s2 = s2
  Jobs <- MCOneJob
  Cancellable <- MCOneJob
  Permits = 1
  Stages = 1
  MaxRetries = 1
  MaxFaults = 1
  MaxCrashes = 1
  Sockets <- MCSockets
  Watches <- MCWatches
SPECIFICATION JSpec
PROPERTY UpdatesReachEveryClient
PROPERTY EndIsHeardLast
CHECK_DEADLOCK FALSE
