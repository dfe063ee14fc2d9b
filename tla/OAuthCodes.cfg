CONSTANTS
  s1 = s1
  q1 = q1
  q2 = q2
  x1 = x1
  x2 = x2
  x3 = x3
  f1 = f1
  f2 = f2
  v1 = v1
  Nothing = Nothing
  Sessions <- MCSession
  Consents <- MCConsents
  Exchanges <- MCExchanges
  Refreshes <- MCNone
  Revocations <- MCNone
  Backend = "redis"
  MaxFaults = 1
  MaxCrashes = 1
SPECIFICATION Spec
INVARIANTS CodesIssueOnce PairsAreWhole
PROPERTY ImplementsCodeGrant
CHECK_DEADLOCK FALSE
