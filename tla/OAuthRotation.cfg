CONSTANTS
  s1 = s1
  q1 = q1
  q2 = q2
  x1 = x1
  x2 = x2
  x3 = x3
  f1 = f1
  f2 = f2
  v1 = v1
  Nothing = Nothing
  Sessions <- MCSession
  Consents <- MCConsent
  Exchanges <- MCExchange
  Refreshes <- MCRefreshes
  Revocations <- MCRevocation
  Backend = "disk"
  MaxFaults = 1
  MaxCrashes = 0
SPECIFICATION Spec
INVARIANTS TypeOK UnavailableLeavesNothing RotationKillsOldPair
PROPERTY PairsDieTogether
CHECK_DEADLOCK FALSE
