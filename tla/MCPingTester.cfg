SPECIFICATION FairSpec
CONSTANTS
  t1 = t1
  t2 = t2
  host = host
  i1 = i1
  i2 = i2
  i3 = i3
  Testers = {t1, t2}
  Address <- MCAddress
  Pings <- MCPings
  ValidPings <- MCValidPings
  Interval <- MCInterval
  Over = Over
  Second = 2
  Ids = {i1, i2}
  FreshIds = FALSE
  MaxRtt = 3
  MaxLate = 0
INVARIANTS
  TypeOK
  CleanRunPasses
PROPERTIES
  OutageReported
  RecoveryReported
