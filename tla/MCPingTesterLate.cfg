SPECIFICATION Spec
CONSTANTS
  t1 = t1
  t2 = t2
  host = host
  i1 = i1
  i2 = i2
  i3 = i3
  Testers = {t1, t2}
  Address <- LateAddress
  Pings <- LatePings
  ValidPings <- LateValidPings
  Interval <- LateInterval
  Over = Over
  Second = 1
  Ids = {i1, i2, i3}
  FreshIds = TRUE
  MaxRtt = 3
  MaxLate = 0
PROPERTIES
  JudgesItsOwnRun
