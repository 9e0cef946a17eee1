SPECIFICATION FairSpec
CONSTANTS
  m1 = m1
  m2 = m2
  Monitors = {m1, m2}
  Timeout <- MCTimeout
  MaxQueue = 2
  MaxLate = 1
INVARIANTS
  TypeOK
  UpIsTimed
  SilenceReported
PROPERTIES
  NoFalseTimeout
  TrafficRestores
