SPECIFICATION FairSpec
CONSTANTS
  l1 = l1
  l2 = l2
  Lines = {l1, l2}
  AlarmLines = {l1, l2}
  PulsePeriod <- MCPulsePeriod
  PulseLen = 3
  MaxLate = 1
INVARIANTS
  TypeOK
  PendingIsOn
  PulseEnds
PROPERTIES
  FullPulse
  Heartbeat
