SPECIFICATION LogFairSpec
CONSTANTS
  d1 = d1
  p1 = p1
  l1 = l1
  l2 = l2
  NoDog = NoDog
  NoLine = NoLine
  Dogs = {d1}
  Pins = {p1}
  Inverted = {}
  PinDog <- MCPinDog
  NormalState <- MCNormalState
  Timeout <- MCTimeout
  Slots <- MCSlots
  Lines = {l1, l2}
  AlarmLines = {l1, l2}
  PulsePeriod <- MCPulsePeriod
  TimeoutLine <- MCTimeoutLine
  ResetLine <- MCResetLine
  DayLen = 6
  PollPeriod = 1
  ScanPeriod = 2
  StartupDelay = 2
  PulseLen = 1
  MaxLate = 1
PROPERTIES
  PulsesAnnounce
  AlarmSounds
