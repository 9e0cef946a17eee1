SPECIFICATION Spec
CONSTANTS
  d1 = d1
  d2 = d2
  p1 = p1
  p2 = p2
  NoDog = NoDog
  Dogs = {d1, d2}
  Pins = {p1, p2}
  Inverted = {p2}
  PinDog <- MCPinDog
  NormalState <- MCNormalState
  Timeout <- MCTimeout
  Slots <- MCSlots
  DayLen = 9
  PollPeriod = 1
  ScanPeriod = 2
  StartupDelay = 2
  MaxLate = 1
INVARIANTS
  AlarmInEverySlot
