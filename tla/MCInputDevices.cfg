SPECIFICATION FairSpec
CONSTANTS
  card = card
  kbd1 = kbd1
  kbd2 = kbd2
  Devices = {card, kbd1, kbd2}
  Api <- MCApi
  Keys <- MCKeys
  MaxLines = 1
  MayFail = {kbd2}
  Inverted <- MCInverted
  Events <- MCEvents
  Commanded <- MCCommanded
  PinDog <- MCPinDog
  NormalState <- MCNormalState
  PollPeriod = 1
  StartupDelay = 2
  MaxLate = 1
INVARIANTS
  TypeOK
  ReportsAreTrue
PROPERTIES
  ReportHasCause
  CommandsSettle
