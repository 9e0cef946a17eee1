SPECIFICATION Spec
CONSTANTS
  Byte = 4
  EchoRequest = 2
  Ids = {0, 9}
  Seqnos = {1, 15}
  Data <- MCData
  Strays <- MCStrays
INVARIANTS
  PingIsRight
PROPERTIES
  HearsTheRight
  AnswerIsHeard
