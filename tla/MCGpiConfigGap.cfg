SPECIFICATION Spec
CONSTANTS
  IntOf <- MCIntOf
  TimeOf <- MCTimeOf
  BoolOf <- MCBoolOf
  Texts <- MCTexts
  Inputs <- MCInputs
  MaxDevices = 2
  MaxLines = 2
INVARIANT PinsFeedTheirDogs
CHECK_DEADLOCK FALSE
