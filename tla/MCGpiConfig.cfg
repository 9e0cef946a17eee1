\* A text without a logfile, or a card that does not open, ends the daemon.
SPECIFICATION Spec
CONSTANTS
  IntOf <- MCIntOf
  TimeOf <- MCTimeOf
  BoolOf <- MCBoolOf
  Texts <- MCTexts
  Inputs <- MCInputs
  MaxDevices = 2
  MaxLines = 2
INVARIANTS
  TypeOK
  DogsAreAsWritten
  
  EachLogfileOnce
  NumberedDevicesFeed
CHECK_DEADLOCK FALSE
