SPECIFICATION LiveSpec
CONSTANTS
  Attempts = 3
  MaxFaults = 1
INVARIANT TypeOK
INVARIANT OwnRunIsUploaded
INVARIANT NothingIsLeft
INVARIANT TroubleHasCause
PROPERTY AttemptsEnd
CHECK_DEADLOCK FALSE
