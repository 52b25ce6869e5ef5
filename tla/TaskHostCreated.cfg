SPECIFICATION Spec
CONSTANTS
  Attempts = 2
  MaxFaults = 1
INVARIANT CompleteIsProcessed
CHECK_DEADLOCK FALSE
