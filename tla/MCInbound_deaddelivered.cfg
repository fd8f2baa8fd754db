SPECIFICATION Spec
CONSTANTS
  LastUpdate = 1
  MaxAttempts = 2
  LedgerLimit = 1
  FaultKinds = {}
  MaxFaults = 0
  MaxCrashes = 0
INVARIANT DeadLetterWasNotDelivered
CHECK_DEADLOCK FALSE
