SPECIFICATION Spec
CONSTANTS
  LastUpdate = 2
  MaxAttempts = 2
  LedgerLimit = 1
  FaultKinds = {"reserve"}
  MaxFaults = 1
  MaxCrashes = 0
INVARIANT ConfirmedNeverLost
CHECK_DEADLOCK FALSE
