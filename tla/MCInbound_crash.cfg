SPECIFICATION Spec
CONSTANTS
  LastUpdate = 2
  MaxAttempts = 2
  LedgerLimit = 1
  FaultKinds = {"offset", "outage"}
  MaxFaults = 1
  MaxCrashes = 1
INVARIANTS
  ConfirmedAccounted
  FifoDelivery
PROPERTIES
  BuriedAfterAllAttempts
  KeepsCustody
CHECK_DEADLOCK FALSE
