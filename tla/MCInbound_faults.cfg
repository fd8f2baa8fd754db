SPECIFICATION FairSpec
CONSTANTS
  LastUpdate = 2
  MaxAttempts = 2
  LedgerLimit = 1
  FaultKinds = {"reserve", "offset", "ledger", "pending", "done", "fail", "move", "tmux"}
  MaxFaults = 1
  MaxCrashes = 0
INVARIANTS
  TypeOK
  ClaimsCirculateOnce
  NoDoubleDelivery
PROPERTIES
  EveryUpdateSettles
CHECK_DEADLOCK FALSE
