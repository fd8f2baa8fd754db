SPECIFICATION Spec
CONSTANTS
  LastReply = 1
  Chunks <- MCOne
  Files <- MCNone
  Flaky = {}
  MaxAttempts = 2
  VoiceMode = FALSE
  FaultKinds = {"ledger"}
  MaxFaults = 1
  MaxCrashes = 0
INVARIANT LedgerFailureKeepsRecord
CHECK_DEADLOCK FALSE
