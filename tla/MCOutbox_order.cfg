SPECIFICATION Spec
CONSTANTS
  LastReply = 3
  Chunks <- MCChunks3
  Files <- MCFiles3
  Flaky <- MCFlaky3
  MaxAttempts = 2
  VoiceMode = FALSE
  FaultKinds = {"send", "answer", "record", "ledger", "done", "event"}
  MaxFaults = 2
  MaxCrashes = 2
INVARIANTS
  InOrder
  RepeatsHaveCauses
CHECK_DEADLOCK FALSE
