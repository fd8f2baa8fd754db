SPECIFICATION Spec
CONSTANTS
  LastReply = 2
  Chunks <- MCChunks
  Files <- MCFiles
  Flaky <- MCFlaky
  MaxAttempts = 2
  VoiceMode = TRUE
  FaultKinds = {}
  MaxFaults = 0
  MaxCrashes = 0
INVARIANT OrderIsPreserved
CHECK_DEADLOCK FALSE
