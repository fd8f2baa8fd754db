SPECIFICATION FairSpec
CONSTANTS
  LastReply = 2
  Chunks <- MCChunks
  Files <- MCFiles
  Flaky <- MCFlaky
  MaxAttempts = 2
  VoiceMode = TRUE
  FaultKinds = {"send", "answer", "read", "enqueue", "record", "ledger", "done", "queue", "event"}
  MaxFaults = 2
  MaxCrashes = 1
INVARIANTS
  TypeOK
  LedgerMeansDelivered
  NoReplyLost
PROPERTIES
  EveryReplySettles
CHECK_DEADLOCK FALSE
