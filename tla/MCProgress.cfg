SPECIFICATION FairSpec
CONSTANTS
  MaxTurns = 2
  MaxPushes = 2
  MaxReplies = 2
  BubbleFaults = 1
  BubbleCrashes = 1
  SubAgents = {s1, s2}
  MaxRecords = 3
  WatcherTroubles = 1
INVARIANTS
  TypeOK
  StraysHaveCauses
  RepliesAreKept
  WorkIsListed
PROPERTIES
  BubblesGo
  ListingGoes
CHECK_DEADLOCK FALSE
