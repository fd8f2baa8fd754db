SPECIFICATION FairSpec
CONSTANTS
  N = 2
  Installations <- MCInstallations
  MaxPid = 5
  MaxFaults = 1
  MaxDeaths = 1
  MaxExpiries = 1
  Retries = 0
INVARIANTS
  TypeOK
  OnePoller
  NoticesAreRare
  StoppedForNewCode
PROPERTIES
  SuccessMeansNewCode
  BridgesComeBack
CHECK_DEADLOCK FALSE
