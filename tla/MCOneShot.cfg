SPECIFICATION FairSpec
CONSTANTS
  Scripts <- MCScripts
  MaxFaults = 1
  MaxDeaths = 1
INVARIANTS
  TypeOK
  ForgottenIsAccounted
  RerunsNeedAnUncleanEnd
  DirectoryHoldsMarker
PROPERTIES
  InOrder
  ResetSeparates
  AttachmentsAreOwn
  PromptsSettle
CHECK_DEADLOCK FALSE
