SPECIFICATION FairSpec
CONSTANTS
  Dialogues <- MCDialogues
  Agents = {"claude", "codex"}
  Retries = 1
  FaultKinds = {"typed", "refused", "silence", "hook", "foreign", "note", "late", "send"}
  MaxFaults = 1
INVARIANTS
  TypeOK
  RepliesReachTheAsker
  AnswersAreStored
  TerminalStaysLocal
PROPERTIES
  EndsHaveCauses
  TurnsComeAndGo
CHECK_DEADLOCK FALSE
