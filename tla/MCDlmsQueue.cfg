CONSTANTS
  NumBuf = 4
  Limit = 2
  MaxMsg = 8
SPECIFICATION FairQueueSpec
INVARIANTS
  QueueTypeOK
  PromptCfmMatches
  BuffersConserved
  SentInOrder
PROPERTIES
  RelayImplemented
  AcceptedIsRequested
CHECK_DEADLOCK FALSE
