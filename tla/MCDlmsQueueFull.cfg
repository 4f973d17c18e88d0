CONSTANTS
  NumBuf = 5
  Limit = 1
  MaxMsg = 6
SPECIFICATION QueueSpec
INVARIANTS
  NeverOutOfBuffers
CHECK_DEADLOCK FALSE
