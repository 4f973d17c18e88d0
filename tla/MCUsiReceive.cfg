CONSTANTS
  Frame <- MCFrame
  Content <- MCContent
  MinLen = 2
  Cap = 28
  Backlog = 14
  MaxDamage = 2
SPECIFICATION RxSpec
INVARIANTS
  RxTypeOK
  StaleIsZero
  ResyncLosesOne
PROPERTIES
  LineImplemented
  EveryFrameArrives
CHECK_DEADLOCK FALSE
