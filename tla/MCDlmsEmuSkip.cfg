CONSTANTS
  NumNode = 4
  NumBlock = 2
  MaxAstray = 0
SPECIFICATION EmuSpec
INVARIANTS
  CycleCoversNodes
