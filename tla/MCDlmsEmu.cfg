CONSTANTS
  NumNode = 3
  NumBlock = 2
  MaxAstray = 2
SPECIFICATION FairEmuSpec
INVARIANTS
  EmuTypeOK
  MaxCoversNodes
  NeverStalls
  OneActivity
PROPERTIES
  CycleEnds
