CONSTANTS
  DlmsOTcp = 3
  Emu = 4
  Invalid = 255
  PageLen = 2
  NumRec = 5
  MaxStart = 3
  Node <- MCNode
  NoAddr = 0
  Wrap = 4
  NodeOf <- MCNodeOf
SPECIFICATION ListSpec
INVARIANTS
  ListTypeOK
  HandledOnce
  OneCyclePerStart
  ViewSound
  ViewComplete
