CONSTANTS
  Cli = 2
  DlmsOTcp = 3
  Emu = 4
  Nobody = 255
  FrameLen = 2
  TxSize = 5
  Word = 8
  MaxAsked = 2
SPECIFICATION UsiSpec
INVARIANTS
  DlmsReplyArrives
