CONSTANTS
  DlmsOTcp = 3
  Emu = 4
  Invalid = 255
  PageLen = 2
  NumRec = 5
  MaxStart = 0
SPECIFICATION AnsweredSpec
PROPERTIES
  NodeListArrives
CHECK_DEADLOCK FALSE
