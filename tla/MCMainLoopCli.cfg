CONSTANTS
  Server <- MCPair
  Single <- MCOnlyDlms
  Usi = 6
  PrimeMng = 1
  Cli = 2
  DlmsOTcp = 3
  MaxConn = 2
  MaxFd = 7
  MaxBacklog = 1
SPECIFICATION LoopSpec
INVARIANTS
  CliFdIsCli
