CONSTANTS
  Node = {n1, n2}
  MaxChange = 2
  MaxCmd = 1
SPECIFICATION CliSpec
INVARIANTS
  ListUpToDate
