CONSTANTS
  Node = {n1, n2}
  MaxChange = 2
  MaxCmd = 2
SPECIFICATION CliSpec
INVARIANTS
  CliTypeOK
  InfoComplete
  ListFresh
  FlagIsServed
