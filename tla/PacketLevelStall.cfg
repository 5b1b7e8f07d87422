CONSTANTS
  Size = 5
  Mtu = 2
  Win = 4
  Chunk = 4
  BackTo0 = FALSE
  UseRTO = TRUE
  MaxCopies = 1
  MaxLoss = 2
SPECIFICATION FairSpec

PROPERTIES FlowCompletes
CHECK_DEADLOCK FALSE
