CONSTANTS
  Size = 4
  Mtu = 1
  Win = 2
  AckInterval = 1
  Chunk = 2
  BackTo0 = FALSE
  NackReaction = FALSE
  UseRTO = TRUE
  Word = 256
  MaxFlight = 3
  MaxDataLoss = 0
  MaxAckLoss = 0
SPECIFICATION Spec
INVARIANTS WinBoundsOnTheFly

CHECK_DEADLOCK FALSE
