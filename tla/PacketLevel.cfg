CONSTANTS
  Size = 7
  Mtu = 2
  Win = 4
  Chunk = 4
  BackTo0 = FALSE
  UseRTO = TRUE
  MaxCopies = 2
  MaxLoss = 2
SPECIFICATION FairSpec
INVARIANTS TypeOK RetransmitsOutstanding LastAckMeansAll WinBoundsOnTheFly TailIsTimed OutstandingUnderWay
PROPERTIES ImplementsTransfer TailCompletes
CHECK_DEADLOCK FALSE
