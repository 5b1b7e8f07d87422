CONSTANTS
  Size = 5
  Mtu = 2
  Win = 0
  AckInterval = 1
  Chunk = 4
  BackTo0 = FALSE
  NackReaction = TRUE
  UseRTO = TRUE
  Word = 256
  MaxFlight = 3
  MaxDataLoss = 2
  MaxAckLoss = 1
SPECIFICATION FairSpec
INVARIANTS TypeOK AckedIsReceived TailIsTimed QuietWhenDone CompletesOnce
PROPERTIES ImplementsTransfer FlowCompletes
CHECK_DEADLOCK FALSE
