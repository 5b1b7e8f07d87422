CONSTANTS
  Sizes = {1, 2}
  Win = 2
  K = 2
  PerDst = FALSE
  DelayAcks = TRUE
  OtherDsts = TRUE
  Word = 8
  MaxPsn = 5
  MaxWire = 2
  MaxAcks = 2
SPECIFICATION FairSpec
INVARIANTS TypeOK PsnsOrdered OutstandingBounded
PROPERTIES ImplementsAckLoop RecentRecovers
CHECK_DEADLOCK FALSE
