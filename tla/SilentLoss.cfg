CONSTANTS
  Sizes = {2}
  Win = 2
  K = 1
  PerDst = TRUE
  DelayAcks = FALSE
  OtherDsts = FALSE
  Word = 256
  MaxPsn = 4
  MaxWire = 2
  MaxAcks = 2
SPECIFICATION FairSpec
PROPERTIES WindowRecovers
CHECK_DEADLOCK FALSE
