CONSTANTS
  Dev = {1, 2}
  Dst = {0, 1}
  PerDst = FALSE
  DelayAcks = TRUE
  K = 3
  T = 2
  Sizes = {1, 2}
  MaxCredit = 3
SPECIFICATION Spec
INVARIANTS TypeOK OldestArmed ReturnedInTime
