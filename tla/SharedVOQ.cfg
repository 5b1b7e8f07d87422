CONSTANTS
  A = A
  B = B
  C = C
  T = T
  Ports = Ports
  Dst = {1, 2}
  Switch <- Tree
  NextHop <- TreeNextHop
  Flow <- OneSender
  Win <- TreeWin
  Hash <- Collide
  WinToR = 2
  WinCore = 2
  Sizes = {1, 2}
  MaxPkts = 2
  IngressMode = TRUE
  K = 2
  DelayAck = FALSE
  ThAck = 0
  VoqLimit = 1
  DynamicHash = TRUE
SPECIFICATION FairSpec
INVARIANTS VOQsConsistent HeadsBlocked
PROPERTIES AllDelivered
CHECK_DEADLOCK FALSE
