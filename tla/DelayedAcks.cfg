CONSTANTS
  A = A
  B = B
  C = C
  T = T
  Ports = Ports
  Dst = {1, 2}
  Switch <- Tree
  NextHop <- TreeNextHop
  Flow <- Mixed
  Win <- TreeWin
  Hash <- Collide
  WinToR = 2
  WinCore = 1
  Sizes = {1}
  MaxPkts = 2
  IngressMode = TRUE
  K = 1
  DelayAck = TRUE
  ThAck = 1
  VoqLimit = 1
  DynamicHash = FALSE
SPECIFICATION Spec
INVARIANTS NoStrandedCredits
PROPERTIES HoldBack
CHECK_DEADLOCK FALSE
