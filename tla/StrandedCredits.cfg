CONSTANTS
  A = A
  B = B
  C = C
  T = T
  Ports = Ports
  Dst = {1}
  Switch <- Tree
  NextHop <- TreeNextHop
  Flow <- Incast
  Win <- TreeWin
  Hash <- Collide
  WinToR = 3
  WinCore = 3
  Sizes = {1, 2}
  MaxPkts = 2
  IngressMode = FALSE
  K = 2
  DelayAck = FALSE
  ThAck = 0
  VoqLimit = 0
  DynamicHash = FALSE
SPECIFICATION Spec
INVARIANTS NoStrandedCredits
CHECK_DEADLOCK FALSE
