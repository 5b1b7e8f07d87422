CONSTANTS
  p1 = p1
  p2 = p2
  Port = {p1, p2}
  Queue = {3}
  Off = {}
  Static = {}
  Threshold <- AllThreshold
  Divisor <- AllDivisor
  Headroom <- AllHeadroom
  Th = 0
  Shift = 1
  Room = 2
  Reserve = 1
  ResumeOffset = 2
  Pool = 4
  Infinite = 1000
  Word = 256
  Sizes = {1, 2}
  MaxStored = 7
  MaxFlight = 2
  MaxFrames = 3
SPECIFICATION FairSpec
INVARIANTS TypeOK Accounted HeadroomBounded PoolBounded ResumeFindsPause SharedExact BufferBounded
PROPERTIES EventuallyResumed
