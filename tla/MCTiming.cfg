SPECIFICATION TimingSpec
CONSTANTS
  Fds = {1, 2}
  ListenFd = 0
  NoFd = 99
  Conns = {c1, c2}
  NoConn = NoConn
  k1 = k1
  k2 = k2
  Keys = {k1}
  NoKey = NoKey
  Kept <- SameKept
  Requests <- LifeRequests
  IdleLimit = 2
  SweepEvery = 2
  RoundMax = 1
  EventCap = 2
  WarnPort = TRUE
  Backlog = 1
  MaxTime = 6
  InCap = 1
  OutCap = 0
  NoticeCap = 1
SYMMETRY ConnSymmetry
INVARIANTS IdleAreEvicted
PROPERTIES EvictsOnlyTheIdle
