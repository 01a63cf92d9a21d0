SPECIFICATION RoutingSpec
CONSTANTS
  Fds = {1, 2}
  ListenFd = 0
  NoFd = 99
  Conns = {c1, c2, c3}
  NoConn = NoConn
  k1 = k1
  k2 = k2
  Keys = {k1, k2}
  NoKey = NoKey
  Kept <- SameKept
  Requests <- RoutingRequests
  IdleLimit = 0
  SweepEvery = 0
  RoundMax = 0
  EventCap = 3
  WarnPort = TRUE
  Backlog = 1
  MaxTime = 0
  InCap = 1
  OutCap = 1
  NoticeCap = 1
SYMMETRY ConnSymmetry
INVARIANTS NamesAreOwn
PROPERTIES OrdersReachTheirKey AnswersTellTheTruth
