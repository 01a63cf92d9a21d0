SPECIFICATION LivenessSpec
CONSTANTS
  Fds = {1, 2}
  ListenFd = 0
  NoFd = 99
  Conns = {c1, c2, c3}
  NoConn = NoConn
  k1 = k1
  k2 = k2
  Keys = {k1}
  NoKey = NoKey
  Kept <- SameKept
  Requests <- LivenessRequests
  IdleLimit = 0
  SweepEvery = 0
  RoundMax = 0
  EventCap = 1
  WarnPort = TRUE
  Backlog = 2
  MaxTime = 0
  InCap = 1
  OutCap = 0
  NoticeCap = 1
PROPERTIES SignalEndsLoop QueuedIsServed ArrivedIsRead
