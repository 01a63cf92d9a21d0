SPECIFICATION TimingSpec
CONSTANTS
  Fds = {1, 2, 3}
  ListenFd = 0
  NoFd = 99
  Conns = {c1, c2}
  NoConn = NoConn
  k1 = k1
  k2 = k2
  Keys = {k1, k2}
  NoKey = NoKey
  Kept <- SameKept
  Requests <- NoticeRequests
  IdleLimit = 0
  SweepEvery = 0
  RoundMax = 0
  EventCap = 2
  WarnPort = TRUE
  Backlog = 2
  MaxTime = 0
  InCap = 1
  OutCap = 0
  NoticeCap = 1
SYMMETRY ConnSymmetry
PROPERTIES NoticesNameTheirSender
