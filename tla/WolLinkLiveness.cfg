SPECIFICATION FairSpec
CONSTANTS
  BindEvery = 2
  BeatEvery = 1
  MaxClock = 9
  Late = 0
  MaxLost = 2
  MaxRetry = 2
  Sockets = 2
  ResetDelay = 1
  MaxWarn = 1
  OtherOrders = {}
  IdleLimit = 2
  SweepEvery = 1
  RoundMax = 1
  WireCap = 1
  DelayMax = 0
PROPERTIES SilenceEnds Reconnects
