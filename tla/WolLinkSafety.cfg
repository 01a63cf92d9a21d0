SPECIFICATION Spec
CONSTANTS
  BindEvery = 3
  BeatEvery = 1
  MaxClock = 9
  Late = 1
  MaxLost = 2
  MaxRetry = 1
  Sockets = 1
  ResetDelay = 1
  MaxWarn = 1
  OtherOrders = {"wol_send"}
  IdleLimit = 3
  SweepEvery = 1
  RoundMax = 1
  WireCap = 2
  DelayMax = 1
INVARIANTS DeadLinkIsNoticed WarningsAreHeard BindsAreHeard
PROPERTIES GiveUpHasACause EvictionHasACause
