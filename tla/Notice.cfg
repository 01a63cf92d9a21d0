SPECIFICATION FairSpec
CONSTANTS
  Keys = {k1, k2}
  Other = Other
  Nobody = Nobody
  Minute = 4
  TimeoutMax = 5
  MinDial = 2
  MaxDial = 3
  MaxHops = 2
  Grace = 2
  QueueCap = 2
CHECK_DEADLOCK FALSE
INVARIANTS HopIsBounded
PROPERTIES OneAMinute EndsWhenTold
