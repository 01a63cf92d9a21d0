SPECIFICATION FairSpec
CONSTANTS
  HoldSamples = 3
  BlinkTurns = 4
  BlinkLit = 2
  Announces = 2
INVARIANTS OneClient LedTellsTheTruth
PROPERTIES LightFollowsSession HoldingRestores ClientRuns
