SPECIFICATION SignalSpec
CONSTANTS
  Sub = 4
  Closes <- SomeCloses
  Atrs <- SomeAtrs
  Levels <- SomeLevels
  MinRR = 2
  Views <- ManyViews
  MinConfluence = 65
  MinPublish = 72
  MinOpposing = 2
  Strategies = {s1, s2}
  MinN = 2
  Cap = 3
  Contexts <- ManyContexts
  EmaZone = 1
  RetraceMin = 25
  RetraceMax = 75
  RsiReset = 45
  RsiLookback = 6
  BandAtr = 6
  VolMult = 15
  RetestAtr = 5
  MinScore = 6
INVARIANTS
  RewardHolds
  StopOutsideNoise
  ShortsMirrorLongs
  ConfirmationNeverHurts
  StrategiesMirror
  NoProvenLoserPublished
PROPERTY
  EarnsItsWayBack
