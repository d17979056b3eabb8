SPECIFICATION AnalysisSpec
CONSTANTS
  Bars <- MCBars
  Window = 1
  BreakSwings = 4
  MinBreak = 0
  SwingAtr = 3
  MaxBars = 7
  AmdBars = 2
  Prices <- MCPrices
  LastBars <- MCLastBars
  Tolerance = 4
  MinTouches = 2
  MaxSwings = 3
  GapBars <- MCGapBars
  MinGap = 15
  MinScore = 70
  MaxAge = 4
  MaxGapBars = 5
  BlockBars <- MCBlockBars
  MaxBlockBars = 6
  MinDisp = 15
  Atr = 4
  BodyBars = 4
  MinRecord = 75
  TapeBars <- MCTapeBars
  MaxTape = 7
  RecentBars = 2
  Lookback = 2
  Bins = 5
  MinBars = 4
INVARIANTS
  StrongestSurvives
  OteInTextbookHalf
  ValueAreaIsSmallest
PROPERTIES
  NoRepaint
  PoolsPersist
  FilledGapStaysFilled
  TrapVerdictStands
