SPECIFICATION FairSpec
CONSTANTS
  Trades = {t1}
  Plans <- MCPlans
  Prices <- MCPrices
  Trails = {0, 1}
  InvalidationExit = TRUE
  TimeStop = TRUE
INVARIANTS
  TypeOK
  BookedMatchesStage
PROPERTIES
  KeepsBookedProfit
  ImplementsStages
  DeadTradesAreCut
