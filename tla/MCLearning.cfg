SPECIFICATION LearningSpec
CONSTANTS
  Keep = 3
  Briers <- MCBriers
  MaxClosed = 5
  MaxFaults = 3
  Results <- MCResults
  MaxTrades = 4
  Trades = {t1}
  Plans <- MCPlans
  Prices <- MCPrices
  Trails = {1}
  InvalidationExit = TRUE
  TimeStop = TRUE
  LookForward = 4
INVARIANTS
  AcceptedIsLoadable
  LiveBeatsBase
  DifferByLiveExitsOnly
