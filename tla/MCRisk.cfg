SPECIFICATION RiskSpec
\* the streak lock really stops the program from trading
CHECK_DEADLOCK FALSE
CONSTANTS
  Symbols <- ThreeSymbols
  Market <- ThreeMarkets
  Groups <- OnePair
  Tickets <- ThreeTickets
  RiskPct = 1
  MaxOpen = 2
  MaxHeat = 5
  MaxExposure <- Exposure
  DailyLimit = 3
  WeeklyLimit = 6
  MaxStreak = 3
  Results <- AnyResult
  MaxWeek = 3
  MaxUnbooked = 2
  Tradable <- Quoted
  Contract <- MCContract
  Configured <- Watchlist
  Default <- MCDefault
  QuoteValue <- MCQuoteValue
  Balances <- MCBalances
  BL_BALANCE = 1000
  Stops <- MCStops
  Rewards <- MCRewards
  MaxRiskPct = 2
  MinRR = 2
INVARIANTS
  BookWithinCaps
  LosingRunBounded
  RiskWithinMax
