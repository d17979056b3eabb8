SPECIFICATION Spec
CONSTANTS
  Trades = {t1}
  Plans <- BuyOnly
  Prices <- MCPrices
  Trails = {1}
  InvalidationExit = TRUE
  TimeStop = TRUE
PROPERTY RunnerClosesInProfit
