SPECIFICATION OperationsSpec
CONSTANTS
  Hours = 4
  DigestHour = 2
  Days = 3
  Sunday = 2
  Patience = 2
  RetryAfter <- MCRetryAfter
  Events <- TwoEvents
  Symbols <- TwoSymbols
  CacheTtl = 2
  Window = 1
  MaxTime = 6
  Pairs <- TwoPairs
  Cooldown = 3
  AlertGap = 2
  Threshold = 3
  StaleFactor = 3
  MaxNews = 1
INVARIANTS
  NoDigestTwice
  NeverTwice
  KnownEventsStayGuarded
PROPERTIES
  UpMeansDigest
  DeadFeedIsAlerted
