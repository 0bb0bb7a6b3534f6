CONSTANTS
  NoTime = NoTime
  NoState = NoState
  Watchlist <- MCWatchlist
  QuoteFeed <- MCQuoteFeed
  BarFeed <- MCBarFeed
  Attempts = 3
  MaxClock = 3
  MaxFaults = 0
SPECIFICATION Spec
INVARIANTS
  CacheAgreesWithStore
