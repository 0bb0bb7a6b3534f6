CONSTANTS
  NoTime = NoTime
  NoState = NoState
  Watchlist <- MCWatchlist
  QuoteFeed <- MCQuoteFeed
  BarFeed <- MCBarFeed
  Attempts = 3
  MaxClock = 3
  MaxFaults = 3
SPECIFICATION FairSpec
INVARIANTS
  TypeOK
  CacheIsDurable
  StoreBehindOnlyOnReversion
  FailuresOnRecord
PROPERTIES
  PointInTimeStable
  ReconnectsEarned
  LastMessageKept
  EventuallyHealthy
  ImplementsMarketLog
