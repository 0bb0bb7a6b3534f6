CONSTANTS
  NoTime = NoTime
  NoState = NoState
  None = None
  QuoteFeed <- MCQuoteFeed
  BarFeed <- MCBarFeed
  MaxClock = 2
  Requests = {r1}
  Symbols = {"ACME"}
  ReplaySymbols = {"ACME"}
  ReplayValue = "replay"
  Skews <- MCSkews
  Window = 1
  BarWindow = 2
  Limit = 2
  MaxNow = 3
  MaxRows = 2
SPECIFICATION Spec
INVARIANTS
  TypeOK
  AnswersNeverGoBack
  AnswersHonest
  HealthHonest
