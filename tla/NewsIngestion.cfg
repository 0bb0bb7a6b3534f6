CONSTANTS
  Configurations <- MCConfigurations
  Kind <- MCKind
  Name <- MCName
  Editions <- MCEditions
  Malformed = Malformed
  Followed = {"8-K", "10-K", "10-Q", "6-K", "20-F"}
  NoText = NoText
  Blank = Blank
  MaxAttempts = 3
  Unread = Unread
SPECIFICATION FairSpec
INVARIANTS
  TypeOK
  PassCoversFeeds
PROPERTIES
  PassEnds
