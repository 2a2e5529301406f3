SPECIFICATION FairTickSpec
CONSTANTS
  HasPassword = TRUE
  AutoGuard = FALSE
  RateLimited = TRUE
  LoginRetryMax = 1
  ReconnectMax = 2
  LateEvents = FALSE
  MaxTimers = 1
PROPERTY Recovers
