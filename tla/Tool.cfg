SPECIFICATION ToolFairSpec
CONSTANTS
  p1 = p1
  p2 = p2
  g1 = g1
  h1 = h1
  h2 = h2
  Proxies = {p1, p2}
  Groups = {g1}
  Accounts = {h1, h2}
  Conns <- MCConns
  Bindings <- MCBindings
  Configs <- MCConfigs
  MaxEdits = 2
  Direct = Direct
  None = None
  KeepDays = 2
  LastDay = 3
  MaxRequests = 2
  Browsers = {h1, h2}
  MAX_FAILS_PER_IP = 2
  MAX_FAILS_GLOBAL = 4
  FAIL_WINDOW = 2
  LOCK = 2
  ttl = 3
  MaxTime = 3
  MaxSets = 2
  MaxTokens = 2
  MaxTries = 4
  Requests = {r1, r2, r3}
  Exits = {e1, e2}
  Gap = 2
  Cooldown = 3
  LastSecond = 4
  MaxUpdates = 3
  Owners = {h1, h2}
  PageSize = 1
  maxPages = 2
  MaxRows = 3
  MaxOpens = 2
  MaxLost = 1
  Nobody = Nobody
  NoJob = NoJob
  MaxGets = 4
  MaxCalls = 2
  MaxAsked = 4
  HasPassword = TRUE
  AutoGuard = FALSE
  RateLimited = FALSE
  LoginRetryMax = 1
  ReconnectMax = 2
  LateEvents = FALSE
  MaxTimers = 1
INVARIANT ToolTypeOK PoolKept UsageCounted LoginKept ReadsKept SessionKept
PROPERTY KeepsPromise SpacedOut  WindowsSettle
CHECK_DEADLOCK FALSE
