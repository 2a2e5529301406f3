SPECIFICATION PartsSpec
CONSTANTS
  h1 = h1
  h2 = h2
  t1 = t1
  t2 = t2
  a1 = a1
  a2 = a2
  w1 = w1
  w2 = w2
  None = None
  Anybody = Anybody
  Direct = Direct
  NoWay = NoWay
  Terminals = {w1, w2}
  MaxPicks = 2
  ProbeCandidates = 1
  TerminalClicks = 3
  Travellers = {a1}
  Ways = {w1, w2}
  LogonLimit = 1
  MaxMoves = 1
  MaxHops = 1
  MaxStarts = 3
  Players = {a1, a2}
  GamePacks = {1}
  GameLogins = 2
  GameAsks = 4
  GameTasks = 1
  GameSteps = 2
  SaleGoods = {t1, t2}
  WearOf <- MCWear
  Unworn = {t2}
  Allowed = {t1, t2}
  Ranges = 2
  Markets <- MCMarkets
  PriceThreshold = 10
  Caps = {0, 20}
  SaleMoves = 2
  UuUsers = {1, 2}
  UuHolders = {h1}
  UuSteamOf <- MCSteamOf
  MaxTokens = 2
  MaxWishes = 3
  Buyers = {h1}
  ShopGames = {"cs2", "tf2"}
  ShopOrders = {t1}
  MaxFunds = 1
  ShopMoves = 4
  ConfHolders = {h1, h2}
  ConfItems = {1, 2}
  ConfHolderOf <- MCHolderOf
  ConfDevices <- MCDevices
  ConfWaits = 1
  ConfAsks = 3
  ConfRefused = 1
  MarketPayers = {a1, a2}
  MarketWares = {w1}
  MarketCurrencies = {1}
  MarketEvents = 1
  MarketClicks = 5
  PeopleListed = {h1}
  PeopleNews = 3
  PeopleCalls = 1
  PeopleCuts = 1
  RowsAtStart = 1
  RowAsks = 1
  RowVersions = 2
  RowCuts = 1
  C5Wares = {t1}
  C5Prices = {1, 2}
  C5Changes = 2
  C5Asks = 2
  StockRows = {1, 2}
  StockThings <- MCThings
  StockItems = 2
  StockVersions = 4
  StockChanges = 1
  StockTime = 1
  HasPassword = TRUE
  AutoGuard = FALSE
  RateLimited = TRUE
  LoginRetryMax = 1
  ReconnectMax = 1
  LateEvents = TRUE
  MaxTimers = 1
SYMMETRY Symmetry
INVARIANT PartsTypeOK   ReadAsMeant LogonsKept
 
CHECK_DEADLOCK FALSE
