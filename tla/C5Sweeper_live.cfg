SPECIFICATION FairSpec
CONSTANTS
  Orders = {o1, o2}
  Keys = {k1}
  NoKey = NoKey
  KeyChoices = {k1, NoKey}
  SlowPolling = TRUE
  RefreshPerCycle = 1
  NoLimit <- MCNoLimit
  Listings <- ListingsSingle
  Watchlists <- WatchPair
  SettingsChoices <- SetSingle
  Money = 2
PROPERTY UnknownResolved
