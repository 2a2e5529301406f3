SPECIFICATION Spec
CONSTANTS
  Orders = {o1, o2}
  Keys = {k1, k2}
  NoKey = NoKey
  KeyChoices = {k1, k2}
  SlowPolling = TRUE
  RefreshPerCycle = 2
  NoLimit <- MCNoLimit
  Listings <- ListingsOne
  Watchlists <- WatchOne
  SettingsChoices <- SetListing
  Money = 5
SYMMETRY OrderSymmetry
INVARIANT LiveIsCounted
