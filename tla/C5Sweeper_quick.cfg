SPECIFICATION Spec
CONSTANTS
  Orders = {o1, o2}
  Keys = {k1}
  NoKey = NoKey
  KeyChoices = {k1}
  SlowPolling = FALSE
  RefreshPerCycle = 1
  NoLimit <- MCNoLimit
  Listings <- ListingsOne
  Watchlists <- WatchOne
  SettingsChoices <- SetReserve
  Money = 5
SYMMETRY OrderSymmetry
INVARIANT MoneyWithinBudget
PROPERTY ReserveHeld
