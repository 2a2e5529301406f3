SPECIFICATION Spec
CONSTANTS
  Orders = {o1, o2}
  Keys = {k1}
  NoKey = NoKey
  KeyChoices = {k1}
  SlowPolling = TRUE
  RefreshPerCycle = 1
  NoLimit <- MCNoLimit
  Listings <- ListingsThree
  Watchlists <- WatchTwo
  SettingsChoices <- SetListing
  Money = 5
SYMMETRY OrderSymmetry
INVARIANT LiveIsCounted MoneyWithinBudget
PROPERTY OrdersWithinCaps ListingOrderedOnce
