SPECIFICATION Spec
CONSTANTS
  Accounts = {a1}
  Placements = {p1, p2}
  Trades = {t1}
  AccountOf <- OneAccount
  Secret = {a1}
  ConfIds = {"other"}
  Attempts = 2
  RESEND_ATTEMPTS = 2
  SaveFails = FALSE
  MaxClock = 1
  None = None
  Unread = Unread
INVARIANT MarketTypeOK OrdersKept
PROPERTY RemovedStaysRemoved OwnConfirmationFirst
SYMMETRY PlacementSymmetry
