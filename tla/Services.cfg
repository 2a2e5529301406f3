SPECIFICATION ServicesFairSpec
CONSTANTS
  MaxJobs = 2
  Logons = {a1, a2, a3}
  Limits = {0, 1, 2}
  Window = 2
  MaxRecent = 4
  t1 = t1
  t2 = t2
  Tasks <- MCTasks
  Games = {"cs2", "tf2"}
  Plans <- MCPlans
  Cart <- MCCart
  Funds = 3
  Broadcast = TRUE
  None = None
  Entries = 3
  Workers = {w1, w2}
  StatusPolls = 2
INVARIANT ServicesTypeOK PollSound LimitKept  BuyGameHonest RedeemHonest
PROPERTY  NothingHangs
CHECK_DEADLOCK FALSE
