SPECIFICATION FairSpec
CONSTANTS
  o1 = o1
  o2 = o2
  t1 = t1
  t2 = t2
  p1 = p1
  p2 = p2
  None = None
  Orders <- MCOrders
  Transfers <- MCTransfers
  Pollers <- MCPollers
  Amount <- SameAmount
  Value <- SameValue
  Meant <- MCMeant
  Rows = 1
  Lookback = 1
  Life = 1
  MaxTime = 3
CHECK_DEADLOCK FALSE
INVARIANTS MatchIsOurs HandedOverTogether
PROPERTIES WatchClosesOnce ClaimsAreExclusive WatchIsClosed
