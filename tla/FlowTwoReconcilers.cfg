SPECIFICATION Spec
CONSTANTS
  shop = shop
  ride = ride
  w1 = w1
  w2 = w2
  None = None
  Payments <- JustShop
  Instant <- Nobody
  Reconcilers <- TwoWorkers
  Late <- JustShop
  MaxAttempts = 2
  RailStatus <- FullLife
  SyncStatus <- EarlyAnswers
  MaxLost = 0
  Gross <- MCGross
  Fee <- MCFee
CHECK_DEADLOCK FALSE
SYMMETRY Symmetric
INVARIANTS TypeOK LedgerBalanced BackedByTheRail DisputedFundsStay PayoutNeedsConfirmation OfferedFundsAreHeld CodeSpent EventsTellTheTruth OneOrderEach
PROPERTIES LockedFundsStay SettlementIsFinal
