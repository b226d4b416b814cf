SPECIFICATION Spec
CONSTANTS
  shop = shop
  ride = ride
  w1 = w1
  w2 = w2
  None = None
  Payments <- JustRide
  Instant <- JustRide
  Reconcilers <- OneWorker
  Late <- Nobody
  MaxAttempts = 1
  RailStatus <- KnownLife
  SyncStatus <- OpenAnswers
  MaxLost = 1
  Gross <- MCGross
  Fee <- MCFee
CHECK_DEADLOCK FALSE
INVARIANT OnePayoutOrder
