SPECIFICATION Spec
CONSTANTS
  shop = shop
  ride = ride
  w1 = w1
  w2 = w2
  None = None
  Payments <- JustShop
  Instant <- Nobody
  Reconcilers <- OneWorker
  Late <- JustShop
  MaxAttempts = 1
  RailStatus <- KnownLife
  SyncStatus <- OpenAnswers
  MaxLost = 0
  Gross <- MCGross
  Fee <- MCFee
CHECK_DEADLOCK FALSE
PROPERTY ExpiredStartsAreRejected
