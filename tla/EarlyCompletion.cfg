SPECIFICATION FairSpec
CONSTANTS
  shop = shop
  ride = ride
  w1 = w1
  w2 = w2
  None = None
  Payments <- JustShop
  Instant <- Nobody
  Reconcilers <- OneWorker
  Late <- Nobody
  MaxAttempts = 1
  RailStatus <- KnownLife
  SyncStatus <- EarlyAnswers
  Limit = 2
  MaxLost = 0
  Gross <- MCGross
  Fee <- MCFee
CHECK_DEADLOCK FALSE
PROPERTY CompletedCollectionIsHeld
