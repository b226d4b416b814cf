SPECIFICATION FairSpec
CONSTANTS
  shop = shop
  ride = ride
  w1 = w1
  w2 = w2
  None = None
  Payments <- JustRide
  Instant <- JustRide
  Reconcilers <- OneWorker
  Late <- JustRide
  MaxAttempts = 1
  RailStatus <- PuzzlingLife
  SyncStatus <- OpenAnswers
  Limit = 2
  MaxLost = 1
  Gross <- MCGross
  Fee <- MCFee
CHECK_DEADLOCK FALSE
PROPERTIES CompletedCollectionIsHeld PayoutIsResolved ReleaseIsNotForgotten
