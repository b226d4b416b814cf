SPECIFICATION Spec
CONSTANTS
  shop = shop
  ride = ride
  w1 = w1
  w2 = w2
  None = None
  Payments <- MCPayments
  Instant <- JustRide
  Reconcilers <- OneWorker
  Late <- JustRide
  MaxAttempts = 2
  RailStatus <- DeclinedLife
  SyncStatus <- OpenAnswer
  MaxLost = 1
  Gross <- MCGross
  Fee <- MCFee
CHECK_DEADLOCK FALSE
INVARIANTS StatusFollowsHold SessionTellsTheTruth ReportsAgree
PROPERTIES KeepsTheContract
