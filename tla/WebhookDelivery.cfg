SPECIFICATION FairSpec
CONSTANTS
  paid = paid
  ping = ping
  shopUrl = shopUrl
  badUrl = badUrl
  w1 = w1
  w2 = w2
  s1 = s1
  Events <- MCEvents
  Tests <- MCTests
  Endpoints <- MCEndpoints
  Malformed <- MCMalformed
  Wants <- MCWants
  Workers <- MCWorkers
  Staff <- MCStaff
  MaxAttempts = 2
  Limit = 1
  MaxActive = 1
  MaxCrashes = 1
  MaxReplays = 1
  MaxSelected = 1
CHECK_DEADLOCK FALSE
INVARIANTS AttemptsAreRecorded DuplicatesHaveACause RetriesHaveAttemptsLeft
PROPERTIES EveryDeliveryEnds
