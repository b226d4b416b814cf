SPECIFICATION ServicesSpec
CONSTANTS
  Services = {"merchants"}
  None = None
  Vacant = Vacant
  payg = payg
  monthly = monthly
  Plans = {payg, monthly}
  Payg = payg
  Listed <- Seeded
  Rates <- MCRates
  MaxAssigned = 1
  PlanRequestIds = {r1}
  PlanLimit = 1
  PlanPollers = {w1, w2}
  FirstAnswers = {"pending"}
  ApiKeys = {k1}
  Calls = {c1}
  Orders = {o1}
  Amount <- MCAmount
  MaxSecrets = 2
  MaxSessions = 2
  BreakerThreads = {t1, t2}
  FailureThreshold = 3
  FailureWindow = 2
  OpenTime = 3
  HalfOpenTime = 2
  Clients = {t1, t2}
  RateLimit = 2
  RateWindow = 2
  BlockTime = 2
  Syncs = {s1, s2}
  Extensions = {x1, x2}
  MaxRegistration = 3
  Jobs = {j1, j2}
  Users = {t1, t2}
  Testers = {t2}
  TokenLife = 2
  LocalShift <- MCShift
  MinLife = 1
  DefaultLife = 3
  Margin = 1
  MaxLogins = 2
  MaxClock = 1
  Emails = {e1}
  Browsers = {t1, t2}
  Deciders = {s1, s2}
  Statuses = {"submitted", "under_review", "approved"}
  MaxReviews = 2
  ProfileFields = {tax_id}
  Completable = {tax_id}
  Identity = {tax_id}
  Contact = {tax_id}
  Answers = {v1}
  Blank = Blank
  OwnerRequests = {r1}
  Officers = {s1}
CHECK_DEADLOCK FALSE
INVARIANTS OnePaymentPerOrder
