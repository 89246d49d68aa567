SPECIFICATION Spec
CONSTANTS
  c1 = c1  c2 = c2  app = app   quota = quota  list = list  report = report
  Clients <- TwoClients
  Buckets <- TwoBuckets
  Daily <- TheDaily
  Kinds <- TwoKinds
  HintsOf <- TheHints
  CostOf <- TheCosts
  Capacity <- TheCapacity
  Refill <- TheRefill
  Day <- OneTickDays
  TTL = 2
  MaxDelay = 1
  MaxTime = 3
  MaxResets = 1
INVARIANT TypeOK
INVARIANT GrantsBounded
INVARIANT NothingLost
INVARIANT WaitSuffices
SYMMETRY EitherClient
CHECK_DEADLOCK FALSE
