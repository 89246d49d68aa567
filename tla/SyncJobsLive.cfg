SPECIFICATION FairSpec
CONSTANTS
  a1 = a1  p1 = p1  p2 = p2  w1 = w1  w2 = w2
  Accounts <- OneAccount
  Products <- OneProduct
  Workers <- OneWorker
  Kinds <- PollAndManual
  MetaAccounts <- OneAccount
  MaxFailures = 2
  MaxRowsPerTick = 2
  BackpressureMax = 2
  SlowSyncs = TRUE
  ForcedRelease = TRUE
  MaxWaiting = 1
  MaxDisturbances = 2
PROPERTY QueuedResolves
PROPERTY LiveRowKeepsSyncing
PROPERTY StoppedQuiesces
PROPERTY BreakerTrips
CHECK_DEADLOCK FALSE
