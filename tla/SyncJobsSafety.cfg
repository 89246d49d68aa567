SPECIFICATION Spec
CONSTANTS
  a1 = a1  p1 = p1  p2 = p2  w1 = w1  w2 = w2
  Accounts <- OneAccount
  Products <- OneProduct
  Workers <- TwoWorkers
  Kinds <- PollAndWebhook
  MetaAccounts <- OneAccount
  MaxFailures = 2
  MaxRowsPerTick = 2
  BackpressureMax = 2
  SlowSyncs = FALSE
  ForcedRelease = FALSE
  MaxWaiting = 1
  MaxDisturbances = 2
INVARIANT TypeOK
INVARIANT SyncMutex
INVARIANT LockJustified
PROPERTY ImplementsExclusive
SYMMETRY Symmetry
CHECK_DEADLOCK FALSE
