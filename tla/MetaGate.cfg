SPECIFICATION GateSpec
CONSTANTS
  m1 = m1  t1 = t1  page = page  App = app
  c1 = c1  c2 = c2
  Meta <- OneMeta
  Threads <- OneThreads
  Calls <- TwoCalls
  Assets <- OneAsset
  AssetOf <- OnPage
  Waits <- UpToOne
  Reports <- Said2
  Life = 2
  Budget = 1
  MaxReports = 2
  MaxReplays = 1
  MaxFaults = 1
INVARIANT GateTypeOK
PROPERTY OnlyChecksUnderWay
PROPERTY ReplayRestores
PROPERTY OthersRun
CHECK_DEADLOCK FALSE
