SPECIFICATION Spec
CONSTANTS
  i1 = i1  i2 = i2
  log1 = log1  d1 = d1  d2 = d2  d3 = d3
  Instances <- TwoReplicas
  First = i1
  MaxRuns = 3
  Rows <- FewRows
  Tables = 2
  TableOf <- DeliveriesLast
  Outbound = 2
  Counted = {}
  BATCH_SIZE = 2
  DryRun = FALSE
  Stored <- AllKinds
  Past <- AllDeliveries
  MaxChanges = 1
  MaxFaults = 1
INVARIANT InTimeAlone
PROPERTY SweptClean
PROPERTY OpenStays
PROPERTY SweepEnds
CHECK_DEADLOCK FALSE
