SPECIFICATION Spec
CONSTANTS
  e1 = e1  e2 = e2  th = th  rm = rm  ot = ot
  a1 = a1  a2 = a2  t1 = t1  k1 = k1  h1 = h1  h2 = h2
  Events <- AllEvents
  Kind <- TheKinds
  Accounts <- FourAccounts
  Named <- TheNamed
  Enrolled <- TheEnrolled
  Requests <- TheRequests
  Handlers <- TwoHandlers
  MaxSends = 3
  MaxTurns = 1
  MaxFaults = 1
INVARIANT EnqueuedOnce
INVARIANT LostOnlyByFault
CHECK_DEADLOCK FALSE
