SPECIFICATION FairSpec
CONSTANTS
  d1 = d1  d2 = d2  s1 = s1  s2 = s2
  Deliveries <- OneDelivery
  Slots <- TwoSlots
  MaxAttempts = 3
  Faults <- AllFaults
  SlowAttempts = FALSE
  MaxDisturbances = 1
INVARIANT DeliveredWasAccepted
INVARIANT BoundedPosts
PROPERTY NoSilentLoss
CHECK_DEADLOCK FALSE
