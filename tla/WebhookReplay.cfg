SPECIFICATION Spec
CONSTANTS
  d1 = d1  d2 = d2  s1 = s1  s2 = s2
  Deliveries <- OneDelivery
  Slots <- OneSlot
  MaxAttempts = 3
  Faults <- None
  SlowAttempts = FALSE
  MaxDisturbances = 1
PROPERTY DeliveredIsFinal
CHECK_DEADLOCK FALSE
