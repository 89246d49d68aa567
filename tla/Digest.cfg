SPECIFICATION FairSpec
CONSTANTS
  i1 = i1  i2 = i2  e1 = e1  e2 = e2
  Items <- TwoItems
  Endpoints <- TwoEndpoints
  SampleCap = 1
  BatchSize = 1
  MaxDisturbances = 1
INVARIANT ItemsConserved
INVARIANT SamplesFaithful
INVARIANT DigestsBounded
PROPERTY BucketsDrain
CHECK_DEADLOCK FALSE
