SPECIFICATION FairSpec
CONSTANTS
  w1 = w1  w2 = w2
  Workers <- OneWorker
  Cron = cron
  MaxTokens = 3
  MaxDisturbances = 2
INVARIANT PairKept
INVARIANT DisconnectForgets
PROPERTY DeadIsFlagged
PROPERTY FalseFlagHeals
CHECK_DEADLOCK FALSE
