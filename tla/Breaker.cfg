SPECIFICATION FairSpec
CONSTANTS
  c1 = c1
  c2 = c2
  Caller = {c1, c2}
  Background = {c1}
  Threshold = 2
  Cooldown = 1
  MaxAttempts = 3
  MaxFailures = 3
INVARIANT TypeOK
INVARIANT OpenAfterThreshold
PROPERTY Recovers
PROPERTY CallsEnd
