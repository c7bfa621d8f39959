SPECIFICATION FairSpec
CONSTANTS
  Files <- MCFiles
  Envs <- MCEnvs
  Nil = Nil
  Absent = Absent
  Broken = Broken
  Malformed = Malformed
  Batches = {0, 1, 4}
  IntBound = 8
  ChanMax = 5
INVARIANT TypeOK
INVARIANT DegradesNotDies
INVARIANT SecureWhenAsked
INVARIANT LocalOnlyForCause
PROPERTY StartupEnds
CHECK_DEADLOCK FALSE
