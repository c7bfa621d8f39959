SPECIFICATION Spec
CONSTANTS
  Files <- MCFiles
  Envs <- MCEnvs
  Nil = Nil
  Absent = Absent
  Broken = Broken
  Malformed = Malformed
  Batches = {0, 1, 4}
  IntBound = 8
  ChanMax = 5
CHECK_DEADLOCK FALSE
INVARIANT PlainWhenAsked
