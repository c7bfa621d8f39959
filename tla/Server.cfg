SPECIFICATION FairSpec
CONSTANTS
  r1 = r1
  r2 = r2
  r3 = r3
  w1 = w1
  w2 = w2
  k1 = k1
  k2 = k2
  cl = cl
  Req = {r1, r2, r3}
  CloseReq = cl
  Key = {k1, k2}
  KeyOf <- Keys
  Worker = {w1, w2}
  QueueCap = 2
  SemCap = 1
INVARIANT TypeOK
INVARIANT NoUseAfterClose
INVARIANT WaitersHaveLeader
PROPERTY ServiceSpec
PROPERTY AllAnswered
\* The program ends.
CHECK_DEADLOCK FALSE
