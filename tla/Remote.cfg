SPECIFICATION FairSpec
CONSTANTS
  m1 = m1
  t1 = t1
  t2 = t2
  a1 = a1
  o1 = o1
  Machine = {m1}
  Thread = {t1, t2}
  MachineOf <- OneMachine
  Action = {a1}
  Output = {o1}
  Faults = {"rpc", "gc", "evict", "corrupt", "io", "kill"}
INVARIANT TypeOK
INVARIANT ServedWasStored
INVARIANT ResultAfterBlobs
INVARIANT ResultsBacked
PROPERTY RequestsEnd
