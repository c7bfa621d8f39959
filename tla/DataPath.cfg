SPECIFICATION FairSpec
CONSTANTS
  MaxRequests = 2
  Thread <- Requests
  Body <- Contents
  Content <- Contents
  Stored <- OnRemote
  Foreign <- Named
  LineMax = 11
  Chunk = 2
  BatchSizes = {1, 3}
  MsgMax = 2
  MaxArtifact = 3
  Faults = {"rpc", "io", "corrupt", "gc", "evict"}
INVARIANT TypeOK
INVARIANT ReadAsAsked
INVARIANT DigestsTrue
INVARIANT OnlySent
INVARIANT UploadedIsThere
INVARIANT ServedExactly
INVARIANT NoStrayTemp
INVARIANT FailsForCause
PROPERTY AllRead
PROPERTY TransfersEnd
CHECK_DEADLOCK FALSE
