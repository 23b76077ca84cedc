SPECIFICATION FairSpec
CONSTANTS
  JobId = {j1, j2}
  NoJob = NoJob
  Conn = {c1}
  BatchId = {b1}
  NoBatch = NoBatch
  Capacity = 2
  MaxRequests = 2
  MaxEvents = 5
PROPERTY FailedArrives
CHECK_DEADLOCK FALSE
