SPECIFICATION FairSpec
CONSTANTS
  JobId = {j1, j2}
  NoJob = NoJob
  Conn = {c1, c2}
  BatchId = {b1}
  NoBatch = NoBatch
  Capacity = 1
  MaxRequests = 1
  MaxEvents = 3
INVARIANTS OwnJobsOnly AnswerFirst DeliveredInOrder
PROPERTY EventsArrive
CHECK_DEADLOCK FALSE
