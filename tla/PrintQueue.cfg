SPECIFICATION FairSpec
CONSTANTS
  Conn = {c1, c2}
  JobId = {j1, j2, j3}
  BatchId = {b1}
  NoBatch = NoBatch
  NoJob = NoJob
  MaxBatchJobs = 2
  Submissions <- MCSubmissions
INVARIANTS NoLostWakeup EachJobOnce BatchContiguous
PROPERTIES ImplementsLedger AdmittedIsTaken ShutdownStopsWorker
CHECK_DEADLOCK FALSE
