SPECIFICATION FairSpec
CONSTANTS
  JobId = {j1, j2}
  Tester = {t1}
  Worker = Worker
  NoJob = NoJob
  MaxRestarts = 1
INVARIANTS SpoolMatchesReports PrintingHoldsLock FilesAreOwned
PROPERTIES FollowsLifecycle JobIsAnswered
CHECK_DEADLOCK FALSE
