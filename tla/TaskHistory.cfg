SPECIFICATION HistorySpec
CONSTANTS
  JobId = {j1, j2}
  NoJob = NoJob
  Tester = {t1}
  NoRow = NoRow
  LogCapacity = 2
  MaxReports = 5
  MaxClears = 1
  MaxRestarts = 1
SYMMETRY Symmetry
INVARIANTS RowSummarisesEvents HistoryFollowsReports
CHECK_DEADLOCK FALSE
