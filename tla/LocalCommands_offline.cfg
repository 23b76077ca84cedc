SPECIFICATION FairSpec
CONSTANTS
  Agent = {a1}
  Client = {c1}
  Port = {1, 2}
  DefaultPort = 1
  MaxExports = 1
  MaxStarts = 1
  None = None
  Command <- MCCommand
PROPERTY OfflineWithoutAgent
CHECK_DEADLOCK FALSE
