SPECIFICATION Spec
CONSTANTS
  Agent = {a1}
  Client = {c1, c2}
  Port = {1, 2}
  DefaultPort = 1
  MaxExports = 1
  MaxStarts = 2
  None = None
  Command <- MCCommand
SYMMETRY Symmetry
INVARIANTS AtMostOnce ConfirmedImport CommandsAccumulate
CHECK_DEADLOCK FALSE
