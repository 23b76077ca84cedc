SPECIFICATION FairSpec
CONSTANTS
    Conversions = 2
    Pids = {1, 2}
    MaxStarts = 2
    None = None
INVARIANTS
    OpenedOnce
    DiskMatchesResult
PROPERTIES
    SparesExisting
    EndsUnlessPiped
CHECK_DEADLOCK FALSE
