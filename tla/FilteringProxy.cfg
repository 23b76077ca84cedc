SPECIFICATION FilterSpec
CONSTANTS
    Resource = {r1, r2}
    None = None
INVARIANTS
    OnlyApprovedAddresses
    FirstRejectionCounts
CHECK_DEADLOCK FALSE
