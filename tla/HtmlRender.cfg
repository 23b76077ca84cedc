SPECIFICATION FairSpec
CONSTANTS
    Render = render
    User = {render, d1}
    Timeout = 3
    CdpTimeout = 1
    MaxCandidates = 2
INVARIANTS
    LaunchGate
    CallsEndByDeadline
    NoLateOutput
    BrowserIsEquipped
PROPERTIES
    RejectionFailsRender
    RenderEnds
    EverythingReleased
CHECK_DEADLOCK FALSE
