SPECIFICATION Spec
CONSTANTS
    None = None
    Absent = Absent
    Width = 3
    c1 = c1
    c2 = c2
    p1 = p1
    p2 = p2
    Client = {c1, c2}
    Ip <- MCIp
    PageOrigin <- MCOrigin
    Requests <- MCRequests
    Configs <- MCConfigs
    MaxSaves = 1
    Printer = {p1, p2}
    PrinterStates <- MCPrinterStates
    Contents <- MCContents
INVARIANTS
    AcceptedIsComplete
    PrintedByOneConfig
    MediaFits
    SentByAllowedPages
CHECK_DEADLOCK FALSE
