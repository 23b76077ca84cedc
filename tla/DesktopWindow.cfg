SPECIFICATION Spec
CONSTANTS
    None = None
    Printer = {"p", "q"}
    Paper = {1, 2}
    DefaultPaper = 1
    Origin = {"o"}
    Settings = {1, 2}
    MaxEdits = 4
INVARIANTS
    OnlySavedSettings
    
CHECK_DEADLOCK FALSE
