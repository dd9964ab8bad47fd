SPECIFICATION FairSpec
CONSTANTS
    Machine = {A, B}
    None = None
    MaxConns = 2
    MaxCopies = 2
    MaxSwitches = 3
CHECK_DEADLOCK FALSE
INVARIANT HandoffInv
INVARIANT PasteIsTarget
PROPERTY PreDropCopySurvives
PROPERTY OnlyNewsAnnounced
