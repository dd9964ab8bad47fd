SPECIFICATION Spec
CONSTANTS
    Client = {A, B}
    None = None
    HistoryLen = 1
    Window = 2
    ReusePorts = FALSE
    MaxMoves = 4
    MaxControls = 3
SYMMETRY Symmetry
CHECK_DEADLOCK FALSE
INVARIANT MotionInv
PROPERTY DeliversOnce
