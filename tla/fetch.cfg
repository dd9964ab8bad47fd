SPECIFICATION Spec
CONSTANTS
    Machine <- MCMachine
    Type <- MCType
    Selections <- MCSelections
    Pasters <- MCPasters
    Arrivals <- MCArrivals
    m1 = m1
    m2 = m2
    text = text
    image = image
    None = None
    MaxConns = 2
    MaxLosses = 1
    MaxCopies = 2
    MaxFetches = 2
    MaxTimeouts = 1
    Capacity = 1
INVARIANT FetchInv
INVARIANT RightAnswer
INVARIANT PasteNotStale
