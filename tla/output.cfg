SPECIFICATION Spec
CONSTANTS
    K = K
    B = B
    T = T
    X = X
    Code <- MCCode
    Button <- MCButton
    Repeating <- MCRepeating
    Supports <- MCSupports
    MaxPending = 2
    MaxBatch = 2
INVARIANT OutputInv
INVARIANT IdleHoldsNothing
