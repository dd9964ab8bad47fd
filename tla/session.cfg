SPECIFICATION FairSpec
CONSTANTS
    a = a
    b = b
    here = here
    None = None
    Machine = {a, b}
    Endpoint = {1, 2, 3}
    Address = {here, there}
    Rediscover = 3
    Settings <- MCSettings
CHECK_DEADLOCK FALSE
INVARIANT SessionInv
INVARIANT RightIdentity
INVARIANT EdgesAgree
PROPERTY ComesBack
