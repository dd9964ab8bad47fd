SPECIFICATION FairSpec
CONSTANTS
    A = A
    P = P
    Key <- MCKey
    Chord <- MCChord
    Scenario <- MCScenario
    MaxUnread = 1
    MaxQueue = 2
    MaxNotices = 2
INVARIANT InputInv
INVARIANT KeysComeUp
PROPERTY GrabSettles
