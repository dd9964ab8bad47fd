SPECIFICATION FairSpec
CONSTANTS
    a = a
    b = b
    None = None
    Dwell = 2
    Cooldown = 3
    MaxFeed = 2
    Capacity = 1
    Settings <- MCSettings
INVARIANT EdgeInv
PROPERTY OneSwitchPerVisit
PROPERTY SwitchIsMeant
PROPERTY DwellEnds
