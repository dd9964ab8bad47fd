SPECIFICATION FairSpec
CONSTANTS
    Server = Server
    Client = Client
    None = None
    Prober = Prober
    MaxStarts = 3
    Settings <- MCSettings
CHECK_DEADLOCK FALSE
INVARIANT LifecycleInv
PROPERTY OneAtATime
PROPERTY SomeoneRuns
PROPERTY UpdateTakesEffect
PROPERTY ProtocolsMeetAgain
