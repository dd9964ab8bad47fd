SPECIFICATION FairSpec
CONSTANTS
    A = A
    B = B
    Client <- MCClient
    Home = Home
    Own = Own
    None = None
    Adaptive = Adaptive
    Sightings <- MCSightings
    Frame <- MCFrame
    MinSleep = 5
    NotifyCooldown = 5
INVARIANT LinkInv
INVARIANT QueueStaysShort
PROPERTY MirrorCatchesUp
