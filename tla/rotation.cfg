SPECIFICATION Spec
CONSTANTS
    Endpoint <- MCEndpoint
    IpOf <- MCIpOf
    FpOf <- MCFpOf
    Local = Local
    None = None
    ReactivatePongs = 1
    MaxConns = 3
    ReusePorts = TRUE
    Quieters = {1}
    Copiers = {1}
    Restarts = TRUE
INVARIANT RotationInv
INVARIANT SingleActive
INVARIANT NoStuckKeys
INVARIANT FileFollowsTarget
PROPERTY EscapeHatch
PROPERTY SilenceYieldsToUser
PROPERTY NoFocusTheft
PROPERTY OwnerLossClears
