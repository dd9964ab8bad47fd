SPECIFICATION FairSpec
CONSTANTS
    Endpoint <- TwoEndpoints
    IpOf <- MCIpOf
    FpOf <- MCFpOf
    Local = Local
    None = None
    ReactivatePongs = 2
    MaxConns = 2
    ReusePorts = FALSE
    Quieters = {1}
    Copiers = {Local}
    Restarts = FALSE
PROPERTY SilentClientIsLeft
PROPERTY SilencedClientRecovers
