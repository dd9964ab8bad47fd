SPECIFICATION Spec
CONSTANTS
    Endpoint <- TwoEndpoints
    IpOf <- MCIpOf
    FpOf <- MCFpOf
    Local = Local
    None = None
    ReactivatePongs = 1
    MaxConns = 2
    ReusePorts = TRUE
    Quieters = {}
    Copiers = {}
    Restarts = FALSE
INVARIANT CurrentActivated
