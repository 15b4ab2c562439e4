SPECIFICATION Spec
CONSTANTS
    Mains = {m1}
    Others = {o1}
    None = None
    Service = FALSE
    CoreLogs = FALSE
    RestoreProxy = TRUE
    CaptureFails = TRUE
    Ops = {"connect", "restart", "tun", "stop", "proxy"}
    ProxyChoices = {FALSE, TRUE}
    MaxEpoch = 2
INVARIANTS
    LeaseKeepsUserProxy
PROPERTIES
    StopReleasesOurProxy
    SystemProxySurvivesReconfiguration
CHECK_DEADLOCK FALSE
