SPECIFICATION FairSpec
CONSTANTS
    Mains = {m1}
    Others = {}
    None = None
    Service = FALSE
    CoreLogs = TRUE
    RestoreProxy = TRUE
    CaptureFails = FALSE
    Ops = {"ready", "connect", "restart", "select", "tun", "stop", "cli", "crash", "poll"}
    ProxyChoices = {FALSE}
    MaxEpoch = 2
INVARIANTS
    RunningPlanIsLive
PROPERTIES
    OperationsEnd
CHECK_DEADLOCK FALSE
