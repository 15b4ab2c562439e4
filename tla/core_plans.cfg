SPECIFICATION Spec
CONSTANTS
    Mains = {m1, m2}
    Others = {}
    None = None
    Service = TRUE
    CoreLogs = TRUE
    RestoreProxy = TRUE
    CaptureFails = FALSE
    Ops = {"ready", "connect", "restart", "select", "tun", "stop", "cli", "crash", "poll"}
    ProxyChoices = {FALSE}
    MaxEpoch = 2
INVARIANTS
    TypeOK
    IdleIsSettled
    RunningPlanIsLive
    RunsSelectedProfile
    ClockRunsIffListening
PROPERTIES
    SessionSurvivesReconfiguration
    StandbyOpensOnlyAfterRepair
    CrashVerdictIsTrue
CHECK_DEADLOCK FALSE
