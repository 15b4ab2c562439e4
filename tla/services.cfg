\* The Linux daemon and the Windows service, both with two clients' worth of
\* commands, one crash, one killed installer and one elevated installation.
CONSTANTS
    Clients = {a, b}
    Configs = {f, g}
    None = None
    Torn = Torn
    Backlog = 2
    MaxCalls = 2
    MaxCrashes = 1
    MaxKills = 1
    MaxInstalls = 1
SPECIFICATION Spec
INVARIANTS ServicesAreSafe
PROPERTIES DaemonKeepsContract ServiceKeepsContract
CHECK_DEADLOCK FALSE
