\* One channel with a frame a second; four log lines of two times, of which
\* a page shows two and the store keeps three, two mounts and a restart;
\* four samples and a restart; two readers of two connections under two plans.
CONSTANTS
    Channels = {"traffic"}
    Periodic = {"traffic"}
    Threshold = 1
    Grace = 1
    Step = 1
    Cap = 1
    Window = 4
    MaxOps = 2
    Writers = {w1, w2}
    MaxLines = 4
    MaxLog = 3
    MaxShown = 2
    Times = {1, 2}
    Compact = 2
    MaxMounts = 2
    MaxStarts = 1
    States = {1, 2}
    MaxRecent = 2
    MaxIncidents = 3
    Gap = 2
    MaxClock = 4
    MaxStores = 4
    MaxRestarts = 1
    Readers = {list, detail}
    MaxInstances = 2
    MaxConns = 2
    Unread = "unread"
SYMMETRY Alike
SPECIFICATION Spec
INVARIANTS LogIsComplete
PROPERTIES StreamsAreCurrent RecordsAreTrue
CHECK_DEADLOCK FALSE
