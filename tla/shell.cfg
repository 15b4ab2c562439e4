\* Three launches of any kind and a crash; one refusal of the desktop; three blocks and two
\* streams of codes; two downloads from two servers;
\* three fetches of three resources, one load at a time; two starts of the kernel among another's
\* tunnels.
CONSTANTS
    Processes = {p, q, r}
    None = None
    MaxCrashes = 1
    MaxFaults = 1
    Streams = {1, 2}
    BlockCount = 3
    MaxDegree = 3
    Requests = {d, e}
    Transports = {"curl", "ios"}
    Origins = {1, 2}
    MaxIdle = 2
    Callers = {a, b, c}
    Resources = {x, y, z}
    Concurrency = 1
    Capacity = 2
    MaxStarts = 2
    Plans <- TunPlans
    Others <- OthersTunnels
    Tables <- RoutingTables
    Physical <- Ethernet
SYMMETRY Alike
SPECIFICATION Spec
INVARIANTS OneApplication
PROPERTIES WindowComesBack OutsideIsChecked
CHECK_DEADLOCK FALSE
