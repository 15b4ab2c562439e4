\* Two threads, two keys and two tables on Linux; two captures and two TUNs on
\* Windows; two sessions; three-bit addresses and four-byte DNS messages.
CONSTANTS
    Threads = {s, t}
    Keys = {a, b}
    None = None
    LastTable = 2
    MaxSteps = 4
    Cidrs = {a, b}
    MaxTuns = 2
    MaxCalls = 3
    Ids = {a, b}
    MaxOps = 3
    MaxFaults = 2
    Width = 3
    Packet = 4
    Steps = 6
    Passes = 3
SPECIFICATION Spec
PROPERTIES RoutesAreSafe CallsAreAnswered SessionsAreWithdrawn
CHECK_DEADLOCK FALSE
