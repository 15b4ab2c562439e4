\* The database with two mutations, a failing transaction and a crash; the
\* proxy lease with three takes and two crashes; the update on three platforms.
CONSTANTS
    Ids = {1, 2}
    MaxRevision = 2
    MaxErrors = 1
    MaxStops = 1
    Ports = {1, 2}
    MixedPort = 1
    User = 3
    MaxTakes = 3
    MaxCrashes = 2
    Platforms = {"linux", "windows", "android"}
    Size = 2
    MaxSerial = 5
    MaxInstalls = 2
    MaxSpoils = 1
SPECIFICATION Spec
INVARIANTS RowsAreWhole
PROPERTIES StorageKeepsContract  UpdateIsSafe WorkIsFinished
CHECK_DEADLOCK FALSE
