\* Three edits and two rule editors; two rule sets, two saves and two jobs; three profiles
\* and three of the user's actions; two children and five lines; three sites on two slots;
\* two nodes, three tests and a change of the kernel.
CONSTANTS
    None = None
    Sets = {a, b}
    Profiles = {p, q, r}
    Sites = {1, 2, 3}
    Nodes = {a, b}
    MaxEdits = 3
    MaxOpened = 2
    MaxSaves = 2
    MaxJobs = 2
    MaxImports = 1
    MaxActions = 3
    Buffer = 2
    TailLen = 2
    MaxOutput = 3
    MaxLines = 5
    MaxStarts = 2
    Limit = 2
    MaxUrls = 2
    MaxProbes = 3
    MaxTests = 3
    MaxViews = 1
SYMMETRY Alike
SPECIFICATION Spec
INVARIANTS ChildrenAreReaped
PROPERTIES RulesAreKept ListFollowsStore TestsAreCurrent
CHECK_DEADLOCK FALSE
