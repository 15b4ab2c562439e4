\* Liveness, with the pages that write through, the service row of the settings
\* page and changes nobody reports.
CONSTANTS
    Actions = {"Connect", "Disconnect", "Upgrade"}
    Sources = {"Service", "Activate", "Open", "World"}
    SlowInterval = 1
    MaxCommands = 1
    MaxChanges = 1
SPECIFICATION FairSpec
PROPERTIES ViewConverges
CHECK_DEADLOCK FALSE
