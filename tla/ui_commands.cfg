\* A command with every way it can fail, the startup maintenance and the command
\* it runs, diagnostics, and an edit that requests a refresh, beside the pump.
CONSTANTS
    Actions = {"Tun", "NetworkSettings"}
    Sources = {"Startup", "Edit", "Diagnostics"}
    SlowInterval = 1
    MaxCommands = 1
    MaxChanges = 1
SPECIFICATION Spec
INVARIANTS NoOvertakenRead RefreshReprobes MaintenanceExcludesCommands
PROPERTIES PublishedAfterCommand ViewNeverGoesBack
CHECK_DEADLOCK FALSE
