\* A server, and another start while it starts, runs, ends or is killed.
SPECIFICATION Spec
CONSTANTS
    Starts = 2
    Pids = 3
    Modes <- MCModes
    MaxCrashes = 1
INVARIANTS TypeOK OneServer Reachable
PROPERTIES ParentAfterInit Settles
CHECK_DEADLOCK FALSE
