\* A destination, a file or another host whose name may not be known at first: repetitions, empty and long lines, hops forbidden, time, SIGHUP, SIGTERM, refused writes and lookups in vain.
SPECIFICATION Spec
CONSTANTS
    Line = {Empty, long}
    LongLine = {long}
    LocalHost = here
    Remote = {there}
    Kinds = {"file", "forw", "unkn"}
    NoHops = TRUE
    Interval <- MCInterval
    TimerIntvl = 3
    Boot = 7
    Suspend = 4
    Retries = 1
    Outcomes = {"ok", "full", "hard"}
    WatchThreads = TRUE
    Sigterm = TRUE
    OthersFail = TRUE
    Empty = Empty
    MaxLines = 3
    MaxTime = 6
INVARIANTS TypeOK Exact NothingLost ExitFlushed LeftOut HeldBriefly
PROPERTY PatientWithHost
CONSTRAINT Prompt
CHECK_DEADLOCK FALSE
