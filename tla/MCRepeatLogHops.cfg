\* A line another host sent us is repeated; hops are forbidden.
SPECIFICATION Spec
CONSTANTS
    Line = {a, long}
    LongLine = {long}
    LocalHost = here
    Remote = {there}
    Kinds = {"forw"}
    NoHops = TRUE
    Interval <- MCInterval
    TimerIntvl = 3
    Boot = 7
    Suspend = 4
    Retries = 1
    Outcomes = {"ok"}
    WatchThreads = FALSE
    Sigterm = TRUE
    OthersFail = FALSE
    Empty = Empty
    MaxLines = 3
    MaxTime = 6
INVARIANT NoRemoteForwarded
CHECK_DEADLOCK FALSE
