\* Handlers on a watch thread while logmsg is at work.
SPECIFICATION Spec
CONSTANTS
    Line = {a, long}
    LongLine = {long}
    LocalHost = here
    Remote = {there}
    Kinds = {"file"}
    NoHops = FALSE
    Interval <- MCInterval
    TimerIntvl = 3
    Boot = 7
    Suspend = 4
    Retries = 1
    Outcomes = {"ok"}
    WatchThreads = TRUE
    Sigterm = FALSE
    OthersFail = FALSE
    Empty = Empty
    MaxLines = 3
    MaxTime = 6
INVARIANT EveryLineLogged
CHECK_DEADLOCK FALSE
