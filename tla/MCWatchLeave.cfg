\* Two clients that may do anything, the threads in turn.
SPECIFICATION FairSpec
CONSTANTS
    Client = {c1, c2}
    OddOnly = {c1}
    Clumsy = {c1, c2}
    Ack = Ack
    Nack = Nack
    NoOne = NoOne
    Junk = Junk
    Fd = {5, 6}
    Asks <- MCAsks
    MaxRequests = 1
    MaxGood = 1
    LastLine = 2
    Matches <- MCMatches
    Leaver = {c1, c2}
    Staller = {c1, c2}
    Failures = TRUE
    Overlap = FALSE
PROPERTIES ServiceSpec Released
CHECK_DEADLOCK FALSE
