\* A client leaves and another comes while a line is being delivered.
SPECIFICATION Spec
CONSTANTS
    Client = {c1, c2}
    OddOnly = {c1}
    Clumsy = {}
    Ack = Ack
    Nack = Nack
    NoOne = NoOne
    Junk = Junk
    Fd = {5}
    Asks <- MCAsks
    MaxRequests = 1
    MaxGood = 1
    LastLine = 2
    Matches <- MCMatches
    Leaver = {c2}
    Staller = {}
    Failures = FALSE
    Overlap = TRUE
INVARIANT OnlyMatching
CHECK_DEADLOCK FALSE
