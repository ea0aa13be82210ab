\* Clients join while lines are delivered; nobody leaves and nothing fails.
SPECIFICATION FairSpec
CONSTANTS
    Client = {c1, c2}
    OddOnly = {c1}
    Clumsy = {}
    Ack = Ack
    Nack = Nack
    NoOne = NoOne
    Junk = Junk
    Fd = {5, 6}
    Asks <- MCAsks
    MaxRequests = 1
    MaxGood = 1
    LastLine = 3
    Matches <- MCMatches
    Leaver = {}
    Staller = {}
    Failures = FALSE
    Overlap = TRUE
INVARIANTS NoneMissed BacklogDrained
PROPERTIES ServiceSpec Answered
CHECK_DEADLOCK FALSE
