\* Both threads at once until they clash: three clients come and ask, c2 may send a bad
\* request or leave, c1 may stall, and calls fail.
SPECIFICATION Spec
CONSTANTS
    Client = {c1, c2, c3}
    OddOnly = {c1}
    Clumsy = {c2}
    Ack = Ack
    Nack = Nack
    NoOne = NoOne
    Junk = Junk
    Fd = {5, 6, 7}
    Asks <- MCAsks
    MaxRequests = 1
    MaxGood = 1
    LastLine = 1
    Matches <- MCMatches
    Leaver = {c2}
    Staller = {c1}
    Failures = TRUE
    Overlap = TRUE
INVARIANTS TypeOK MemorySafe ListSound NoLeak
CONSTRAINT Apart
CHECK_DEADLOCK FALSE
