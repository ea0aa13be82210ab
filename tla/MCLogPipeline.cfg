CONSTANTS
    Addr <- MCAddr
    Capacity = 2
    MaxLines = 5
    StartOutcomes = {TRUE, FALSE}
SPECIFICATION FairSpec
INVARIANTS
    TypeOK
    OneOwner
    AtMostOneAhead
PROPERTIES
    ChannelSpec
    LineServed
\* the behaviour ends after MaxLines lines, and stops for good when the pipe
\* is full and no thread reads it
CHECK_DEADLOCK FALSE
