SPECIFICATION FairSpec
CONSTANTS
    Packets = 3
    HeadLen = 2
    BufSize = 4
    ReqLen = 3
    Start <- MCStart
    DataLen <- MCDataLen
INVARIANTS TypeOK BufferFits Whole NothingLeft
PROPERTY EachHandled
CHECK_DEADLOCK FALSE
