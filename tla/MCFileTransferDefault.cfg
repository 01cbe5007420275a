\* Calls between two of these services with the default segment size, no fault.
SPECIFICATION FairSpec
CONSTANTS
    Side = {"a", "b"}
    Nof = {1, 2}
    File <- MCFile
    Indexed <- MCIndexed
    MaxSessions = 1
    MaxInbound = 2
    MaxSegment = 240
    MaxIntent <- MCOneCall
    MaxConn = 1
    MaxReadError = 0
    MaxForeign = 0
    MaxFault = 0
    Timely = TRUE
PROPERTY FetchSucceeds
CHECK_DEADLOCK FALSE
