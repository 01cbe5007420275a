\* The whole model with every fault.
SPECIFICATION TickSpec
CONSTANTS
    Side = {"a", "b"}
    Nof = {1, 2}
    File <- MCFile
    Indexed <- MCIndexed
    MaxSessions = 1
    MaxInbound = 1
    MaxSegment = 235
    MaxIntent <- MCMaxIntent
    MaxConn = 2
    MaxReadError = 1
    MaxForeign = 1
    MaxFault = 1
    Timely = FALSE
INVARIANTS TypeOK NoMixing  PushOkMeansFetched
PROPERTIES   CallsAnswered
CHECK_DEADLOCK FALSE
