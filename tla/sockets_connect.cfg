\* Two threads, one of which connects while the other one accepts.
SPECIFICATION SocketsSpec
CONSTANTS
    Callers = {t1, t2}
    MAX_FILEID = 3
    MAX_PORT = 2
    MaxSockets = 3
    MaxRequests = 1
    Reuse = FALSE
PROPERTIES
    ConnectReportsSuccess
CHECK_DEADLOCK FALSE
