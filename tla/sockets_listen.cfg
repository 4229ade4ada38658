\* Two threads: one waits in Connect(), the other calls Listen() on the same
\* socket.
SPECIFICATION SocketsSpec
CONSTANTS
    Callers = {t1, t2}
    MAX_FILEID = 3
    MAX_PORT = 3
    MaxSockets = 3
    MaxRequests = 1
    Reuse = TRUE
PROPERTIES
    ListenersStay
CHECK_DEADLOCK FALSE
