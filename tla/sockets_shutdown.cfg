\* A listener, a client, the socket of their connection, and threads that
\* shut down its ends.
SPECIFICATION SocketsSpec
CONSTANTS
    Callers = {t1, t2}
    MAX_FILEID = 3
    MAX_PORT = 2
    MaxSockets = 3
    MaxRequests = 1
    Reuse = FALSE
PROPERTIES
    ShutDownFreesOnce
CHECK_DEADLOCK FALSE
