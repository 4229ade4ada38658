\* Two threads on a pipe of two bytes; or two threads with one port, up to
\* three sockets and two requests; the two descriptors are too few for both
\* ends of a connection, whose soundness is checked by another run.
SPECIFICATION IpcSpec
CONSTANTS
    t1 = t1
    t2 = t2
    b1 = b1
    b2 = b2
    Nobody = Nobody
    Threads <- MCThreads2
    Bytes <- MCBytes
    PIPE_BUFFER_SIZE = 2
    MaxTransfer = 2
    MaxFids = 2
    Callers <- MCThreads2
    MAX_FILEID = 2
    MAX_PORT = 2
    MaxSockets = 3
    MaxRequests = 2
    Reuse = FALSE
INVARIANTS
    PipeInvariant
PROPERTIES
    ImplementsChannel
    CallsReturn
    AcceptLeaves
CHECK_DEADLOCK FALSE
