\* Two cores, of which only the first may be restarted; two threads; three
\* priorities; sleeps without a timeout (7 = NO_TIMEOUT) and with 0 or 1 tick.
\* Or two threads with three descriptors, one port, up to three sockets and
\* two requests.
SPECIFICATION KernelSafetySpec
CONSTANTS
    Threads = {t1, t2}
    InitThread = t1
    NCORES = 2
    PhysicalCores = 1
    PRIORITY_QUEUES = 3
    MAX_QUANTUMS = 2
    SleepCauses = {"IO"}
    Timeouts = {0, 1, 7}
    TimerMod = 8
    MaxClock = 1
    Callers = {t1, t2}
    MAX_FILEID = 3
    MAX_PORT = 2
    MaxSockets = 3
    MaxRequests = 2
    Reuse = FALSE
INVARIANTS
    QueueInvariant
    ContextSafe
    TimeoutInvariant
    AssertionsHold
    NoThreadLeftBehind
    PortMapSound
    SocketsProtected
    ConnectionSound
