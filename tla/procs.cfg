\* Three processes besides init, four threads; or one process of three threads.
SPECIFICATION ProcsSpec
CONSTANTS
    t1 = t1
    t2 = t2
    t3 = t3
    t4 = t4
    Nobody = Nobody
    MAX_PROC = 5
    Threads <- MCThreads4
    SharedWaits = FALSE
    InitLeaves = FALSE
    m = m
    a = a
    b = b
    v = v
    NoTid = NoTid
    MainTid = m
    Tids <- MCTids
    ExitVals <- MCExitVal
INVARIANTS
    FreeListSound
    ProcessInvariant
    ThreadsInvariant
PROPERTIES
    ZombiesReaped
    AllJoinersReturn
