\* Three threads and one condition variable; two processes, three FCBs and
\* two descriptors each.
SPECIFICATION LocksAndFilesSpec
CONSTANTS
    t1 = t1
    t2 = t2
    t3 = t3
    c1 = c1
    Nobody = Nobody
    kernel_sem_cv = kernel_sem_cv
    Threads <- MCThreads3
    CVs <- MCCVs
    Procs <- MCProcs
    Init_pid = 1
    MAX_FILES = 3
    MAX_FILEID = 2
    MaxPipes = 1
    NTerminals = 0
SYMMETRY Symmetry
INVARIANTS
    KernelInvariant
    ResultTellsCause
    FilesSound
PROPERTIES
    SignalReachesAWaiter
    ImplementsMonitor
