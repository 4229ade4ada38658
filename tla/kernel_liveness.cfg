\* Two threads that use the locks; two cores and the end of the last thread.
SPECIFICATION KernelSpec
CONSTANTS
    t1 = t1
    t2 = t2
    cond = cond
    Nobody = Nobody
    kernel_sem_cv = kernel_sem_cv
    Threads <- MCThreads2
    CVs <- MCCVs
    SchedThreads = {t1}
    InitThread = t1
    NCORES = 2
    PhysicalCores = 2
    PRIORITY_QUEUES = 2
    MAX_QUANTUMS = 2
    SleepCauses = {"IO"}
    Timeouts = {1, 7}
    TimerMod = 8
    MaxClock = 1
PROPERTIES
    KernelProgress
    CoresLeave
