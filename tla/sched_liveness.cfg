\* One core and three threads: two of them can keep each other at a high
\* priority while the third one waits in a lower queue.
SPECIFICATION FairSpec
CONSTANTS
    Threads = {t1, t2, t3}
    InitThread = t1
    NCORES = 1
    PhysicalCores = 1
    PRIORITY_QUEUES = 2
    MAX_QUANTUMS = 2
    SleepCauses = {"IO"}
    Timeouts = {1, 7}
    TimerMod = 8
    MaxClock = 1
PROPERTIES
    NoStarvation
    TimeoutsFire
