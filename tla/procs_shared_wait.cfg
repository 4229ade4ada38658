\* Several threads of a process may wait for the same child.
SPECIFICATION Spec
CONSTANTS
    Nobody = Nobody
    MAX_PROC = 5
    Threads = {t1, t2, t3, t4}
    SharedWaits = TRUE
    InitLeaves = FALSE
INVARIANTS
    FreePidUnused
