\* One core: the thread that holds kernel_mutex cannot run while another spins.
SPECIFICATION TerminalsSpec
CONSTANTS
    NCores = 1
    FifoSize = 1
    InBytes = 1
    OutBytes = 1
PROPERTY SpinEnds
CHECK_DEADLOCK FALSE
