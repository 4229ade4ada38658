\* One program at a time, each with its own bounds.
SPECIFICATION ProgramsSpec
CONSTANTS
    MaxFrags = 3
    MaxLines = 2
    EchoBytes = 3
    PipelineBuffer = 1
    MaxPhilosophers = 4
    Bites = 2
    FreeProcs = 3
    Joiners = 3
    Rounds = 2
    c1 = c1
    c2 = c2
    Clients <- MCClients2
    NHeads = 2
    NItems = 4
    NKeys = 2
    NCores = 2
    FifoSize = 1
    InBytes = 2
    OutBytes = 1
    PatternSize = 2
    TerminalFifo = 1
    MaxOutput = 2
    MaxPatterns = 3
INVARIANTS
    ShellRestored
    AllBytesArrive
    TableSound
    BarrierHolds
    QuitIsClean
    RingsSound
    SignalsLiveCores
    PassMeansMet
PROPERTIES
    LinesEnd
    SymposiumEnds
    BarrierPasses
    QuitEnds
    MachineStops
    TestsEnd
CHECK_DEADLOCK FALSE
