CONSTANTS
    main = main
    t1 = t1
    Thread <- TwoThreads
    Main = main
    RingCap = 2
    RingEnabled = TRUE
    QuiescentExit = TRUE
    Failures = {"malloc_ring", "malloc_text", "tss_set", "thread_create", "boot"}
    MaxLogs = 2
    MaxRings = 3
SPECIFICATION FairSpec
INVARIANTS
    DocumentWellFormed
    NoUseAfterFree
    NothingLostAtExit
    PerThreadOrder
PROPERTIES
    ExitCompletes
    EntriesSurface
