CONSTANTS
    Threads = {"t1", "t2"}
    Cap = 2
    OptionSet <- MCOptionSet
SPECIFICATION FairSpec
INVARIANTS
    SentInThreadOrder
    LossCounted
PROPERTIES
    EventsReachDaemon
    StopCompletes
CHECK_DEADLOCK FALSE
