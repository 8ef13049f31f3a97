CONSTANTS
    Threads = {"t1", "t2", "flusher"}
    Permanent = {"flusher"}
    Funcs = {"f", "g", "h"}
    Missing = {"h"}
    Unprototyped = {}
    Callers = {"a1"}
    Size = 3
    Home <- MCHome
    MaxEntries = 1
    OptionSet <- MCOptionSet
SPECIFICATION FairSpec
INVARIANTS
    OwnResolution
    ContextOwned
    
PROPERTIES
    CallsReturn
CHECK_DEADLOCK FALSE
