CONSTANTS
    Pids = {1, 2}
    Slots = {"s1", "s2"}
    OptionSet <- MCOptionSet
    MaxRx = 1
    StaleAge = 1
SPECIFICATION FairSpec
INVARIANTS
    EvidenceAttributed
    LinkedShareSession
    DriftAccounted
PROPERTIES
    ExitRecorded
    SilentGoesStale
CHECK_DEADLOCK FALSE
