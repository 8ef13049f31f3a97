SPECIFICATION FairSpec
CONSTANTS
    Emitters = {"flusher", "engine"}
    Signals = 2
    BatchSize = 2
    MaxRetries = 1
    OptionSet <- Options
INVARIANTS
    NoUseAfterFree
    LossesConfined
    CountersHonest
PROPERTIES
    BatchesSettle
CHECK_DEADLOCK FALSE
