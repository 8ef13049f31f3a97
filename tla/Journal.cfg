CONSTANTS
    Options <- AllOptions
    Fragments = {"mid", "whole"}
SPECIFICATION Spec
INVARIANTS
    DurableRecordsReplay
    GapsRecorded
    SealedAtExit
    PrunesRecorded
PROPERTIES
    ClosedSegmentsImmutable
