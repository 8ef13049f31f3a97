CONSTANTS
    Cap = 4
    MaxPushes = 6
SPECIFICATION FairSpec
INVARIANTS
    NoSlotRace
    TextsOwned
PROPERTIES
    ImplementsFifo
    EventuallyEmitted
