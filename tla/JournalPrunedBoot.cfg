CONSTANTS
    Options <- OnlyPruned
    Fragments = {}
SPECIFICATION Spec
INVARIANTS
    NeverRefused
