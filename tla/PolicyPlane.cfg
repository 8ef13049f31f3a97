CONSTANTS
    Agents = {"a1", "a2"}
    Slots = {"s1", "s2"}
    Spawned = {"a1"}
    Operator <- MCOperator
    OptionSet <- MCOptionSet
    NoPolicy = NoPolicy
SPECIFICATION FairSpec
INVARIANTS
    AckMeansInForce
    SpectatorsGetNoPolicy
PROPERTIES
    PolicyConverges
CHECK_DEADLOCK FALSE
