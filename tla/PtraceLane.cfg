CONSTANTS
    Calls = {"open", "mmap", "sleep", "odd", "read", "exec", "exit"}
    Unprototyped = {"exit"}
    NoReal = {"odd"}
    Untouched = {"read"}
    Pointers = {"mmap"}
    Timeouts = {"sleep"}
    OptionSet <- MCOptionSet
SPECIFICATION FairSpec
INVARIANTS StopsPaired LanesAgree
PROPERTIES NoStopUnanswered
CHECK_DEADLOCK FALSE
