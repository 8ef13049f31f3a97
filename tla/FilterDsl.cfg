SPECIFICATION Spec
CONSTANTS
    Comparisons = {"p", "q"}
    IllTyped = {"ill"}
    MaxTokens = 6
    MaxChars = 5
    Alphabet <- MCAlphabet
    Texts <- MCTexts
    Operands <- MCOperands
    Calls <- MCCalls
    OptionSet <- Options
INVARIANTS
    SmallCompiledMeans
    GlobAgrees
CHECK_DEADLOCK FALSE
