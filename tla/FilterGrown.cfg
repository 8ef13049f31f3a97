SPECIFICATION Spec
CONSTANTS
    Comparisons = {"p", "q"}
    IllTyped = {"ill"}
    MaxTokens = 5
    MaxChars = 4
    Alphabet <- MCAlphabet
    Texts <- MCTexts
    Operands <- MCOperands
    Calls <- MCCalls
    OptionSet <- Scaled
INVARIANT CompiledMeans
CHECK_DEADLOCK FALSE
