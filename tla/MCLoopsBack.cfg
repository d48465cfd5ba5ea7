SPECIFICATION Spec
CONSTANTS
    Vars <- MCVars
    Modulus <- MCModulus
    Tokens <- MCTokens
    MaxTokens = 7
INVARIANTS
    LoopsBack
CHECK_DEADLOCK FALSE
