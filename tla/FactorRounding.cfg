SPECIFICATION RoundingSpec
CONSTANTS
    L <- MCL
    Prime <- MCPrime
    Precision = 12
INVARIANT AssertionsHold
