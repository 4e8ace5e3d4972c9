CONSTANTS
    d1 = d1
    d2 = d2
    d3 = d3
    d4 = d4
    Delegators <- MCDelegators
    MaxTokens = 3
    FracNum = 1
    FracDen = 2
SYMMETRY MCSymmetry
SPECIFICATION Spec
\* The hook runs once and returns.
CHECK_DEADLOCK FALSE
INVARIANT SlashSplitsExactly
INVARIANT RemainderOnLargest
