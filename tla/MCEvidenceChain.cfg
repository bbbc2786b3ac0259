SPECIFICATION ChainSpec
CONSTANTS
    None = None
    w1 = w1
    w2 = w2
    c1 = c1
    c2 = c2
    Weights <- MCWeights
    FlagSets <- MCFlagSets
    Claims <- MCClaims
    Takes = {1}
    MaxRebuilds = 2
    MaxSlips = 1
SYMMETRY Symmetry
INVARIANTS
    EvidenceIsOneRun
    ReadyRestsOnPassed
    ReadyIsOneChain
CHECK_DEADLOCK FALSE
