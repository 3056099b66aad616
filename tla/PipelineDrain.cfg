SPECIFICATION Spec
CONSTANTS
    NumLBs = 2
    FPsPerLB = 1
    Capacity = 1
    MCLength = 3
    Tuples <- MCTuples2
    Hash <- MCHash2
    Inputs <- MCInputs2
INVARIANT DrainComplete
