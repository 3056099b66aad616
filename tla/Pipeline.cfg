SPECIFICATION FairSpec
CONSTANTS
    NumLBs = 2
    FPsPerLB = 1
    Capacity = 1
    MCLength = 3
    Tuples <- MCTuples2
    Hash <- MCHash2
    Inputs <- MCInputs2
INVARIANTS
    TypeOK
    FlowOrder
    NothingVanishes
    ForwardedWritten
    LossBound
    ReportsAgree
PROPERTIES ImplementsService Terminates
