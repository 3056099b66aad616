SPECIFICATION Spec
CONSTANTS
    NumLBs = 2
    FPsPerLB = 2
    Capacity = 1
    MCLength = 1
    Flows <- MCFlows
    Hash <- MCHash
    AppOf <- MCAppOf
    Captures <- MCCaptures
    RuleSets <- MCRuleSets
INVARIANT NamesFromTCP
