SPECIFICATION FairSpec
CONSTANTS
    NumLBs = 2
    FPsPerLB = 2
    Capacity = 1
    MCLength = 3
    Flows <- MCFlows
    Hash <- MCHash
    AppOf <- MCAppOf
    Captures <- MCCaptures
    RuleSets <- MCRuleSets
INVARIANTS TypeOK SameVerdicts AgreesWithSimple ReportTrue
PROPERTIES ImplementsService Terminates
