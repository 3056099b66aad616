SPECIFICATION Spec
CONSTANTS
    Flows <- MCFlows
    Packets <- MCPackets
    AppOf <- MCAppOf
    FPOf <- MCFPOf
    RuleSets <- MCRuleSets
    MaxConnections = 2
    MaxPackets = 6
INVARIANTS TypeOK BlockedIffRuled FlowsAccounted SummaryAdds
PROPERTY BlockHolds
