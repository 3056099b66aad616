SPECIFICATION Spec
CONSTANTS
    Flows <- MCFlows
    Packets <- MCPackets
    AppOf <- MCAppOf
    FPOf <- MCFPOf
    RuleSets <- MCRuleSets
    MaxConnections = 2
    MaxPackets = 4
PROPERTY BlockedDropped
