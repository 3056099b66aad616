SPECIFICATION Spec
CONSTANTS
    Flows <- MCFlows
    Packets <- SitePackets
    AppOf <- MCAppOf
    FPOf <- MCFPOf
    RuleSets <- SiteRules
    MaxConnections = 2
    MaxPackets = 2
PROPERTY AppBlocked
