SPECIFICATION FairSpec
CONSTANTS
    Producers = {p1, p2}
    Consumers = {c1, c2}
    MaxSize = 2
    MaxItems = 3
INVARIANTS TypeOK NoLostWakeup NoWaitAfterShutdown
PROPERTIES ImplementsChannel PopReturns ShutdownReleases
