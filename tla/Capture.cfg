SPECIFICATION Spec
CONSTANT Captures <- MCCaptures
INVARIANTS TypeOK JobsFaithful EverythingRead SiteBlocked NamesFound
CHECK_DEADLOCK FALSE
