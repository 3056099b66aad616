SPECIFICATION Spec
CONSTANTS
    Readers = {r1}
    Writers = {w1, w2}
    Rules <- MCRules
    Packets <- MCPackets
    Lower <- MCLower
    MaxCalls = 4
INVARIANTS
    TypeOK
    VerdictJustified
    SavedJustified
    ClearedEverything
