SPECIFICATION Spec
CONSTANTS
    Jobs = {j1, j2}
    Summaries = {s1, s2}
INVARIANTS
    TypeOK
    DoneHasResult
    AcceptedIsDecided
    UploadRemoved
    ExplanationSound
PROPERTIES StatusNeverGoesBack
CHECK_DEADLOCK FALSE
