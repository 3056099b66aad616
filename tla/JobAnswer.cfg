SPECIFICATION Spec
CONSTANTS
    Jobs = {j1}
    Summaries = {s1}
PROPERTY ToldInTime
CHECK_DEADLOCK FALSE
