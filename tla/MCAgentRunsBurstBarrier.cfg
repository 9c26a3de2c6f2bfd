\* Three turns sent before the second one's task has run.
SPECIFICATION Spec
CONSTANTS
    Sessions = {s1}
    Clients = {c1}
    MaxRuns = 3
    MaxEvents = 1
    Burst = TRUE
    SaveFaults = FALSE
CHECK_DEADLOCK FALSE
INVARIANT SavesSequential
