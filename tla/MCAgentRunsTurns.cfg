\* Chains of replaced runs, saves that fail and a client that comes and goes,
\* under the fairness of the event loop.
SPECIFICATION FairSpec
CONSTANTS
    Sessions = {s1}
    Clients = {c1}
    MaxRuns = 3
    MaxEvents = 2
    Burst = TRUE
    SaveFaults = TRUE
CHECK_DEADLOCK FALSE
INVARIANTS
    TypeOK
    SequentialUnlessCut
    ActiveHasTask
    EvictionArmed
PROPERTIES
    TerminalFrozen
    StopTakesEffect
    RunGetsItsTurn
    MemoryReclaimed
