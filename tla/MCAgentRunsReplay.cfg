\* Two clients that come and go while a run is replaced and
\* its save may fail.
SPECIFICATION Spec
CONSTANTS
    Sessions = {s1}
    Clients = {c1, c2}
    MaxRuns = 2
    MaxEvents = 2
    Burst = TRUE
    SaveFaults = TRUE
CHECK_DEADLOCK FALSE
INVARIANTS
    ReplayExact
    SentinelPending
    ClosedComplete
PROPERTY KeepsPromise
