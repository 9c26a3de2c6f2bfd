\* A tab with two chats, in eight surroundings: the user stops, queues and promotes;
\* the network and the server fail in their ways, with and without a queue; the user
\* leaves chats and comes back, with the watchdog, a run resumed, a request refused.
SPECIFICATION FairSpec
CONSTANTS
    Sessions = {s1, s2}
    NoSession = NoSession
    s1 = s1
    s2 = s2
    Envs = {{"stop", "queue", "promote"},
            {"stop", "timeout", "escape", "drop", "refuse"},
            {"stop", "drop", "resume"},
            {"queue", "drop", "prepfail", "fail"},
            {"queue", "release", "refuse"},
            {"switch", "resume", "fail"},
            {"switch", "watchdog"},
            {"switch", "refuse", "prepfail"}}
    MaxSends = 2
    MaxQueued = 1
    MaxSwitches = 2
CHECK_DEADLOCK FALSE
INVARIANTS
    TypeOK
    StopIsExact
    RegisteredIsLive
    GateHeld
    NeverResent
PROPERTIES
    StopHeard
    
    ComposerUnlocks
    QueueMoves
