SPECIFICATION FairSpec
CONSTANTS
    Tasks    = {t1, t2}
    Events   = {t1}
    Modelled = {t1, t2}
    Parents  = {t1}
    Child    = t2
    Envs     = {{"pause", "crash"}, {"foreground", "stop"}, {"force", "stop"}, {"pause", "stop"}, {"foreground", "crash"}, {"force", "foreground"}, {"fault", "stop"}, {"fault", "crash"}}
    Calls    = {c1, c2}
    NoCall   = none
    NoTask   = none
    t1 = t1
    t2 = t2
    c1 = c1
    c2 = c2
    none = none
INVARIANTS TypeOK OneAtATime OneModelRun EventKept NoPhantomRuns
PROPERTY ActiveTasksRun
