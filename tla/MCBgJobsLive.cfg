SPECIFICATION FairSpec
CONSTANTS
    Jobs       = {j1}
    Sessions   = {s1}
    MaxFaults  = 2
    MaxTurns   = 2
    j1 = j1
    s1 = s1
PROPERTY AlwaysInvoked
