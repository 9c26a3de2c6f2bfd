SPECIFICATION Spec
CONSTANTS
    Jobs       = {j1}
    Sessions   = {s1}
    MaxFaults  = 0
    MaxTurns   = 1
    j1 = j1
    s1 = s1
INVARIANT FollowedMeansHeard
